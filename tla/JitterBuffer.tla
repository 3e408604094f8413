---------------------------- MODULE JitterBuffer ----------------------------
(***************************************************************************)
(* The reorder and loss buffer kept for each remote speaker: push accepts  *)
(* packets in any order, pop hands out one slot after another, either its  *)
(* packet or the news that it is lost.  Sequence numbers are u64 counters  *)
(* of 20 ms frames and never wrap.                                         *)
(***************************************************************************)
EXTENDS FiniteSets, Integers, Sequences

CONSTANTS
  Sequence,     \* sequence numbers that packets carry
  Payload,      \* what they carry
  TargetDepth,  \* packets to wait for before draining
  MaxDepth,     \* hard cap
  None

ASSUME BufferAssumption ==
  /\ Sequence \subseteq Nat
  /\ None \notin Nat \cup Payload
  /\ TargetDepth \in Nat \ {0}
  /\ MaxDepth \in Nat
  /\ MaxDepth >= TargetDepth

VARIABLES
  pending,       \* BTreeMap: sequence -> payload
  nextExpected,  \* the next slot to hand out, None before the first
  primed,        \* whether target_depth was reached since it was last empty
  out,           \* history: every slot handed out
  accepted       \* history: every slot pushed in time and not evicted

buffer == <<pending, nextExpected, primed, out, accepted>>

Slots == DOMAIN pending

Slot == [sequence : Nat, payload : Payload \cup {None}, next : Payload \cup {None}]
Played(slot) == slot.payload # None

InitBuffer ==
  /\ pending = [s \in {} |-> None]
  /\ nextExpected = None
  /\ primed = FALSE
  /\ out = <<>>
  /\ accepted = {}

-----------------------------------------------------------------------------
(* push                                                                    *)

First(S) == CHOOSE s \in S : \A t \in S : s <= t

Stale(s) == nextExpected # None /\ s < nextExpected

\* The buffer held at most MaxDepth packets, so the loop removes at most one.
Capped(S) == IF Cardinality(S) > MaxDepth THEN S \ {First(S)} ELSE S

Push(s, p) ==
  LET kept == Capped(Slots \cup {s}) IN
  \/ Stale(s) /\ UNCHANGED buffer
  \/ /\ ~Stale(s)
     /\ pending' = [t \in kept |-> IF t = s THEN p ELSE pending[t]]
     /\ accepted' = (accepted \ ((Slots \cup {s}) \ kept)) \cup (kept \cap {s})
     /\ UNCHANGED <<nextExpected, primed, out>>

-----------------------------------------------------------------------------
(* pop                                                                     *)

\* Empty because nothing is pending: the pre-roll starts again.
PopNothing ==
  /\ Slots = {}
  /\ primed' = FALSE
  /\ UNCHANGED <<pending, nextExpected, out, accepted>>

\* Mutant: the pre-roll is waited for before every packet.
Ready_Unprimed(force) == force \/ Cardinality(Slots) >= TargetDepth

Ready(force) == force \/ primed \/ Cardinality(Slots) >= TargetDepth

\* Empty because the pre-roll goes on.
PopNotYet(force) ==
  /\ Slots # {} /\ ~Ready(force)
  /\ UNCHANGED buffer

\* Mutant: the pop looks for the first packet there is, and skips the holes.
PopSlot_Skips(force) ==
  LET s == First(Slots) IN
  /\ Slots # {} /\ Ready(force)
  /\ primed' = (primed \/ Cardinality(Slots) >= TargetDepth)
  /\ nextExpected' = s + 1
  /\ pending' = [t \in Slots \ {s} |-> pending[t]]
  /\ out' = Append(out, [sequence |-> s, payload |-> pending[s], next |-> None])
  /\ UNCHANGED accepted

\* Mutant: a hole is filled with the packet behind it.
PopSlot_Fills(force) ==
  LET s == IF nextExpected = None THEN First(Slots) ELSE nextExpected IN
  /\ Slots # {} /\ Ready(force)
  /\ primed' = (primed \/ Cardinality(Slots) >= TargetDepth)
  /\ nextExpected' = s + 1
  /\ pending' = [t \in Slots \ {First(Slots)} |-> pending[t]]
  /\ out' = Append(out,
       [sequence |-> s, payload |-> pending[First(Slots)], next |-> None])
  /\ UNCHANGED accepted

\* The expected slot, with its packet or without: a lost slot comes with the
\* first packet pending, which stays in the buffer.
PopSlot(force) ==
  LET s == IF nextExpected = None THEN First(Slots) ELSE nextExpected IN
  /\ Slots # {} /\ Ready(force)
  /\ primed' = (primed \/ Cardinality(Slots) >= TargetDepth)
  /\ nextExpected' = s + 1
  /\ pending' = [t \in Slots \ {s} |-> pending[t]]
  /\ out' = Append(out,
       IF s \in Slots
       THEN [sequence |-> s, payload |-> pending[s], next |-> None]
       ELSE [sequence |-> s, payload |-> None, next |-> pending[First(Slots)]])
  /\ UNCHANGED accepted

Pop(force) == PopNothing \/ PopNotYet(force) \/ PopSlot(force)

-----------------------------------------------------------------------------
(* The buffer under any calls.                                             *)

NextBuffer ==
  \/ \E s \in Sequence, p \in Payload : Push(s, p)
  \/ \E force \in BOOLEAN : Pop(force)

SpecBuffer == InitBuffer /\ [][NextBuffer]_buffer

-----------------------------------------------------------------------------

BufferTypeOK ==
  /\ Slots \subseteq Nat /\ IsFiniteSet(Slots)
  /\ pending \in [Slots -> Payload]
  /\ nextExpected \in Nat \cup {None}
  /\ primed \in BOOLEAN
  /\ out \in Seq(Slot)
  /\ accepted \subseteq Nat

\* The hard cap holds, and nothing older than what was handed out is kept: a
\* packet cannot come out behind a later one.
WindowOK ==
  /\ Cardinality(Slots) <= MaxDepth
  /\ nextExpected # None => \A s \in Slots : s >= nextExpected

\* The slots handed out are consecutive: no slot is handed out twice, none is
\* passed over in silence, whatever the order, the repetition and the loss of
\* packets.
SlotsInOrder ==
  \A i \in 1..Len(out) - 1 : out[i + 1].sequence = out[i].sequence + 1

\* A packet pushed in time is played in its slot, unless the cap evicts it: it is
\* never reported lost while it waits.
AcceptedIsPlayed ==
  \A s \in accepted :
    s \in Slots \/ \E i \in 1..Len(out) : out[i].sequence = s /\ Played(out[i])

=============================================================================
