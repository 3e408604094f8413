-------------------------- MODULE VoiceStream_proofs --------------------------
(***************************************************************************)
(* Proofs about JitterBuffer, for any depths, sequence numbers, payloads   *)
(* and calls, and about VoiceStream, for any number of frames, sessions    *)
(* and failed decodes and any depths that DepthAssumption allows.  The     *)
(* buffer in the stream is under some of these calls, so its invariants    *)
(* carry over.  And proofs about VoiceRelay, which carries the datagrams.  *)
(***************************************************************************)
EXTENDS VoiceStream, FiniteSetTheorems, WellFoundedInduction, TLAPS

-----------------------------------------------------------------------------
(* The buffer by itself: its inductive invariant.                          *)

\* The slot expected next follows the last one handed out.
OutOK ==
  /\ nextExpected = None => out = <<>>
  /\ nextExpected # None => Len(out) > 0 /\ nextExpected = out[Len(out)].sequence + 1

IInv ==
  /\ BufferTypeOK
  /\ WindowOK
  /\ SlotsInOrder
  /\ AcceptedIsPlayed
  /\ OutOK

\* A set of naturals that is not empty has its least element as First.
LEMMA FirstIsLeast ==
  ASSUME NEW S \in SUBSET Nat, S # {}
  PROVE  First(S) \in S /\ \A t \in S : First(S) <= t
  <1> DEFINE R == {ss \in Nat \X Nat : ss[1] < ss[2]}
  <1>1. IsWellFoundedOn(R, Nat)
    BY NatLessThanWellFounded DEF OpToRel
  <1>2. PICK s \in S : \A t \in S : <<t, s>> \notin R
    <2> HIDE DEF R
    <2> QED BY <1>1, WFMin
  <1>3. \A t \in S : s <= t
    <2> SUFFICES ASSUME NEW t \in S, t < s
                 PROVE  FALSE
      OBVIOUS
    <2>1. <<t, s>> \in R
      OBVIOUS
    <2>2. QED
      BY <1>2, <2>1
  <1>4. QED
    BY <1>3 DEF First

\* What the cap leaves of one packet more than the buffer may hold.
LEMMA CappedParts ==
  ASSUME BufferTypeOK, WindowOK, NEW s \in Nat
  PROVE  LET kept == Capped(Slots \cup {s}) IN
         /\ kept \subseteq Slots \cup {s}
         /\ IsFiniteSet(kept) /\ Cardinality(kept) <= MaxDepth
  <1> DEFINE all == Slots \cup {s}
  <1>1. IsFiniteSet(all) /\ Cardinality(all) \in Nat
        /\ Cardinality(all) <= Cardinality(Slots) + 1 /\ Cardinality(Slots) \in Nat
    <2>1. IsFiniteSet(Slots) /\ Cardinality(Slots) \in Nat
      BY FS_CardinalityType DEF BufferTypeOK
    <2>2. IsFiniteSet(all)
          /\ Cardinality(all) = IF s \in Slots THEN Cardinality(Slots) ELSE Cardinality(Slots) + 1
      BY <2>1, FS_AddElement
    <2>3. QED
      BY <2>1, <2>2
  <1>2. CASE Cardinality(all) > MaxDepth
    <2>1. First(all) \in all
      BY FirstIsLeast DEF BufferTypeOK
    <2>2. IsFiniteSet(all \ {First(all)})
          /\ Cardinality(all \ {First(all)}) = Cardinality(all) - 1
      BY <1>1, <2>1, FS_RemoveElement
    <2>3. QED
      BY <1>1, <1>2, <2>2, BufferAssumption DEF Capped, WindowOK
  <1>3. CASE ~(Cardinality(all) > MaxDepth)
    BY <1>1, <1>3, BufferAssumption DEF Capped
  <1>4. QED
    BY <1>2, <1>3

LEMMA InitInv == InitBuffer => IInv
  <1> SUFFICES ASSUME InitBuffer
               PROVE  IInv
    OBVIOUS
  <1>1. Slots = {} /\ Cardinality({}) = 0 /\ IsFiniteSet({})
    BY FS_EmptySet DEF InitBuffer, Slots
  <1>2. BufferTypeOK
    <2>1. pending \in [{} -> Payload]
      BY DEF InitBuffer
    <2>2. pending \in [Slots -> Payload]
      BY <1>1, <2>1
    <2>3. out \in Seq(Slot)
      BY DEF InitBuffer
    <2>4. QED
      BY <1>1, <2>2, <2>3 DEF InitBuffer, BufferTypeOK
  <1>3. QED
    BY <1>1, <1>2, BufferAssumption
    DEF InitBuffer, IInv, WindowOK, SlotsInOrder, AcceptedIsPlayed, OutOK

LEMMA PushInv ==
  ASSUME IInv, NEW s \in Nat, NEW p \in Payload, Push(s, p)
  PROVE  IInv'
  <1> DEFINE kept == Capped(Slots \cup {s})
  <1>1. CASE UNCHANGED buffer
    BY <1>1 DEF buffer, IInv, BufferTypeOK, WindowOK, SlotsInOrder, AcceptedIsPlayed, OutOK,
                Slots, Played
  <1>2. CASE /\ ~Stale(s)
             /\ pending' = [t \in kept |-> IF t = s THEN p ELSE pending[t]]
             /\ accepted' = (accepted \ ((Slots \cup {s}) \ kept)) \cup (kept \cap {s})
             /\ UNCHANGED <<nextExpected, primed, out>>
    <2>1. kept \subseteq Slots \cup {s} /\ IsFiniteSet(kept) /\ Cardinality(kept) <= MaxDepth
      BY CappedParts DEF IInv
    <2>2. Slots' = kept
      BY <1>2 DEF Slots
    <2> HIDE DEF kept
    <2>3. BufferTypeOK'
      BY <1>2, <2>1, <2>2 DEF IInv, BufferTypeOK
    <2>4. WindowOK'
      BY <1>2, <2>1, <2>2 DEF IInv, BufferTypeOK, WindowOK, Stale
    <2>5. AcceptedIsPlayed'
      BY <1>2, <2>1, <2>2 DEF IInv, AcceptedIsPlayed, Played
    <2>6. SlotsInOrder' /\ OutOK'
      BY <1>2 DEF IInv, SlotsInOrder, OutOK
    <2>7. QED
      BY <2>3, <2>4, <2>5, <2>6 DEF IInv
  <1>3. QED
    BY <1>1, <1>2 DEF Push

LEMMA PopInv ==
  ASSUME IInv, NEW force \in BOOLEAN, Pop(force)
  PROVE  IInv'
  <1>1. CASE PopNothing \/ PopNotYet(force)
    <2>1. UNCHANGED <<pending, nextExpected, out, accepted>> /\ primed' \in BOOLEAN
      BY <1>1 DEF PopNothing, PopNotYet, buffer, IInv, BufferTypeOK
    <2>2. BufferTypeOK'
      BY <2>1 DEF IInv, BufferTypeOK, Slots
    <2>3. QED
      BY <2>1, <2>2 DEF IInv, WindowOK, SlotsInOrder, AcceptedIsPlayed, OutOK, Slots, Played
  <1>2. CASE PopSlot(force)
    <2>1. PICK s : s = IF nextExpected = None THEN First(Slots) ELSE nextExpected
      OBVIOUS
    <2>2. PICK slot : slot =
            IF s \in Slots
            THEN [sequence |-> s, payload |-> pending[s], next |-> None]
            ELSE [sequence |-> s, payload |-> None, next |-> pending[First(Slots)]]
      OBVIOUS
    <2>3. /\ Slots # {} /\ First(Slots) \in Slots /\ \A t \in Slots : First(Slots) <= t
          /\ s \in Nat /\ \A t \in Slots : s <= t
      BY <1>2, <2>1, FirstIsLeast DEF PopSlot, IInv, BufferTypeOK, WindowOK
    <2>4. /\ nextExpected' = s + 1
          /\ pending' = [t \in Slots \ {s} |-> pending[t]]
          /\ out' = Append(out, slot) /\ accepted' = accepted
          /\ primed' \in BOOLEAN
      BY <1>2, <2>1, <2>2 DEF PopSlot, IInv, BufferTypeOK
    <2>5. slot \in Slot /\ slot.sequence = s /\ (s \in Slots => Played(slot))
      BY <2>2, <2>3, BufferAssumption DEF Slot, IInv, BufferTypeOK, Played
    <2>6. Slots' = Slots \ {s}
      BY <2>4 DEF Slots
    <2>7. IsFiniteSet(Slots') /\ Cardinality(Slots') <= MaxDepth
      <3>1. IsFiniteSet(Slots) /\ Cardinality(Slots) \in Nat /\ Cardinality(Slots) <= MaxDepth
        BY FS_CardinalityType DEF IInv, BufferTypeOK, WindowOK
      <3>2. IsFiniteSet(Slots \ {s}) /\ Cardinality(Slots \ {s}) =
              IF s \in Slots THEN Cardinality(Slots) - 1 ELSE Cardinality(Slots)
        BY <3>1, FS_RemoveElement
      <3>3. QED
        BY <2>6, <3>1, <3>2, BufferAssumption
    <2>8. /\ out \in Seq(Slot) /\ out' \in Seq(Slot) /\ Len(out) \in Nat
          /\ Len(out') = Len(out) + 1 /\ out'[Len(out) + 1] = slot
          /\ \A i \in 1..Len(out) : out'[i] = out[i]
      BY <2>4, <2>5 DEF IInv, BufferTypeOK
    <2>9. BufferTypeOK'
      BY <2>3, <2>4, <2>6, <2>7, <2>8 DEF IInv, BufferTypeOK
    <2>10. WindowOK'
      BY <2>3, <2>4, <2>6, <2>7, BufferAssumption DEF IInv, BufferTypeOK, WindowOK
    <2>11. SlotsInOrder'
      <3> SUFFICES ASSUME NEW i \in 1..Len(out') - 1
                   PROVE  out'[i + 1].sequence = out'[i].sequence + 1
        BY DEF SlotsInOrder
      <3>1. CASE i = Len(out)
        <4>1. out # <<>>
          BY <2>8, <3>1
        <4>2. nextExpected # None /\ s = out[Len(out)].sequence + 1
          BY <2>1, <4>1 DEF IInv, OutOK
        <4>3. QED
          BY <2>5, <2>8, <3>1, <4>2
      <3>2. CASE i # Len(out)
        <4>1. i \in 1..Len(out) - 1
          BY <2>8, <3>2
        <4>2. out[i + 1].sequence = out[i].sequence + 1
          BY <4>1 DEF IInv, SlotsInOrder
        <4>3. out'[i + 1] = out[i + 1] /\ out'[i] = out[i]
          BY <2>8, <4>1
        <4>4. QED
          BY <4>2, <4>3
      <3>3. QED
        BY <3>1, <3>2
    <2>12. AcceptedIsPlayed'
      <3> SUFFICES ASSUME NEW t \in accepted
                   PROVE  t \in Slots' \/ \E i \in 1..Len(out') :
                            out'[i].sequence = t /\ Played(out'[i])
        BY <2>4 DEF AcceptedIsPlayed, Played
      <3>1. CASE t \in Slots /\ t # s
        BY <2>6, <3>1
      <3>2. CASE t \in Slots /\ t = s
        BY <2>5, <2>8, <3>2
      <3>3. CASE t \notin Slots
        <4>1. PICK i \in 1..Len(out) : out[i].sequence = t /\ Played(out[i])
          BY <3>3 DEF IInv, AcceptedIsPlayed
        <4>2. i \in 1..Len(out') /\ out'[i] = out[i]
          BY <2>8
        <4>3. QED
          BY <4>1, <4>2
      <3>4. QED
        BY <3>1, <3>2, <3>3
    <2>13. OutOK'
      BY <2>3, <2>4, <2>5, <2>8, BufferAssumption DEF OutOK
    <2>14. QED
      BY <2>9, <2>10, <2>11, <2>12, <2>13 DEF IInv
  <1>3. QED
    BY <1>1, <1>2 DEF Pop

LEMMA NextInv == IInv /\ [NextBuffer]_buffer => IInv'
  <1> SUFFICES ASSUME IInv, [NextBuffer]_buffer
               PROVE  IInv'
    OBVIOUS
  <1>1. CASE UNCHANGED buffer
    BY <1>1 DEF buffer, IInv, BufferTypeOK, WindowOK, SlotsInOrder, AcceptedIsPlayed, OutOK,
                Slots, Played
  <1>2. ASSUME NEW s \in Sequence, NEW p \in Payload, Push(s, p)
        PROVE  IInv'
    BY <1>2, PushInv, BufferAssumption
  <1>3. ASSUME NEW force \in BOOLEAN, Pop(force)
        PROVE  IInv'
    BY <1>3, PopInv
  <1>4. QED
    BY <1>1, <1>2, <1>3 DEF NextBuffer

LEMMA Invariance == SpecBuffer => []IInv
  BY InitInv, NextInv, PTL DEF SpecBuffer

-----------------------------------------------------------------------------

\* The buffer keeps its types, never holds more than its cap, and never holds a
\* packet older than what it has handed out: for any depths and any calls.
THEOREM WindowHolds == SpecBuffer => [](BufferTypeOK /\ WindowOK)
  BY Invariance, PTL DEF IInv

\* The slots come out one by one, in order and each once.
THEOREM InOrder == SpecBuffer => []SlotsInOrder
  BY Invariance, PTL DEF IInv

\* A packet that push took is played unless the cap evicted it.
THEOREM NothingForgotten == SpecBuffer => []AcceptedIsPlayed
  BY Invariance, PTL DEF IInv

-----------------------------------------------------------------------------
(* The stream: its inductive invariant.                                    *)

StreamTypeOK ==
  /\ session \in 1..MaxSessions /\ sequence \in 0..MaxFrames
  /\ sent \subseteq Datagram
  /\ deafened \in BOOLEAN /\ deaf \in BOOLEAN
  /\ phase \in {"receive", "drain"} /\ received \in 0..Batch
  /\ failures \in 0..MaxFailures

\* The next datagram of the speaker is a new one: the counter never runs past the
\* number of datagrams sent.
SentOK ==
  /\ IsFiniteSet(sent) /\ sequence <= Cardinality(sent)
  /\ \A d \in sent : d.session < session \/ (d.session = session /\ d.sequence < sequence)

\* What waits in a slot, and what was played from one, is a datagram of its number.
FrameInSlot ==
  /\ \A s \in Slots : pending[s].sequence = s
  /\ \A i \in 1..Len(out) : Played(out[i]) => out[i].payload.sequence = out[i].sequence

\* Slots are numbered from the end of out.
InStep ==
  nextExpected # None =>
    \A i \in 1..Len(out) : out[i].sequence + Len(out) = nextExpected + i - 1

\* A round begins with less than the target depth, if every frame was decoded, and
\* only what it received came on top.
Backlog ==
  failures = 0 =>
    Cardinality(Slots) < TargetDepth + (IF deaf THEN 0 ELSE received)

StreamInv == IInv /\ StreamTypeOK /\ SentOK /\ FrameInSlot /\ InStep /\ Backlog

LEMMA StreamInit == Init => StreamInv
  <1> SUFFICES ASSUME Init
               PROVE  StreamInv
    OBVIOUS
  <1>1. IInv
    BY InitInv DEF Init
  <1>2. Slots = {} /\ Cardinality({}) = 0 /\ IsFiniteSet({})
    BY FS_EmptySet DEF Init, InitBuffer, Slots
  <1>3. StreamTypeOK
    <2>1. deafened \in BOOLEAN /\ deaf \in BOOLEAN
      BY DEF Init
    <2>2. /\ session \in 1..MaxSessions /\ sequence \in 0..MaxFrames
          /\ received \in 0..Batch /\ failures \in 0..MaxFailures
      BY StreamAssumption DEF Init
    <2>3. sent \subseteq Datagram /\ phase \in {"receive", "drain"}
      BY DEF Init
    <2>4. QED
      BY <2>1, <2>2, <2>3 DEF StreamTypeOK
  <1>4. SentOK /\ FrameInSlot /\ InStep
    BY <1>2 DEF Init, InitBuffer, SentOK, FrameInSlot, InStep
  <1>5. Backlog
    BY <1>2, BufferAssumption DEF Init, Backlog
  <1>6. QED
    BY <1>1, <1>3, <1>4, <1>5 DEF StreamInv

\* Every step of the stream is a call of the buffer or leaves it alone.
LEMMA CallsBuffer ==
  ASSUME StreamTypeOK, [Next]_vars
  PROVE  [NextBuffer]_buffer
  <1>1. ASSUME NEW d \in sent, Receive(d)
        PROVE  [NextBuffer]_buffer
    <2>1. d \in Payload /\ d.sequence \in Sequence
      BY StreamAssumption DEF StreamTypeOK, Datagram
    <2>2. QED
      BY <1>1, <2>1 DEF Receive, NextBuffer
  <1>2. CASE Drain
    BY <1>2 DEF Drain, NextBuffer
  <1>3. CASE Speak \/ Rejoin \/ ToggleDeafen \/ EndReceive
    BY <1>3 DEF Speak, Rejoin, ToggleDeafen, EndReceive
  <1>4. CASE UNCHANGED vars
    BY <1>4 DEF vars, buffer
  <1>5. QED
    BY <1>1, <1>2, <1>3, <1>4 DEF Next

\* Of the speaker's steps, which leave the buffer and the round alone.
LEMMA SpeakerInv ==
  ASSUME StreamInv, Speak \/ Rejoin
  PROVE  StreamTypeOK' /\ SentOK'
  <1>1. /\ session \in 1..MaxSessions /\ sequence \in 0..MaxFrames
        /\ sent \subseteq Datagram /\ IsFiniteSet(sent) /\ Cardinality(sent) \in Nat
        /\ sequence <= Cardinality(sent)
    BY FS_CardinalityType DEF StreamInv, StreamTypeOK, SentOK
  <1>2. /\ deafened' \in BOOLEAN /\ deaf' \in BOOLEAN
        /\ phase' \in {"receive", "drain"} /\ received' \in 0..Batch
        /\ failures' \in 0..MaxFailures
    BY DEF StreamInv, StreamTypeOK, Speak, Rejoin
  <1>3. CASE Speak
    <2> DEFINE d == [session |-> session, sequence |-> sequence]
    <2>1. /\ sent' = sent \cup {d} /\ sequence' = sequence + 1 /\ session' = session
          /\ Cardinality(sent) < MaxFrames
      BY <1>3 DEF Speak
    <2>2. sequence < MaxFrames
      BY <1>1, <2>1, StreamAssumption
    <2>3. d \in Datagram
      BY <1>1, <2>2, StreamAssumption DEF Datagram
    <2>4. d \notin sent
      BY <1>1 DEF StreamInv, SentOK
    <2>5. d.session = session /\ d.sequence = sequence
      OBVIOUS
    <2> HIDE DEF d
    <2>6. IsFiniteSet(sent') /\ Cardinality(sent') = Cardinality(sent) + 1
      BY <1>1, <2>1, <2>4, FS_AddElement
    <2>7. \A e \in sent' : e.session < session' \/ (e.session = session' /\ e.sequence < sequence')
      <3> SUFFICES ASSUME NEW e \in sent'
                   PROVE  e.session < session' \/ (e.session = session' /\ e.sequence < sequence')
        OBVIOUS
      <3>1. CASE e \in sent
        <4>1. e.session \in Int /\ e.sequence \in Int
          BY <1>1, <3>1, StreamAssumption DEF Datagram
        <4>2. e.session < session \/ (e.session = session /\ e.sequence < sequence)
          BY <3>1 DEF StreamInv, SentOK
        <4>3. QED
          BY <1>1, <2>1, <4>1, <4>2
      <3>2. CASE e = d
        BY <1>1, <2>1, <2>5, <3>2
      <3>3. QED
        BY <2>1, <3>1, <3>2
    <2>8. SentOK'
      BY <1>1, <2>1, <2>6, <2>7 DEF SentOK
    <2>9. session' \in 1..MaxSessions /\ sequence' \in 0..MaxFrames
      BY <1>1, <2>1, <2>2, StreamAssumption
    <2>10. sent' \subseteq Datagram
      BY <1>1, <1>2, <2>1, <2>3
    <2>11. QED
      BY <1>2, <2>8, <2>9, <2>10 DEF StreamTypeOK
  <1>4. CASE Rejoin
    <2>1. session < MaxSessions /\ session' = session + 1 /\ sequence' = 0 /\ sent' = sent
      BY <1>4 DEF Rejoin
    <2>2. \A e \in sent : e.session < session'
      <3> SUFFICES ASSUME NEW e \in sent
                   PROVE  e.session < session + 1
        BY <2>1
      <3>1. e.session \in Int
        BY <1>1, StreamAssumption DEF Datagram
      <3>2. e.session < session \/ e.session = session
        BY DEF StreamInv, SentOK
      <3>3. QED
        BY <1>1, <3>1, <3>2
    <2>3. SentOK'
      BY <1>1, <2>1, <2>2 DEF SentOK
    <2>4. session' \in 1..MaxSessions /\ sequence' \in 0..MaxFrames
      BY <1>1, <2>1, StreamAssumption
    <2>5. QED
      BY <1>1, <1>2, <2>1, <2>3, <2>4 DEF StreamTypeOK
  <1>5. QED
    BY <1>3, <1>4

\* Of the listener's steps, which leave the speaker alone.
LEMMA ListenerTypes ==
  ASSUME StreamInv, ToggleDeafen \/ EndReceive \/ Drain \/ \E d \in sent : Receive(d)
  PROVE  StreamTypeOK' /\ SentOK'
  <1>1. UNCHANGED <<session, sequence, sent>>
    BY DEF ToggleDeafen, EndReceive, Drain, Receive
  <1>2. deafened \in BOOLEAN /\ deaf \in BOOLEAN
    BY DEF StreamInv, StreamTypeOK
  <1>3. deafened' \in BOOLEAN /\ deaf' \in BOOLEAN
    BY <1>2, Zenon DEF ToggleDeafen, EndReceive, Drain, Receive, NewRound
  <1>4. phase' \in {"receive", "drain"}
    BY DEF StreamInv, StreamTypeOK, ToggleDeafen, EndReceive, Drain, Receive, NewRound
  <1>5. received' \in 0..Batch
    <2>1. received \in 0..Batch /\ 0 \in 0..Batch
      BY StreamAssumption DEF StreamInv, StreamTypeOK
    <2>2. CASE \E d \in sent : Receive(d)
      BY <2>1, <2>2, StreamAssumption DEF Receive
    <2>3. CASE ToggleDeafen \/ EndReceive \/ Drain
      BY <2>1, <2>3 DEF ToggleDeafen, EndReceive, Drain, NewRound
    <2>4. QED
      BY <2>2, <2>3
  <1>6. failures' \in 0..MaxFailures
    <2>1. failures \in 0..MaxFailures
      BY DEF StreamInv, StreamTypeOK
    <2>2. failures' = failures \/ (failures' = failures + 1 /\ failures < MaxFailures)
      BY DEF ToggleDeafen, EndReceive, Drain, Receive
    <2>3. QED
      BY <2>1, <2>2, StreamAssumption
  <1>7. StreamTypeOK'
    BY <1>1, <1>3, <1>4, <1>5, <1>6 DEF StreamInv, StreamTypeOK
  <1>8. QED
    BY <1>1, <1>7 DEF StreamInv, SentOK

-----------------------------------------------------------------------------
(* The calls of the buffer.                                                *)

LEMMA PushFrames ==
  ASSUME StreamInv, NEW d \in sent, Push(d.sequence, d)
  PROVE  FrameInSlot' /\ InStep'
  <1> DEFINE s == d.sequence
             kept == Capped(Slots \cup {s})
  <1>1. s \in Nat
    BY StreamAssumption DEF StreamInv, StreamTypeOK, Datagram
  <1>2. UNCHANGED <<nextExpected, out>>
    BY DEF Push, buffer
  <1>3. InStep'
    BY <1>2 DEF StreamInv, InStep
  <1>4. CASE UNCHANGED buffer
    BY <1>3, <1>4 DEF buffer, StreamInv, FrameInSlot, Slots, Played
  <1>5. CASE pending' = [t \in kept |-> IF t = s THEN d ELSE pending[t]]
    <2>1. kept \subseteq Slots \cup {s} /\ Slots' = kept
      BY <1>1, <1>5, CappedParts DEF StreamInv, IInv, Slots
    <2>2. \A t \in Slots' : pending'[t].sequence = t
      BY <1>5, <2>1 DEF StreamInv, FrameInSlot
    <2>3. QED
      BY <1>2, <1>3, <2>2 DEF StreamInv, FrameInSlot, Played
  <1>6. QED
    BY <1>4, <1>5 DEF Push

LEMMA PopFrames ==
  ASSUME StreamInv, Pop(FALSE)
  PROVE  FrameInSlot' /\ InStep'
  <1>1. CASE UNCHANGED <<pending, nextExpected, out>>
    BY <1>1 DEF StreamInv, FrameInSlot, InStep, Slots, Played
  <1>2. CASE PopSlot(FALSE)
    <2>1. PICK s : s = IF nextExpected = None THEN First(Slots) ELSE nextExpected
      OBVIOUS
    <2>2. PICK slot : slot =
            IF s \in Slots
            THEN [sequence |-> s, payload |-> pending[s], next |-> None]
            ELSE [sequence |-> s, payload |-> None, next |-> pending[First(Slots)]]
      OBVIOUS
    <2>3. /\ nextExpected' = s + 1
          /\ pending' = [t \in Slots \ {s} |-> pending[t]]
          /\ out' = Append(out, slot)
      BY <1>2, <2>1, <2>2 DEF PopSlot
    <2>4. s \in Nat
      <3>1. Slots # {} /\ Slots \in SUBSET Nat /\ nextExpected \in Nat \cup {None}
        BY <1>2 DEF PopSlot, StreamInv, IInv, BufferTypeOK
      <3>2. First(Slots) \in Nat
        BY <3>1, FirstIsLeast
      <3>3. QED
        BY <2>1, <3>1, <3>2
    <2>5. slot.sequence = s /\ (Played(slot) => s \in Slots /\ slot.payload = pending[s])
      BY <2>2 DEF Played
    <2>6. slot \in Slot
      <3>1. First(Slots) \in Slots /\ pending \in [Slots -> Payload]
        BY <1>2, FirstIsLeast DEF PopSlot, StreamInv, IInv, BufferTypeOK
      <3>2. QED
        BY <2>2, <2>4, <3>1 DEF Slot
    <2>7. /\ out \in Seq(Slot) /\ Len(out) \in Nat /\ Len(out') = Len(out) + 1
          /\ out'[Len(out) + 1] = slot /\ \A i \in 1..Len(out) : out'[i] = out[i]
      BY <2>3, <2>6 DEF StreamInv, IInv, BufferTypeOK
    <2>8. FrameInSlot'
      <3>1. Slots' = Slots \ {s} /\ \A t \in Slots' : pending'[t].sequence = t
        BY <2>3 DEF StreamInv, FrameInSlot, Slots
      <3>2. ASSUME NEW i \in 1..Len(out'), Played(out'[i])
            PROVE  out'[i].payload.sequence = out'[i].sequence
        <4>1. CASE i \in 1..Len(out)
          BY <2>7, <3>2, <4>1 DEF StreamInv, FrameInSlot, Played
        <4>2. CASE i = Len(out) + 1
          BY <2>5, <2>7, <3>2, <4>2 DEF StreamInv, FrameInSlot, Played
        <4>3. QED
          BY <2>7, <4>1, <4>2
      <3>3. QED
        BY <3>1, <3>2 DEF FrameInSlot, Played
    <2>9. InStep'
      <3> SUFFICES ASSUME NEW i \in 1..Len(out')
                   PROVE  out'[i].sequence + Len(out') = nextExpected' + i - 1
        BY DEF InStep
      <3>1. CASE i = Len(out) + 1
        <4>1. out'[i].sequence = s /\ Len(out') = i /\ i \in Nat
          BY <2>5, <2>7, <3>1
        <4>2. s + i = (s + 1) + i - 1
          BY <2>4, <4>1
        <4>3. QED
          BY <2>3, <4>1, <4>2
      <3>2. CASE i \in 1..Len(out)
        <4>1. out # <<>> /\ nextExpected # None
          BY <2>7, <3>2 DEF StreamInv, IInv, OutOK
        <4>2. out[i].sequence + Len(out) = s + i - 1
          BY <2>1, <3>2, <4>1 DEF StreamInv, InStep
        <4>3. PICK q \in Nat : q = out[i].sequence /\ q = out'[i].sequence
          <5>1. out[i] \in Slot
            BY <2>7, <3>2
          <5>2. QED
            BY <2>7, <3>2, <5>1 DEF Slot
        <4>4. q + Len(out) = s + i - 1
          BY <4>2, <4>3
        <4>5. q + (Len(out) + 1) = (s + 1) + i - 1
          BY <2>4, <2>7, <3>2, <4>4
        <4>6. QED
          BY <2>3, <2>7, <4>3, <4>5
      <3>3. QED
        BY <2>7, <3>1, <3>2
    <2>10. QED
      BY <2>8, <2>9
  <1>3. QED
    BY <1>1, <1>2 DEF Pop, PopNothing, PopNotYet, buffer

\* What a round may add fits under the cap, so nothing is evicted.
LEMMA PushBacklog ==
  ASSUME StreamInv, NEW d \in sent, Receive(d), failures = 0
  PROVE  Backlog' /\ accepted \subseteq accepted'
  <1> DEFINE s == d.sequence
             all == Slots \cup {s}
  <1>1. s \in Nat /\ received \in 0..Batch /\ received < Batch /\ received' = received + 1
        /\ UNCHANGED <<deaf, failures>>
    BY StreamAssumption DEF StreamInv, StreamTypeOK, Datagram, Receive
  <1>2. IsFiniteSet(Slots) /\ Cardinality(Slots) \in Nat
    BY FS_CardinalityType DEF StreamInv, IInv, BufferTypeOK
  <1>3. Cardinality(Slots) < TargetDepth + (IF deaf THEN 0 ELSE received)
    BY DEF StreamInv, Backlog
  <1>4. CASE UNCHANGED buffer
    <2>1. Slots' = Slots /\ accepted' = accepted
      BY <1>4 DEF buffer, Slots
    <2>2. CASE deaf
      BY <1>1, <1>3, <2>1, <2>2 DEF Backlog
    <2>3. CASE ~deaf
      BY <1>1, <1>2, <1>3, <2>1, <2>3, BufferAssumption DEF Backlog
    <2>4. QED
      BY <2>1, <2>2, <2>3
  <1>5. CASE /\ ~deaf
             /\ pending' = [t \in Capped(all) |-> IF t = s THEN d ELSE pending[t]]
             /\ accepted' = (accepted \ (all \ Capped(all))) \cup (Capped(all) \cap {s})
    <2>1. IsFiniteSet(all)
          /\ Cardinality(all) = IF s \in Slots THEN Cardinality(Slots) ELSE Cardinality(Slots) + 1
      BY <1>2, FS_AddElement
    <2>2. Cardinality(all) \in Nat /\ Cardinality(all) < TargetDepth + received + 1
      BY <1>1, <1>2, <1>3, <1>5, <2>1, BufferAssumption
    <2>3. ~(Cardinality(all) > MaxDepth)
      BY <1>1, <2>2, BufferAssumption, StreamAssumption, DepthAssumption
    <2>4. Capped(all) = all
      BY <2>3 DEF Capped
    <2>5. Slots' = all
      BY <1>5, <2>4 DEF Slots
    <2>6. Backlog'
      <3>1. Cardinality(Slots') < TargetDepth + received'
        BY <1>1, <2>2, <2>5, BufferAssumption
      <3>2. ~deaf'
        BY <1>1, <1>5
      <3>3. QED
        BY <3>1, <3>2 DEF Backlog
    <2>7. accepted \subseteq accepted'
      BY <1>5, <2>4
    <2>8. QED
      BY <2>6, <2>7
  <1>6. QED
    BY <1>4, <1>5 DEF Receive, Push

\* A round that decodes what it plays ends below the target depth.
LEMMA PopBacklog ==
  ASSUME StreamInv, Drain, failures' = 0
  PROVE  Backlog' /\ accepted' = accepted
  <1>1. Pop(FALSE) /\ accepted' = accepted
    BY DEF Drain, Pop, PopNothing, PopNotYet, PopSlot, buffer
  <1>2. /\ failures = 0
        /\ \/ out' = out /\ NewRound
           \/ out' # out /\ UNCHANGED <<deaf, received>>
    <2>1. failures \in Nat /\ failures' # failures + 1
      BY StreamAssumption DEF StreamInv, StreamTypeOK
    <2>2. QED
      BY <2>1 DEF Drain
  <1>3. IsFiniteSet(Slots) /\ Cardinality(Slots) \in Nat
    BY FS_CardinalityType DEF StreamInv, IInv, BufferTypeOK
  <1>4. received \in Nat
    BY DEF StreamInv, StreamTypeOK
  <1>5. CASE PopNothing \/ PopNotYet(FALSE)
    <2>1. Slots' = Slots /\ out' = out
      BY <1>5 DEF PopNothing, PopNotYet, buffer, Slots
    <2>2. Cardinality(Slots) < TargetDepth
      BY <1>3, <1>5, FS_EmptySet, BufferAssumption DEF PopNothing, PopNotYet, Ready
    <2>3. received' = 0
      BY <1>2, <2>1 DEF NewRound
    <2>4. QED
      BY <1>1, <2>1, <2>2, <2>3, BufferAssumption DEF Backlog
  <1>6. CASE PopSlot(FALSE)
    <2>1. PICK s : Slots' = Slots \ {s}
      BY <1>6 DEF PopSlot, Slots
    <2>2. Cardinality(Slots') \in Nat /\ Cardinality(Slots') <= Cardinality(Slots)
      <3>1. IsFiniteSet(Slots \ {s}) /\ Cardinality(Slots \ {s}) =
              IF s \in Slots THEN Cardinality(Slots) - 1 ELSE Cardinality(Slots)
        BY <1>3, FS_RemoveElement
      <3>2. Cardinality(Slots \ {s}) \in Nat
        BY <3>1, FS_CardinalityType
      <3>3. QED
        BY <1>3, <2>1, <3>1, <3>2
    <2>3. out' # out
      <3>1. PICK slot : out' = Append(out, slot)
        BY <1>6 DEF PopSlot
      <3>2. out \in Seq(Slot)
        BY DEF StreamInv, IInv, BufferTypeOK
      <3>3. Len(out') = Len(out) + 1 /\ Len(out) \in Nat
        BY <3>1, <3>2
      <3>4. QED
        BY <3>3
    <2>4. UNCHANGED <<deaf, received>>
      BY <1>2, <2>3
    <2>5. QED
      BY <1>1, <1>2, <1>3, <1>4, <2>2, <2>4, BufferAssumption DEF StreamInv, Backlog
  <1>7. QED
    BY <1>1, <1>5, <1>6 DEF Pop

\* Of the steps that leave the buffer alone.
LEMMA OtherSteps ==
  ASSUME StreamInv, Speak \/ Rejoin \/ ToggleDeafen \/ EndReceive \/ UNCHANGED vars
  PROVE  FrameInSlot' /\ InStep' /\ Backlog' /\ accepted' = accepted
  <1>1. UNCHANGED buffer
    BY DEF Speak, Rejoin, ToggleDeafen, EndReceive, vars, buffer
  <1>2. FrameInSlot' /\ InStep' /\ accepted' = accepted /\ Slots' = Slots
    BY <1>1 DEF buffer, StreamInv, FrameInSlot, InStep, Slots, Played
  <1>3. CASE UNCHANGED <<deaf, received, failures>>
    BY <1>2, <1>3 DEF StreamInv, Backlog
  <1>4. CASE EndReceive /\ deaf /\ NewRound
    <2>1. failures' = failures /\ received' = 0
      BY <1>4 DEF EndReceive, NewRound
    <2>2. failures = 0 => Cardinality(Slots) < TargetDepth
      BY <1>4, BufferAssumption DEF StreamInv, Backlog
    <2>3. QED
      BY <1>2, <2>1, <2>2, BufferAssumption DEF Backlog
  <1>5. CASE EndReceive /\ ~deaf
    BY <1>3, <1>5 DEF EndReceive
  <1>6. QED
    BY <1>2, <1>3, <1>4, <1>5 DEF Speak, Rejoin, ToggleDeafen, EndReceive, vars

LEMMA StreamNext ==
  ASSUME StreamInv, [Next]_vars
  PROVE  StreamInv' /\ (failures = 0 => accepted \subseteq accepted')
  <1>1. IInv'
    BY CallsBuffer, NextInv DEF StreamInv
  <1>2. StreamTypeOK' /\ SentOK'
    <2>1. CASE UNCHANGED vars
      BY <2>1 DEF vars, StreamInv, StreamTypeOK, SentOK
    <2>2. QED
      BY <2>1, SpeakerInv, ListenerTypes DEF Next
  <1>3. FrameInSlot' /\ InStep' /\ Backlog'
        /\ (failures = 0 => accepted \subseteq accepted')
    <2>1. CASE Speak \/ Rejoin \/ ToggleDeafen \/ EndReceive \/ UNCHANGED vars
      BY <2>1, OtherSteps
    <2>2. ASSUME NEW d \in sent, Receive(d)
          PROVE  FrameInSlot' /\ InStep' /\ Backlog' /\ (failures = 0 => accepted \subseteq accepted')
      <3>1. failures' = failures
        BY <2>2 DEF Receive
      <3>2. FrameInSlot' /\ InStep'
        <4>1. CASE UNCHANGED buffer
          BY <4>1 DEF buffer, StreamInv, FrameInSlot, InStep, Slots, Played
        <4>2. CASE Push(d.sequence, d)
          BY <4>2, PushFrames
        <4>3. QED
          BY <2>2, <4>1, <4>2 DEF Receive, buffer
      <3>3. CASE failures = 0
        BY <2>2, <3>2, <3>3, PushBacklog
      <3>4. CASE failures # 0
        BY <3>1, <3>2, <3>4 DEF Backlog
      <3>5. QED
        BY <3>3, <3>4
    <2>3. CASE Drain
      <3>1. FrameInSlot' /\ InStep' /\ accepted' = accepted
        BY <2>3, PopFrames DEF Drain, Pop, PopNothing, PopNotYet, PopSlot, buffer
      <3>2. CASE failures' = 0
        BY <2>3, <3>1, <3>2, PopBacklog
      <3>3. CASE failures' # 0
        BY <3>1, <3>3 DEF Backlog
      <3>4. QED
        BY <3>2, <3>3
    <2>4. QED
      BY <2>1, <2>2, <2>3 DEF Next
  <1>4. QED
    BY <1>1, <1>2, <1>3 DEF StreamInv

LEMMA StreamInvariance == Spec => []StreamInv
  <1>1. StreamInv /\ [Next]_vars => StreamInv'
    BY StreamNext
  <1>2. QED
    BY <1>1, StreamInit, PTL DEF Spec

-----------------------------------------------------------------------------

\* The stream's variables keep their types: above all, a speaker never numbers more
\* frames than it may send.
THEOREM TypeCorrect == Spec => []TypeOK
  <1>1. StreamInv => TypeOK
    BY DEF StreamInv, StreamTypeOK, IInv, TypeOK
  <1>2. QED
    BY <1>1, StreamInvariance, PTL

\* Each slot played carries the frame of its number, and no datagram is played
\* twice, for any loss, repetition and order of arrival.
THEOREM RightFrames == Spec => []PlaysTheRightFrame
  <1>1. StreamInv => PlaysTheRightFrame
    <2> SUFFICES ASSUME StreamInv
                 PROVE  PlaysTheRightFrame
      OBVIOUS
    <2>1. out \in Seq(Slot)
      BY DEF StreamInv, IInv, BufferTypeOK
    <2>2. ASSUME NEW i \in 1..Len(out), NEW j \in 1..Len(out),
                 Played(out[i]), out[i].payload = out[j].payload
          PROVE  i = j
      <3>1. out[i].sequence = out[j].sequence
        BY <2>2 DEF StreamInv, FrameInSlot, Played
      <3>2. out # <<>> /\ nextExpected # None
        BY <2>1, <2>2 DEF StreamInv, IInv, OutOK
      <3>3. PICK q \in Nat : q = out[i].sequence
        <4>1. out[i] \in Slot
          BY <2>1, <2>2
        <4>2. QED
          BY <4>1 DEF Slot
      <3>4. nextExpected \in Nat
        BY <3>2 DEF StreamInv, IInv, BufferTypeOK
      <3>5. q + Len(out) = nextExpected + i - 1 /\ q + Len(out) = nextExpected + j - 1
        BY <3>1, <3>2, <3>3 DEF StreamInv, InStep
      <3>6. QED
        BY <2>1, <3>4, <3>5
    <2>3. QED
      BY <2>2 DEF StreamInv, FrameInSlot, PlaysTheRightFrame
  <1>2. QED
    BY <1>1, StreamInvariance, PTL

\* With depths that leave room for a batch, nothing accepted is evicted before a
\* frame fails to decode.
THEOREM NothingEvicted == Spec => CapIsSlack
  <1>1. StreamInv /\ [Next]_vars => [failures = 0 => accepted \subseteq accepted']_vars
    BY StreamNext
  <1>2. QED
    BY <1>1, StreamInvariance, PTL DEF Spec, CapIsSlack

\* A stream is a jitter buffer under some of its calls: slots come out in order,
\* within the window, and nothing accepted is forgotten.
THEOREM StreamIsBuffer == Spec => []BufferIsSound
  BY StreamInvariance, PTL DEF StreamInv, IInv, BufferIsSound

-----------------------------------------------------------------------------
(* What carries the datagrams: VoiceRelay, over constants and variables of *)
(* its own, for any users, connections and ports.                          *)

CONSTANTS User, Talkers, Conn, OwnerOf, Port, MaxJoins, MaxPending
VARIABLES
  current, voice, joins, heard, stage, requests, members, voiceAddrs,
  uplink, relay, packet, targets, displaced

Relay == INSTANCE VoiceRelay WITH phase <- stage

\* RelayAssumption of VoiceRelay.
RelaySetup ==
  /\ Talkers \subseteq User /\ OwnerOf \in [Conn -> User]
  /\ MaxJoins \in [User -> Nat] /\ MaxPending \in Nat
  /\ None \notin Conn \cup Port

\* While the relay is busy there is a datagram at hand, and a voice worker runs
\* only while its client has a connection.
Coupled ==
  /\ relay \in {"route", "forward"} => packet \in Relay!Datagram
  /\ \A u \in User : voice[u] # None => current[u] # None

LEMMA RelayTyped ==
  ASSUME RelaySetup
  PROVE  Relay!Spec => [](Relay!TypeOK /\ Coupled)
  <1>1. Relay!Init => Relay!TypeOK /\ Coupled
    BY DEF RelaySetup, Relay!Init, Relay!TypeOK, Coupled
  <1>2. Relay!TypeOK /\ Coupled /\ [Relay!Next]_(Relay!vars) => (Relay!TypeOK /\ Coupled)'
    <2> SUFFICES ASSUME Relay!TypeOK, Coupled, [Relay!Next]_(Relay!vars)
          PROVE  Relay!TypeOK' /\ Coupled'
      OBVIOUS
    <2> USE DEF RelaySetup
    <2>1. ASSUME NEW c \in Conn, Relay!Connect(c) PROVE Relay!TypeOK' /\ Coupled'
      BY <2>1 DEF Relay!TypeOK, Coupled, Relay!Connect, Relay!network
    <2>2. ASSUME NEW u \in User, Relay!EndConnection(u) PROVE Relay!TypeOK' /\ Coupled'
      BY <2>2 DEF Relay!TypeOK, Coupled, Relay!EndConnection, Relay!network
    <2>3. ASSUME NEW u \in User, NEW p \in Port, Relay!JoinVoice(u, p)
          PROVE  Relay!TypeOK' /\ Coupled'
      <3>1. requests' \in [Conn -> Seq({"JoinVoice", "LeaveVoice"})]
        <4>1. current[u] \in Conn
          BY <2>3 DEF Relay!TypeOK, Relay!JoinVoice
        <4>2. Append(requests[current[u]], "JoinVoice") \in Seq({"JoinVoice", "LeaveVoice"})
          BY <4>1 DEF Relay!TypeOK
        <4> QED BY <2>3, <4>1, <4>2 DEF Relay!TypeOK, Relay!JoinVoice, Relay!Request
      <3>2. joins' \in [User -> Nat] /\ \A v \in User : joins'[v] <= MaxJoins[v]
        <4>1. joins[u] \in Nat /\ MaxJoins[u] \in Nat
          BY DEF Relay!TypeOK
        <4> QED BY <2>3, <4>1 DEF Relay!TypeOK, Relay!JoinVoice
      <3> QED BY <2>3, <3>1, <3>2 DEF Relay!TypeOK, Coupled, Relay!JoinVoice, Relay!network
    <2>4. ASSUME NEW u \in User, Relay!LeaveVoice(u) PROVE Relay!TypeOK' /\ Coupled'
      <3>1. current[u] \in Conn
        BY <2>4 DEF Relay!TypeOK, Coupled, Relay!LeaveVoice
      <3>2. Append(requests[current[u]], "LeaveVoice") \in Seq({"JoinVoice", "LeaveVoice"})
        BY <3>1 DEF Relay!TypeOK
      <3>3. requests' \in [Conn -> Seq({"JoinVoice", "LeaveVoice"})]
        BY <2>4, <3>1, <3>2 DEF Relay!TypeOK, Relay!LeaveVoice, Relay!Request
      <3> QED BY <2>4, <3>3 DEF Relay!TypeOK, Coupled, Relay!LeaveVoice, Relay!network
    <2>5. ASSUME NEW u \in User, Relay!Send(u) PROVE Relay!TypeOK' /\ Coupled'
      <3>1. [user |-> u, port |-> voice[u], audio |-> u \in Talkers] \in Relay!Datagram
        <4>1. voice[u] \in Port /\ (u \in Talkers) \in BOOLEAN
          BY <2>5 DEF Relay!TypeOK, Relay!Send
        <4> QED BY <4>1 DEF Relay!Datagram
      <3> QED BY <2>5, <3>1 DEF Relay!TypeOK, Coupled, Relay!Send, Relay!clients, Relay!server
    <2>6. ASSUME NEW c \in Conn, Relay!Serve(c) PROVE Relay!TypeOK' /\ Coupled'
      <3>1. requests[c] \in Seq({"JoinVoice", "LeaveVoice"}) /\ requests[c] # <<>>
        BY <2>6 DEF Relay!TypeOK, Relay!Serve
      <3>2. Tail(requests[c]) \in Seq({"JoinVoice", "LeaveVoice"})
        BY <3>1
      <3>3. OwnerOf[c] \in User
        OBVIOUS
      <3> QED
        BY <2>6, <3>2, <3>3
        DEF Relay!TypeOK, Coupled, Relay!Serve, Relay!clients, Relay!network
    <2>7. ASSUME NEW c \in Conn, Relay!DisconnectUser(c) PROVE Relay!TypeOK' /\ Coupled'
      <3>1. OwnerOf[c] \in User
        OBVIOUS
      <3> QED
        BY <2>7, <3>1
        DEF Relay!TypeOK, Coupled, Relay!DisconnectUser, Relay!clients, Relay!network
    <2>8. ASSUME NEW d \in Relay!Datagram, Relay!Receive(d) PROVE Relay!TypeOK' /\ Coupled'
      <3>1. d.user \in User /\ d.port \in Port
        BY DEF Relay!Datagram
      <3> QED BY <2>8, <3>1 DEF Relay!TypeOK, Coupled, Relay!Receive, Relay!clients
    <2>9. ASSUME Relay!RelayEnds PROVE Relay!TypeOK' /\ Coupled'
      BY <2>9 DEF Relay!TypeOK, Coupled, Relay!RelayEnds, Relay!clients, Relay!server
    <2>10. ASSUME Relay!Route PROVE Relay!TypeOK' /\ Coupled'
      <3>1. {voiceAddrs[u] : u \in members \ {packet.user}} \ {None} \subseteq Port
        BY DEF Relay!TypeOK
      <3> QED
        BY <2>10, <3>1
        DEF Relay!TypeOK, Coupled, Relay!Route, Relay!Turn, Relay!clients, Relay!server
    <2>11. ASSUME NEW p \in Port, Relay!Arrive(p) PROVE Relay!TypeOK' /\ Coupled'
      <3>1. packet \in Relay!Datagram /\ packet.user \in User
        BY <2>11 DEF Coupled, Relay!Arrive, Relay!SendTo, Relay!Datagram
      <3>2. heard' \in [User -> SUBSET User]
        BY <2>11, <3>1 DEF Relay!TypeOK, Relay!Arrive, Relay!Played
      <3> QED
        BY <2>11, <3>2
        DEF Relay!TypeOK, Coupled, Relay!Arrive, Relay!SendTo, Relay!Turn, Relay!server
    <2>12. ASSUME NEW p \in Port, Relay!Vanish(p) PROVE Relay!TypeOK' /\ Coupled'
      BY <2>12 DEF Relay!TypeOK, Coupled, Relay!Vanish, Relay!SendTo, Relay!Turn, Relay!server
    <2>13. CASE UNCHANGED Relay!vars
      BY <2>13 DEF Relay!TypeOK, Coupled, Relay!vars
    <2> QED
      BY <2>1, <2>2, <2>3, <2>4, <2>5, <2>6, <2>7, <2>8, <2>9, <2>10, <2>11, <2>12, <2>13
      DEF Relay!Next, Relay!ServerTask, Relay!RelayTask, Relay!ReceiveFrom
  <1> QED BY <1>1, <1>2, PTL DEF Relay!Spec

\* Every variable of the relay model keeps its type.
THEOREM RelayTypeCorrect ==
  ASSUME RelaySetup
  PROVE  Relay!Spec => []Relay!TypeOK
  BY RelayTyped, PTL

\* A worker never plays its own user's voice, although a port that one worker has
\* given back may be the one another worker got and the relay still knows for
\* the first.  The relay cannot promise it: the worker's own check does.
THEOREM OwnVoiceNeverPlayed ==
  ASSUME RelaySetup
  PROVE  Relay!Spec => []Relay!NoOwnVoice
  <1>1. Relay!Init => Relay!NoOwnVoice
    BY DEF Relay!Init, Relay!NoOwnVoice
  <1>2. Relay!TypeOK /\ Relay!NoOwnVoice /\ [Relay!Next]_(Relay!vars) => Relay!NoOwnVoice'
    <2> SUFFICES ASSUME Relay!TypeOK, Relay!NoOwnVoice, [Relay!Next]_(Relay!vars), NEW u \in User
                 PROVE u \notin heard'[u]
      BY DEF Relay!NoOwnVoice
    <2>1. u \notin heard[u]
      BY DEF Relay!NoOwnVoice
    <2>2. ASSUME NEW v \in User, NEW p \in Port, Relay!JoinVoice(v, p) PROVE u \notin heard'[u]
      BY <2>1, <2>2 DEF Relay!TypeOK, Relay!JoinVoice
    <2>3. ASSUME NEW p \in Port, Relay!Arrive(p) PROVE u \notin heard'[u]
      BY <2>1, <2>3 DEF Relay!TypeOK, Relay!Arrive, Relay!Played
    <2>4. CASE heard' = heard
      BY <2>1, <2>4
    <2> QED
      BY <2>2, <2>3, <2>4
      DEF Relay!Next, Relay!Connect, Relay!EndConnection, Relay!LeaveVoice, Relay!Send,
          Relay!ServerTask, Relay!Serve, Relay!DisconnectUser, Relay!RelayTask, Relay!RelayEnds,
          Relay!Route, Relay!Vanish, Relay!ReceiveFrom, Relay!Receive, Relay!clients, Relay!vars
  <1> QED BY <1>1, <1>2, RelayTypeCorrect, PTL DEF Relay!Spec

\* Whoever has no connection left is in no room, whatever datagrams come in late:
\* a membership is made only while a connection of the user is being served, and
\* the end of the last one takes it away.
THEOREM NothingForTheGone ==
  ASSUME RelaySetup
  PROVE  Relay!Spec => []Relay!GoneGetsNothing
  <1>1. Relay!Init => Relay!GoneGetsNothing
    BY DEF Relay!Init, Relay!GoneGetsNothing
  <1>2. Relay!TypeOK /\ Relay!GoneGetsNothing /\ [Relay!Next]_(Relay!vars) => Relay!GoneGetsNothing'
    <2> SUFFICES ASSUME Relay!TypeOK, Relay!GoneGetsNothing, [Relay!Next]_(Relay!vars), NEW u \in User,
                        \A c \in Conn : OwnerOf[c] = u => stage'[c] \in {"new", "closed"}
                 PROVE u \notin members'
      BY DEF Relay!GoneGetsNothing
    <2>1. ASSUME NEW c \in Conn, Relay!Connect(c) PROVE u \notin members'
      <3>1. OwnerOf[c] # u
        BY <2>1 DEF Relay!TypeOK, Relay!Connect
      <3> QED BY <2>1, <3>1 DEF Relay!TypeOK, Relay!GoneGetsNothing, Relay!Connect
    <2>2. ASSUME NEW v \in User, Relay!EndConnection(v) PROVE u \notin members'
      <3>1. current[v] \in Conn /\ stage'[current[v]] = "closing"
        BY <2>2 DEF Relay!TypeOK, Relay!EndConnection
      <3>2. \A c \in Conn : OwnerOf[c] = u => stage[c] = stage'[c]
        BY <2>2, <3>1 DEF Relay!TypeOK, Relay!EndConnection
      <3> QED BY <2>2, <3>2 DEF Relay!GoneGetsNothing, Relay!EndConnection
    <2>3. ASSUME NEW c \in Conn, Relay!Serve(c) PROVE u \notin members'
      <3>1. OwnerOf[c] # u
        BY <2>3 DEF Relay!TypeOK, Relay!Serve
      <3>2. u \notin members
        BY <2>3 DEF Relay!GoneGetsNothing, Relay!Serve
      <3> QED BY <2>3, <3>1, <3>2 DEF Relay!Serve
    <2>4. ASSUME NEW c \in Conn, Relay!DisconnectUser(c) PROVE u \notin members'
      <3>1. CASE OwnerOf[c] = u
        BY <2>4, <3>1 DEF Relay!DisconnectUser
      <3>2. CASE OwnerOf[c] # u
        <4>1. \A d \in Conn : OwnerOf[d] = u => stage[d] = stage'[d]
          BY <2>4, <3>2 DEF Relay!TypeOK, Relay!DisconnectUser
        <4> QED BY <2>4, <4>1 DEF Relay!GoneGetsNothing, Relay!DisconnectUser
      <3> QED BY <3>1, <3>2
    <2>5. CASE UNCHANGED <<stage, members>>
      BY <2>5 DEF Relay!GoneGetsNothing
    <2> QED
      BY <2>1, <2>2, <2>3, <2>4, <2>5
      DEF Relay!Next, Relay!JoinVoice, Relay!LeaveVoice, Relay!Send, Relay!ServerTask,
          Relay!RelayTask, Relay!RelayEnds, Relay!Route, Relay!Arrive, Relay!Vanish,
          Relay!SendTo, Relay!ReceiveFrom, Relay!Receive, Relay!server, Relay!vars
  <1> QED BY <1>1, <1>2, RelayTypeCorrect, PTL DEF Relay!Spec
=============================================================================
