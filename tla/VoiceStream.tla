----------------------------- MODULE VoiceStream -----------------------------
(***************************************************************************)
(* One speaker heard by one listener: the sending half of a voice worker,  *)
(* the datagrams between them, and the receiving half with its jitter      *)
(* buffer.  A datagram can be lost, repeated, delayed and overtaken.  The  *)
(* speaker may leave the room and join again: its new worker counts from 0 *)
(* while the listener keeps the buffer of that user.                       *)
(***************************************************************************)
EXTENDS JitterBuffer

CONSTANTS
  Batch,        \* datagrams received per round of the loop (16 in the code)
  MaxFrames,    \* bound: frames of all sessions
  MaxSessions,  \* bound: times the speaker joins
  MaxFailures   \* bound: frames the decoder rejects

\* What a datagram carries: which join of the speaker, and its frame counter.
Datagram == [session : 1..MaxSessions, sequence : 0..MaxFrames - 1]

ASSUME StreamAssumption ==
  /\ Batch \in Nat \ {0}
  /\ MaxFrames \in Nat /\ MaxSessions \in Nat \ {0} /\ MaxFailures \in Nat
  /\ Payload = Datagram /\ Sequence = 0..MaxFrames - 1

\* client/src/voice.rs 32-34 and 354: 20 >= 3 - 1 + 16.
ASSUME DepthAssumption == MaxDepth >= TargetDepth - 1 + Batch

VARIABLES
  session, sequence,  \* the speaker: its worker and the frame counter of it
  sent,               \* every datagram the relay was ever given
  deafened,           \* the listener's switch
  deaf,               \* its value read at the top of the round
  phase, received,    \* where the round is; datagrams taken in it
  failures            \* frames the decoder rejected

stream == <<session, sequence, sent, deafened, deaf, phase, received, failures>>
vars == <<pending, nextExpected, primed, out, accepted,
          session, sequence, sent, deafened, deaf, phase, received, failures>>

TypeOK ==
  /\ BufferTypeOK
  /\ session \in 1..MaxSessions /\ sequence \in 0..MaxFrames
  /\ sent \subseteq Datagram
  /\ deafened \in BOOLEAN /\ deaf \in BOOLEAN
  /\ phase \in {"receive", "drain"} /\ received \in 0..Batch
  /\ failures \in 0..MaxFailures

Init ==
  /\ InitBuffer
  /\ session = 1 /\ sequence = 0
  /\ sent = {}
  /\ deafened = FALSE /\ deaf = FALSE
  /\ phase = "receive" /\ received = 0 /\ failures = 0

-----------------------------------------------------------------------------
(* The speaker.                                                            *)

\* The gate is open: one frame, one datagram, one number.
Speak ==
  /\ Cardinality(sent) < MaxFrames
  /\ sent' = sent \cup {[session |-> session, sequence |-> sequence]}
  /\ sequence' = sequence + 1
  /\ UNCHANGED <<buffer, session, deafened, deaf, phase, received, failures>>

Rejoin ==
  /\ session < MaxSessions
  /\ session' = session + 1
  /\ sequence' = 0
  /\ UNCHANGED <<buffer, sent, deafened, deaf, phase, received, failures>>

-----------------------------------------------------------------------------
(* The listener.                                                           *)

ToggleDeafen ==
  /\ deafened' = ~deafened
  /\ UNCHANGED <<buffer, session, sequence, sent, deaf, phase, received, failures>>

\* Any datagram ever sent may arrive, once or more, or never.
Receive(d) ==
  /\ phase = "receive" /\ received < Batch
  /\ received' = received + 1
  /\ \/ deaf /\ UNCHANGED buffer
     \/ ~deaf /\ Push(d.sequence, d)
  /\ UNCHANGED <<session, sequence, sent, deafened, deaf, phase, failures>>

NewRound ==
  /\ phase' = "receive" /\ received' = 0
  /\ deaf' = deafened

\* Nothing more to receive, or the batch is full.  A deafened listener drains
\* nothing and keeps what it had.
EndReceive ==
  /\ phase = "receive"
  /\ \/ ~deaf /\ phase' = "drain" /\ UNCHANGED <<deaf, received>>
     \/ deaf /\ NewRound
  /\ UNCHANGED <<buffer, session, sequence, sent, deafened, failures>>

\* Mutant: one frame is played per round.
Drain_Once ==
  /\ phase = "drain"
  /\ Pop(FALSE)
  /\ NewRound
  /\ UNCHANGED <<session, sequence, sent, deafened, failures>>

\* while let Some(pcm) = pop_decoded_frame(..): until the buffer answers Empty,
\* or a frame cannot be decoded, which ends the loop like an empty buffer.
Drain ==
  /\ phase = "drain"
  /\ Pop(FALSE)
  /\ \/ out' = out /\ NewRound /\ UNCHANGED failures
     \/ out' # out /\ UNCHANGED <<deaf, phase, received, failures>>
     \/ /\ out' # out /\ failures < MaxFailures
        /\ failures' = failures + 1
        /\ NewRound
  /\ UNCHANGED <<session, sequence, sent, deafened>>

Next ==
  \/ Speak \/ Rejoin
  \/ ToggleDeafen
  \/ \E d \in sent : Receive(d)
  \/ EndReceive \/ Drain

Spec == Init /\ [][Next]_vars

\* The worker thread keeps running its loop.
FairSpec == Spec /\ WF_vars(EndReceive) /\ WF_vars(Drain)

-----------------------------------------------------------------------------

\* Whatever arrives, and in whatever order, each slot played carries the frame of
\* that number, and no datagram is played twice.
PlaysTheRightFrame ==
  /\ \A i \in 1..Len(out) : Played(out[i]) => out[i].payload.sequence = out[i].sequence
  /\ \A i, j \in 1..Len(out) :
       Played(out[i]) /\ out[i].payload = out[j].payload => i = j

\* Under this use of it the buffer keeps its promises: the window, the order of the
\* slots, and nothing that it accepted is forgotten.
BufferIsSound == WindowOK /\ SlotsInOrder /\ AcceptedIsPlayed

\* Until a frame fails to decode the cap evicts nothing that was accepted: a round
\* leaves less than the target depth behind and the next one adds one batch, which
\* is within the cap (in the code 3 - 1 + 16 <= 20).
CapIsSlack == [][failures = 0 => accepted \subseteq accepted']_vars

\* A buffer that holds its target depth is played out, unless the listener is
\* deafened.
PreRollEnds == (Cardinality(Slots) >= TargetDepth) ~> (Slots = {} \/ deafened)

=============================================================================
