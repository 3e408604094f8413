----------------------------- MODULE VoiceWorker -----------------------------
(***************************************************************************)
(* A running voice worker of the client, between the audio devices, the    *)
(* socket and the user interface: samples from the input device are cut    *)
(* into frames, gated and sent; frames of the peers go through the         *)
(* playback queue to the output device.                                    *)
(*                                                                         *)
(* Five parties run side by side: the worker's loop, the two callbacks of  *)
(* the devices, the thread that feeds the playback queue, and the user     *)
(* interface, which stores `muted' and `deafened' at any time.  The jitter *)
(* buffers are VoiceStream's: here a peer's frames come in order.          *)
(***************************************************************************)
EXTENDS Naturals, Sequences, SequencesExt

CONSTANTS
  MaxMic,     \* bound: samples captured
  Chunks,     \* numbers of samples the input device hands over at once
  FrameLen,   \* OPUS_FRAME_SAMPLES
  Hangover,   \* NOISE_GATE_HANGOVER_FRAMES
  Peer,
  MaxFrames,  \* bound: frames each peer sends
  PerFrame,   \* samples of a frame at the rate of the output device
  Channels,   \* of the output device
  Cap,        \* PLAYBACK_QUEUE_CAP_SAMPLES
  Period,     \* samples per channel the output device asks for at once
  MaxToggles  \* bound: times a button is pressed

\* The cap is 96000 samples, a whole number of samples per channel for every
\* usual number of channels (7 is the exception up to 8).
ASSUME WorkerAssumption ==
  /\ FrameLen \in Nat \ {0} /\ Hangover \in Nat /\ Chunks \subseteq Nat
  /\ PerFrame \in Nat \ {0} /\ Channels \in Nat \ {0} /\ Period \in Nat \ {0}
  /\ Cap \in Nat /\ Cap % Channels = 0 /\ Cap >= PerFrame * Channels

VARIABLES
  muted, deafened, \* the flags of VoiceShared
  toggles,         \* buttons pressed so far
  mic,             \* samples captured so far: they are 1, 2, ...
  captured,        \* capture channel: chunks of samples
  buffer,          \* capture_buffer
  pc,              \* where the loop of the worker is
  frames,          \* frames sliced and not processed yet
  gate,            \* NoiseGate: [open, left]
  due,             \* no datagram has been sent for HEARTBEAT_INTERVAL
  deaf,            \* the loop's copy of deafened
  socket,          \* peer -> its frames in the socket
  jitter,          \* peer -> its frames that are ready to be played
  spoken,          \* frames each peer has sent
  playback,        \* playback channel: frames
  queue,           \* playback queue: samples, channel by channel
  processed,       \* history: the frames processed, with what became of them
  sinceMute,       \* history: frames sent since the user muted
  newest,          \* history: the newest sample that was queued, or NoSample
  heard            \* history: what the output device played, silence left out

ui      == <<muted, deafened, toggles, sinceMute>>
micside == <<mic, captured, buffer, frames, gate, due, processed>>
speaker == <<playback, queue, newest, heard>>
vars == <<ui, micside, pc, deaf, socket, jitter, spoken, speaker>>

Levels == {"loud", "middle", "low"} \* of a frame, against the two thresholds

Sample == [peer : Peer, at : 1..MaxFrames * PerFrame]
NoSample == <<>>

Init ==
  /\ muted \in BOOLEAN /\ deafened \in BOOLEAN /\ (deafened => muted)
  /\ toggles = 0 /\ sinceMute = 0
  /\ mic = 0 /\ captured = <<>> /\ buffer = <<>> /\ frames = <<>>
  /\ gate = [open |-> FALSE, left |-> 0]
  /\ due = FALSE
  /\ processed = <<>>
  /\ pc = "capture" /\ deaf = FALSE
  /\ socket = [p \in Peer |-> <<>>]
  /\ jitter = [p \in Peer |-> <<>>]
  /\ spoken = [p \in Peer |-> 0]
  /\ playback = <<>> /\ queue = <<>>
  /\ newest = NoSample /\ heard = <<>>

-----------------------------------------------------------------------------
(* The user interface, and what comes from outside.                        *)

ToggleMute ==
  /\ toggles < MaxToggles /\ toggles' = toggles + 1
  /\ muted' = ~muted
  /\ sinceMute' = 0
  /\ UNCHANGED <<deafened, micside, pc, deaf, socket, jitter, spoken, speaker>>

\* Deafening mutes; hearing again does not unmute.
ToggleDeafen ==
  /\ toggles < MaxToggles /\ toggles' = toggles + 1
  /\ deafened' = ~deafened
  /\ IF deafened' /\ ~muted THEN muted' = TRUE /\ sinceMute' = 0
                            ELSE UNCHANGED <<muted, sinceMute>>
  /\ UNCHANGED <<micside, pc, deaf, socket, jitter, spoken, speaker>>

\* The callback of the input device.
Capture(n) ==
  /\ mic + n <= MaxMic
  /\ mic' = mic + n
  /\ captured' = Append(captured, [i \in 1..n |-> mic + i])
  /\ UNCHANGED <<ui, buffer, frames, gate, due, processed, pc, deaf, socket,
                 jitter, spoken, speaker>>

TimePasses ==
  /\ ~due /\ due' = TRUE
  /\ UNCHANGED <<ui, mic, captured, buffer, frames, gate, processed, pc, deaf,
                 socket, jitter, spoken, speaker>>

PeerSpeaks(p) ==
  /\ spoken[p] < MaxFrames
  /\ spoken' = [spoken EXCEPT ![p] = @ + 1]
  /\ socket' = [socket EXCEPT ![p] = Append(@, spoken[p] + 1)]
  /\ UNCHANGED <<ui, micside, pc, deaf, jitter, speaker>>

-----------------------------------------------------------------------------
(* The capture path of the loop.                                           *)

\* Mutant: what does not fill a frame is thrown away.
Slice_DropsRest(samples) ==
  LET n == Len(samples) \div FrameLen
  IN [frames |-> [k \in 1..n |-> SubSeq(samples, (k - 1) * FrameLen + 1, k * FrameLen)],
      rest   |-> <<>>]

\* drain_frames.
Slice(samples) ==
  LET n == Len(samples) \div FrameLen
  IN [frames |-> [k \in 1..n |-> SubSeq(samples, (k - 1) * FrameLen + 1, k * FrameLen)],
      rest   |-> SubSeq(samples, n * FrameLen + 1, Len(samples))]

\* Everything captured so far is taken and cut into frames.
TakeCaptured ==
  /\ pc = "capture"
  /\ LET sliced == Slice(buffer \o FlattenSeq(captured))
     IN frames' = sliced.frames /\ buffer' = sliced.rest
  /\ captured' = <<>>
  /\ pc' = "frames"
  /\ UNCHANGED <<ui, mic, gate, due, processed, deaf, socket, jitter, spoken, speaker>>

\* NoiseGate::process.
GateAfter(level) ==
  CASE level = "loud"                   -> [open |-> TRUE, left |-> Hangover]
    [] level # "loud" /\ ~gate.open     -> gate
    [] level = "middle" /\ gate.open    -> [gate EXCEPT !.left = Hangover]
    [] level = "low" /\ gate.open       ->
         IF gate.left = 0 THEN [gate EXCEPT !.open = FALSE]
                          ELSE [gate EXCEPT !.left = @ - 1]

\* Mutant: muting waits for the end of the word.
Fate_EndOfWord(level) ==
  CASE muted /\ ~gate.open                              -> "muted"
    [] ~(muted /\ ~gate.open) /\ ~GateAfter(level).open -> "gated"
    [] ~(muted /\ ~gate.open) /\ GateAfter(level).open  -> "sent"

Fate(level) ==
  CASE muted                             -> "muted"
    [] ~muted /\ ~GateAfter(level).open  -> "gated"
    [] ~muted /\ GateAfter(level).open   -> "sent"

\* Mutant: a frame of a muted user does not go through the gate.
Process_MutedSkipsGate(level) ==
  /\ pc = "frames" /\ frames # <<>>
  /\ gate' = IF muted THEN gate ELSE GateAfter(level)
  /\ processed' = Append(processed, [samples |-> Head(frames), level |-> level,
                                     fate |-> Fate(level)])
  /\ pc' = IF Fate(level) = "sent" THEN "send" ELSE "frames"
  /\ frames' = Tail(frames)
  /\ UNCHANGED <<ui, mic, captured, buffer, due, deaf, socket, jitter, spoken, speaker>>

\* The gate sees every frame; then a muted or gated one is dropped.
Process(level) ==
  /\ pc = "frames" /\ frames # <<>>
  /\ gate' = GateAfter(level)
  /\ processed' = Append(processed, [samples |-> Head(frames), level |-> level,
                                     fate |-> Fate(level)])
  /\ pc' = IF Fate(level) = "sent" THEN "send" ELSE "frames"
  /\ frames' = Tail(frames)
  /\ UNCHANGED <<ui, mic, captured, buffer, due, deaf, socket, jitter, spoken, speaker>>

\* Encoded and sent, some time after the user was found not to be muted.
SendAudio ==
  /\ pc = "send"
  /\ pc' = "frames" /\ due' = FALSE
  /\ sinceMute' = IF muted THEN sinceMute + 1 ELSE 0
  /\ UNCHANGED <<muted, deafened, toggles, mic, captured, buffer, frames, gate,
                 processed, deaf, socket, jitter, spoken, speaker>>

\* Mutant: no heartbeat of a muted user.
Heartbeat_NotMuted ==
  /\ pc = "frames" /\ frames = <<>>
  /\ due' = (due /\ muted)
  /\ deaf' = deafened /\ pc' = "receive"
  /\ UNCHANGED <<ui, mic, captured, buffer, frames, gate, processed, socket,
                 jitter, spoken, speaker>>

\* All frames are done: a heartbeat if one is due, and deafened is read.
Heartbeat ==
  /\ pc = "frames" /\ frames = <<>>
  /\ due' = FALSE
  /\ deaf' = deafened /\ pc' = "receive"
  /\ UNCHANGED <<ui, mic, captured, buffer, frames, gate, processed, socket,
                 jitter, spoken, speaker>>

-----------------------------------------------------------------------------
(* The receive path of the loop and the way to the output device.          *)

\* One of up to 16 datagrams; a deaf worker takes it and drops it.
Receive(p) ==
  /\ pc = "receive" /\ socket[p] # <<>>
  /\ socket' = [socket EXCEPT ![p] = Tail(@)]
  /\ jitter' = IF deaf THEN jitter ELSE [jitter EXCEPT ![p] = Append(@, Head(socket[p]))]
  /\ UNCHANGED <<ui, micside, pc, deaf, spoken, speaker>>

\* Enough, or nothing came in time.
EndReceive ==
  /\ pc = "receive" /\ pc' = "drain"
  /\ UNCHANGED <<ui, micside, deaf, socket, jitter, spoken, speaker>>

FramesOf(p) == [k \in 1..Len(jitter[p]) |-> [peer |-> p, n |-> jitter[p][k]]]

\* Mutant: what was handed out is not taken out.
Drain_KeepsFrames(p) ==
  /\ pc = "drain" /\ ~deaf /\ jitter[p] # <<>>
  /\ playback' = playback \o FramesOf(p)
  /\ pc' = "capture"
  /\ UNCHANGED <<ui, micside, deaf, socket, jitter, spoken, queue, newest, heard>>

\* One peer after the other, all its frames: they are queued, never mixed.
Drain(p) ==
  /\ pc = "drain" /\ ~deaf /\ jitter[p] # <<>>
  /\ playback' = playback \o FramesOf(p)
  /\ jitter' = [jitter EXCEPT ![p] = <<>>]
  /\ UNCHANGED <<ui, micside, pc, deaf, socket, spoken, queue, newest, heard>>

EndDrain ==
  /\ pc = "drain" /\ (deaf \/ \A p \in Peer : jitter[p] = <<>>)
  /\ pc' = "capture"
  /\ UNCHANGED <<ui, micside, deaf, socket, jitter, spoken, speaker>>

\* prepare_playback_frame: resampled to the device's rate, and each sample
\* repeated for every channel.
Prepared(f) ==
  [k \in 1..PerFrame * Channels |->
     [peer |-> f.peer, at |-> (f.n - 1) * PerFrame + (k - 1) \div Channels + 1]]

\* Mutant: one sample too many is dropped.
Capped_OneLess(q) ==
  IF Len(q) <= Cap THEN q ELSE SubSeq(q, Len(q) - Cap + 2, Len(q))

\* Mutant: what is new does not get in.
Capped_DropsNewest(q) == IF Len(q) <= Cap THEN q ELSE SubSeq(q, 1, Cap)

\* The oldest samples go.
Capped(q) == IF Len(q) <= Cap THEN q ELSE SubSeq(q, Len(q) - Cap + 1, Len(q))

\* feed_playback_queue, one frame.
Feed ==
  /\ playback # <<>>
  /\ playback' = Tail(playback)
  /\ queue' = Capped(queue \o Prepared(Head(playback)))
  /\ newest' = Last(Prepared(Head(playback)))
  /\ UNCHANGED <<ui, micside, pc, deaf, socket, jitter, spoken, heard>>

\* The callback of the output device: what is missing is silence.
Play ==
  LET n     == Period * Channels
      taken == SubSeq(queue, 1, IF Len(queue) < n THEN Len(queue) ELSE n)
  IN /\ queue # <<>>
     /\ queue' = SubSeq(queue, Len(taken) + 1, Len(queue))
     /\ heard' = heard \o taken
     /\ UNCHANGED <<ui, micside, pc, deaf, socket, jitter, spoken, playback, newest>>

-----------------------------------------------------------------------------

Loop ==
  \/ TakeCaptured \/ SendAudio \/ Heartbeat \/ EndReceive \/ EndDrain
  \/ \E level \in Levels : Process(level)
  \/ \E p \in Peer : Drain(p)

Outside ==
  \/ ToggleMute \/ ToggleDeafen
  \/ \E n \in Chunks : Capture(n)
  \/ \E p \in Peer : PeerSpeaks(p)

Next ==
  \/ Outside \/ TimePasses \/ Loop \/ Feed \/ Play
  \/ \E p \in Peer : Receive(p)

Spec == Init /\ [][Next]_vars

\* The threads run and the output device asks again and again.
FairSpec == Spec /\ WF_vars(Loop) /\ WF_vars(Feed) /\ WF_vars(Play)

-----------------------------------------------------------------------------
(* What the worker promises of the microphone.                             *)

\* However the device cuts its chunks, every sample is in exactly one place and
\* in its order: processed, sliced, left over from slicing, or not taken yet.
MicIsWhole ==
  FlattenSeq([k \in 1..Len(processed) |-> processed[k].samples])
    \o FlattenSeq(frames) \o buffer \o FlattenSeq(captured) = [i \in 1..mic |-> i]

\* Frame i belongs to a word: a loud frame came before it, and since then never
\* more than Hangover frames in a row were low.
InWord(i) ==
  \E j \in 1..i :
    /\ processed[j].level = "loud"
    /\ \A k \in j + 1..i : k + Hangover <= i =>
         \E m \in k..k + Hangover : processed[m].level # "low"

\* While the user is not muted the words are sent, tails included, and nothing
\* else is: also the tail of a word that began while the user was muted.
WordsAreWhole ==
  \A i \in DOMAIN processed :
    processed[i].fate # "muted" => (processed[i].fate = "sent" <=> InWord(i))

\* Once the user has muted, at most the frame that is just being encoded leaves.
MuteStopsSending == sinceMute <= 1

\* A worker that has sent nothing for a while sends something, muted or not: the
\* relay goes on knowing its address.
StaysKnown == due ~> ~due

-----------------------------------------------------------------------------
(* What it promises of the voices of the peers.                            *)

DeviceFrames == Len(heard) \div Channels
DeviceFrame(k) == SubSeq(heard, (k - 1) * Channels + 1, k * Channels)

\* The channels of the output never get out of step, although samples are
\* dropped at the cap one by one: at any moment all play the same sample.
ChannelsTogether ==
  /\ Len(heard) % Channels = 0
  /\ \A k \in 1..DeviceFrames : \A c \in 1..Channels :
       DeviceFrame(k)[c] = DeviceFrame(k)[1]

\* The voice of a peer is heard in its order and nothing of it twice, whatever
\* is dropped, deafened away or interleaved with the others.
HeardInOrder ==
  \A j, k \in 1..DeviceFrames :
    LET a == DeviceFrame(j)[1]
        b == DeviceFrame(k)[1]
    IN j < k /\ a.peer = b.peer => a.at < b.at

\* When several peers speak at once their frames are queued one after the other
\* and the queue overflows; even so, what was said last is heard.
LastWordIsHeard ==
  \A s \in Sample : <>[](newest = s) => <>(\E k \in DOMAIN heard : heard[k] = s)

=============================================================================
