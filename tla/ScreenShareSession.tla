------------------------- MODULE ScreenShareSession -------------------------
(***************************************************************************)
(* The screen shares of one client over one connection: the window, the    *)
(* capture worker of each share it starts, the command queue they fill,    *)
(* the network thread that empties it, and the entry that the server keeps *)
(* for the client.                                                         *)
(*                                                                         *)
(* A worker holds the command channel of the connection it was started on, *)
(* so shares of different connections never meet.  Dimensions, codecs and  *)
(* rates are left out: a share the window starts is one the server takes.  *)
(***************************************************************************)
EXTENDS Naturals, Sequences

CONSTANTS
  Worker,  \* shares the user may start (a bound)
  None

ASSUME ShareAssumption == None \notin Worker

VARIABLES
  connected,  \* what the window believes
  share,      \* local_screen_share
  event,      \* the network event that waits to be polled, or None
  net,        \* the network thread: open, or closed
  commands,   \* frames queued for it
  job,        \* where each worker is
  running,    \* its flag, shared with the window
  reported,   \* whether an event of it waits to be polled
  serving,    \* whether the server's handler reads the connection
  sharing,    \* the worker whose StartScreenShare made the server's entry
  overlapped, \* history: workers that lived at the same time as another
  refused     \* history: workers of which the server refused a frame

window  == <<connected, share>>
workers == <<job, running, reported>>
remote  == <<serving, sharing>>
history == <<overlapped, refused>>
vars == <<connected, share, event, net, commands, job, running, reported,
          serving, sharing, overlapped, refused>>

ShareFrame == [kind : {"StartScreenShare", "ScreenShareFrame", "StopScreenShare"},
               worker : Worker]
Frame(kind, w) == [kind |-> kind, worker |-> w]
Goodbye == Frame("Disconnect", None)

Alive(w) == job[w] \notin {"unused", "ended"}

TypeOK ==
  /\ connected \in BOOLEAN /\ serving \in BOOLEAN
  /\ {share, sharing} \subseteq Worker \cup {None}
  /\ event \in {"Disconnected", "Error", None}
  /\ net \in {"open", "closed"}
  /\ commands \in Seq(ShareFrame \cup {Goodbye})
  /\ job \in [Worker -> {"unused", "starting", "capturing", "sending", "stopping", "ended"}]
  /\ running \in [Worker -> BOOLEAN] /\ reported \in [Worker -> BOOLEAN]
  /\ \A w \in Worker : running[w] => Alive(w)
  /\ overlapped \subseteq Worker /\ refused \subseteq Worker

Init ==
  /\ connected = TRUE /\ serving = TRUE /\ net = "open"
  /\ share = None /\ sharing = None /\ event = None
  /\ commands = <<>>
  /\ job = [w \in Worker |-> "unused"]
  /\ running = [w \in Worker |-> FALSE] /\ reported = [w \in Worker |-> FALSE]
  /\ overlapped = {} /\ refused = {}

Sharing == share # None /\ running[share]

\* Sender::send: it fails when the thread that receives has returned.
Sent(c) == net = "open" /\ commands' = Append(commands, c)
Failed  == net = "closed" /\ UNCHANGED commands

-----------------------------------------------------------------------------
(* The window.                                                             *)

\* ScreenShareSession::stop, and the session is dropped.
StopSession ==
  /\ share' = None
  /\ running' = [w \in Worker |-> running[w] /\ w # share]

\* A worker that was told to stop may still be capturing its last frame.
StartScreenShare(w) ==
  LET others == {v \in Worker : Alive(v)} IN
  /\ connected /\ ~Sharing /\ job[w] = "unused"
  /\ share' = w
  /\ job' = [job EXCEPT ![w] = "starting"]
  /\ running' = [running EXCEPT ![w] = TRUE]
  /\ overlapped' = IF others = {} THEN overlapped ELSE overlapped \cup others \cup {w}
  /\ UNCHANGED <<connected, event, net, commands, reported, remote, refused>>

\* Mutant: the window announces the end before the worker has ended.
StopScreenShare_Announces ==
  /\ Sharing
  /\ StopSession
  /\ Sent(Frame("StopScreenShare", share))
  /\ UNCHANGED <<connected, event, net, job, reported, remote, history>>

StopScreenShare ==
  /\ Sharing
  /\ StopSession
  /\ UNCHANGED <<connected, event, net, commands, job, reported, remote, history>>

Disconnect ==
  /\ connected
  /\ Sent(Goodbye) \/ Failed
  /\ connected' = FALSE /\ event' = None
  /\ StopSession
  /\ UNCHANGED <<net, job, reported, remote, history>>

PollDisconnected ==
  /\ event = "Disconnected"
  /\ connected' = FALSE /\ event' = None
  /\ StopSession
  /\ UNCHANGED <<net, commands, job, reported, remote, history>>

PollError ==
  /\ event = "Error" /\ event' = None
  /\ UNCHANGED <<window, net, commands, workers, remote, history>>

\* Error and Stopped alike end the session, and nothing more is polled of it.
PollWorker ==
  /\ share # None /\ reported[share]
  /\ share' = None
  /\ reported' = [reported EXCEPT ![share] = FALSE]
  /\ UNCHANGED <<connected, event, net, commands, job, running, remote, history>>

-----------------------------------------------------------------------------
(* The network thread and the server's handler.                            *)

\* What the server does with a frame: the latest StartScreenShare makes the entry,
\* any StopScreenShare removes it, a frame without an entry is answered by Error.
Handled(c) ==
  /\ sharing' = CASE c.kind = "StartScreenShare" -> c.worker
                  [] c.kind = "StopScreenShare"  -> None
                  [] OTHER                       -> sharing
  /\ refused' = IF c.kind = "ScreenShareFrame" /\ sharing = None
                THEN refused \cup {c.worker} ELSE refused
  /\ serving' = (c # Goodbye)

\* The thread returns, and the receiver of the commands with it.  The window polls
\* the event if it still has the handle.
Close(e) ==
  /\ net' = "closed" /\ commands' = <<>>
  /\ event' = IF connected THEN e ELSE None

\* One frame is written, and handled if somebody reads.
Write ==
  LET c == Head(commands) IN
  /\ net = "open" /\ commands # <<>>
  /\ \/ serving /\ Handled(c)
     \/ ~serving /\ UNCHANGED <<remote, refused>>
  /\ \/ c # Goodbye /\ commands' = Tail(commands) /\ UNCHANGED <<net, event>>
     \/ c = Goodbye /\ Close("Disconnected")
  /\ UNCHANGED <<window, workers, overlapped>>

\* A write that fails makes an Error, which leaves the window connected.
WriteFails ==
  /\ net = "open" /\ commands # <<>> /\ ~serving
  /\ Close("Error")
  /\ UNCHANGED <<window, workers, remote, history>>

EndOfStream ==
  /\ net = "open" /\ ~serving
  /\ Close("Disconnected")
  /\ UNCHANGED <<window, workers, remote, history>>

\* The server stops, or the connection breaks.
ServerEnds ==
  /\ serving /\ serving' = FALSE
  /\ UNCHANGED <<window, event, net, commands, workers, sharing, history>>

-----------------------------------------------------------------------------
(* A worker.                                                               *)

\* An event of a session the window has dropped reaches nobody.
Report(w) == reported' = [reported EXCEPT ![w] = (share = w)]

Goto(w, place) == job' = [job EXCEPT ![w] = place]

Announce(w) ==
  /\ job[w] = "starting"
  /\ \/ /\ Sent(Frame("StartScreenShare", w))
        /\ Goto(w, "capturing")
        /\ UNCHANGED <<running, reported>>
     \/ /\ Failed
        /\ Report(w)
        /\ running' = [running EXCEPT ![w] = FALSE]
        /\ Goto(w, "ended")
  /\ UNCHANGED <<window, event, net, remote, history>>

\* The flag is read before the capture, which takes its time and may fail.
Capture(w) ==
  /\ job[w] = "capturing"
  /\ \/ ~running[w] /\ Goto(w, "stopping") /\ UNCHANGED reported
     \/ running[w] /\ Goto(w, "sending") /\ UNCHANGED reported
     \/ running[w] /\ Goto(w, "stopping") /\ Report(w)
  /\ UNCHANGED <<window, event, net, commands, running, remote, history>>

\* Mutant: a frame that cannot be queued is only skipped.
SendFrame_GoesOn(w) ==
  LET c == Frame("ScreenShareFrame", w) IN
  /\ job[w] = "sending"
  /\ \A i \in 1..Len(commands) : commands[i] # c
  /\ Sent(c) \/ Failed
  /\ Goto(w, "capturing")
  /\ UNCHANGED <<window, event, net, running, reported, remote, history>>

\* Bound: one frame of a worker is queued at a time.
SendFrame(w) ==
  LET c == Frame("ScreenShareFrame", w) IN
  /\ job[w] = "sending"
  /\ \A i \in 1..Len(commands) : commands[i] # c
  /\ \/ Sent(c) /\ Goto(w, "capturing") /\ UNCHANGED reported
     \/ Failed /\ Goto(w, "stopping") /\ Report(w)
  /\ UNCHANGED <<window, event, net, running, remote, history>>

\* Mutant: the worker leaves without telling the server.
Finish_Silent(w) ==
  /\ job[w] = "stopping"
  /\ Report(w)
  /\ running' = [running EXCEPT ![w] = FALSE]
  /\ Goto(w, "ended")
  /\ UNCHANGED <<window, event, net, commands, remote, history>>

Finish(w) ==
  /\ job[w] = "stopping"
  /\ Sent(Frame("StopScreenShare", w)) \/ Failed
  /\ Report(w)
  /\ running' = [running EXCEPT ![w] = FALSE]
  /\ Goto(w, "ended")
  /\ UNCHANGED <<window, event, net, remote, history>>

-----------------------------------------------------------------------------

Click == Disconnect \/ StopScreenShare \/ \E w \in Worker : StartScreenShare(w)
Poll  == PollDisconnected \/ PollError \/ PollWorker
Step(w) == Announce(w) \/ Capture(w) \/ SendFrame(w) \/ Finish(w)

Next ==
  \/ Click \/ Poll
  \/ Write \/ WriteFails \/ EndOfStream \/ ServerEnds
  \/ \E w \in Worker : Step(w)

Spec == Init /\ [][Next]_vars

\* Threads are scheduled, and the window repaints, and polls, every 100 ms.
FairSpec ==
  /\ Spec
  /\ WF_vars(Poll) /\ WF_vars(Write) /\ WF_vars(EndOfStream)
  /\ \A w \in Worker : WF_vars(Step(w))

-----------------------------------------------------------------------------

\* The server refuses no frame of a share that was alone, the one in flight when the
\* user stops it included.  A share started while the worker of another one is still
\* finishing is not safe: the late StopScreenShare of the older removes its entry.
FramesAreServed == refused \subseteq overlapped

\* A share that was told to stop, or failed, leaves the server for good, or the
\* connection is over.
SharesEnd ==
  \A w \in Worker :
    (job[w] # "unused" /\ ~running[w]) ~> [](serving => sharing # w)

\* The window does not go on sharing over a connection that has ended, also when
\* it was not told so: then the worker finds nobody to send its frames to.
SharesEndWithConnection == (net = "closed") ~> share = None

=============================================================================
