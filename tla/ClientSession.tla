---------------------------- MODULE ClientSession ----------------------------
(***************************************************************************)
(* The desktop client's window and the network thread of each              *)
(* NetworkHandle it opened, with the server's handler at the other end of  *)
(* every connection: connecting, losing and ending connections, the voice  *)
(* session, and one share of another user that the server tells of.        *)
(*                                                                         *)
(* Threads talk over channels that nobody waits on.  A handle the window   *)
(* has dropped takes its event receiver along, so only the events of the   *)
(* current handle are kept.  Chat, invites and lists, which pass through   *)
(* the same queues and change nothing modelled here, are left out; the     *)
(* client's own screen shares are ScreenShareSession.                      *)
(***************************************************************************)
EXTENDS Naturals, Sequences

CONSTANTS
  Handle,     \* connections the window may open (a bound)
  None,
  MaxQueue,   \* bound: lines or events in a queue that the sender does not limit
  MaxOps      \* bound: clicks of the user, and lines about the other user's share

ASSUME ClientAssumption ==
  /\ None \notin Handle
  /\ MaxQueue \in Nat \ {0} /\ MaxOps \in Nat

VARIABLES
  connected, network, userId,  \* the window: NetworkHandle, and whose Welcome
  voice,      \* whose user id the voice worker speaks with, None if stopped
  shown,      \* whether the other user's share is in remote_screen_shares
  events,     \* the current handle's events
  net,        \* each network thread: unused, connecting, open, closed
  commands,   \* frames sent to each handle and not written yet
  wire,       \* lines written by the server and not read yet
  torn,       \* whether the beginning of the next line was read and dropped
  server,     \* each connection's handler: none, waiting, serving, ended
  remote,     \* whether the other user shares
  ops,        \* clicks and lines so far, up to MaxOps
  lost,       \* history: handles of which a line was torn
  replaced,   \* history: handles dropped without Disconnect by a new connect
  dropped,    \* history: handles that ended by themselves
  unsent      \* history: handles that ended with a failed write

window  == <<connected, network, userId, voice, shown>>
threads == <<net, commands, wire, torn>>
remotes == <<server, remote, ops>>
history == <<lost, replaced, dropped, unsent>>
vars == <<connected, network, userId, voice, shown, events,
          net, commands, wire, torn, server, remote, ops, lost, replaced, dropped, unsent>>

Command == {"JoinVoice", "LeaveVoice", "Disconnect"}
Line  == {"Welcome", "Error", "ScreenShareStarted", "ScreenShareStopped", "ScreenShareFrame"}
Event == Line \cup {"Connected", "Disconnected"}

TypeOK ==
  /\ connected \in BOOLEAN /\ shown \in BOOLEAN /\ remote \in BOOLEAN
  /\ {network, userId, voice} \subseteq Handle \cup {None}
  /\ events \in Seq(Event)
  /\ network = None => events = <<>> /\ ~connected
  /\ net \in [Handle -> {"unused", "connecting", "open", "closed"}]
  /\ commands \in [Handle -> Seq(Command)]
  /\ wire \in [Handle -> Seq(Line)]
  /\ torn \in [Handle -> BOOLEAN]
  /\ server \in [Handle -> {"none", "waiting", "serving", "ended"}]
  /\ lost \subseteq Handle /\ replaced \subseteq Handle /\ dropped \subseteq Handle
  /\ unsent \subseteq Handle
  /\ ops \in 0..MaxOps

Init ==
  /\ connected = FALSE /\ network = None /\ userId = None
  /\ voice = None /\ shown = FALSE /\ remote = FALSE /\ ops = 0
  /\ events = <<>>
  /\ net = [h \in Handle |-> "unused"] /\ server = [h \in Handle |-> "none"]
  /\ commands = [h \in Handle |-> <<>>] /\ wire = [h \in Handle |-> <<>>]
  /\ torn = [h \in Handle |-> FALSE]
  /\ lost = {} /\ replaced = {} /\ dropped = {} /\ unsent = {}

Count == ops < MaxOps /\ ops' = ops + 1

\* Sender::send: nothing happens when the receiving thread has returned.
Queue(h, c) ==
  commands' = IF net[h] = "closed" THEN commands
              ELSE [commands EXCEPT ![h] = Append(@, c)]

-----------------------------------------------------------------------------
(* The window: what the user clicks.                                       *)

\* The handle the window had is dropped, whatever its thread is doing.
Connect(h) ==
  /\ Count
  /\ ~connected /\ net[h] = "unused"
  /\ network' = h /\ events' = <<>>
  /\ net' = [net EXCEPT ![h] = "connecting"]
  /\ replaced' = IF network = None THEN replaced ELSE replaced \cup {network}
  /\ UNCHANGED <<connected, userId, voice, shown, commands, wire, torn,
                 server, remote, lost, dropped, unsent>>

\* Mutants of Disconnect: one thing is not done.
DisconnectKeeping(kept) ==
  /\ Count /\ connected
  /\ IF kept = "thread" THEN UNCHANGED commands ELSE Queue(network, "Disconnect")
  /\ connected' = FALSE /\ network' = None
  /\ events' = <<>> /\ userId' = None /\ voice' = None
  /\ shown' = (kept = "shown" /\ shown)
  /\ UNCHANGED <<net, wire, torn, server, remote, history>>

Disconnect_KeepsThread == DisconnectKeeping("thread")
Disconnect_KeepsShares == DisconnectKeeping("shown")

Disconnect ==
  /\ Count /\ connected
  /\ Queue(network, "Disconnect")
  /\ connected' = FALSE /\ network' = None /\ events' = <<>>
  /\ userId' = None /\ voice' = None /\ shown' = FALSE
  /\ UNCHANGED <<net, wire, torn, server, remote, history>>

\* The worker gets the user id known now; VoiceSession::stop joins the one before.
JoinVoice ==
  /\ Count
  /\ connected /\ voice = None /\ userId # None
  /\ Queue(network, "JoinVoice")
  /\ voice' = userId
  /\ UNCHANGED <<connected, network, userId, shown, events, net, wire, torn,
                 server, remote, history>>

LeaveVoice ==
  /\ Count /\ voice # None
  /\ Queue(network, "LeaveVoice")
  /\ voice' = None
  /\ UNCHANGED <<connected, network, userId, shown, events, net, wire, torn,
                 server, remote, history>>

-----------------------------------------------------------------------------
(* The window: what it polls at the start of a frame.                      *)

Take(e) == events # <<>> /\ Head(events) = e /\ events' = Tail(events)

PollConnected ==
  /\ Take("Connected")
  /\ connected' = TRUE
  /\ UNCHANGED <<network, userId, voice, shown, threads, remotes, history>>

PollWelcome ==
  /\ Take("Welcome")
  /\ connected' = TRUE /\ userId' = network
  /\ UNCHANGED <<network, voice, shown, threads, remotes, history>>

\* A ScreenShareFrame makes the entry that a missed ScreenShareStarted did not.
PollShare ==
  /\ \/ (Take("ScreenShareStarted") \/ Take("ScreenShareFrame")) /\ shown' = TRUE
     \/ Take("ScreenShareStopped") /\ shown' = FALSE
  /\ UNCHANGED <<connected, network, userId, voice, threads, remotes, history>>

PollError ==
  /\ Take("Error")
  /\ UNCHANGED <<window, threads, remotes, history>>

\* Unlike Disconnect, this leaves the handle and the user id of the Welcome.
PollDisconnected ==
  /\ Take("Disconnected")
  /\ connected' = FALSE /\ voice' = None /\ shown' = FALSE
  /\ dropped' = dropped \cup {network}
  /\ UNCHANGED <<network, userId, threads, remotes, lost, replaced, unsent>>

-----------------------------------------------------------------------------
(* A network thread, and the server's handler behind it.                   *)

Tell(h, e) == events' = IF network = h THEN Append(events, e) ELSE events

\* The thread returns, and with it the receiver of the commands.
Close(h) ==
  /\ net' = [net EXCEPT ![h] = "closed"]
  /\ commands' = [commands EXCEPT ![h] = <<>>]
  /\ wire' = [wire EXCEPT ![h] = <<>>]
  /\ torn' = [torn EXCEPT ![h] = FALSE]

\* The connection stands and the first frame is written.
Open(h) ==
  /\ net[h] = "connecting"
  /\ net' = [net EXCEPT ![h] = "open"]
  /\ server' = [server EXCEPT ![h] = "waiting"]
  /\ Tell(h, "Connected")
  /\ UNCHANGED <<window, commands, wire, torn, remote, ops, history>>

OpenFails(h) ==
  /\ net[h] = "connecting"
  /\ Close(h)
  /\ Tell(h, "Error")
  /\ UNCHANGED <<window, remotes, history>>

\* The server's handler ends with Disconnect; the voice rooms are Hub's.
Handled(h, c) ==
  server' = IF c = "Disconnect" THEN [server EXCEPT ![h] = "ended"] ELSE server

\* Mutant: Disconnect ends the loop over the commands before it is written.
Write_Breaks(h) ==
  /\ net[h] = "open" /\ commands[h] # <<>> /\ server[h] # "waiting"
  /\ commands' = [commands EXCEPT ![h] = Tail(@)]
  /\ UNCHANGED <<window, events, net, wire, torn, remotes, history>>

\* The thread writes a frame and the server, once it answered the first one, reads
\* it.  The two are one step: the client sees the difference only in how late it
\* learns that nobody reads any more.
Write(h) ==
  LET c == Head(commands[h]) IN
  /\ net[h] = "open" /\ commands[h] # <<>> /\ server[h] # "waiting"
  /\ Handled(h, c)
  /\ \/ /\ c # "Disconnect"
        /\ commands' = [commands EXCEPT ![h] = Tail(@)]
        /\ UNCHANGED <<net, wire, torn, events>>
     \/ c = "Disconnect" /\ Close(h) /\ Tell(h, "Disconnected")
  /\ UNCHANGED <<window, remote, ops, history>>

\* The peer is gone and the write reports it: an Error, and no Disconnected.
WriteFails(h) ==
  /\ net[h] = "open" /\ commands[h] # <<>> /\ server[h] = "ended"
  /\ Close(h)
  /\ Tell(h, "Error")
  /\ unsent' = unsent \cup {h}
  /\ UNCHANGED <<window, remotes, lost, replaced, dropped>>

\* The rest of a torn line is taken for a line, which does not parse.
Read(h) ==
  /\ net[h] = "open" /\ wire[h] # <<>>
  /\ network = h => Len(events) < MaxQueue
  /\ Tell(h, IF torn[h] THEN "Error" ELSE Head(wire[h]))
  /\ wire' = [wire EXCEPT ![h] = Tail(@)]
  /\ torn' = [torn EXCEPT ![h] = FALSE]
  /\ UNCHANGED <<window, net, commands, remotes, history>>

\* The read timeout ends read_line with part of a line in its buffer, and the
\* buffer is a new one in the next round.
TimeoutInLine(h) ==
  /\ net[h] = "open" /\ wire[h] # <<>>
  /\ torn' = [torn EXCEPT ![h] = TRUE]
  /\ lost' = lost \cup {h}
  /\ UNCHANGED <<window, events, net, commands, wire, remotes,
                 replaced, dropped, unsent>>

\* Mutant: the end of the stream is taken for one more error.
EndOfStream_Error(h) ==
  /\ net[h] = "open" /\ server[h] = "ended"
  /\ Close(h)
  /\ Tell(h, "Error")
  /\ UNCHANGED <<window, remotes, history>>

\* End of stream, or a reset that takes with it what was not read.
EndOfStream(h) ==
  /\ net[h] = "open" /\ server[h] = "ended"
  /\ Close(h)
  /\ Tell(h, "Disconnected")
  /\ UNCHANGED <<window, remotes, history>>

Answer(h) ==
  /\ server[h] = "waiting"
  /\ \/ /\ server' = [server EXCEPT ![h] = "serving"]
        /\ wire' = [wire EXCEPT ![h] = Append(@, "Welcome")]
     \/ /\ server' = [server EXCEPT ![h] = "ended"]
        /\ wire' = [wire EXCEPT ![h] = Append(@, "Error")]
  /\ UNCHANGED <<window, events, net, commands, torn, remote, ops, history>>

\* The server stops, or the connection breaks.
ServerEnds(h) ==
  /\ server[h] = "serving"
  /\ server' = [server EXCEPT ![h] = "ended"]
  /\ UNCHANGED <<window, events, threads, remote, ops, history>>

\* What the other user's share does reaches every client that is served.
RemoteShares(line) ==
  LET served == {h \in Handle : server[h] = "serving" /\ net[h] = "open"} IN
  /\ Count
  /\ \A h \in served : Len(wire[h]) < MaxQueue
  /\ line = "ScreenShareStarted" \/ remote
  /\ remote' = (line # "ScreenShareStopped")
  /\ wire' = [h \in Handle |-> IF h \in served THEN Append(wire[h], line) ELSE wire[h]]
  /\ UNCHANGED <<window, events, net, commands, torn, server, history>>

-----------------------------------------------------------------------------

Click == Disconnect \/ JoinVoice \/ LeaveVoice \/ \E h \in Handle : Connect(h)

Poll == PollConnected \/ PollWelcome \/ PollShare \/ PollError \/ PollDisconnected

Thread(h) ==
  \/ Open(h) \/ OpenFails(h) \/ Write(h) \/ WriteFails(h)
  \/ Read(h) \/ TimeoutInLine(h) \/ EndOfStream(h)

Server ==
  \/ \E h \in Handle : Answer(h) \/ ServerEnds(h)
  \/ \E line \in Line \ {"Welcome", "Error"} : RemoteShares(line)

Next ==
  \/ Click \/ Poll \/ Server
  \/ \E h \in Handle : Thread(h)

Spec == Init /\ [][Next]_vars

\* Threads are scheduled, a thread empties its commands before it reads, a server
\* that is there answers, and the window repaints, and polls, every 100 ms.
FairSpec ==
  /\ Spec
  /\ WF_vars(Poll)
  /\ \A h \in Handle :
       /\ WF_vars(Open(h) \/ OpenFails(h))
       /\ WF_vars(Write(h))
       /\ WF_vars(EndOfStream(h))
       /\ WF_vars(Answer(h))

-----------------------------------------------------------------------------

\* A window that shows itself as not connected neither speaks nor shows
\* anything of a connection it had, however that one ended.
OfflineIsQuiet == ~connected => voice = None /\ ~shown

\* Nobody clicks twice: a connection the window does not use any more ends,
\* unless it was replaced while the window waited for it.  Connect stays enabled
\* until the Connected event, and nothing closes the handle it replaces.
NoOrphan ==
  \A h \in Handle :
    net[h] \in {"connecting", "open"} /\ h # network =>
      \/ h \in replaced
      \/ \E i \in 1..Len(commands[h]) : commands[h][i] = "Disconnect"

\* The voice worker speaks as the user of the current connection, unless it was
\* started before the Welcome of a connection that followed one lost: the user
\* id of a lost connection is not reset.
VoiceIsOurs == voice # None => voice = network \/ voice \in dropped

\* Whatever ends a connection, the window is left with what is its own: no voice, no
\* share and no thread of a connection it does not use.
OwnsItsResources == OfflineIsQuiet /\ NoOrphan /\ VoiceIsOurs

\* When everything is read and polled, the window knows whose connection it is and
\* shows no share that has ended, unless a line was torn.
SettledWindow ==
  ( /\ connected /\ events = <<>> /\ network \notin lost
    /\ net[network] = "open" /\ server[network] = "serving" /\ wire[network] = <<>> )
  => userId = network /\ (shown => remote)

\* A connection that was told to end ends, whatever the server does and however
\* much there is to read.
DisconnectsEnd ==
  \A h \in Handle :
    (\E i \in 1..Len(commands[h]) : commands[h][i] = "Disconnect") ~> net[h] = "closed"

\* A connection that is over is noticed by the window that uses it, unless its end
\* showed itself in a failed write, which the window takes for one more error.
EndIsNoticed ==
  \A h \in Handle :
    (network = h /\ net[h] = "closed") ~> (network # h \/ ~connected \/ h \in unsent)

=============================================================================
