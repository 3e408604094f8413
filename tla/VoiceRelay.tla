----------------------------- MODULE VoiceRelay -----------------------------
(***************************************************************************)
(* Voice from the microphone of one client to the ears of another: joining *)
(* the room over TCP, the UDP relay of the server that learns addresses    *)
(* from the datagrams it gets, and the voice workers, each with a socket   *)
(* of its own.  A port that one worker has given back may be given to      *)
(* another.                                                                *)
(*                                                                         *)
(* Datagrams are lost and overtake one another; duplicates are the matter  *)
(* of VoiceStream.  A connection may break, and its user may be back       *)
(* before the server has seen it.  Clients know one room.                  *)
(***************************************************************************)
EXTENDS Naturals, Sequences, FiniteSets

CONSTANTS
  User,
  Talkers,   \* users who speak; the others have nothing to send but heartbeats
  Conn,      \* TCP connections (a bound)
  OwnerOf,   \* connection -> its user
  Port,      \* UDP ports of the clients
  MaxJoins,  \* bound: user -> voice workers the user's client starts
  MaxPending, \* bound: frames a client sends ahead of the server
  None       \* absence of a connection, a port or a datagram

ASSUME RelayAssumption ==
  /\ Talkers \subseteq User /\ OwnerOf \in [Conn -> User]
  /\ MaxJoins \in [User -> Nat] /\ MaxPending \in Nat
  /\ None \notin Conn \cup Port

VARIABLES
  current,    \* the connection each client uses
  voice,      \* the port of each client's running voice worker
  joins,      \* voice workers each client has started
  heard,      \* whose audio each worker has played
  phase,      \* each connection: new, open, closing (its client is gone), closed
  requests,   \* frames the server has not read yet
  members,    \* voice_rooms: the members of the room
  voiceAddrs, \* user -> the port its last datagram came from
  uplink,     \* datagrams sent to the server (a lost one stays here)
  relay,      \* the next step of the relay task
  packet,     \* the datagram it has received
  targets,    \* ports it still has to send it to
  displaced   \* history: users of whom an older connection ended while they
              \* used a newer one

clients == <<current, voice, joins, heard>>
server  == <<phase, requests, members, voiceAddrs>>
network == <<uplink, relay, packet, targets>>
vars == <<current, voice, joins, heard, phase, requests, members, voiceAddrs,
          uplink, relay, packet, targets, displaced>>

\* Audio has a payload; a heartbeat has none.
Datagram == [user : User, port : Port, audio : BOOLEAN]

TypeOK ==
  /\ current \in [User -> Conn \cup {None}]
  /\ voice \in [User -> Port \cup {None}]
  /\ joins \in [User -> Nat] /\ \A u \in User : joins[u] <= MaxJoins[u]
  /\ heard \in [User -> SUBSET User]
  /\ phase \in [Conn -> {"new", "open", "closing", "closed"}]
  /\ requests \in [Conn -> Seq({"JoinVoice", "LeaveVoice"})]
  /\ members \subseteq User
  /\ voiceAddrs \in [User -> Port \cup {None}]
  /\ uplink \subseteq Datagram
  /\ relay \in {"receive", "route", "forward", "ended"}
  /\ packet \in Datagram \cup {None}
  /\ targets \subseteq Port
  /\ displaced \subseteq User

Init ==
  /\ current = [u \in User |-> None]
  /\ voice = [u \in User |-> None]
  /\ joins = [u \in User |-> 0]
  /\ heard = [u \in User |-> {}]
  /\ phase = [c \in Conn |-> "new"]
  /\ requests = [c \in Conn |-> <<>>]
  /\ members = {}
  /\ voiceAddrs = [u \in User |-> None]
  /\ uplink = {}
  /\ relay = "receive" /\ packet = None /\ targets = {}
  /\ displaced = {}

-----------------------------------------------------------------------------
(* Clients.                                                                *)

\* Connecting and authenticating, in one step.
Connect(c) ==
  LET u == OwnerOf[c] IN
  /\ phase[c] = "new" /\ current[u] = None
  /\ phase' = [phase EXCEPT ![c] = "open"]
  /\ current' = [current EXCEPT ![u] = c]
  /\ UNCHANGED <<voice, joins, heard, requests, members, voiceAddrs, network, displaced>>

\* The user disconnects, or the client finds the connection broken: the worker
\* stops, and what was sent before may still be read by the server.
EndConnection(u) ==
  /\ current[u] # None
  /\ phase' = [phase EXCEPT ![current[u]] = "closing"]
  /\ current' = [current EXCEPT ![u] = None]
  /\ voice' = [voice EXCEPT ![u] = None]
  /\ UNCHANGED <<joins, heard, requests, members, voiceAddrs, network, displaced>>

Request(u, r) ==
  /\ Len(requests[current[u]]) < MaxPending
  /\ requests' = [requests EXCEPT ![current[u]] = Append(@, r)]

\* The worker binds port 0: any port that no socket has.
JoinVoice(u, p) ==
  /\ current[u] # None /\ voice[u] = None /\ joins[u] < MaxJoins[u]
  /\ \A v \in User : voice[v] # p
  /\ Request(u, "JoinVoice")
  /\ voice' = [voice EXCEPT ![u] = p]
  /\ joins' = [joins EXCEPT ![u] = @ + 1]
  /\ heard' = [heard EXCEPT ![u] = {}]
  /\ UNCHANGED <<current, phase, members, voiceAddrs, network, displaced>>

LeaveVoice(u) ==
  /\ voice[u] # None
  /\ Request(u, "LeaveVoice")
  /\ voice' = [voice EXCEPT ![u] = None]
  /\ UNCHANGED <<current, joins, heard, phase, members, voiceAddrs, network, displaced>>

\* Mutant: no heartbeats when there is nothing to say.
Send_AudioOnly(u) ==
  /\ voice[u] # None /\ u \in Talkers /\ relay # "ended"
  /\ uplink' = uplink \cup {[user |-> u, port |-> voice[u], audio |-> TRUE]}
  /\ UNCHANGED <<clients, server, relay, packet, targets, displaced>>

\* run_voice_worker: audio while the gate is open, and a heartbeat when nothing
\* else has been sent for a while.
Send(u) ==
  /\ voice[u] # None /\ relay # "ended"
  /\ uplink' = uplink \cup {[user |-> u, port |-> voice[u], audio |-> u \in Talkers]}
  /\ UNCHANGED <<clients, server, relay, packet, targets, displaced>>

-----------------------------------------------------------------------------
(* The server's connection tasks.                                          *)

\* join_voice and leave_voice.
Serve(c) ==
  LET u == OwnerOf[c] IN
  /\ phase[c] \in {"open", "closing"} /\ requests[c] # <<>>
  /\ requests' = [requests EXCEPT ![c] = Tail(@)]
  /\ members' = IF Head(requests[c]) = "JoinVoice" THEN members \cup {u}
                ELSE members \ {u}
  /\ UNCHANGED <<clients, phase, voiceAddrs, network, displaced>>

\* Mutant: the address is forgotten and the membership is not.
DisconnectUser_KeepsMember(c) ==
  LET u == OwnerOf[c] IN
  /\ phase[c] = "closing" /\ requests[c] = <<>>
  /\ phase' = [phase EXCEPT ![c] = "closed"]
  /\ voiceAddrs' = [voiceAddrs EXCEPT ![u] = None]
  /\ displaced' = IF current[u] # None THEN displaced \cup {u} ELSE displaced
  /\ UNCHANGED <<clients, requests, members, network>>

\* disconnect_user, by user id: whatever a newer connection of the user has
\* stored goes too.
DisconnectUser(c) ==
  LET u == OwnerOf[c] IN
  /\ phase[c] = "closing" /\ requests[c] = <<>>
  /\ phase' = [phase EXCEPT ![c] = "closed"]
  /\ members' = members \ {u}
  /\ voiceAddrs' = [voiceAddrs EXCEPT ![u] = None]
  /\ displaced' = IF current[u] # None THEN displaced \cup {u} ELSE displaced
  /\ UNCHANGED <<clients, requests, network>>

-----------------------------------------------------------------------------
(* run_voice_relay: one datagram after another.                            *)

\* recv_from and remember_voice_addr.
Receive(d) ==
  /\ relay = "receive" /\ d \in uplink
  /\ uplink' = uplink \ {d}
  /\ voiceAddrs' = [voiceAddrs EXCEPT ![d.user] = d.port]
  /\ relay' = "route" /\ packet' = d
  /\ UNCHANGED <<clients, phase, requests, members, targets, displaced>>

\* An error of recv_from ends the task, and its socket closes: for the life of
\* the server, whatever is sent goes nowhere.
RelayEnds ==
  /\ relay = "receive"
  /\ relay' = "ended" /\ uplink' = {}
  /\ UNCHANGED <<clients, server, packet, targets, displaced>>

\* The datagram has been sent to all: recv_from is awaited again.
Turn(left) ==
  /\ targets' = left
  /\ IF left = {} THEN relay' = "receive" /\ packet' = None
                   ELSE relay' = "forward" /\ UNCHANGED packet

\* voice_targets: the members whose address is known, without the sender.
Route ==
  /\ relay = "route"
  /\ Turn({voiceAddrs[u] : u \in members \ {packet.user}} \ {None})
  /\ UNCHANGED <<clients, server, uplink, displaced>>

\* Mutant: a worker plays whatever has a payload.
Played_Everything(u, d) == IF d.audio THEN heard[u] \cup {d.user} ELSE heard[u]

\* A worker plays audio that is not its own user's.
Played(u, d) ==
  IF d.audio /\ d.user # u THEN heard[u] \cup {d.user} ELSE heard[u]

\* One send_to, before the next.
SendTo(p) ==
  /\ relay = "forward" /\ p \in targets
  /\ Turn(targets \ {p})
  /\ UNCHANGED <<current, voice, joins, server, uplink, displaced>>

\* The datagram reaches the worker that has the port, if any.
Arrive(p) ==
  /\ SendTo(p)
  /\ heard' = [u \in User |-> IF voice[u] = p THEN Played(u, packet) ELSE heard[u]]

\* It is lost on the way.
Vanish(p) == SendTo(p) /\ UNCHANGED heard

-----------------------------------------------------------------------------

ServerTask == \E c \in Conn : Serve(c) \/ DisconnectUser(c)

RelayTask == Route \/ \E p \in Port : Arrive(p) \/ Vanish(p)

ReceiveFrom(u) == \E d \in Datagram : d.user = u /\ Receive(d)

\* A datagram of v comes through to the worker of u.
ComesThrough(u, v) ==
  /\ packet # None /\ packet.user = v
  /\ \E p \in Port : voice[u] = p /\ Arrive(p)

Next ==
  \/ \E c \in Conn : Connect(c)
  \/ \E u \in User :
       \/ EndConnection(u) \/ LeaveVoice(u) \/ Send(u) \/ ReceiveFrom(u)
       \/ \E p \in Port : JoinVoice(u, p)
  \/ ServerTask \/ RelayTask \/ RelayEnds

Spec == Init /\ [][Next]_vars

\* Workers keep sending and tasks that can run do; of the datagrams that are sent
\* again and again, some come through.
FairSpec ==
  /\ Spec
  /\ WF_vars(ServerTask) /\ WF_vars(RelayTask)
  /\ \A u \in User : WF_vars(Send(u)) /\ SF_vars(ReceiveFrom(u))
  /\ \A u \in User : \A v \in Talkers \ {u} : SF_vars(ComesThrough(u, v))

-----------------------------------------------------------------------------
(* What the relay promises.                                                *)

\* A worker never plays its own user's voice, even when its port is the one the
\* relay still knows for another member.
NoOwnVoice == \A u \in User : u \notin heard[u]

\* Once a user's connections are closed, the user is in no room, and no datagram
\* that comes in late can put them back: the relay sends them nothing more.
GoneGetsNothing ==
  \A u \in User :
    (\A c \in Conn : OwnerOf[c] = u => phase[c] \in {"new", "closed"})
      => u \notin members

\* Two users in the room, one of whom speaks: the other hears it in time, or one
\* of them leaves.  The address of a worker is learned although it is silent, a
\* stale address is replaced, and losses do not matter.  A relay that has ended
\* and a user whose older connection ended late are excepted.
VoiceIsHeard ==
  \A u \in User : \A v \in Talkers \ {u} :
    (voice[u] # None /\ voice[v] # None)
      ~> (\/ v \in heard[u] \/ voice[u] = None \/ voice[v] = None
          \/ relay = "ended" \/ u \in displaced)

=============================================================================
