-------------------------------- MODULE Hub --------------------------------
(***************************************************************************)
(* The connection hub of the server: InnerState (the registered users, the *)
(* voice rooms, the learned UDP addresses and the active screen shares)    *)
(* behind one RwLock, and one task per TCP connection that reads client    *)
(* frames and runs their handlers.                                         *)
(*                                                                         *)
(* A step is one critical section.  A handler takes the lock several times *)
(* and other tasks run in between: a broadcast reads its content in one    *)
(* section, its targets in another, and then sends to each target's        *)
(* channel in turn.  What a handler still has to broadcast is todo[c].     *)
(***************************************************************************)
EXTENDS Naturals, Sequences

CONSTANTS
  Conn,       \* accepted TCP connections
  User,       \* user ids
  Room,       \* voice rooms
  Addr,       \* UDP source addresses
  AccountOf,  \* the users each connection may authenticate as
  MaxOps,     \* bound: requests and datagrams the server handles
  None        \* absence of a connection, a user or an address

ASSUME NoneAssumption == None \notin Conn \cup User \cup Addr
ASSUME AccountAssumption == AccountOf \in [Conn -> SUBSET User]

VARIABLES
  users,         \* user -> the connection whose channel is registered for it
  voiceRooms,    \* room -> its members
  voiceAddrs,    \* user -> the address its last datagram came from
  screenShares,  \* users with an active screen share
  phase,         \* where each connection's task stands
  owner,         \* the user each connection authenticated as
  todo,          \* broadcasts each task still has to do, in order
  view,          \* the shares that the frames queued to each connection show
  ops            \* requests and datagrams handled so far

vars == <<users, voiceRooms, voiceAddrs, screenShares,
          phase, owner, todo, view, ops>>
hub  == <<users, voiceRooms, voiceAddrs, screenShares>>

-----------------------------------------------------------------------------
(* Frames that change what a client shows, and a task's pending work.      *)

Frame ==
       [type : {"UserList"}, users : SUBSET User]
  \cup [type : {"VoiceState"}, room : Room, users : SUBSET User]
  \cup [type : {"ScreenShareStarted", "ScreenShareFrame", "ScreenShareStopped"},
        user : User]

ShareFrame(kind, u) == [type |-> kind, user |-> u]

Work ==
       [op : {"userList"}]
  \cup [op : {"voiceStates"}, rooms : SUBSET Room]
  \cup [op : {"cast"}, frame : Frame, except : User \cup {None}]
  \cup [op : {"send"}, frame : Frame, to : SUBSET Conn]

UserListWork           == [op |-> "userList"]
VoiceStatesWork(rooms) == [op |-> "voiceStates", rooms |-> rooms]
CastWork(f, except)    == [op |-> "cast", frame |-> f, except |-> except]
SendWork(f, to)        == [op |-> "send", frame |-> f, to |-> to]

\* A loop over nothing is over at once.
Before(w, rest) ==
  IF \/ w.op = "voiceStates" /\ w.rooms = {}
     \/ w.op = "send" /\ w.to = {}
  THEN rest ELSE <<w>> \o rest

\* accepted: before the first frame; open: in the read loop or in a handler;
\* sharing: in start_screen_share, between its two lock sections; leaked: the
\* task ended on a read error; gone: after disconnect_user's lock section (its
\* broadcasts may be pending), or never authenticated.
Phase == {"accepted", "open", "sharing", "leaked", "gone"}

TypeOK ==
  /\ users \in [User -> Conn \cup {None}]
  /\ voiceRooms \in [Room -> SUBSET User]
  /\ voiceAddrs \in [User -> Addr \cup {None}]
  /\ screenShares \subseteq User
  /\ phase \in [Conn -> Phase]
  /\ owner \in [Conn -> User \cup {None}]
  /\ todo \in [Conn -> Seq(Work)]
  /\ view \in [Conn -> SUBSET User]
  /\ ops \in Nat

Init ==
  /\ users = [u \in User |-> None]
  /\ voiceRooms = [r \in Room |-> {}]
  /\ voiceAddrs = [u \in User |-> None]
  /\ screenShares = {}
  /\ phase = [c \in Conn |-> "accepted"]
  /\ owner = [c \in Conn |-> None]
  /\ todo = [c \in Conn |-> <<>>]
  /\ view = [c \in Conn |-> {}]
  /\ ops = 0

RoomsOf(u) == {r \in Room : u \in voiceRooms[r]}

-----------------------------------------------------------------------------
(* The life of a connection.                                               *)

\* handle_client up to the user list broadcast: the first frame authenticates
\* and register_connection overwrites any earlier entry of the same user.
Register(c, u) ==
  /\ phase[c] = "accepted"
  /\ u \in AccountOf[c]
  /\ phase' = [phase EXCEPT ![c] = "open"]
  /\ owner' = [owner EXCEPT ![c] = u]
  /\ users' = [users EXCEPT ![u] = c]
  /\ todo' = [todo EXCEPT ![c] = <<UserListWork>>]
  /\ UNCHANGED <<voiceRooms, voiceAddrs, screenShares, view, ops>>

\* End of stream, an undecodable first frame or failed authentication.
Reject(c) ==
  /\ phase[c] = "accepted"
  /\ phase' = [phase EXCEPT ![c] = "gone"]
  /\ UNCHANGED <<hub, owner, todo, view, ops>>

Idle(c) == phase[c] = "open" /\ todo[c] = <<>>

\* Mutants of Disconnect: the share is not removed; it is, but the lookup that
\* decides whether a stop is announced comes after the removal.
DisconnectKeeping(c, shares) ==
  LET u == owner[c] IN
  /\ Idle(c)
  /\ phase' = [phase EXCEPT ![c] = "gone"]
  /\ users' = [users EXCEPT ![u] = None]
  /\ voiceAddrs' = [voiceAddrs EXCEPT ![u] = None]
  /\ screenShares' = screenShares \ ({u} \ shares)
  /\ voiceRooms' = [r \in Room |-> voiceRooms[r] \ {u}]
  /\ todo' = [todo EXCEPT ![c] = <<UserListWork>>]
  /\ UNCHANGED <<owner, view, ops>>

Disconnect_KeepsShare(c) == DisconnectKeeping(c, {owner[c]})
Disconnect_Silent(c)     == DisconnectKeeping(c, {})

\* disconnect_user, reached by a Disconnect frame or by end of stream.
Disconnect(c) ==
  LET u == owner[c]
      stopped == IF u \in screenShares
                 THEN <<CastWork(ShareFrame("ScreenShareStopped", u), None)>>
                 ELSE <<>>
  IN /\ Idle(c)
     /\ phase' = [phase EXCEPT ![c] = "gone"]
     /\ users' = [users EXCEPT ![u] = None]
     /\ voiceAddrs' = [voiceAddrs EXCEPT ![u] = None]
     /\ screenShares' = screenShares \ {u}
     /\ voiceRooms' = [r \in Room |-> voiceRooms[r] \ {u}]
     /\ todo' = [todo EXCEPT ![c] =
                   stopped \o <<UserListWork>>
                     \o Before(VoiceStatesWork(RoomsOf(u)), <<>>)]
     /\ UNCHANGED <<owner, view, ops>>

\* next_line fails (reset connection, bytes that are not UTF-8): the `?` leaves
\* handle_client before disconnect_user, so the shared state stays as it is.
ReadError(c) ==
  /\ Idle(c)
  /\ phase' = [phase EXCEPT ![c] = "leaked"]
  /\ UNCHANGED <<hub, owner, todo, view, ops>>

-----------------------------------------------------------------------------
(* Request handlers, each up to its first broadcast.                       *)

\* Requests and datagrams share the budget MaxOps.
Count == ops < MaxOps /\ ops' = ops + 1

Request(c) == Idle(c) /\ Count

\* join_voice, for JoinVoice and VoiceHeartbeat: the room left is not announced.
JoinVoice(c, room) ==
  LET u == owner[c] IN
  /\ Request(c)
  /\ voiceRooms' = [r \in Room |-> IF r = room THEN voiceRooms[r] \cup {u}
                                   ELSE voiceRooms[r] \ {u}]
  /\ todo' = [todo EXCEPT ![c] = <<VoiceStatesWork({room})>>]
  /\ UNCHANGED <<users, voiceAddrs, screenShares, phase, owner, view>>

LeaveVoice(c) ==
  LET u == owner[c] IN
  /\ Request(c)
  /\ voiceRooms' = [r \in Room |-> voiceRooms[r] \ {u}]
  /\ todo' = [todo EXCEPT ![c] = Before(VoiceStatesWork(RoomsOf(u)), <<>>)]
  /\ UNCHANGED <<users, voiceAddrs, screenShares, phase, owner, view>>

\* start_screen_share with a valid request: the display name is looked up in a
\* section of its own, and a user who is not registered is ignored.
StartScreenShare(c) ==
  /\ Request(c)
  /\ phase' = [phase EXCEPT ![c] = IF users[owner[c]] # None THEN "sharing" ELSE @]
  /\ UNCHANGED <<hub, owner, todo, view>>

\* Mutant: broadcast instead of broadcast_except.
InsertShare_ToAll(c) ==
  /\ phase[c] = "sharing"
  /\ phase' = [phase EXCEPT ![c] = "open"]
  /\ screenShares' = screenShares \cup {owner[c]}
  /\ todo' = [todo EXCEPT ![c] =
                <<CastWork(ShareFrame("ScreenShareStarted", owner[c]), None)>>]
  /\ UNCHANGED <<users, voiceRooms, voiceAddrs, owner, view, ops>>

\* Its second section stores the share, whatever happened since the first.
InsertShare(c) ==
  LET u == owner[c] IN
  /\ phase[c] = "sharing"
  /\ phase' = [phase EXCEPT ![c] = "open"]
  /\ screenShares' = screenShares \cup {u}
  /\ todo' = [todo EXCEPT ![c] =
                <<CastWork(ShareFrame("ScreenShareStarted", u), u)>>]
  /\ UNCHANGED <<users, voiceRooms, voiceAddrs, owner, view, ops>>

\* Mutant: the removal is not announced.
StopScreenShare_Silent(c) ==
  /\ Request(c)
  /\ screenShares' = screenShares \ {owner[c]}
  /\ UNCHANGED <<users, voiceRooms, voiceAddrs, phase, owner, todo, view>>

StopScreenShare(c) ==
  LET u == owner[c] IN
  /\ Request(c)
  /\ u \in screenShares
  /\ screenShares' = screenShares \ {u}
  /\ todo' = [todo EXCEPT ![c] =
                <<CastWork(ShareFrame("ScreenShareStopped", u), u)>>]
  /\ UNCHANGED <<users, voiceRooms, voiceAddrs, phase, owner, view>>

\* broadcast_screen_share_frame: one section reads name and share; without a
\* share the sender gets an Error, which changes nothing here.
RelayFrame(c) ==
  LET u == owner[c] IN
  /\ Request(c)
  /\ u \in screenShares /\ users[u] # None
  /\ todo' = [todo EXCEPT ![c] =
                <<CastWork(ShareFrame("ScreenShareFrame", u), u)>>]
  /\ UNCHANGED <<hub, phase, owner, view>>

\* The UDP relay learns the source address of every datagram it can decode.
RememberVoiceAddr(u, a) ==
  /\ Count
  /\ voiceAddrs' = [voiceAddrs EXCEPT ![u] = a]
  /\ UNCHANGED <<users, voiceRooms, screenShares, phase, owner, todo, view>>

-----------------------------------------------------------------------------
(* Broadcasts, one lock section or one channel send at a time.             *)

NextWork(c, op) == todo[c] # <<>> /\ Head(todo[c]).op = op

\* broadcast_user_list: the section that collects the registered users.
SnapshotUsers(c) ==
  /\ NextWork(c, "userList")
  /\ LET registered == {u \in User : users[u] # None}
         frame == [type |-> "UserList", users |-> registered]
     IN todo' = [todo EXCEPT ![c] = <<CastWork(frame, None)>> \o Tail(@)]
  /\ UNCHANGED <<hub, phase, owner, view, ops>>

\* broadcast_voice_state for the rooms of a list whose order is a HashMap's.
SnapshotRoom(c) ==
  /\ NextWork(c, "voiceStates")
  /\ \E r \in Head(todo[c]).rooms :
       LET present == {u \in voiceRooms[r] : users[u] # None}
           frame == [type |-> "VoiceState", room |-> r, users |-> present]
           others == Head(todo[c]).rooms \ {r}
       IN todo' = [todo EXCEPT ![c] =
                     <<CastWork(frame, None)>>
                       \o Before(VoiceStatesWork(others), Tail(@))]
  /\ UNCHANGED <<hub, phase, owner, view, ops>>

\* broadcast and broadcast_except: the section that clones the channels.
CollectTargets(c) ==
  /\ NextWork(c, "cast")
  /\ LET cast == Head(todo[c])
         others == User \ {cast.except}
         targets == {users[u] : u \in others} \ {None}
     IN todo' = [todo EXCEPT ![c] = Before(SendWork(cast.frame, targets), Tail(@))]
  /\ UNCHANGED <<hub, phase, owner, view, ops>>

\* How a client folds a frame into the shares it shows (apply_server_frame): a
\* ScreenShareFrame alone is enough to show one.  The lists of users and of the
\* members of a room are left out of the view: no property reads them.
Shown(v, f) ==
  CASE f.type \in {"ScreenShareStarted", "ScreenShareFrame"} -> v \cup {f.user}
    [] f.type = "ScreenShareStopped" -> v \ {f.user}
    [] OTHER -> v

\* One tx.send: a channel is FIFO, so the view folds frames in queue order.
\* The writer task of a connection that is gone has been aborted.
SendOne(c) ==
  /\ NextWork(c, "send")
  /\ \E d \in Head(todo[c]).to :
       /\ todo' = [todo EXCEPT ![c] =
                     Before(SendWork(Head(@).frame, Head(@).to \ {d}), Tail(@))]
       /\ view' = [view EXCEPT ![d] = IF phase[d] = "gone" THEN @
                                      ELSE Shown(@, Head(todo[c]).frame)]
  /\ UNCHANGED <<hub, phase, owner, ops>>

-----------------------------------------------------------------------------

Broadcast(c) ==
  \/ SnapshotUsers(c) \/ SnapshotRoom(c)
  \/ CollectTargets(c) \/ SendOne(c)

Handle(c) ==
  \/ \E r \in Room : JoinVoice(c, r)
  \/ LeaveVoice(c)
  \/ StartScreenShare(c) \/ InsertShare(c)
  \/ StopScreenShare(c) \/ RelayFrame(c)

Next ==
  \/ \E c \in Conn :
       \/ \E u \in User : Register(c, u)
       \/ Reject(c) \/ Disconnect(c) \/ ReadError(c)
       \/ Handle(c)
       \/ Broadcast(c)
  \/ \E u \in User, a \in Addr : RememberVoiceAddr(u, a)

Spec == Init /\ [][Next]_vars

\* The runtime keeps polling a task that can run: a handler that has begun
\* finishes.  Nothing obliges a client to send, or a connection to end.
FairSpec ==
  /\ Spec
  /\ \A c \in Conn : WF_vars(InsertShare(c)) /\ WF_vars(Broadcast(c))

-----------------------------------------------------------------------------
(* What the hub promises.                                                  *)

\* A task that still runs, or one that a read error ended without cleaning up.
Undisconnected(c) == phase[c] \in {"open", "sharing", "leaked"}

HasOwner(u) == \E c \in Conn : owner[c] = u /\ Undisconnected(c)

\* Whatever is stored for a user (registration, room membership, screen share)
\* belongs to a connection of that user whose disconnect_user has not run, even
\* when several connections share the user id and when start_screen_share is
\* overtaken between its check and its insertion.
StateHasOwner ==
  \A u \in User :
    (users[u] # None \/ RoomsOf(u) # {} \/ u \in screenShares) => HasOwner(u)

\* The channel registered for a user is the channel of a connection of that
\* user, and never that of a task that has run disconnect_user: a broadcast
\* that looks its targets up now wastes no send and leaks to no other account.
ChannelIsCurrent ==
  \A u \in User : users[u] # None =>
    owner[users[u]] = u /\ Undisconnected(users[u])

\* join_voice moves a user between rooms in one section: nobody is ever in two
\* voice rooms, however many connections of one user join at once.
OneVoiceRoom ==
  \A u \in User, r1, r2 \in Room :
    u \in voiceRooms[r1] /\ u \in voiceRooms[r2] => r1 = r2

\* What is stored is sound: it has an owner, the registered channel is a current
\* one, and nobody is in two voice rooms.
StateIsSound == StateHasOwner /\ ChannelIsCurrent /\ OneVoiceRoom

\* The server never echoes a share to its broadcaster (broadcast_except), not
\* even to another connection of the same account.
NoEcho == \A c \in Conn : owner[c] \notin view[c]

Settled == \A c \in Conn : phase[c] # "sharing" /\ todo[c] = <<>>
SoleConnection(u) == \A c, d \in Conn : owner[c] = u /\ owner[d] = u => c = d

\* Once every broadcast is out, a client that is still connected shows no share
\* that has ended, for every broadcaster with one connection: stop, disconnect
\* and frame broadcasts reach each channel in the order of the state changes.
NoGhostShare ==
  Settled =>
    \A c \in Conn : phase[c] = "open" /\ users[owner[c]] = c =>
      \A u \in view[c] : SoleConnection(u) => u \in screenShares

\* A client that shows a share which has ended stops showing it, unless the
\* user shares again or the client's own connection ends or is displaced.
EndedSharesDisappear ==
  \A c \in Conn, u \in User :
    (u \in view[c] /\ u \notin screenShares)
      ~> (\/ u \notin view[c] \/ u \in screenShares
          \/ phase[c] # "open" \/ users[owner[c]] # c
          \/ ~SoleConnection(u))

=============================================================================
