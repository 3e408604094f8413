----------------------------- MODULE Hub_proofs -----------------------------
(***************************************************************************)
(* Proofs about Hub, for any sets of connections, users and rooms.         *)
(***************************************************************************)
EXTENDS Hub, TLAPS

-----------------------------------------------------------------------------
(* Sequences of work.                                                      *)

\* A sequence over a set is a sequence over every larger set.
LEMMA SeqMonotone ==
  ASSUME NEW S, NEW T, S \subseteq T, NEW s \in Seq(S)
  PROVE  s \in Seq(T)
  OBVIOUS

\* Putting a piece of work first, or finding it already over, keeps the element
\* set of a task's work.
LEMMA BeforeType ==
  ASSUME NEW S, NEW w \in S, NEW rest \in Seq(S)
  PROVE  Before(w, rest) \in Seq(S)
  BY DEF Before

\* Appending to a single piece of work.
LEMMA FirstType ==
  ASSUME NEW S, NEW w \in S, NEW rest \in Seq(S)
  PROVE  <<w>> \o rest \in Seq(S)
  OBVIOUS

\* Work that starts a task's list.
LEMMA BeforeNothingType ==
  ASSUME NEW S, NEW w \in S
  PROVE  Before(w, <<>>) \in Seq(S)
  <1>1. <<>> \in Seq(S)
    OBVIOUS
  <1>2. QED
    BY <1>1, BeforeType

\* The first piece of a task's work and the rest of it.
LEMMA HeadTailType ==
  ASSUME NEW S, NEW s \in Seq(S), s # <<>>
  PROVE  Head(s) \in S /\ Tail(s) \in Seq(S)
  OBVIOUS

-----------------------------------------------------------------------------
(* Type correctness.                                                       *)

LEMMA WorkTypes ==
  /\ UserListWork \in Work
  /\ \A rooms \in SUBSET Room : VoiceStatesWork(rooms) \in Work
  /\ \A f \in Frame, x \in User \cup {None} : CastWork(f, x) \in Work
  /\ \A f \in Frame, to \in SUBSET Conn : SendWork(f, to) \in Work
  BY DEF Work, UserListWork, VoiceStatesWork, CastWork, SendWork

LEMMA FrameTypes ==
  /\ \A S \in SUBSET User : [type |-> "UserList", users |-> S] \in Frame
  /\ \A r \in Room, S \in SUBSET User :
       [type |-> "VoiceState", room |-> r, users |-> S] \in Frame
  /\ \A u \in User,
        kind \in {"ScreenShareStarted", "ScreenShareFrame", "ScreenShareStopped"} :
       ShareFrame(kind, u) \in Frame
  BY DEF Frame, ShareFrame

\* What the first piece of a task's work is made of, by its kind.
LEMMA WorkParts ==
  ASSUME NEW w \in Work
  PROVE  /\ w.op = "voiceStates" => w.rooms \in SUBSET Room
         /\ w.op = "cast" => w.frame \in Frame /\ w.except \in User \cup {None}
         /\ w.op = "send" => w.frame \in Frame /\ w.to \in SUBSET Conn
  BY DEF Work

\* Applying a frame to what a client shows gives something it can show.
LEMMA ShownType ==
  ASSUME NEW v \in SUBSET User, NEW f \in Frame
  PROVE  Shown(v, f) \in SUBSET User
  <1>1. CASE f \in [type : {"UserList"}, users : SUBSET User]
    BY <1>1 DEF Shown
  <1>2. CASE f \in [type : {"VoiceState"}, room : Room, users : SUBSET User]
    BY <1>2 DEF Shown
  <1>3. CASE f \in [type : {"ScreenShareStarted", "ScreenShareFrame",
                            "ScreenShareStopped"}, user : User]
    BY <1>3 DEF Shown
  <1>4. QED
    BY <1>1, <1>2, <1>3 DEF Frame

\* A task that has authenticated has an owner.
OwnerKnown ==
  \A c \in Conn : phase[c] \in {"open", "sharing", "leaked"} => owner[c] \in User

TypeInv == TypeOK /\ OwnerKnown

THEOREM TypeCorrect == Spec => []TypeInv
  <1>1. Init => TypeInv
    BY DEF Init, TypeInv, TypeOK, OwnerKnown, Phase
  <1>2. TypeInv /\ [Next]_vars => TypeInv'
    <2> SUFFICES ASSUME TypeInv, [Next]_vars
                 PROVE  TypeInv'
      OBVIOUS
    <2> USE DEF TypeInv, TypeOK, OwnerKnown
    <2>1. ASSUME NEW c \in Conn, NEW u \in User, Register(c, u)
          PROVE  TypeInv'
      BY <2>1, WorkTypes DEF Register, Phase
    <2>2. ASSUME NEW c \in Conn, Reject(c)
          PROVE  TypeInv'
      BY <2>2 DEF Reject, Phase, hub
    <2>3. ASSUME NEW c \in Conn, Disconnect(c)
          PROVE  TypeInv'
      <3> DEFINE u == owner[c]
                 stopped == IF u \in screenShares
                            THEN <<CastWork(ShareFrame("ScreenShareStopped", u), None)>>
                            ELSE <<>>
                 states == Before(VoiceStatesWork(RoomsOf(u)), <<>>)
      <3>1. u \in User
        BY <2>3 DEF Disconnect, Idle
      <3>2. stopped \in Seq(Work)
        BY <3>1, WorkTypes, FrameTypes
      <3>3. states \in Seq(Work)
        BY <3>1, WorkTypes, BeforeNothingType DEF RoomsOf
      <3>4. stopped \o <<UserListWork>> \o states \in Seq(Work)
        BY <3>2, <3>3, WorkTypes
      <3>5. todo' = [todo EXCEPT ![c] = stopped \o <<UserListWork>> \o states]
        BY <2>3 DEF Disconnect
      <3>6. todo' \in [Conn -> Seq(Work)]
        <4> HIDE DEF stopped, states
        <4> QED BY <3>4, <3>5
      <3>7. QED
        BY <2>3, <3>1, <3>6 DEF Disconnect, Phase
    <2>4. ASSUME NEW c \in Conn, ReadError(c)
          PROVE  TypeInv'
      BY <2>4 DEF ReadError, Idle, Phase, hub
    <2>5. ASSUME NEW c \in Conn, NEW r \in Room, JoinVoice(c, r)
          PROVE  TypeInv'
      BY <2>5, WorkTypes DEF JoinVoice, Request, Count, Idle
    <2>6. ASSUME NEW c \in Conn, LeaveVoice(c)
          PROVE  TypeInv'
      <3>1. RoomsOf(owner[c]) \in SUBSET Room
        BY DEF RoomsOf
      <3>2. Before(VoiceStatesWork(RoomsOf(owner[c])), <<>>) \in Seq(Work)
        BY <3>1, WorkTypes, BeforeNothingType
      <3>3. QED
        BY <2>6, <3>2 DEF LeaveVoice, Request, Count, Idle
    <2>7. ASSUME NEW c \in Conn, StartScreenShare(c)
          PROVE  TypeInv'
      BY <2>7 DEF StartScreenShare, Request, Count, Idle, hub, Phase
    <2>8. ASSUME NEW c \in Conn, InsertShare(c)
          PROVE  TypeInv'
      <3>1. CastWork(ShareFrame("ScreenShareStarted", owner[c]), owner[c]) \in Work
        BY <2>8, WorkTypes, FrameTypes DEF InsertShare
      <3>2. QED
        BY <2>8, <3>1 DEF InsertShare, Phase
    <2>9. ASSUME NEW c \in Conn, StopScreenShare(c)
          PROVE  TypeInv'
      <3>1. CastWork(ShareFrame("ScreenShareStopped", owner[c]), owner[c]) \in Work
        BY <2>9, WorkTypes, FrameTypes DEF StopScreenShare, Request, Count, Idle
      <3>2. QED
        BY <2>9, <3>1 DEF StopScreenShare, Request, Count, Idle
    <2>10. ASSUME NEW c \in Conn, RelayFrame(c)
           PROVE  TypeInv'
      <3>1. CastWork(ShareFrame("ScreenShareFrame", owner[c]), owner[c]) \in Work
        BY <2>10, WorkTypes, FrameTypes DEF RelayFrame, Request, Count, Idle
      <3>2. QED
        BY <2>10, <3>1 DEF RelayFrame, Request, Count, Idle, hub
    <2>11. ASSUME NEW u \in User, NEW a \in Addr, RememberVoiceAddr(u, a)
           PROVE  TypeInv'
      BY <2>11 DEF RememberVoiceAddr, Count
    <2>12. ASSUME NEW c \in Conn, SnapshotUsers(c)
           PROVE  TypeInv'
      <3> DEFINE registered == {v \in User : users[v] # None}
                 w == CastWork([type |-> "UserList", users |-> registered], None)
      <3>1. w \in Work
        BY WorkTypes, FrameTypes
      <3>2. <<w>> \o Tail(todo[c]) \in Seq(Work)
        BY <2>12, <3>1, HeadTailType, FirstType DEF SnapshotUsers, NextWork
      <3>3. QED
        BY <2>12, <3>2 DEF SnapshotUsers, hub
    <2>13. ASSUME NEW c \in Conn, SnapshotRoom(c)
           PROVE  TypeInv'
      <3>1. Head(todo[c]).rooms \in SUBSET Room /\ Tail(todo[c]) \in Seq(Work)
        BY <2>13, HeadTailType, WorkParts DEF SnapshotRoom, NextWork
      <3>2. PICK r \in Head(todo[c]).rooms :
              LET present == {u \in voiceRooms[r] : users[u] # None}
                  frame == [type |-> "VoiceState", room |-> r, users |-> present]
                  others == Head(todo[c]).rooms \ {r}
              IN todo' = [todo EXCEPT ![c] =
                            <<CastWork(frame, None)>>
                              \o Before(VoiceStatesWork(others), Tail(@))]
        BY <2>13 DEF SnapshotRoom
      <3> DEFINE present == {u \in voiceRooms[r] : users[u] # None}
                 frame == [type |-> "VoiceState", room |-> r, users |-> present]
                 rest == Before(VoiceStatesWork(Head(todo[c]).rooms \ {r}),
                                Tail(todo[c]))
      <3>3. CastWork(frame, None) \in Work
        BY <3>1, WorkTypes, FrameTypes
      <3>4. rest \in Seq(Work)
        BY <3>1, WorkTypes, BeforeType
      <3>5. <<CastWork(frame, None)>> \o rest \in Seq(Work)
        BY <3>3, <3>4, FirstType
      <3>6. QED
        BY <2>13, <3>2, <3>5 DEF SnapshotRoom, hub
    <2>14. ASSUME NEW c \in Conn, CollectTargets(c)
           PROVE  TypeInv'
      <3> DEFINE cast == Head(todo[c])
                 targets == {users[u] : u \in User \ {cast.except}} \ {None}
      <3>1. cast.frame \in Frame /\ Tail(todo[c]) \in Seq(Work)
        BY <2>14, HeadTailType, WorkParts DEF CollectTargets, NextWork
      <3>2. targets \in SUBSET Conn
        OBVIOUS
      <3>3. Before(SendWork(cast.frame, targets), Tail(todo[c])) \in Seq(Work)
        BY <3>1, <3>2, WorkTypes, BeforeType
      <3>4. QED
        BY <2>14, <3>3 DEF CollectTargets, hub
    <2>15. ASSUME NEW c \in Conn, SendOne(c)
           PROVE  TypeInv'
      <3> DEFINE send == Head(todo[c])
      <3>1. /\ send.frame \in Frame /\ send.to \in SUBSET Conn
            /\ Tail(todo[c]) \in Seq(Work)
        BY <2>15, HeadTailType, WorkParts DEF SendOne, NextWork
      <3>2. PICK d \in send.to :
              /\ todo' = [todo EXCEPT ![c] =
                            Before(SendWork(send.frame, send.to \ {d}), Tail(@))]
              /\ view' = [view EXCEPT ![d] = IF phase[d] = "gone" THEN @
                                             ELSE Shown(@, send.frame)]
        BY <2>15 DEF SendOne
      <3>3. Before(SendWork(send.frame, send.to \ {d}), Tail(todo[c])) \in Seq(Work)
        BY <3>1, WorkTypes, BeforeType
      <3>4. Shown(view[d], send.frame) \in SUBSET User
        BY <3>1, ShownType
      <3>5. QED
        BY <2>15, <3>1, <3>2, <3>3, <3>4 DEF SendOne, hub
    <2>16. CASE UNCHANGED vars
      BY <2>16 DEF vars
    <2>17. QED
      BY <2>1, <2>2, <2>3, <2>4, <2>5, <2>6, <2>7, <2>8, <2>9, <2>10, <2>11,
         <2>12, <2>13, <2>14, <2>15, <2>16 DEF Next, Handle, Broadcast
  <1>3. QED
    BY <1>1, <1>2, PTL DEF Spec

-----------------------------------------------------------------------------
(* Ownership: who the shared state belongs to.                             *)

\* Steps that leave the shared state and the life of every connection alone.
LEMMA BroadcastKeepsHub ==
  ASSUME NEW c \in Conn, Broadcast(c)
  PROVE  UNCHANGED <<hub, phase, owner>>
  BY DEF Broadcast, SnapshotUsers, SnapshotRoom, CollectTargets, SendOne

\* Changes of phase that end no ownership keep both invariants.
LEMMA StillOwned ==
  ASSUME TypeInv, StateHasOwner, ChannelIsCurrent,
         UNCHANGED <<users, voiceRooms, screenShares, owner>>,
         \A d \in Conn : Undisconnected(d) => Undisconnected(d)'
  PROVE  StateHasOwner' /\ ChannelIsCurrent'
  <1>1. \A v \in User : HasOwner(v) => HasOwner(v)'
    BY DEF HasOwner
  <1>2. \A v \in User : RoomsOf(v)' = RoomsOf(v)
    BY DEF RoomsOf
  <1>3. StateHasOwner'
    BY <1>1, <1>2 DEF StateHasOwner
  <1>4. ChannelIsCurrent'
    BY DEF ChannelIsCurrent, TypeInv, TypeOK
  <1>5. QED
    BY <1>3, <1>4

\* Every entry of the shared state belongs to a connection of its user on which
\* disconnect_user has not run; nothing of the state survives its last owner.
\* The strengthening needed is OwnerKnown: a task that serves requests has
\* authenticated.
THEOREM Ownership == Spec => [](StateHasOwner /\ ChannelIsCurrent)
  <1> DEFINE Inv == StateHasOwner /\ ChannelIsCurrent
  <1>1. Init => Inv
    BY NoneAssumption DEF Init, StateHasOwner, ChannelIsCurrent, RoomsOf
  <1>2. TypeInv /\ Inv /\ [Next]_vars => Inv'
    <2> SUFFICES ASSUME TypeInv, Inv, [Next]_vars
                 PROVE  Inv'
      OBVIOUS
    <2> USE NoneAssumption
        DEF TypeInv, TypeOK, OwnerKnown, StateHasOwner, ChannelIsCurrent,
            HasOwner, Undisconnected, RoomsOf
    <2>1. ASSUME NEW c \in Conn, NEW u \in User, Register(c, u)
          PROVE  Inv'
      <3>1. /\ phase'[c] = "open" /\ owner'[c] = u
            /\ \A d \in Conn : d # c => phase'[d] = phase[d] /\ owner'[d] = owner[d]
            /\ users'[u] = c /\ \A v \in User : v # u => users'[v] = users[v]
            /\ UNCHANGED <<voiceRooms, screenShares>>
            /\ ~Undisconnected(c)
        BY <2>1 DEF Register
      <3>2. \A v \in User : HasOwner(v) => HasOwner(v)'
        BY <3>1
      <3>3. HasOwner(u)'
        BY <3>1
      <3>4. StateHasOwner'
        <4> HIDE DEF HasOwner
        <4> QED BY <3>1, <3>2, <3>3
      <3>5. ChannelIsCurrent'
        BY <3>1
      <3>6. QED
        BY <3>4, <3>5
    <2>2. ASSUME NEW c \in Conn, Reject(c)
          PROVE  Inv'
      <3>1. /\ UNCHANGED <<users, voiceRooms, screenShares, owner>>
            /\ \A d \in Conn : Undisconnected(d) => Undisconnected(d)'
        BY <2>2 DEF Reject, hub
      <3>2. QED
        BY <3>1, StillOwned
    <2>3. ASSUME NEW c \in Conn, Disconnect(c)
          PROVE  Inv'
      <3> DEFINE u == owner[c]
      <3>1. /\ u \in User
            /\ users' = [users EXCEPT ![u] = None]
            /\ screenShares' = screenShares \ {u}
            /\ voiceRooms' = [r \in Room |-> voiceRooms[r] \ {u}]
            /\ owner' = owner
            /\ \A d \in Conn : d # c => phase'[d] = phase[d]
        BY <2>3 DEF Disconnect, Idle
      <3>2. /\ users'[u] = None /\ u \notin screenShares'
            /\ \A r \in Room : u \notin voiceRooms'[r]
        BY <3>1
      <3>3. \A v \in User \ {u} :
              /\ users'[v] = users[v]
              /\ v \in screenShares' <=> v \in screenShares
              /\ \A r \in Room : v \in voiceRooms'[r] <=> v \in voiceRooms[r]
        BY <3>1
      <3>4. \A v \in User \ {u} : HasOwner(v) => HasOwner(v)'
        BY <3>1
      <3>5. StateHasOwner'
        <4>1. \A v \in User : RoomsOf(v)' # {} => v # u /\ RoomsOf(v) # {}
          BY <3>2, <3>3
        <4> HIDE DEF HasOwner, RoomsOf, u
        <4> QED BY <3>2, <3>3, <3>4, <4>1
      <3>6. ChannelIsCurrent'
        <4>1. \A v \in User : users'[v] # None => v # u /\ users'[v] = users[v]
          BY <3>2, <3>3
        <4>2. \A v \in User : users'[v] # None => users[v] # c /\ users[v] \in Conn
          BY <4>1
        <4> QED BY <3>1, <4>1, <4>2
      <3>7. QED
        BY <3>5, <3>6
    <2>4. ASSUME NEW c \in Conn, ReadError(c)
          PROVE  Inv'
      <3>1. /\ UNCHANGED <<users, voiceRooms, screenShares, owner>>
            /\ \A d \in Conn : Undisconnected(d) => Undisconnected(d)'
        BY <2>4 DEF ReadError, Idle, hub
      <3>2. QED
        BY <3>1, StillOwned
    <2>5. ASSUME NEW c \in Conn, NEW room \in Room, JoinVoice(c, room)
          PROVE  Inv'
      <3>1. /\ HasOwner(owner[c]) /\ owner[c] \in User
            /\ \A v \in User : RoomsOf(v)' # {} => v = owner[c] \/ RoomsOf(v) # {}
            /\ UNCHANGED <<users, screenShares, phase, owner>>
        BY <2>5 DEF JoinVoice, Request, Count, Idle
      <3>2. \A v \in User : HasOwner(v) => HasOwner(v)'
        BY <3>1
      <3>3. StateHasOwner'
        <4> HIDE DEF HasOwner, RoomsOf
        <4> QED BY <3>1, <3>2
      <3>4. ChannelIsCurrent'
        BY <3>1
      <3>5. QED
        BY <3>3, <3>4
    <2>6. ASSUME NEW c \in Conn, LeaveVoice(c)
          PROVE  Inv'
      <3>1. /\ \A v \in User : RoomsOf(v)' # {} => RoomsOf(v) # {}
            /\ UNCHANGED <<users, screenShares, phase, owner>>
        BY <2>6 DEF LeaveVoice
      <3>2. \A v \in User : HasOwner(v) => HasOwner(v)'
        BY <3>1
      <3>3. StateHasOwner'
        <4> HIDE DEF HasOwner, RoomsOf
        <4> QED BY <3>1, <3>2
      <3>4. ChannelIsCurrent'
        BY <3>1
      <3>5. QED
        BY <3>3, <3>4
    <2>7. ASSUME NEW c \in Conn, StartScreenShare(c)
          PROVE  Inv'
      <3>1. /\ UNCHANGED <<users, voiceRooms, screenShares, owner>>
            /\ \A d \in Conn : Undisconnected(d) => Undisconnected(d)'
        BY <2>7 DEF StartScreenShare, Request, Count, Idle, hub
      <3>2. QED
        BY <3>1, StillOwned
    <2>8. ASSUME NEW c \in Conn, InsertShare(c)
          PROVE  Inv'
      <3>1. /\ UNCHANGED <<users, voiceRooms, owner>>
            /\ screenShares' = screenShares \cup {owner[c]}
            /\ \A d \in Conn : Undisconnected(d) => Undisconnected(d)'
            /\ HasOwner(owner[c])'
        BY <2>8 DEF InsertShare
      <3>2. \A v \in User : HasOwner(v) => HasOwner(v)'
        BY <3>1
      <3>3. StateHasOwner'
        <4> HIDE DEF HasOwner
        <4> QED BY <3>1, <3>2
      <3>4. ChannelIsCurrent'
        BY <3>1
      <3>5. QED
        BY <3>3, <3>4
    <2>9. ASSUME NEW c \in Conn, StopScreenShare(c)
          PROVE  Inv'
      <3>1. /\ UNCHANGED <<users, voiceRooms, phase, owner>>
            /\ screenShares' \subseteq screenShares
        BY <2>9 DEF StopScreenShare
      <3>2. QED
        BY <3>1
    <2>10. ASSUME NEW c \in Conn, RelayFrame(c) \/ Broadcast(c)
           PROVE  Inv'
      <3>1. UNCHANGED <<users, voiceRooms, screenShares, phase, owner>>
        BY <2>10, BroadcastKeepsHub DEF RelayFrame, hub
      <3>2. QED
        BY <3>1
    <2>11. ASSUME NEW u \in User, NEW a \in Addr, RememberVoiceAddr(u, a)
           PROVE  Inv'
      BY <2>11 DEF RememberVoiceAddr, Count
    <2>12. CASE UNCHANGED vars
      BY <2>12 DEF vars
    <2>13. QED
      BY <2>1, <2>2, <2>3, <2>4, <2>5, <2>6, <2>7, <2>8, <2>9, <2>10, <2>11,
         <2>12 DEF Next, Handle
  <1>3. QED
    BY <1>1, <1>2, TypeCorrect, PTL DEF Spec

\* Nobody is in two voice rooms: join_voice leaves every other room in the same
\* lock section.  The invariant is inductive on its own, given the types, and only
\* three handlers write the voice rooms: the others and the relay leave them alone.
THEOREM VoiceExclusion == Spec => []OneVoiceRoom
  <1>1. Init => OneVoiceRoom
    BY DEF Init, OneVoiceRoom
  <1>2. TypeInv /\ OneVoiceRoom /\ [Next]_vars => OneVoiceRoom'
    <2> SUFFICES ASSUME TypeInv, OneVoiceRoom, [Next]_vars
                 PROVE  OneVoiceRoom'
      OBVIOUS
    <2>rooms. TypeOK
      BY DEF TypeInv
    <2>same. voiceRooms' = voiceRooms => OneVoiceRoom'
      BY DEF OneVoiceRoom
    <2>write. ASSUME NEW c \in Conn,
                     \/ \E r \in Room : JoinVoice(c, r)
                     \/ LeaveVoice(c) \/ Disconnect(c)
              PROVE  OneVoiceRoom'
      <3>1. CASE \E r \in Room : JoinVoice(c, r)
        BY <3>1, <2>rooms DEF JoinVoice, TypeOK, OneVoiceRoom
      <3>2. CASE LeaveVoice(c) \/ Disconnect(c)
        BY <3>2, <2>rooms DEF LeaveVoice, Disconnect, TypeOK, OneVoiceRoom
      <3> QED
        BY <2>write, <3>1, <3>2
    <2>keep. ASSUME NEW c \in Conn,
                    \/ \E u \in User : Register(c, u)
                    \/ Reject(c) \/ ReadError(c) \/ StartScreenShare(c)
                    \/ InsertShare(c) \/ StopScreenShare(c) \/ RelayFrame(c)
                    \/ Broadcast(c)
             PROVE  voiceRooms' = voiceRooms
      BY <2>keep, BroadcastKeepsHub
      DEF Register, Reject, ReadError, StartScreenShare, InsertShare,
          StopScreenShare, RelayFrame, hub
    <2>idle. ASSUME UNCHANGED vars \/ \E u \in User, a \in Addr : RememberVoiceAddr(u, a)
             PROVE  voiceRooms' = voiceRooms
      BY <2>idle DEF vars, RememberVoiceAddr
    <2> QED
      BY <2>same, <2>write, <2>keep, <2>idle DEF Next, Handle
  <1>3. QED
    BY <1>1, <1>2, TypeCorrect, PTL DEF Spec

\* What is stored has an owner, names a current channel and puts nobody in two voice
\* rooms: the shared state is sound after every critical section of every task.
THEOREM SoundState == Spec => []StateIsSound
  BY Ownership, VoiceExclusion, PTL DEF StateIsSound

-----------------------------------------------------------------------------
(* No echo of a screen share to its broadcaster.                           *)

Showing == {"ScreenShareStarted", "ScreenShareFrame"}

\* A pending broadcast that would show a share excludes the broadcaster, and
\* one whose targets are known has none among them.  Every target has an owner,
\* which never changes again.
EchoFree(w) ==
  /\ w.op = "cast" /\ w.frame.type \in Showing => w.except = w.frame.user
  /\ w.op = "send" =>
       \A d \in w.to :
         /\ owner[d] \in User
         /\ w.frame.type \in Showing => owner[d] # w.frame.user

SafeWork == {w \in Work : EchoFree(w)}

EchoInv ==
  /\ \A c \in Conn : todo[c] \in Seq(SafeWork)
  /\ \A c \in Conn : phase[c] = "accepted" => owner[c] = None
  /\ \A c \in Conn : owner[c] = None => view[c] = {}
  /\ NoEcho

\* Work that is neither a targeted send nor a share that starts is safe.
LEMMA SafeWorks ==
  /\ UserListWork \in SafeWork
  /\ \A rooms \in SUBSET Room : VoiceStatesWork(rooms) \in SafeWork
  /\ \A S \in SUBSET User, x \in User \cup {None} :
       CastWork([type |-> "UserList", users |-> S], x) \in SafeWork
  /\ \A r \in Room, S \in SUBSET User, x \in User \cup {None} :
       CastWork([type |-> "VoiceState", room |-> r, users |-> S], x) \in SafeWork
  /\ \A u \in User, x \in User \cup {None} :
       CastWork(ShareFrame("ScreenShareStopped", u), x) \in SafeWork
  /\ \A u \in User, kind \in Showing :
       CastWork(ShareFrame(kind, u), u) \in SafeWork
  <1>1. \A w \in Work : w.op \notin {"cast", "send"} => w \in SafeWork
    BY DEF SafeWork, EchoFree
  <1>2. \A f \in Frame, x \in User \cup {None} :
          (f.type \in Showing => x = f.user) => CastWork(f, x) \in SafeWork
    BY WorkTypes DEF SafeWork, EchoFree, CastWork
  <1>3. UserListWork \in SafeWork
    BY <1>1, WorkTypes DEF UserListWork
  <1>4. \A rooms \in SUBSET Room : VoiceStatesWork(rooms) \in SafeWork
    BY <1>1, WorkTypes DEF VoiceStatesWork
  <1>5. \A S \in SUBSET User, x \in User \cup {None} :
          CastWork([type |-> "UserList", users |-> S], x) \in SafeWork
    BY <1>2, FrameTypes DEF Showing
  <1>6. \A r \in Room, S \in SUBSET User, x \in User \cup {None} :
          CastWork([type |-> "VoiceState", room |-> r, users |-> S], x) \in SafeWork
    BY <1>2, FrameTypes DEF Showing
  <1>7. \A u \in User, x \in User \cup {None} :
          CastWork(ShareFrame("ScreenShareStopped", u), x) \in SafeWork
    <2>1. \A u \in User : ShareFrame("ScreenShareStopped", u).type \notin Showing
      BY DEF Showing, ShareFrame
    <2>2. QED
      BY <1>2, <2>1, FrameTypes
  <1>8. \A u \in User, kind \in Showing : CastWork(ShareFrame(kind, u), u) \in SafeWork
    <2>1. \A u \in User, kind \in Showing :
            ShareFrame(kind, u) \in Frame /\ ShareFrame(kind, u).user = u
      BY FrameTypes DEF Showing, ShareFrame
    <2>2. QED
      BY <1>2, <2>1
  <1>9. QED
    BY <1>3, <1>4, <1>5, <1>6, <1>7, <1>8

\* Steps that authenticate nobody, send nothing and give one task safe work.
LEMMA EchoKept ==
  ASSUME TypeInv, TypeOK', EchoInv, NEW c \in Conn, NEW s \in Seq(SafeWork),
         UNCHANGED <<owner, view>>,
         todo' = [todo EXCEPT ![c] = s],
         \A d \in Conn : phase'[d] = "accepted" => phase[d] = "accepted"
  PROVE  EchoInv'
  <1>1. SafeWork' = SafeWork
    BY DEF SafeWork, EchoFree
  <1>2. \A d \in Conn : todo'[d] \in Seq(SafeWork)
    BY DEF EchoInv, TypeInv, TypeOK
  <1>3. QED
    BY <1>1, <1>2 DEF EchoInv, NoEcho

\* A broadcast keeps to what was decided when it began until its last send.
LEMMA EchoInvariance == Spec => []EchoInv
  <1>1. Init => EchoInv
    <2>1. <<>> \in Seq(SafeWork)
      OBVIOUS
    <2>2. QED
      BY <2>1 DEF Init, EchoInv, NoEcho
  <1>2. TypeInv /\ TypeInv' /\ ChannelIsCurrent /\ EchoInv /\ [Next]_vars => EchoInv'
    <2> SUFFICES ASSUME TypeInv, TypeInv', ChannelIsCurrent, EchoInv, [Next]_vars
                 PROVE  EchoInv'
      OBVIOUS
    <2>t. TypeOK /\ TypeOK' /\ OwnerKnown
      BY DEF TypeInv
    <2>1. ASSUME NEW c \in Conn, NEW u \in User, Register(c, u)
          PROVE  EchoInv'
      <3>1. owner[c] = None /\ None \notin User
        BY <2>1, NoneAssumption DEF Register, EchoInv
      <3>2. \A d \in Conn : owner[d] \in User => owner'[d] = owner[d]
        BY <2>1, <2>t, <3>1 DEF Register, TypeOK
      <3>3. \A w \in SafeWork : w \in SafeWork'
        BY <3>2, WorkParts DEF SafeWork, EchoFree
      <3>4. <<UserListWork>> \in Seq(SafeWork)
        BY SafeWorks
      <3>5. \A d \in Conn : todo'[d] \in Seq(SafeWork)
        BY <2>1, <2>t, <3>4 DEF Register, EchoInv, TypeOK
      <3>6. \A d \in Conn : todo'[d] \in Seq(SafeWork')
        <4> HIDE DEF SafeWork
        <4> QED BY <3>3, <3>5, SeqMonotone
      <3>7. view' = view /\ view[c] = {} /\ owner'[c] = u
        BY <2>1, <2>t, <3>1 DEF Register, EchoInv, TypeOK
      <3>8. \A d \in Conn : phase'[d] = "accepted" => owner'[d] = None
        BY <2>1, <2>t DEF Register, EchoInv, TypeOK
      <3>9. \A d \in Conn \ {c} : owner'[d] = owner[d]
        BY <2>1 DEF Register
      <3>10. \A d \in Conn : owner'[d] = None => view'[d] = {}
        BY <3>7, <3>9 DEF EchoInv
      <3>11. NoEcho'
        BY <3>7, <3>9 DEF EchoInv, NoEcho
      <3>12. QED
        BY <3>6, <3>8, <3>10, <3>11 DEF EchoInv
    <2>2. ASSUME NEW c \in Conn, Reject(c) \/ ReadError(c) \/ StartScreenShare(c)
          PROVE  EchoInv'
      <3>1. /\ UNCHANGED <<owner, view, todo>>
            /\ \A d \in Conn : phase'[d] = "accepted" => phase[d] = "accepted"
        BY <2>2, <2>t DEF Reject, ReadError, StartScreenShare, TypeOK
      <3>2. SafeWork' = SafeWork
        BY <3>1 DEF SafeWork, EchoFree
      <3>3. QED
        BY <3>1, <3>2 DEF EchoInv, NoEcho
    <2>3. ASSUME NEW c \in Conn, Disconnect(c)
          PROVE  EchoInv'
      <3> DEFINE u == owner[c]
                 stopped == IF u \in screenShares
                            THEN <<CastWork(ShareFrame("ScreenShareStopped", u), None)>>
                            ELSE <<>>
                 states == Before(VoiceStatesWork(RoomsOf(u)), <<>>)
      <3>1. u \in User
        BY <2>3, <2>t DEF Disconnect, Idle, OwnerKnown
      <3>2. stopped \in Seq(SafeWork)
        BY <3>1, SafeWorks
      <3>3. RoomsOf(u) \in SUBSET Room
        BY DEF RoomsOf
      <3>4. states \in Seq(SafeWork)
        <4> HIDE DEF SafeWork
        <4> QED BY <3>3, SafeWorks, BeforeNothingType
      <3>5. stopped \o <<UserListWork>> \o states \in Seq(SafeWork)
        <4> HIDE DEF stopped, states, SafeWork
        <4> QED BY <3>2, <3>4, SafeWorks
      <3>6. todo' = [todo EXCEPT ![c] = stopped \o <<UserListWork>> \o states]
        BY <2>3 DEF Disconnect
      <3>7. /\ UNCHANGED <<owner, view>>
            /\ \A d \in Conn : phase'[d] = "accepted" => phase[d] = "accepted"
        BY <2>3, <2>t DEF Disconnect, TypeOK
      <3>8. QED
        <4> HIDE DEF stopped, states
        <4> QED BY <2>t, <3>5, <3>6, <3>7, EchoKept
    <2>4. ASSUME NEW c \in Conn, NEW room \in Room, JoinVoice(c, room)
          PROVE  EchoInv'
      <3>1. <<VoiceStatesWork({room})>> \in Seq(SafeWork)
        BY SafeWorks
      <3>2. QED
        BY <2>4, <2>t, <3>1, EchoKept DEF JoinVoice
    <2>5. ASSUME NEW c \in Conn, LeaveVoice(c)
          PROVE  EchoInv'
      <3>1. RoomsOf(owner[c]) \in SUBSET Room
        BY DEF RoomsOf
      <3>2. Before(VoiceStatesWork(RoomsOf(owner[c])), <<>>) \in Seq(SafeWork)
        <4> HIDE DEF SafeWork
        <4> QED BY <3>1, SafeWorks, BeforeNothingType
      <3>3. QED
        BY <2>5, <2>t, <3>2, EchoKept DEF LeaveVoice
    <2>6. ASSUME NEW c \in Conn, InsertShare(c)
          PROVE  EchoInv'
      <3>1. owner[c] \in User
        BY <2>6, <2>t DEF InsertShare, OwnerKnown
      <3>2. <<CastWork(ShareFrame("ScreenShareStarted", owner[c]), owner[c])>>
              \in Seq(SafeWork)
        BY <3>1, SafeWorks DEF Showing
      <3>3. QED
        BY <2>6, <2>t, <3>2, EchoKept DEF InsertShare, TypeOK
    <2>7. ASSUME NEW c \in Conn, StopScreenShare(c)
          PROVE  EchoInv'
      <3>1. owner[c] \in User
        BY <2>7, <2>t DEF StopScreenShare, Request, Count, Idle, OwnerKnown
      <3>2. <<CastWork(ShareFrame("ScreenShareStopped", owner[c]), owner[c])>>
              \in Seq(SafeWork)
        BY <3>1, SafeWorks
      <3>3. QED
        BY <2>7, <2>t, <3>2, EchoKept DEF StopScreenShare
    <2>8. ASSUME NEW c \in Conn, RelayFrame(c)
          PROVE  EchoInv'
      <3>1. owner[c] \in User
        BY <2>8, <2>t DEF RelayFrame, Request, Count, Idle, OwnerKnown
      <3>2. <<CastWork(ShareFrame("ScreenShareFrame", owner[c]), owner[c])>>
              \in Seq(SafeWork)
        BY <3>1, SafeWorks DEF Showing
      <3>3. QED
        BY <2>8, <2>t, <3>2, EchoKept DEF RelayFrame
    <2>9. ASSUME NEW c \in Conn, SnapshotUsers(c)
          PROVE  EchoInv'
      <3> DEFINE registered == {v \in User : users[v] # None}
                 w == CastWork([type |-> "UserList", users |-> registered], None)
      <3>1. w \in SafeWork
        BY SafeWorks
      <3>2. Tail(todo[c]) \in Seq(SafeWork)
        BY <2>9, HeadTailType DEF SnapshotUsers, NextWork, EchoInv
      <3>3. <<w>> \o Tail(todo[c]) \in Seq(SafeWork)
        BY <3>1, <3>2, FirstType
      <3>4. QED
        BY <2>9, <2>t, <3>3, EchoKept DEF SnapshotUsers
    <2>10. ASSUME NEW c \in Conn, SnapshotRoom(c)
           PROVE  EchoInv'
      <3>1. Head(todo[c]).rooms \in SUBSET Room /\ Tail(todo[c]) \in Seq(SafeWork)
        BY <2>10, <2>t, HeadTailType, WorkParts
        DEF SnapshotRoom, NextWork, EchoInv, TypeOK
      <3>2. PICK r \in Head(todo[c]).rooms :
              LET present == {u \in voiceRooms[r] : users[u] # None}
                  frame == [type |-> "VoiceState", room |-> r, users |-> present]
                  others == Head(todo[c]).rooms \ {r}
              IN todo' = [todo EXCEPT ![c] =
                            <<CastWork(frame, None)>>
                              \o Before(VoiceStatesWork(others), Tail(@))]
        BY <2>10 DEF SnapshotRoom
      <3> DEFINE present == {u \in voiceRooms[r] : users[u] # None}
                 frame == [type |-> "VoiceState", room |-> r, users |-> present]
                 rest == Before(VoiceStatesWork(Head(todo[c]).rooms \ {r}),
                                Tail(todo[c]))
      <3>3. r \in Room /\ present \in SUBSET User
        BY <2>t, <3>1 DEF TypeOK
      <3>4. CastWork(frame, None) \in SafeWork
        BY <3>3, SafeWorks
      <3>5. rest \in Seq(SafeWork)
        BY <3>1, SafeWorks, BeforeType
      <3>6. <<CastWork(frame, None)>> \o rest \in Seq(SafeWork)
        BY <3>4, <3>5, FirstType
      <3>7. QED
        BY <2>10, <2>t, <3>2, <3>6, EchoKept DEF SnapshotRoom
    <2>11. ASSUME NEW c \in Conn, CollectTargets(c)
           PROVE  EchoInv'
      <3> DEFINE cast == Head(todo[c])
                 targets == {users[u] : u \in User \ {cast.except}} \ {None}
                 send == SendWork(cast.frame, targets)
      <3>1. cast \in SafeWork /\ cast.op = "cast" /\ Tail(todo[c]) \in Seq(SafeWork)
        BY <2>11, HeadTailType DEF CollectTargets, NextWork, EchoInv
      <3>2. send \in Work /\ send.frame = cast.frame /\ send.to = targets
            /\ send.op = "send"
        BY <2>t, <3>1, WorkTypes, WorkParts DEF SafeWork, SendWork, TypeOK
      <3>3. \A d \in targets : owner[d] \in User /\ owner[d] # cast.except
        BY DEF ChannelIsCurrent
      <3>4. send \in SafeWork
        BY <3>1, <3>2, <3>3 DEF SafeWork, EchoFree
      <3>5. Before(send, Tail(todo[c])) \in Seq(SafeWork)
        BY <3>1, <3>4, BeforeType
      <3>6. QED
        BY <2>11, <2>t, <3>5, EchoKept DEF CollectTargets
    <2>12. ASSUME NEW c \in Conn, SendOne(c)
           PROVE  EchoInv'
      <3> DEFINE send == Head(todo[c])
      <3>1. send \in SafeWork /\ send.op = "send" /\ Tail(todo[c]) \in Seq(SafeWork)
        BY <2>12, HeadTailType DEF SendOne, NextWork, EchoInv
      <3>2. PICK d \in send.to :
              /\ todo' = [todo EXCEPT ![c] =
                            Before(SendWork(send.frame, send.to \ {d}), Tail(@))]
              /\ view' = [view EXCEPT ![d] = IF phase[d] = "gone" THEN @
                                             ELSE Shown(@, send.frame)]
        BY <2>12 DEF SendOne
      <3>3. /\ send.frame \in Frame /\ send.to \in SUBSET Conn
            /\ owner[d] \in User
            /\ send.frame.type \in Showing => owner[d] # send.frame.user
        BY <3>1, WorkParts DEF SafeWork, EchoFree
      <3>4. SendWork(send.frame, send.to \ {d}) \in SafeWork
        BY <3>1, <3>3, WorkTypes DEF SafeWork, EchoFree, SendWork
      <3>5. Before(SendWork(send.frame, send.to \ {d}), Tail(todo[c])) \in Seq(SafeWork)
        BY <3>1, <3>4, BeforeType
      <3>6. owner[d] \notin Shown(view[d], send.frame)
        <4>1. owner[d] \notin view[d] /\ view[d] \in SUBSET User
          BY <2>t, <3>3 DEF EchoInv, NoEcho, TypeOK
        <4>2. QED
          BY <3>3, <4>1 DEF Frame, Shown, Showing
      <3>7. UNCHANGED <<owner, phase>> /\ SafeWork' = SafeWork
        BY <2>12 DEF SendOne, SafeWork, EchoFree
      <3>8. \A x \in Conn : todo'[x] \in Seq(SafeWork)
        BY <2>t, <3>2, <3>5 DEF EchoInv, TypeOK
      <3>9. owner[d] # None
        BY <3>3, NoneAssumption
      <3>10. \A x \in Conn : x # d => view'[x] = view[x]
        BY <2>t, <3>2 DEF TypeOK
      <3>11. owner[d] \notin view'[d]
        BY <2>t, <3>2, <3>3, <3>6 DEF EchoInv, NoEcho, TypeOK
      <3>12. QED
        BY <3>7, <3>8, <3>9, <3>10, <3>11 DEF EchoInv, NoEcho
    <2>13. CASE UNCHANGED vars \/ \E u \in User, a \in Addr : RememberVoiceAddr(u, a)
      <3>1. UNCHANGED <<owner, view, todo, phase>>
        BY <2>13 DEF vars, RememberVoiceAddr
      <3>2. SafeWork' = SafeWork
        BY <3>1 DEF SafeWork, EchoFree
      <3>3. QED
        BY <3>1, <3>2 DEF EchoInv, NoEcho
    <2>14. QED
      BY <2>1, <2>2, <2>3, <2>4, <2>5, <2>6, <2>7, <2>8, <2>9, <2>10, <2>11,
         <2>12, <2>13 DEF Next, Handle, Broadcast
  <1>3. QED
    BY <1>1, <1>2, TypeCorrect, Ownership, PTL DEF Spec

\* No connection is ever sent a share of its own user.  The strengthening,
\* EchoInv, follows a broadcast from the moment it is decided to its last send.
THEOREM NoEchoEver == Spec => []NoEcho
  <1>1. EchoInv => NoEcho
    BY DEF EchoInv
  <1>2. QED
    BY <1>1, EchoInvariance, PTL

-----------------------------------------------------------------------------
(* No ghost of a share that has ended.                                     *)

Bears(w) ==
  w.op \in {"cast", "send"} /\ w.frame.type \in Showing \cup {"ScreenShareStopped"}

\* A task broadcasts the share of its own user only, to everybody or to everybody
\* else, and what shows a share is pending only while the share is stored.
OwnWork(c) ==
  {w \in Work :
     Bears(w) =>
       /\ w.frame.user = owner[c]
       /\ w.op = "cast" => w.except \in {None, owner[c]}
       /\ w.frame.type \in Showing /\ SoleConnection(owner[c]) => owner[c] \in screenShares}

Current(d) == owner[d] \in User /\ users[owner[d]] = d

\* The client behind d shows the share of c's user, which has ended.
Ghost(c, d) ==
  Current(d) /\ owner[c] \in view[d] \ screenShares /\ SoleConnection(owner[c])

\* The work w will tell d that the share of u has ended.
Stops(w, u, d) ==
  /\ w.op = "cast" \/ (w.op = "send" /\ d \in w.to)
  /\ w.frame = ShareFrame("ScreenShareStopped", u)

Banished(c, d) == todo[c] # <<>> /\ Stops(Head(todo[c]), owner[c], d)

GhostInv ==
  /\ \A d \in Conn : \A u \in view[d] : \E c \in Conn : owner[c] = u
  /\ \A c \in Conn : todo[c] \in Seq(OwnWork(c))
  /\ \A c, d \in Conn : Ghost(c, d) => Banished(c, d)

\* What shows no share and ends none.
LEMMA PlainWorks ==
  ASSUME NEW c \in Conn
  PROVE  /\ UserListWork \in OwnWork(c)
         /\ \A rooms \in SUBSET Room : VoiceStatesWork(rooms) \in OwnWork(c)
         /\ \A S \in SUBSET User :
              CastWork([type |-> "UserList", users |-> S], None) \in OwnWork(c)
         /\ \A r \in Room, S \in SUBSET User :
              CastWork([type |-> "VoiceState", room |-> r, users |-> S], None) \in OwnWork(c)
  <1>1. \A w \in Work : ~Bears(w) => w \in OwnWork(c)
    BY DEF OwnWork
  <1>2. \A f \in Frame : f.type \in {"UserList", "VoiceState"} => ~Bears(CastWork(f, None))
    BY DEF Bears, CastWork, Showing
  <1>3. ~Bears(UserListWork) /\ \A rooms : ~Bears(VoiceStatesWork(rooms))
    BY DEF Bears, UserListWork, VoiceStatesWork
  <1>4. /\ UserListWork \in OwnWork(c)
        /\ \A rooms \in SUBSET Room : VoiceStatesWork(rooms) \in OwnWork(c)
    BY <1>1, <1>3, WorkTypes
  <1>5. \A f \in Frame : f.type \in {"UserList", "VoiceState"} => CastWork(f, None) \in OwnWork(c)
    BY <1>1, <1>2, WorkTypes
  <1> QED
    BY <1>4, <1>5, FrameTypes

\* The broadcasts of a share.
LEMMA ShareWorks ==
  ASSUME NEW c \in Conn, owner[c] \in User, NEW x \in {None, owner[c]}
  PROVE  /\ CastWork(ShareFrame("ScreenShareStopped", owner[c]), x) \in OwnWork(c)
         /\ owner[c] \in screenShares =>
              \A kind \in Showing : CastWork(ShareFrame(kind, owner[c]), x) \in OwnWork(c)
         /\ \A d : Stops(CastWork(ShareFrame("ScreenShareStopped", owner[c]), x), owner[c], d)
  <1>1. \A kind \in Showing \cup {"ScreenShareStopped"} :
          /\ ShareFrame(kind, owner[c]) \in Frame
          /\ ShareFrame(kind, owner[c]).type = kind /\ ShareFrame(kind, owner[c]).user = owner[c]
    BY FrameTypes DEF ShareFrame, Showing
  <1>2. \A f \in Frame : /\ CastWork(f, x) \in Work /\ CastWork(f, x).op = "cast"
                         /\ CastWork(f, x).frame = f /\ CastWork(f, x).except = x
    BY WorkTypes DEF CastWork
  <1>3. "ScreenShareStopped" \notin Showing
    BY DEF Showing
  <1>4. CastWork(ShareFrame("ScreenShareStopped", owner[c]), x) \in OwnWork(c)
    BY <1>1, <1>2, <1>3 DEF OwnWork
  <1>5. owner[c] \in screenShares =>
          \A kind \in Showing : CastWork(ShareFrame(kind, owner[c]), x) \in OwnWork(c)
    BY <1>1, <1>2 DEF OwnWork
  <1>6. \A d : Stops(CastWork(ShareFrame("ScreenShareStopped", owner[c]), x), owner[c], d)
    BY <1>1, <1>2 DEF Stops
  <1> QED
    BY <1>4, <1>5, <1>6

\* Steps of c that authenticate nobody and concern the share of its own user only:
\* what is left to show is that c itself has the right work to do.
LEMMA GhostKept ==
  ASSUME GhostInv, TypeOK, TypeOK', NEW c \in Conn, UNCHANGED owner,
         \A x \in Conn \ {c} : todo'[x] = todo[x],
         \A d \in Conn : Current(d)' => Current(d),
         \A u : u # owner[c] => (u \in screenShares' <=> u \in screenShares),
         \A d \in Conn : view'[d] \subseteq view[d] \cup {owner[c]},
         todo'[c] \in Seq(OwnWork(c)'),
         \A d \in Conn : Ghost(c, d)' => Banished(c, d)'
  PROVE  GhostInv'
  <1>1. \A d \in Conn : \A u \in view'[d] : \E x \in Conn : owner'[x] = u
    BY DEF GhostInv
  <1>2. \A x \in Conn : SoleConnection(owner[x])' <=> SoleConnection(owner[x])
    BY DEF SoleConnection
  <1>3. ASSUME NEW x \in Conn, x # c
        PROVE  todo'[x] \in Seq(OwnWork(x)')
    <2>1. todo'[x] \in Seq(OwnWork(x))
      BY <1>3 DEF GhostInv
    <2>2. SoleConnection(owner[x]) => owner[x] # owner[c]
      BY <1>3 DEF SoleConnection
    <2>3. OwnWork(x) \subseteq OwnWork(x)'
      BY <1>2, <2>2 DEF OwnWork, Bears
    <2> QED
      <3> HIDE DEF OwnWork
      <3> QED BY <2>1, <2>3, SeqMonotone
  <1>4. ASSUME NEW x \in Conn, NEW d \in Conn, x # c, Ghost(x, d)'
        PROVE  Banished(x, d)'
    <2>1. SoleConnection(owner[x]) /\ owner[x] # owner[c]
      BY <1>2, <1>4 DEF Ghost, SoleConnection
    <2>2. Ghost(x, d)
      BY <1>4, <2>1 DEF Ghost
    <2>3. Banished(x, d)
      BY <2>2 DEF GhostInv
    <2> QED
      BY <1>4, <2>3 DEF Banished, Stops
  <1> QED
    BY <1>1, <1>3, <1>4 DEF GhostInv

\* A handler that begins leaves no stop behind: its task had nothing more to do.
LEMMA IdleHasNoGhost ==
  ASSUME GhostInv, NEW c \in Conn, todo[c] = <<>>
  PROVE  \A d \in Conn : ~Ghost(c, d)
  BY DEF GhostInv, Banished

\* What begins to stop the share of c's user is about to tell everybody.
LEMMA StopFirst ==
  ASSUME TypeOK, NEW c \in Conn, owner[c] \in User, UNCHANGED owner,
         NEW x \in {None, owner[c]}, NEW rest \in Seq(Work),
         todo'[c] = <<CastWork(ShareFrame("ScreenShareStopped", owner[c]), x)>> \o rest
  PROVE  \A d \in Conn : Banished(c, d)'
  <1> DEFINE w == CastWork(ShareFrame("ScreenShareStopped", owner[c]), x)
  <1>1. w \in Work
    <2>1. ShareFrame("ScreenShareStopped", owner[c]) \in Frame
      BY FrameTypes
    <2> QED
      BY <2>1, WorkTypes
  <1>2. \A d : Stops(w, owner[c], d)
    BY ShareWorks
  <1> HIDE DEF w
  <1>3. todo'[c] # <<>> /\ Head(todo'[c]) = w
    <2>1. todo'[c] = <<w>> \o rest
      BY DEF w
    <2> QED
      BY <1>1, <2>1
  <1> QED
    BY <1>2, <1>3 DEF Banished, Stops

\* A user who connects is shown nothing yet, and whoever is connected as the same
\* user besides ends the promise about that user's shares.
LEMMA RegisterNoGhost ==
  ASSUME TypeInv, EchoInv, GhostInv, NEW c \in Conn, NEW u \in User, Register(c, u)
  PROVE  GhostInv'
  <1>t. TypeOK
    BY DEF TypeInv
  <1>1. /\ owner[c] = None /\ None \notin User /\ view' = view /\ view[c] = {}
        /\ screenShares' = screenShares
    BY NoneAssumption DEF Register, EchoInv
  <1>2. /\ owner'[c] = u /\ \A d \in Conn \ {c} : owner'[d] = owner[d]
        /\ users'[u] = c /\ \A v \in User \ {u} : users'[v] = users[v]
        /\ todo'[c] = <<UserListWork>> /\ \A d \in Conn \ {c} : todo'[d] = todo[d]
    BY <1>t DEF Register, TypeOK
  <1>3. \A d \in Conn : \A v \in view[d] : v \in User /\ \E x \in Conn \ {c} : owner[x] = v
    BY <1>t, <1>1 DEF GhostInv, TypeOK
  <1>4. \A v \in User : SoleConnection(v)' => SoleConnection(v)
    BY <1>1, <1>2 DEF SoleConnection
  <1>5. todo'[c] \in Seq(OwnWork(c)')
    <2>1. UserListWork \in OwnWork(c)'
      BY WorkTypes DEF OwnWork, Bears, UserListWork
    <2> QED
      <3> HIDE DEF OwnWork
      <3> QED BY <1>2, <2>1
  <1>6. ASSUME NEW x \in Conn, x # c
        PROVE  todo'[x] \in Seq(OwnWork(x)')
    <2>1. todo'[x] \in Seq(OwnWork(x))
      BY <1>2, <1>6 DEF GhostInv
    <2>2. \A w \in Work : Bears(w) => w.frame.user \in User
      <3>1. \A f \in Frame : f.type \in Showing \cup {"ScreenShareStopped"} => f.user \in User
        BY DEF Frame, Showing
      <3> QED
        BY <3>1, WorkParts DEF Bears
    <2>3. OwnWork(x) \subseteq OwnWork(x)'
      BY <1>1, <1>2, <1>4, <1>6, <2>2 DEF OwnWork
    <2> QED
      <3> HIDE DEF OwnWork
      <3> QED BY <2>1, <2>3, SeqMonotone
  <1>7. ASSUME NEW x \in Conn, NEW d \in Conn, Ghost(x, d)'
        PROVE  Banished(x, d)'
    <2>1. PICK v \in User :
            /\ v = owner'[x] /\ v \in view[d] /\ v \notin screenShares
            /\ \A a, b \in Conn : owner'[a] = v /\ owner'[b] = v => a = b
      BY <1>1, <1>3, <1>7 DEF Ghost, SoleConnection
    <2>2. PICK y \in Conn \ {c} : owner[y] = v
      BY <1>3, <2>1
    <2>3. x = y /\ x # c /\ owner[x] = v
      BY <1>2, <2>1, <2>2
    <2>4. d # c
      BY <1>1, <2>1
    <2>5. Current(d)
      <3>1. owner'[d] \in User /\ users'[owner'[d]] = d /\ owner'[d] = owner[d]
        BY <1>2, <1>7, <2>4 DEF Ghost, Current
      <3>2. owner[d] # u
        BY <1>2, <2>4, <3>1
      <3> QED
        BY <1>2, <3>1, <3>2 DEF Current
    <2>6. SoleConnection(v)
      BY <1>1, <1>2, <2>1 DEF SoleConnection
    <2>7. Banished(x, d)
      BY <2>1, <2>3, <2>5, <2>6 DEF Ghost, GhostInv
    <2> QED
      BY <1>2, <2>3, <2>7 DEF Banished, Stops
  <1>8. \A d \in Conn : \A v \in view'[d] : \E x \in Conn : owner'[x] = v
    BY <1>1, <1>2, <1>3
  <1>9. \A x \in Conn : todo'[x] \in Seq(OwnWork(x)')
    BY <1>5, <1>6
  <1> QED
    BY <1>7, <1>8, <1>9 DEF GhostInv

\* The end of a connection: the stop of its share goes to everybody.
LEMMA DisconnectNoGhost ==
  ASSUME TypeInv, TypeInv', GhostInv, NEW c \in Conn, Disconnect(c)
  PROVE  GhostInv'
  <1> DEFINE u == owner[c]
             stop == CastWork(ShareFrame("ScreenShareStopped", u), None)
             states == Before(VoiceStatesWork(RoomsOf(u)), <<>>)
             rest == <<UserListWork>> \o states
  <1>t. TypeOK /\ TypeOK' /\ u \in User /\ None \notin User
    BY NoneAssumption DEF TypeInv, OwnerKnown, Disconnect, Idle
  <1>1. /\ UNCHANGED <<owner, view>> /\ todo[c] = <<>>
        /\ users' = [users EXCEPT ![u] = None] /\ screenShares' = screenShares \ {u}
        /\ todo' = [todo EXCEPT ![c] = (IF u \in screenShares THEN <<stop>> ELSE <<>>)
                                         \o <<UserListWork>> \o states]
    BY DEF Disconnect, Idle
  <1>2. stop \in OwnWork(c)' /\ rest \in Seq(OwnWork(c)') /\ rest \in Seq(Work)
    <2>1. OwnWork(c)' = {w \in Work : Bears(w) =>
             /\ w.frame.user = u
             /\ w.op = "cast" => w.except \in {None, u}
             /\ w.frame.type \in Showing /\ SoleConnection(u) => u \in screenShares'}
      BY <1>1 DEF OwnWork, SoleConnection
    <2>2. stop \in Work /\ stop.op = "cast" /\ stop.except = None
          /\ stop.frame.user = u /\ stop.frame.type \notin Showing
      <3>1. ShareFrame("ScreenShareStopped", u) \in Frame
        BY <1>t, FrameTypes
      <3> QED
        BY <3>1, WorkTypes DEF CastWork, ShareFrame, Showing
    <2>3. stop \in OwnWork(c)'
      BY <2>1, <2>2
    <2>4. \A w \in Work : ~Bears(w) => w \in OwnWork(c)'
      BY DEF OwnWork
    <2>5. /\ UserListWork \in OwnWork(c)' /\ VoiceStatesWork(RoomsOf(u)) \in OwnWork(c)'
          /\ UserListWork \in Work /\ VoiceStatesWork(RoomsOf(u)) \in Work
      <3>1. RoomsOf(u) \in SUBSET Room
        BY DEF RoomsOf
      <3>2. ~Bears(UserListWork) /\ ~Bears(VoiceStatesWork(RoomsOf(u)))
        BY DEF Bears, UserListWork, VoiceStatesWork
      <3> QED
        BY <2>4, <3>1, <3>2, WorkTypes
    <2>6. states \in Seq(OwnWork(c)') /\ states \in Seq(Work)
      <3> HIDE DEF OwnWork
      <3> QED BY <2>5, BeforeNothingType
    <2> QED
      <3> HIDE DEF OwnWork, states, stop
      <3> QED BY <2>3, <2>5, <2>6, FirstType
  <1>3. todo'[c] = IF u \in screenShares THEN <<stop>> \o rest ELSE rest
    <2> HIDE DEF states, stop
    <2>1. states \in Seq(Work) /\ stop \in Work /\ UserListWork \in Work
      BY <1>2, WorkTypes DEF OwnWork, states
    <2> QED
      BY <1>t, <1>1, <2>1 DEF TypeOK
  <1>4. todo'[c] \in Seq(OwnWork(c)')
    <2> HIDE DEF stop, rest, OwnWork
    <2> QED BY <1>2, <1>3, FirstType
  <1>5. \A d \in Conn : Current(d)' => Current(d)
    BY <1>t, <1>1, NoneAssumption DEF Current, TypeOK
  <1>6. ASSUME NEW d \in Conn, Ghost(c, d)'
        PROVE  Banished(c, d)'
    <2>1. CASE u \in screenShares
      <3>1. todo'[c] = <<stop>> \o rest
        BY <1>3, <2>1
      <3> HIDE DEF rest
      <3> QED BY <1>t, <1>1, <1>2, <3>1, StopFirst
    <2>2. CASE u \notin screenShares
      <3>1. Ghost(c, d)
        BY <1>1, <1>5, <1>6, <2>2 DEF Ghost, SoleConnection
      <3> QED
        BY <1>1, <3>1, IdleHasNoGhost
    <2> QED
      BY <2>1, <2>2
  <1>7. \A x \in Conn \ {c} : todo'[x] = todo[x]
    BY <1>1
  <1> HIDE DEF stop, rest, states
  <1> QED
    BY <1>t, <1>1, <1>4, <1>5, <1>6, <1>7, GhostKept

\* The handlers of a share: what starts or relays it is stored with it, and what
\* ends it is announced.
LEMMA SharesNoGhost ==
  ASSUME TypeInv, TypeInv', GhostInv, NEW c \in Conn,
         InsertShare(c) \/ StopScreenShare(c) \/ RelayFrame(c)
  PROVE  GhostInv'
  <1> DEFINE u == owner[c]
  <1>t. TypeOK /\ TypeOK' /\ u \in User
    BY DEF TypeInv, OwnerKnown, InsertShare, StopScreenShare, RelayFrame, Request, Idle
  <1>1. /\ UNCHANGED <<owner, view, users>>
        /\ \A x \in Conn \ {c} : todo'[x] = todo[x]
        /\ \A v : v # u => (v \in screenShares' <=> v \in screenShares)
    BY <1>t DEF InsertShare, StopScreenShare, RelayFrame, hub, TypeOK
  <1>2. \A d \in Conn : Current(d)' => Current(d)
    BY <1>1 DEF Current
  <1>3. \A d \in Conn : view'[d] \subseteq view[d] \cup {u}
    BY <1>1
  <1>4. ASSUME todo'[c] \in Seq(OwnWork(c)'), \A d \in Conn : Ghost(c, d)' => Banished(c, d)'
        PROVE  GhostInv'
    BY <1>t, <1>1, <1>2, <1>3, <1>4, GhostKept
  <1>5. \A kind \in Showing \cup {"ScreenShareStopped"} :
          /\ ShareFrame(kind, u) \in Frame /\ CastWork(ShareFrame(kind, u), u) \in Work
          /\ kind \in Showing /\ u \in screenShares' =>
               CastWork(ShareFrame(kind, u), u) \in OwnWork(c)'
          /\ kind \notin Showing => CastWork(ShareFrame(kind, u), u) \in OwnWork(c)'
    <2> SUFFICES ASSUME NEW kind \in Showing \cup {"ScreenShareStopped"}
                 PROVE  /\ ShareFrame(kind, u) \in Frame /\ CastWork(ShareFrame(kind, u), u) \in Work
                        /\ kind \in Showing /\ u \in screenShares' =>
                             CastWork(ShareFrame(kind, u), u) \in OwnWork(c)'
                        /\ kind \notin Showing => CastWork(ShareFrame(kind, u), u) \in OwnWork(c)'
      OBVIOUS
    <2>1. ShareFrame(kind, u) \in Frame /\ ShareFrame(kind, u).type = kind
          /\ ShareFrame(kind, u).user = u
      BY <1>t, FrameTypes DEF ShareFrame, Showing
    <2> DEFINE w == CastWork(ShareFrame(kind, u), u)
    <2>2. w \in Work /\ w.op = "cast" /\ w.except = u /\ w.frame = ShareFrame(kind, u)
      BY <1>t, <2>1, WorkTypes DEF CastWork
    <2> HIDE DEF w
    <2>3. (kind \in Showing => u \in screenShares') => w \in OwnWork(c)'
      BY <1>1, <2>1, <2>2 DEF OwnWork
    <2> QED
      BY <2>1, <2>2, <2>3 DEF w
  <1>6. CASE InsertShare(c)
    <2>1. todo'[c] = <<CastWork(ShareFrame("ScreenShareStarted", u), u)>> /\ u \in screenShares'
      BY <1>t, <1>6 DEF InsertShare, TypeOK
    <2>2. CastWork(ShareFrame("ScreenShareStarted", u), u) \in OwnWork(c)'
      BY <1>5, <2>1 DEF Showing
    <2>3. todo'[c] \in Seq(OwnWork(c)')
      <3> HIDE DEF OwnWork
      <3> QED BY <2>1, <2>2
    <2>4. \A d \in Conn : ~Ghost(c, d)'
      BY <1>1, <2>1 DEF Ghost
    <2> QED
      BY <1>4, <2>3, <2>4
  <1>7. CASE StopScreenShare(c)
    <2>1. todo'[c] = <<CastWork(ShareFrame("ScreenShareStopped", u), u)>>
      BY <1>t, <1>7 DEF StopScreenShare, TypeOK
    <2>2. /\ CastWork(ShareFrame("ScreenShareStopped", u), u) \in OwnWork(c)'
          /\ CastWork(ShareFrame("ScreenShareStopped", u), u) \in Work
      BY <1>5 DEF Showing
    <2>3. todo'[c] \in Seq(OwnWork(c)')
      <3> HIDE DEF OwnWork
      <3> QED BY <2>1, <2>2
    <2>4. todo'[c] = <<CastWork(ShareFrame("ScreenShareStopped", u), u)>> \o <<>>
          /\ <<>> \in Seq(Work)
      <3> DEFINE w == CastWork(ShareFrame("ScreenShareStopped", u), u)
      <3>1. w \in Work /\ todo'[c] = <<w>>
        BY <2>1, <2>2
      <3> HIDE DEF w
      <3>2. todo'[c] = <<w>> \o <<>> /\ <<>> \in Seq(Work)
        BY <3>1
      <3> QED
        BY <3>2 DEF w
    <2>5. \A d \in Conn : Banished(c, d)'
      BY <1>t, <1>1, <2>4, StopFirst
    <2> QED
      BY <1>4, <2>3, <2>5
  <1>8. CASE RelayFrame(c)
    <2>1. /\ todo'[c] = <<CastWork(ShareFrame("ScreenShareFrame", u), u)>>
          /\ todo[c] = <<>> /\ u \in screenShares' /\ screenShares' = screenShares
      BY <1>t, <1>8 DEF RelayFrame, Request, Idle, hub, TypeOK
    <2>2. CastWork(ShareFrame("ScreenShareFrame", u), u) \in OwnWork(c)'
      BY <1>5, <2>1 DEF Showing
    <2>3. todo'[c] \in Seq(OwnWork(c)')
      <3> HIDE DEF OwnWork
      <3> QED BY <2>1, <2>2
    <2>4. \A d \in Conn : ~Ghost(c, d)'
      BY <1>1, <2>1 DEF Ghost
    <2> QED
      BY <1>4, <2>3, <2>4
  <1> QED
    BY <1>6, <1>7, <1>8

\* The handlers of the voice rooms and the sections that collect a list: neither
\* shows a share nor ends one.
LEMMA PlainNoGhost ==
  ASSUME TypeInv, TypeInv', GhostInv, NEW c \in Conn, UNCHANGED <<users, screenShares, owner, view>>,
         todo[c] = <<>> \/ Head(todo[c]).op \notin {"cast", "send"},
         NEW s \in Seq(OwnWork(c)), todo' = [todo EXCEPT ![c] = s]
  PROVE  GhostInv'
  <1>t. TypeOK /\ TypeOK'
    BY DEF TypeInv
  <1>1. OwnWork(c)' = OwnWork(c)
    BY DEF OwnWork, Bears, SoleConnection
  <1>2. todo'[c] \in Seq(OwnWork(c)') /\ \A x \in Conn \ {c} : todo'[x] = todo[x]
    BY <1>t, <1>1 DEF TypeOK
  <1>3. \A d \in Conn : ~Ghost(c, d)
    BY DEF GhostInv, Banished, Stops
  <1>4. \A d \in Conn : ~Ghost(c, d)' /\ (Current(d)' => Current(d))
    BY <1>3 DEF Ghost, Current, SoleConnection
  <1> QED
    BY <1>t, <1>2, <1>4, GhostKept

\* The targets of a stop: whoever is registered now, but for the broadcaster, is one.
LEMMA TargetsNoGhost ==
  ASSUME TypeInv, TypeInv', ChannelIsCurrent, EchoInv, GhostInv, NEW c \in Conn, CollectTargets(c)
  PROVE  GhostInv'
  <1> DEFINE cast == Head(todo[c])
             targets == {users[v] : v \in User \ {cast.except}} \ {None}
             send == SendWork(cast.frame, targets)
  <1>t. TypeOK /\ TypeOK'
    BY DEF TypeInv
  <1>1. /\ UNCHANGED <<users, screenShares, owner, view, phase>>
        /\ todo[c] # <<>> /\ cast.op = "cast"
        /\ todo'[c] = Before(send, Tail(todo[c])) /\ \A x \in Conn \ {c} : todo'[x] = todo[x]
    BY <1>t DEF CollectTargets, NextWork, hub, TypeOK
  <1>2. OwnWork(c)' = OwnWork(c) /\ cast \in OwnWork(c) /\ Tail(todo[c]) \in Seq(OwnWork(c))
    <2>1. OwnWork(c)' = OwnWork(c)
      BY <1>1 DEF OwnWork, SoleConnection
    <2>2. todo[c] \in Seq(OwnWork(c))
      BY DEF GhostInv
    <2> QED
      <3> HIDE DEF OwnWork
      <3> QED BY <1>1, <2>1, <2>2, HeadTailType
  <1>3. /\ send \in Work /\ send.op = "send" /\ send.frame = cast.frame /\ send.to = targets
        /\ cast \in Work
    <2>1. cast \in Work
      BY <1>2 DEF OwnWork
    <2>2. cast.frame \in Frame /\ targets \in SUBSET Conn
      BY <1>t, <1>1, <2>1, WorkParts DEF TypeOK
    <2> QED
      BY <2>1, <2>2, WorkTypes DEF SendWork
  <1> HIDE DEF send, cast
  <1>4. send \in OwnWork(c)
    BY <1>1, <1>2, <1>3 DEF OwnWork, Bears
  <1>5. todo'[c] \in Seq(OwnWork(c)')
    <2> HIDE DEF OwnWork
    <2> QED BY <1>1, <1>2, <1>4, BeforeType
  <1>6. ASSUME NEW d \in Conn, Ghost(c, d)'
        PROVE  Banished(c, d)'
    <2>1. Ghost(c, d) /\ Current(d)
      BY <1>1, <1>6 DEF Ghost, Current, SoleConnection
    <2>2. Stops(cast, owner[c], d)
      BY <2>1 DEF GhostInv, Banished, cast
    <2>3. owner[d] # owner[c] /\ owner[d] \in User
      BY <2>1 DEF EchoInv, NoEcho, Ghost, Current
    <2>4. cast.except \in {None, owner[c]}
      BY <1>1, <1>2, <2>2 DEF OwnWork, Bears, Stops, ShareFrame
    <2>5. d \in targets
      <3>1. owner[d] \in User \ {cast.except} /\ users[owner[d]] = d /\ d # None
        BY <2>1, <2>3, <2>4, NoneAssumption DEF Current
      <3> QED
        BY <3>1
    <2>6. Stops(send, owner[c], d) /\ send.to # {}
      BY <1>3, <2>2, <2>5 DEF Stops
    <2>7. todo'[c] = <<send>> \o Tail(todo[c])
      BY <1>1, <1>3, <2>6 DEF Before
    <2>8. todo'[c] # <<>> /\ Head(todo'[c]) = send
      BY <1>2, <1>4, <2>7
    <2> QED
      BY <1>1, <2>6, <2>8 DEF Banished, Stops
  <1>7. \A d \in Conn : (Current(d)' => Current(d)) /\ view'[d] \subseteq view[d] \cup {owner[c]}
    BY <1>1 DEF Current
  <1> QED
    BY <1>t, <1>1, <1>5, <1>6, <1>7, GhostKept

\* One send of a stop: its target shows the share no longer, the others are still
\* to be told.
LEMMA SendNoGhost ==
  ASSUME TypeInv, TypeInv', ChannelIsCurrent, GhostInv, NEW c \in Conn, SendOne(c)
  PROVE  GhostInv'
  <1> DEFINE send == Head(todo[c])
  <1>t. TypeOK /\ TypeOK'
    BY DEF TypeInv
  <1>1. /\ UNCHANGED <<users, screenShares, owner, phase>>
        /\ todo[c] # <<>> /\ send.op = "send"
    BY DEF SendOne, NextWork, hub
  <1>2. PICK e \in send.to :
          /\ todo' = [todo EXCEPT ![c] = Before(SendWork(send.frame, send.to \ {e}), Tail(@))]
          /\ view' = [view EXCEPT ![e] = IF phase[e] = "gone" THEN @ ELSE Shown(@, send.frame)]
    BY DEF SendOne
  <1> DEFINE next == SendWork(send.frame, send.to \ {e})
  <1>3. OwnWork(c)' = OwnWork(c) /\ send \in OwnWork(c) /\ Tail(todo[c]) \in Seq(OwnWork(c))
    <2>1. OwnWork(c)' = OwnWork(c)
      BY <1>1 DEF OwnWork, SoleConnection
    <2>2. todo[c] \in Seq(OwnWork(c))
      BY DEF GhostInv
    <2> QED
      <3> HIDE DEF OwnWork
      <3> QED BY <1>1, <2>1, <2>2, HeadTailType
  <1>4. /\ next \in Work /\ next.op = "send" /\ next.frame = send.frame /\ next.to = send.to \ {e}
        /\ send.frame \in Frame /\ e \in Conn
    <2>1. send \in Work
      BY <1>3 DEF OwnWork
    <2>2. send.frame \in Frame /\ send.to \in SUBSET Conn
      BY <1>1, <2>1, WorkParts
    <2> QED
      BY <2>2, WorkTypes DEF SendWork
  <1>5. /\ todo'[c] = Before(next, Tail(todo[c])) /\ \A x \in Conn \ {c} : todo'[x] = todo[x]
        /\ view'[e] = IF phase[e] = "gone" THEN view[e] ELSE Shown(view[e], send.frame)
        /\ \A d \in Conn \ {e} : view'[d] = view[d]
    BY <1>t, <1>2, <1>4 DEF TypeOK
  <1> HIDE DEF next, send
  <1>6. todo'[c] \in Seq(OwnWork(c)')
    <2>1. next \in OwnWork(c)
      BY <1>1, <1>3, <1>4 DEF OwnWork, Bears
    <2> QED
      <3> HIDE DEF OwnWork
      <3> QED BY <1>3, <1>5, <2>1, BeforeType
  <1>7. Bears(send) \/ Shown(view[e], send.frame) = view[e]
    BY <1>1, <1>4 DEF Bears, Shown, Showing, Frame
  <1>8. Bears(send) => /\ send.frame.user = owner[c]
                       /\ Shown(view[e], send.frame) =
                            IF send.frame.type \in Showing THEN view[e] \cup {owner[c]}
                            ELSE view[e] \ {owner[c]}
    BY <1>3, <1>4 DEF OwnWork, Bears, Shown, Showing
  <1>9. ASSUME NEW d \in Conn
        PROVE  view'[d] \subseteq view[d] \cup {owner[c]}
    BY <1>5, <1>7, <1>8
  <1>10. ASSUME NEW d \in Conn, Ghost(c, d)'
         PROVE  Banished(c, d)'
    <2>1. /\ Current(d) /\ SoleConnection(owner[c]) /\ owner[c] \notin screenShares
          /\ owner[c] \in view'[d]
      BY <1>1, <1>10 DEF Ghost, Current, SoleConnection
    <2>2. Bears(send) => send.frame.type \notin Showing
      BY <1>3, <2>1 DEF OwnWork
    <2>3. owner[c] \in view[d]
      BY <1>5, <1>7, <1>8, <2>1, <2>2
    <2>4. Banished(c, d)
      BY <2>1, <2>3 DEF GhostInv, Ghost
    <2>5. Stops(send, owner[c], d) /\ Bears(send)
      BY <1>1, <2>4 DEF Banished, send, Stops, ShareFrame, Bears
    <2>6. phase[d] # "gone"
      BY <2>1, NoneAssumption DEF Current, ChannelIsCurrent, Undisconnected
    <2>7. d # e
      BY <1>5, <1>8, <2>1, <2>2, <2>5, <2>6
    <2>8. d \in next.to /\ Stops(next, owner[c], d)
      BY <1>1, <1>4, <2>5, <2>7 DEF Stops
    <2>9. todo'[c] = <<next>> \o Tail(todo[c])
      BY <1>4, <1>5, <2>8 DEF Before
    <2>10. todo'[c] # <<>> /\ Head(todo'[c]) = next
      BY <1>3, <1>4, <2>9
    <2> QED
      BY <1>1, <2>8, <2>10 DEF Banished, Stops
  <1>11. \A d \in Conn : Current(d)' => Current(d)
    BY <1>1 DEF Current
  <1> QED
    BY <1>t, <1>1, <1>5, <1>6, <1>9, <1>10, <1>11, GhostKept

LEMMA GhostInvariance == Spec => []GhostInv
  <1>1. Init => GhostInv
    <2>1. \A S : <<>> \in Seq(S)
      OBVIOUS
    <2> QED
      BY <2>1 DEF Init, GhostInv, Ghost
  <1>2. TypeInv /\ TypeInv' /\ ChannelIsCurrent /\ EchoInv /\ GhostInv /\ [Next]_vars => GhostInv'
    <2> SUFFICES ASSUME TypeInv, TypeInv', ChannelIsCurrent, EchoInv, GhostInv, [Next]_vars
                 PROVE  GhostInv'
      OBVIOUS
    <2>t. TypeOK /\ \A c \in Conn : todo[c] \in Seq(OwnWork(c))
      BY DEF TypeInv, GhostInv
    <2>1. ASSUME NEW c \in Conn, Reject(c) \/ ReadError(c) \/ StartScreenShare(c)
          PROVE  GhostInv'
      <3>1. UNCHANGED <<owner, view, todo, users, screenShares>>
        BY <2>1 DEF Reject, ReadError, StartScreenShare, hub
      <3> QED
        BY <3>1 DEF GhostInv, OwnWork, Ghost, Banished, SoleConnection, Current
    <2>2. CASE UNCHANGED vars \/ \E u \in User, a \in Addr : RememberVoiceAddr(u, a)
      <3>1. UNCHANGED <<owner, view, todo, users, screenShares>>
        BY <2>2 DEF vars, RememberVoiceAddr
      <3> QED
        BY <3>1 DEF GhostInv, OwnWork, Ghost, Banished, SoleConnection, Current
    <2>3. ASSUME NEW c \in Conn, NEW room \in Room, JoinVoice(c, room)
          PROVE  GhostInv'
      <3>1. <<VoiceStatesWork({room})>> \in Seq(OwnWork(c))
        <4> HIDE DEF OwnWork
        <4> QED BY PlainWorks
      <3> QED
        BY <2>3, <3>1, PlainNoGhost DEF JoinVoice, Request, Idle
    <2>4. ASSUME NEW c \in Conn, LeaveVoice(c)
          PROVE  GhostInv'
      <3>1. Before(VoiceStatesWork(RoomsOf(owner[c])), <<>>) \in Seq(OwnWork(c))
        <4>1. RoomsOf(owner[c]) \in SUBSET Room
          BY DEF RoomsOf
        <4> HIDE DEF OwnWork
        <4> QED BY <4>1, PlainWorks, BeforeNothingType
      <3> QED
        BY <2>4, <3>1, PlainNoGhost DEF LeaveVoice, Request, Idle
    <2>5. ASSUME NEW c \in Conn, SnapshotUsers(c)
          PROVE  GhostInv'
      <3> DEFINE registered == {u \in User : users[u] # None}
                 w == CastWork([type |-> "UserList", users |-> registered], None)
      <3>1. w \in OwnWork(c) /\ Tail(todo[c]) \in Seq(OwnWork(c))
        <4>1. registered \in SUBSET User
          OBVIOUS
        <4> HIDE DEF OwnWork
        <4> QED BY <2>5, <2>t, <4>1, PlainWorks, HeadTailType DEF SnapshotUsers, NextWork
      <3>2. <<w>> \o Tail(todo[c]) \in Seq(OwnWork(c))
        <4> HIDE DEF OwnWork, w
        <4> QED BY <3>1, FirstType
      <3> QED
        BY <2>5, <3>2, PlainNoGhost DEF SnapshotUsers, NextWork, hub
    <2>6. ASSUME NEW c \in Conn, SnapshotRoom(c)
          PROVE  GhostInv'
      <3>1. Head(todo[c]).rooms \in SUBSET Room /\ Tail(todo[c]) \in Seq(OwnWork(c))
        BY <2>6, <2>t, HeadTailType, WorkParts DEF SnapshotRoom, NextWork, TypeOK
      <3>2. PICK r \in Head(todo[c]).rooms :
              LET present == {u \in voiceRooms[r] : users[u] # None}
                  frame == [type |-> "VoiceState", room |-> r, users |-> present]
                  others == Head(todo[c]).rooms \ {r}
              IN todo' = [todo EXCEPT ![c] =
                            <<CastWork(frame, None)>>
                              \o Before(VoiceStatesWork(others), Tail(@))]
        BY <2>6 DEF SnapshotRoom
      <3> DEFINE present == {u \in voiceRooms[r] : users[u] # None}
                 w == CastWork([type |-> "VoiceState", room |-> r, users |-> present], None)
                 rest == Before(VoiceStatesWork(Head(todo[c]).rooms \ {r}), Tail(todo[c]))
      <3>3. r \in Room /\ present \in SUBSET User
        BY <2>t, <3>1 DEF TypeOK
      <3>4. w \in OwnWork(c) /\ rest \in Seq(OwnWork(c))
        <4>1. Head(todo[c]).rooms \ {r} \in SUBSET Room
          BY <3>1
        <4> HIDE DEF OwnWork, present
        <4> QED BY <3>1, <3>3, <4>1, PlainWorks, BeforeType
      <3>5. <<w>> \o rest \in Seq(OwnWork(c))
        <4> HIDE DEF OwnWork, w, rest
        <4> QED BY <3>4, FirstType
      <3> QED
        BY <2>6, <3>2, <3>5, PlainNoGhost DEF SnapshotRoom, NextWork, hub
    <2> QED
      BY <2>1, <2>2, <2>3, <2>4, <2>5, <2>6, RegisterNoGhost, DisconnectNoGhost, SharesNoGhost,
         TargetsNoGhost, SendNoGhost DEF Next, Handle, Broadcast
  <1>3. QED
    BY <1>1, <1>2, TypeCorrect, Ownership, EchoInvariance, PTL DEF Spec

\* When no broadcast is pending, no registered client shows a share that has ended,
\* of a user with one connection.  While one is pending, GhostInv says who will tell
\* the client: the task of the broadcaster, with the very next thing it does.
THEOREM NoGhosts == Spec => []NoGhostShare
  <1>1. TypeInv /\ GhostInv => NoGhostShare
    <2> SUFFICES ASSUME TypeInv, GhostInv, Settled, NEW d \in Conn, phase[d] = "open",
                        users[owner[d]] = d, NEW u \in view[d], SoleConnection(u)
                 PROVE  u \in screenShares
      BY DEF NoGhostShare
    <2>1. PICK c \in Conn : owner[c] = u
      BY DEF GhostInv
    <2>2. ~Banished(c, d)
      BY DEF Settled, Banished
    <2>3. Current(d)
      BY DEF Current, TypeInv, OwnerKnown
    <2> QED
      BY <2>1, <2>2, <2>3 DEF GhostInv, Ghost
  <1>2. QED
    BY <1>1, TypeCorrect, GhostInvariance, PTL

=============================================================================
