-------------------------------- MODULE Chat --------------------------------
(***************************************************************************)
(* Delivery of the text channel: the handlers that save, delete and        *)
(* broadcast messages and send the history, and what each client shows.    *)
(*                                                                         *)
(* The handlers of one connection run one after another; those of several  *)
(* connections interleave at every storage call, lock section and channel  *)
(* send.  The storage keeps the promise of MessageStore: a deletion is one *)
(* step.  Clients know one channel, "general".  The notice "X joined" is   *)
(* in no history and is left out, and so are several connections of one    *)
(* account (module Hub has them).                                          *)
(***************************************************************************)
EXTENDS Naturals, FiniteSets, Sequences, Functions

CONSTANTS
  User,       \* users, each with at most one connection at a time
  Admins,     \* users with is_admin
  Limit,      \* messages of a history (200 in the code)
  MaxMsgs     \* bound: messages written

ASSUME ChatAssumption ==
  Admins \subseteq User /\ Limit \in Nat \ {0} /\ MaxMsgs \in Nat

VARIABLES
  backend,   \* which storage the server runs on
  written,   \* messages written so far: message m is the m-th, by unix_ms
  author,    \* who wrote each of them
  stored,    \* unsaved, visible, deleted, or silent: deleted by a call that
             \* then failed, so that nobody was told
  open,      \* users whose connection is registered
  todo,      \* what each connection's handler still has to do, in order
  view,      \* the messages each client shows, top to bottom
  crossed,   \* history variable: messages of which a frame overtook another
             \* one, or a history, on the way to a client
  outside    \* history variable: messages its last history left out

vars == <<backend, written, author, stored, open, todo, view, crossed, outside>>

Msg == 1..MaxMsgs

-----------------------------------------------------------------------------

MessageFrame(m) == [type |-> "Message", id |-> m]
DeletedFrame(m) == [type |-> "MessageDeleted", id |-> m]
ChannelJoined   == [type |-> "ChannelJoined"]

Frame == [type : {"Message", "MessageDeleted"}, id : Msg] \cup {ChannelJoined}

Work ==
       [op : {"save", "delete"}, id : Msg]
  \cup [op : {"history"}]
  \cup [op : {"reply", "cast"}, frame : Frame]
  \cup [op : {"send"}, frame : Frame, to : SUBSET User]

ReplyWork(f)    == [op |-> "reply", frame |-> f]
CastWork(f)     == [op |-> "cast", frame |-> f]
SendWork(f, to) == [op |-> "send", frame |-> f, to |-> to]

\* A loop over no target is over at once.
Before(w, rest) ==
  IF w.op = "send" /\ w.to = {} THEN rest ELSE <<w>> \o rest

TypeOK ==
  /\ backend \in {"memory", "postgres"}
  /\ written \in 0..MaxMsgs
  /\ author \in [1..written -> User]
  /\ stored \in [Msg -> {"unsaved", "visible", "deleted", "silent"}]
  /\ open \subseteq User
  /\ todo \in [User -> Seq(Work)]
  /\ view \in [User -> Seq(Msg)]
  /\ crossed \in [User -> SUBSET Msg]
  /\ outside \in [User -> SUBSET Msg]

Init ==
  /\ backend \in {"memory", "postgres"}
  /\ written = 0
  /\ author = <<>>
  /\ stored = [m \in Msg |-> "unsaved"]
  /\ open = {}
  /\ todo = [u \in User |-> <<>>]
  /\ view = [u \in User |-> <<>>]
  /\ crossed = [u \in User |-> {}]
  /\ outside = [u \in User |-> {}]

\* The entries of seq that are in S, in the order they have there.
Only(seq, S) ==
  LET upTo[i \in 0..Len(seq)] ==
        IF i = 0 THEN <<>>
        ELSE IF seq[i] \in S THEN Append(upTo[i - 1], seq[i]) ELSE upTo[i - 1]
  IN upTo[Len(seq)]

Visible == {m \in Msg : stored[m] = "visible"}

ByTime(S) == Only([m \in Msg |-> m], S)

\* Mutant: one backend's limit for both.
Recent_Oldest ==
  ByTime({m \in Visible : Cardinality({n \in Visible : n < m}) < Limit})

\* recent_messages: MemoryStorage keeps the newest Limit messages, the SQL of
\* PostgresStorage the oldest; both return them oldest first.
Recent ==
  LET newest == {m \in Visible : Cardinality({n \in Visible : n > m}) < Limit}
      oldest == {m \in Visible : Cardinality({n \in Visible : n < m}) < Limit}
  IN ByTime(IF backend = "memory" THEN newest ELSE oldest)

-----------------------------------------------------------------------------
(* Connections and requests.                                               *)

Idle(u) == u \in open /\ todo[u] = <<>>

\* connect clears the client's list; handle_client registers the user and
\* sends the history of "general" before it reads any request.
Connect(u) ==
  /\ u \notin open /\ todo[u] = <<>>
  /\ open' = open \cup {u}
  /\ todo' = [todo EXCEPT ![u] = <<[op |-> "history"]>>]
  /\ view' = [view EXCEPT ![u] = <<>>]
  /\ crossed' = [crossed EXCEPT ![u] = {}]
  /\ outside' = [outside EXCEPT ![u] = {}]
  /\ UNCHANGED <<backend, written, author, stored>>

\* A send to a channel that has closed is dropped, and a new connection of the
\* same user has a channel of its own.
WithoutTarget(seq, u) ==
  IF seq # <<>> /\ Head(seq).op = "send"
  THEN Before(SendWork(Head(seq).frame, Head(seq).to \ {u}), Tail(seq))
  ELSE seq

\* disconnect_user, as far as the text channel goes.
Disconnect(u) ==
  /\ Idle(u)
  /\ open' = open \ {u}
  /\ todo' = [v \in User |-> WithoutTarget(todo[v], u)]
  /\ UNCHANGED <<backend, written, author, stored, view, crossed, outside>>

\* The client's channel button.
JoinChannel(u) ==
  /\ Idle(u)
  /\ todo' = [todo EXCEPT ![u] = <<[op |-> "history"]>>]
  /\ UNCHANGED <<backend, written, author, stored, open, view, crossed, outside>>

\* send_chat_message up to the storage call, for a body that is not blank: the
\* message is stamped before it is saved.
SendMessage(u) ==
  /\ Idle(u) /\ written < MaxMsgs
  /\ written' = written + 1
  /\ author' = Append(author, u)
  /\ todo' = [todo EXCEPT ![u] = <<[op |-> "save", id |-> written + 1]>>]
  /\ UNCHANGED <<backend, stored, open, view, crossed, outside>>

\* A client offers the deletion of the messages it shows.
DeleteMessage(u, m) ==
  /\ Idle(u) /\ m \in Range(view[u])
  /\ todo' = [todo EXCEPT ![u] = <<[op |-> "delete", id |-> m]>>]
  /\ UNCHANGED <<backend, written, author, stored, open, view, crossed, outside>>

-----------------------------------------------------------------------------
(* Storage calls.                                                          *)

NextWork(u, op) == todo[u] # <<>> /\ Head(todo[u]).op = op

\* MemoryStorage never fails, and PostgresStorage fails with its database.
MayFail == backend = "postgres"

\* A failed call only sends an Error frame, which changes no list.
Save(u) ==
  /\ NextWork(u, "save")
  /\ LET m == Head(todo[u]).id IN
       \/ /\ stored' = [stored EXCEPT ![m] = "visible"]
          /\ todo' = [todo EXCEPT ![u] = <<CastWork(MessageFrame(m))>>]
       \/ /\ MayFail
          /\ todo' = [todo EXCEPT ![u] = <<>>]
          /\ UNCHANGED stored
  /\ UNCHANGED <<backend, written, author, open, view, crossed, outside>>

MayDelete(u, m) == author[m] = u \/ u \in Admins

\* soft_delete_message.  PostgresStorage can fail after its UPDATE, when it
\* writes the audit entry.
Delete(u) ==
  /\ NextWork(u, "delete")
  /\ LET m == Head(todo[u]).id
         allowed == stored[m] = "visible" /\ MayDelete(u, m)
     IN \/ /\ allowed
           /\ stored' = [stored EXCEPT ![m] = "deleted"]
           /\ todo' = [todo EXCEPT ![u] = <<CastWork(DeletedFrame(m))>>]
        \/ /\ allowed /\ MayFail
           /\ stored' = [stored EXCEPT ![m] = "silent"]
           /\ todo' = [todo EXCEPT ![u] = <<>>]
        \/ /\ ~allowed \/ MayFail
           /\ todo' = [todo EXCEPT ![u] = <<>>]
           /\ UNCHANGED stored
  /\ UNCHANGED <<backend, written, author, open, view, crossed, outside>>

\* send_channel_history: the query, and then one send_to for ChannelJoined and
\* one for each message.  After a failed query only ChannelJoined follows.
LoadHistory(u) ==
  /\ NextWork(u, "history")
  /\ \E messages \in {Recent} \cup (IF MayFail THEN {<<>>} ELSE {}) :
       /\ todo' = [todo EXCEPT ![u] =
                     <<ReplyWork(ChannelJoined)>>
                       \o [i \in DOMAIN messages |->
                             ReplyWork(MessageFrame(messages[i]))]]
       /\ outside' = [outside EXCEPT ![u] = Visible \ Range(messages)]
  /\ UNCHANGED <<backend, written, author, stored, open, view, crossed>>

-----------------------------------------------------------------------------
(* Sending.                                                                *)

\* Mutant: joining a channel does not clear the list.
Shown_KeepsList(list, f) ==
  CASE f.type = "ChannelJoined"  -> list
    [] f.type = "Message"        -> Append(list, f.id)
    [] f.type = "MessageDeleted" -> Only(list, Msg \ {f.id})

\* apply_server_frame: channels are FIFO, so a list folds frames in the order
\* in which they are queued.
Shown(list, f) ==
  CASE f.type = "ChannelJoined"  -> <<>>
    [] f.type = "Message"        -> Append(list, f.id)
    [] f.type = "MessageDeleted" -> Only(list, Msg \ {f.id})

SendReply(u) ==
  /\ NextWork(u, "reply")
  /\ todo' = [todo EXCEPT ![u] = Tail(@)]
  /\ view' = [view EXCEPT ![u] = Shown(@, Head(todo[u]).frame)]
  /\ UNCHANGED <<backend, written, author, stored, open, crossed, outside>>

\* Mutants: the sender is left out, as in broadcast_except; the loop over the
\* targets ends after the first.
CollectTargets_NotSender(u) ==
  /\ NextWork(u, "cast")
  /\ todo' = [todo EXCEPT ![u] =
                Before(SendWork(Head(@).frame, open \ {u}), Tail(@))]
  /\ UNCHANGED <<backend, written, author, stored, open, view, crossed, outside>>

CollectTargets_One(u) ==
  /\ NextWork(u, "cast")
  /\ \E d \in open :
       todo' = [todo EXCEPT ![u] = <<SendWork(Head(@).frame, {d})>>]
  /\ UNCHANGED <<backend, written, author, stored, open, view, crossed, outside>>

\* broadcast: the section that clones the registered channels.
CollectTargets(u) ==
  /\ NextWork(u, "cast")
  /\ todo' = [todo EXCEPT ![u] = Before(SendWork(Head(@).frame, open), Tail(@))]
  /\ UNCHANGED <<backend, written, author, stored, open, view, crossed, outside>>

\* Frame f that client d has yet to be sent.
OnItsWay(f, d) ==
  \E v \in User : todo[v] # <<>> /\ LET w == Head(todo[v]) IN
    /\ w.op \in {"cast", "send"} /\ w.frame = f
    /\ w.op = "send" => d \in w.to

\* Frame f, sent to d now, arrives among the frames of a history, or after the
\* frame that announced the deletion of its message.
Crosses(f, d) ==
  \/ NextWork(d, "reply")
  \/ /\ f.type = "Message" /\ stored[f.id] = "deleted"
     /\ ~OnItsWay(DeletedFrame(f.id), d)

SendOne(u) ==
  /\ NextWork(u, "send")
  /\ LET w == Head(todo[u]) IN
       \E d \in w.to :
         /\ todo' = [todo EXCEPT ![u] = Before(SendWork(w.frame, w.to \ {d}), Tail(@))]
         /\ view' = [view EXCEPT ![d] = Shown(@, w.frame)]
         /\ crossed' = [crossed EXCEPT ![d] =
                          IF Crosses(w.frame, d) THEN @ \cup {w.frame.id} ELSE @]
  /\ UNCHANGED <<backend, written, author, stored, open, outside>>

-----------------------------------------------------------------------------

Handle(u) ==
  \/ Save(u) \/ Delete(u) \/ LoadHistory(u)
  \/ SendReply(u) \/ CollectTargets(u) \/ SendOne(u)

Next ==
  \E u \in User :
    \/ Connect(u) \/ Disconnect(u)
    \/ JoinChannel(u) \/ SendMessage(u)
    \/ \E m \in Msg : DeleteMessage(u, m)
    \/ Handle(u)

Spec == Init /\ [][Next]_vars

\* The runtime keeps polling a handler that can run, and every storage call
\* returns.  Nothing obliges a client to send, to stay or to leave.
FairSpec == Spec /\ \A u \in User : WF_vars(Handle(u))

-----------------------------------------------------------------------------
(* What the text channel promises.                                         *)

Settled == \A u \in User : todo[u] = <<>>

\* Once no handler is running, each connected client shows every visible
\* message except those its last history left out, and none that is deleted:
\* saving, deleting, broadcasting and sending histories concurrently leaves a
\* list wrong only about a message whose frames crossed on their way to it (and
\* about a deletion that failed halfway).
ListsConverge ==
  Settled =>
    \A u \in open : \A m \in Msg \ crossed[u] :
      /\ stored[m] = "visible" /\ m \notin outside[u] => m \in Range(view[u])
      /\ m \in Range(view[u]) => stored[m] \in {"visible", "silent"}

\* A list shows a message at most twice, however often the channel is joined:
\* once from its broadcast and once from a history that was loaded between its
\* saving and its broadcast (send_channel_history clears the list).
AtMostTwice ==
  \A u \in open, m \in Msg :
    Cardinality({i \in DOMAIN view[u] : view[u][i] = m}) <= 2

\* The messages of one author are shown in the order they were written, in
\* every list and across reconnections, except those that crossed a history.
AuthorsInOrder ==
  \A u \in open : \A i, j \in DOMAIN view[u] :
    /\ i < j
    /\ author[view[u][i]] = author[view[u][j]]
    /\ {view[u][i], view[u][j]} \cap crossed[u] = {}
    => view[u][i] <= view[u][j]

\* Every list is one a history and the broadcasts after it can explain.
ListsInOrder == AtMostTwice /\ AuthorsInOrder

\* With messages in memory, a limit never hides the latest message: whoever is
\* connected once the handlers are done shows the newest message saved so far,
\* loaded or broadcast, whatever was left out of the history.
NewestIsShown ==
  Settled /\ backend = "memory" =>
    \A u \in open : \A m \in Visible \ crossed[u] :
      (\A n \in Msg : n > m => stored[n] = "unsaved") => m \in Range(view[u])

\* A saved message reaches every connected client: it is shown in time, unless
\* it is deleted, the client leaves, or the client's history comes in between.
SavedIsShown ==
  \A u \in User, m \in Msg :
    (stored[m] = "visible" /\ u \in open)
      ~> (\/ m \in Range(view[u]) \/ stored[m] # "visible" \/ u \notin open
          \/ m \in crossed[u] \cup outside[u])

=============================================================================
