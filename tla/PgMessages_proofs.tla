-------------------------- MODULE PgMessages_proofs --------------------------
(***************************************************************************)
(* Proofs about PgMessages, for any sets of messages, users and tasks, any *)
(* authors and administrators and any number of failures; and that until   *)
(* one occurs it implements MessageStore.  At the end, the same for the    *)
(* tables of PgAccounts.                                                   *)
(***************************************************************************)
EXTENDS PgMessages, TLAPS

-----------------------------------------------------------------------------
(* The inductive invariant.                                                *)

\* Where a task stands agrees with its request and its result.
TaskOK ==
  \A c \in Caller :
    /\ IF pc[c] = "idle" THEN call[c] = None ELSE call[c] \in Msg
    /\ pc[c] = "done" <=> reply[c] # "none"

\* The permission checked by the SELECT still stands at the UPDATE: neither the
\* author of a message nor a task's user ever changes.
CheckStands == \A c \in Caller : pc[c] = "update" => MayDelete(c, call[c])

\* A task that owes an entry or has announced a deletion has deleted its
\* message, alone.
Claims(c) == Owes(c) \/ reply[c] = "Deleted"

ClaimsOK ==
  /\ \A c \in Caller : Claims(c) => stored[call[c]] \in {"deleted", "purged"}
  /\ \A c, d \in Caller : Claims(c) /\ Claims(d) /\ call[c] = call[d] => c = d
  /\ \A c \in Caller : Owes(c) /\ stored[call[c]] = "deleted" =>
       deletedBy[call[c]] = Actor[c]

EntriesOK ==
  /\ \A e \in audit :
       /\ stored[e.message] \in {"deleted", "purged"}
       /\ stored[e.message] = "deleted" => deletedBy[e.message] = e.actor
  /\ \A e, f \in audit : e.message = f.message => e = f
  /\ \A c \in Caller, e \in audit : Owes(c) => e.message # call[c]

IInv ==
  /\ TypeOK
  /\ TaskOK
  /\ CheckStands
  /\ ClaimsOK
  /\ EntriesOK
  /\ DeletedWithPermission
  /\ AnnouncedIsAudited

LEMMA EntryParts ==
  ASSUME NEW m \in Msg, NEW u \in User
  PROVE  EntryOf(m, u) \in Entry /\ EntryOf(m, u).message = m /\ EntryOf(m, u).actor = u
  BY DEF Entry, EntryOf

LEMMA InitInv == Init => IInv
  BY FaultAssumption
  DEF Init, IInv, TypeOK, TaskOK, CheckStands, ClaimsOK, Claims, Owes, EntriesOK,
      DeletedWithPermission, AnnouncedIsAudited, Life, Results, Place

\* Marking a visible message deleted, by a task that may, claims it alone.
LEMMA MarkInv ==
  ASSUME IInv, NEW c \in Caller, pc[c] = "update", stored[call[c]] = "visible",
         MarkDeleted(call[c], Actor[c]),
         UNCHANGED <<audit, oldEntries, call>>,
         \/ pc' = [pc EXCEPT ![c] = "insert"] /\ reply' = reply
         \/ pc' = [pc EXCEPT ![c] = "done"] /\ reply' = [reply EXCEPT ![c] = "Error"]
  PROVE  TaskOK' /\ CheckStands' /\ ClaimsOK' /\ EntriesOK'
         /\ DeletedWithPermission' /\ AnnouncedIsAudited'
  <1> DEFINE m == call[c]
  <1> USE DEF IInv
  <1>1. /\ m \in Msg /\ reply[c] = "none" /\ Actor[c] \in User
        /\ stored'[m] = "deleted" /\ deletedBy'[m] = Actor[c]
        /\ \A n \in Msg : n # m => stored'[n] = stored[n] /\ deletedBy'[n] = deletedBy[n]
    BY StoreAssumption DEF TaskOK, TypeOK, MarkDeleted
  <1>2. \A d \in Caller : d # c => pc'[d] = pc[d] /\ reply'[d] = reply[d]
    BY DEF TypeOK
  <1>3. \/ pc'[c] = "insert" /\ reply'[c] = "none"
        \/ pc'[c] = "done" /\ reply'[c] = "Error"
    BY <1>1 DEF TypeOK
  <1>4. TaskOK'
    BY <1>1, <1>2, <1>3 DEF TaskOK
  <1>5. CheckStands'
    BY <1>2, <1>3 DEF CheckStands, MayDelete
  <1>6. \A d \in Caller : Claims(d) => d # c /\ call[d] # m /\ call[d] \in Msg
    BY <1>1 DEF ClaimsOK, Claims, Owes, TaskOK
  <1>7. \A d \in Caller : Claims(d)' => d = c \/ Claims(d)
    BY <1>2 DEF Claims, Owes
  <1>8. ClaimsOK'
    <2>1. \A d \in Caller : Claims(d)' => stored'[call'[d]] \in {"deleted", "purged"}
      BY <1>1, <1>6, <1>7 DEF ClaimsOK
    <2>2. \A d, e \in Caller : Claims(d)' /\ Claims(e)' /\ call'[d] = call'[e] => d = e
      BY <1>6, <1>7 DEF ClaimsOK
    <2>3. \A d \in Caller : Owes(d)' /\ stored'[call'[d]] = "deleted" =>
            deletedBy'[call'[d]] = Actor[d]
      <3>1. \A d \in Caller : d # c /\ Owes(d)' => Owes(d) /\ call[d] # m /\ call[d] \in Msg
        BY <1>2, <1>6 DEF Owes, Claims
      <3>2. QED
        BY <1>1, <3>1 DEF ClaimsOK
    <2>4. QED
      BY <2>1, <2>2, <2>3 DEF ClaimsOK
  <1>9. \A e \in audit : e.message \in Msg /\ e.message # m
    BY <1>1 DEF EntriesOK, TypeOK, Entry
  <1>10. EntriesOK'
    BY <1>1, <1>2, <1>9 DEF EntriesOK, Owes
  <1>11. DeletedWithPermission'
    BY <1>1 DEF DeletedWithPermission, CheckStands, MayDelete
  <1>12. AnnouncedIsAudited'
    BY <1>2, <1>3 DEF AnnouncedIsAudited
  <1>13. QED
    BY <1>4, <1>5, <1>8, <1>10, <1>11, <1>12

\* A step that gives one task a result that announces nothing.
LEMMA FinishInv ==
  ASSUME IInv, NEW c \in Caller, NEW result \in {"Forbidden", "NotFound", "Error"},
         pc[c] \in {"select", "update", "insert"}, Finish(c, result),
         UNCHANGED <<stored, deletedBy, audit, oldEntries, call>>
  PROVE  TaskOK' /\ CheckStands' /\ ClaimsOK' /\ EntriesOK'
         /\ DeletedWithPermission' /\ AnnouncedIsAudited'
  <1> USE DEF IInv, TypeOK, Finish
  <1>1. \A d \in Caller : d # c => pc'[d] = pc[d] /\ reply'[d] = reply[d]
    OBVIOUS
  <1>2. pc'[c] = "done" /\ reply'[c] = result /\ call[c] \in Msg
    BY DEF TaskOK
  <1>3. TaskOK' /\ CheckStands'
    BY <1>1, <1>2 DEF TaskOK, CheckStands, MayDelete
  <1>4. \A d \in Caller : (Claims(d)' => Claims(d)) /\ (Owes(d)' => Owes(d))
    BY <1>1, <1>2 DEF Claims, Owes
  <1>5. ClaimsOK' /\ EntriesOK'
    BY <1>4 DEF ClaimsOK, EntriesOK
  <1>6. DeletedWithPermission' /\ AnnouncedIsAudited'
    BY <1>1, <1>2 DEF DeletedWithPermission, AnnouncedIsAudited
  <1>7. QED
    BY <1>3, <1>5, <1>6

\* Writing the entry that a task owes, whether or not the answer arrives.
LEMMA WriteInv ==
  ASSUME IInv, NEW c \in Caller, NEW result \in {"Deleted", "Error"},
         pc[c] = "insert", Finish(c, result),
         audit' = audit \cup {EntryOf(call[c], Actor[c])},
         UNCHANGED <<stored, deletedBy, oldEntries, call>>
  PROVE  TaskOK' /\ CheckStands' /\ ClaimsOK' /\ EntriesOK'
         /\ DeletedWithPermission' /\ AnnouncedIsAudited'
  <1> DEFINE e == EntryOf(call[c], Actor[c])
  <1>1. /\ pc'[c] = "done" /\ reply'[c] = result /\ reply[c] = "none"
        /\ call[c] \in Msg /\ Actor[c] \in User
        /\ \A d \in Caller : d # c => pc'[d] = pc[d] /\ reply'[d] = reply[d]
    BY StoreAssumption DEF Finish, IInv, TypeOK, TaskOK
  <1>2. e.message = call[c] /\ e.actor = Actor[c]
    BY <1>1, EntryParts
  <1>3. /\ Owes(c)
        /\ \A d \in Caller : (Claims(d)' => Claims(d)) /\ (Owes(d)' => Owes(d) /\ d # c)
    BY <1>1 DEF Claims, Owes
  <1>4. TaskOK' /\ CheckStands'
    BY <1>1 DEF TaskOK, CheckStands, MayDelete, IInv
  <1>5. ClaimsOK'
    BY <1>1, <1>3 DEF ClaimsOK, IInv
  <1>6. EntriesOK'
    <2>1. stored[call[c]] \in {"deleted", "purged"}
      BY <1>3 DEF IInv, ClaimsOK, Claims
    <2>2. \A f \in audit : f.message # e.message
      BY <1>2, <1>3 DEF IInv, EntriesOK
    <2>3. \A d \in Caller : Owes(d)' => call[d] # e.message
      BY <1>2, <1>3 DEF IInv, ClaimsOK, Claims
    <2> HIDE DEF e
    <2>4. \A f \in audit' : /\ stored'[f.message] \in {"deleted", "purged"}
                            /\ stored'[f.message] = "deleted" => deletedBy'[f.message] = f.actor
      BY <1>2, <1>3, <2>1 DEF IInv, EntriesOK, ClaimsOK, e
    <2>5. \A f, g \in audit' : f.message = g.message => f = g
      BY <2>2 DEF IInv, EntriesOK, e
    <2>6. \A d \in Caller, f \in audit' : Owes(d)' => f.message # call'[d]
      BY <1>3, <2>3 DEF IInv, EntriesOK, e
    <2>7. QED
      BY <2>4, <2>5, <2>6 DEF EntriesOK
  <1>7. DeletedWithPermission' /\ AnnouncedIsAudited'
    BY <1>1 DEF DeletedWithPermission, AnnouncedIsAudited, IInv
  <1>8. QED
    BY <1>4, <1>5, <1>6, <1>7

LEMMA NextTypeOK == IInv /\ [Next]_vars => TypeOK'
  <1> SUFFICES ASSUME IInv, [Next]_vars
               PROVE  TypeOK'
    OBVIOUS
  <1>t. TypeOK /\ TaskOK
    BY DEF IInv
  <1> USE StoreAssumption, FaultAssumption DEF TypeOK, tables, Finish, Fault
  <1>1. ASSUME NEW m \in Msg, InsertMessage(m) \/ ExpireMessage(m)
        PROVE  TypeOK'
    BY <1>1, <1>t DEF InsertMessage, ExpireMessage, Life
  <1>2. ASSUME NEW c \in Caller, NEW m \in Msg, BeginDelete(c, m)
        PROVE  TypeOK'
    BY <1>2, <1>t DEF BeginDelete, Place
  <1>3. ASSUME NEW c \in Caller, SelectMessage(c)
        PROVE  TypeOK'
    BY <1>3, <1>t DEF SelectMessage, Place, Results
  <1>4. ASSUME NEW c \in Caller, UpdateMessage(c)
        PROVE  TypeOK'
    <2>1. Actor[c] \in User
      OBVIOUS
    <2>2. QED
      BY <1>4, <1>t, <2>1 DEF UpdateMessage, MarkDeleted, Place, Results, Life
  <1>5. ASSUME NEW c \in Caller, InsertAudit(c)
        PROVE  TypeOK'
    <2>1. EntryOf(call[c], Actor[c]) \in Entry
      BY <1>5, <1>t, EntryParts DEF InsertAudit, TaskOK
    <2>2. QED
      BY <1>5, <1>t, <2>1 DEF InsertAudit, Place, Results
  <1>6. ASSUME NEW c \in Caller, Return(c)
        PROVE  TypeOK'
    BY <1>6, <1>t DEF Return, Place, Results
  <1>7. ASSUME NEW c \in Caller, StatementFails(c)
        PROVE  TypeOK'
    BY <1>7, <1>t DEF StatementFails, Place, Results
  <1>8. ASSUME NEW c \in Caller, UpdateUnanswered(c)
        PROVE  TypeOK'
    <2>1. Actor[c] \in User
      OBVIOUS
    <2>2. stored' \in [Msg -> Life] /\ deletedBy' \in [Msg -> User \cup {None}]
      BY <1>8, <1>t, <2>1 DEF UpdateUnanswered, MarkDeleted, Life
    <2>3. reply' \in [Caller -> Results] /\ pc' \in [Caller -> Place]
      BY <1>8, <1>t DEF UpdateUnanswered, Place, Results
    <2>4. faults' \in 0..MaxFaults
      BY <1>8, <1>t DEF UpdateUnanswered
    <2>5. QED
      BY <1>8, <1>t, <2>2, <2>3, <2>4 DEF UpdateUnanswered
  <1>9. ASSUME NEW e \in audit, ExpireEntry(e)
        PROVE  TypeOK'
    BY <1>9, <1>t DEF ExpireEntry, Entry
  <1>10. CASE PurgeMessages
    BY <1>10, <1>t DEF PurgeMessages, Life
  <1>11. CASE PurgeAudit
    BY <1>11, <1>t DEF PurgeAudit
  <1>12. CASE Restart
    BY <1>12, <1>t DEF Restart, Place, Results
  <1>13. CASE UNCHANGED vars
    BY <1>13, <1>t DEF vars
  <1>14. ASSUME NEW c \in Caller, InsertUnanswered(c)
         PROVE  TypeOK'
    <2>1. EntryOf(call[c], Actor[c]) \in Entry
      BY <1>14, <1>t, EntryParts DEF InsertUnanswered, TaskOK
    <2>2. QED
      BY <1>14, <1>t, <2>1 DEF InsertUnanswered, Place, Results
  <1>15. CASE PurgeFails
    BY <1>15, <1>t DEF PurgeFails
  <1>16. QED
    BY <1>1, <1>2, <1>3, <1>4, <1>5, <1>6, <1>7, <1>8, <1>9, <1>10, <1>11, <1>12,
       <1>13, <1>14, <1>15 DEF Next, Statement

LEMMA NextInv == IInv /\ [Next]_vars => IInv'
  <1> SUFFICES ASSUME IInv, [Next]_vars
               PROVE  IInv'
    OBVIOUS
  <1> DEFINE Rest == TaskOK /\ CheckStands /\ ClaimsOK /\ EntriesOK
                     /\ DeletedWithPermission /\ AnnouncedIsAudited
  <1>t. TypeOK'
    BY NextTypeOK
  <1>u. TypeOK /\ Rest
    BY DEF IInv
  <1> SUFFICES Rest'
    BY <1>t DEF IInv
  <1>1. ASSUME NEW m \in Msg, InsertMessage(m)
        PROVE  Rest'
    <2>1. /\ UNCHANGED <<deletedBy, audit, oldEntries, call, reply, pc>>
          /\ stored[m] = "unsent" /\ stored'[m] = "visible"
          /\ \A n \in Msg : n # m => stored'[n] = stored[n]
      BY <1>1, <1>u DEF InsertMessage, TypeOK
    <2>2. \A c \in Caller : Claims(c) => call[c] \in Msg /\ call[c] # m
      BY <2>1, <1>u DEF ClaimsOK, Claims, Owes, TaskOK
    <2>3. TaskOK' /\ CheckStands'
      BY <2>1, <1>u DEF TaskOK, CheckStands, MayDelete
    <2>4. ClaimsOK'
      BY <2>1, <2>2, <1>u DEF ClaimsOK, Claims, Owes
    <2>5. EntriesOK'
      BY <2>1, <1>u DEF EntriesOK, Owes, TypeOK, Entry
    <2>6. DeletedWithPermission' /\ AnnouncedIsAudited'
      BY <2>1, <1>u DEF DeletedWithPermission, AnnouncedIsAudited
    <2>7. QED
      BY <2>3, <2>4, <2>5, <2>6
  <1>2. ASSUME NEW c \in Caller, NEW m \in Msg, BeginDelete(c, m)
        PROVE  Rest'
    <2>1. /\ UNCHANGED <<stored, deletedBy, audit, oldEntries, reply>>
          /\ pc[c] = "idle" /\ pc'[c] = "select" /\ call'[c] = m /\ reply[c] = "none"
          /\ \A d \in Caller : d # c => pc'[d] = pc[d] /\ call'[d] = call[d]
      BY <1>2, <1>u DEF BeginDelete, tables, TypeOK, TaskOK
    <2>2. \A d \in Caller : (Claims(d)' => Claims(d) /\ d # c) /\ (Owes(d)' => Owes(d) /\ d # c)
      BY <2>1 DEF Claims, Owes
    <2>3. TaskOK' /\ CheckStands'
      BY <2>1, <1>u DEF TaskOK, CheckStands, MayDelete
    <2>4. ClaimsOK' /\ EntriesOK'
      BY <2>1, <2>2, <1>u DEF ClaimsOK, EntriesOK
    <2>5. DeletedWithPermission' /\ AnnouncedIsAudited'
      BY <2>1, <1>u DEF DeletedWithPermission, AnnouncedIsAudited
    <2>6. QED
      BY <2>3, <2>4, <2>5
  <1>3. ASSUME NEW c \in Caller, SelectMessage(c)
        PROVE  Rest'
    <2>1. UNCHANGED <<stored, deletedBy, audit, oldEntries, call>> /\ pc[c] = "select"
      BY <1>3 DEF SelectMessage, tables
    <2>2. CASE \E result \in {"NotFound", "Forbidden"} : Finish(c, result)
      BY <2>1, <2>2, FinishInv
    <2>3. CASE MayDelete(c, call[c]) /\ pc' = [pc EXCEPT ![c] = "update"] /\ reply' = reply
      <3>1. pc'[c] = "update" /\ \A d \in Caller : d # c => pc'[d] = pc[d]
        BY <2>3, <1>u DEF TypeOK
      <3>2. \A d \in Caller : (Claims(d)' => Claims(d)) /\ (Owes(d)' => Owes(d))
        BY <2>1, <2>3, <3>1 DEF Claims, Owes
      <3>3. TaskOK' /\ CheckStands'
        BY <2>1, <2>3, <3>1, <1>u DEF TaskOK, CheckStands, MayDelete
      <3>4. ClaimsOK' /\ EntriesOK'
        BY <2>1, <3>2, <1>u DEF ClaimsOK, EntriesOK
      <3>5. DeletedWithPermission' /\ AnnouncedIsAudited'
        BY <2>1, <2>3, <1>u DEF DeletedWithPermission, AnnouncedIsAudited
      <3>6. QED
        BY <3>3, <3>4, <3>5
    <2>4. QED
      BY <1>3, <2>2, <2>3 DEF SelectMessage
  <1>4. ASSUME NEW c \in Caller, UpdateMessage(c)
        PROVE  Rest'
    <2>1. UNCHANGED <<audit, oldEntries, call>> /\ pc[c] = "update"
      BY <1>4 DEF UpdateMessage
    <2>2. CASE /\ stored[call[c]] = "visible" /\ MarkDeleted(call[c], Actor[c])
               /\ pc' = [pc EXCEPT ![c] = "insert"] /\ reply' = reply
      BY <2>1, <2>2, MarkInv
    <2>3. CASE Finish(c, "NotFound") /\ UNCHANGED <<stored, deletedBy>>
      BY <2>1, <2>3, FinishInv
    <2>4. QED
      BY <1>4, <2>2, <2>3 DEF UpdateMessage
  <1>5. ASSUME NEW c \in Caller, InsertAudit(c) \/ InsertUnanswered(c)
        PROVE  Rest'
    BY <1>5, WriteInv DEF InsertAudit, InsertUnanswered, Finish
  <1>6. ASSUME NEW c \in Caller, Return(c)
        PROVE  Rest'
    <2>1. /\ UNCHANGED <<stored, deletedBy, audit, oldEntries>>
          /\ pc'[c] = "idle" /\ reply'[c] = "none" /\ call'[c] = None
          /\ \A d \in Caller : d # c =>
               pc'[d] = pc[d] /\ reply'[d] = reply[d] /\ call'[d] = call[d]
      BY <1>6, <1>u DEF Return, tables, TypeOK
    <2>2. \A d \in Caller : (Claims(d)' => Claims(d) /\ d # c) /\ (Owes(d)' => Owes(d) /\ d # c)
      BY <2>1 DEF Claims, Owes
    <2>3. TaskOK' /\ CheckStands'
      BY <2>1, <1>u DEF TaskOK, CheckStands, MayDelete
    <2>4. ClaimsOK' /\ EntriesOK'
      BY <2>1, <2>2, <1>u DEF ClaimsOK, EntriesOK
    <2>5. DeletedWithPermission' /\ AnnouncedIsAudited'
      BY <2>1, <1>u DEF DeletedWithPermission, AnnouncedIsAudited
    <2>6. QED
      BY <2>3, <2>4, <2>5
  <1>7. ASSUME NEW c \in Caller, StatementFails(c)
        PROVE  Rest'
    BY <1>7, FinishInv DEF StatementFails, tables
  <1>8. ASSUME NEW c \in Caller, UpdateUnanswered(c)
        PROVE  Rest'
    BY <1>8, MarkInv DEF UpdateUnanswered, Finish
  <1>9. ASSUME NEW e \in audit, ExpireEntry(e)
        PROVE  Rest'
    <2>1. /\ UNCHANGED <<stored, deletedBy, audit, call, reply, pc>>
          /\ oldEntries \subseteq oldEntries'
      BY <1>9 DEF ExpireEntry
    <2>2. QED
      BY <2>1, <1>u DEF TaskOK, CheckStands, MayDelete, ClaimsOK, Claims, Owes,
                        EntriesOK, DeletedWithPermission, AnnouncedIsAudited
  <1>10. ASSUME PurgeMessages
         PROVE  Rest'
    <2>1. /\ UNCHANGED <<audit, oldEntries, call, reply, pc>>
          /\ \A m \in Msg : \/ stored'[m] = "purged"
                            \/ stored'[m] = stored[m] /\ deletedBy'[m] = deletedBy[m]
      BY <1>10 DEF PurgeMessages
    <2>2. \A c \in Caller : Claims(c) => call[c] \in Msg
      BY <1>u DEF Claims, Owes, TaskOK
    <2>3. \A e \in audit : e.message \in Msg
      BY <1>u DEF TypeOK, Entry
    <2>4. TaskOK' /\ CheckStands'
      BY <2>1, <1>u DEF TaskOK, CheckStands, MayDelete
    <2>5. ClaimsOK'
      BY <2>1, <2>2, <1>u DEF ClaimsOK, Claims, Owes
    <2>6. EntriesOK'
      BY <2>1, <2>3, <1>u DEF EntriesOK, Owes
    <2>7. DeletedWithPermission' /\ AnnouncedIsAudited'
      BY <2>1, <1>u DEF DeletedWithPermission, AnnouncedIsAudited
    <2>8. QED
      BY <2>4, <2>5, <2>6, <2>7
  <1>11. ASSUME PurgeAudit
         PROVE  Rest'
    <2>1. /\ UNCHANGED <<stored, deletedBy, oldEntries, call, reply, pc>>
          /\ audit' = {e \in audit : e.message \notin oldEntries}
      BY <1>11 DEF PurgeAudit
    <2>2. TaskOK' /\ CheckStands' /\ ClaimsOK' /\ EntriesOK' /\ DeletedWithPermission'
      BY <2>1, <1>u DEF TaskOK, CheckStands, MayDelete, ClaimsOK, Claims, Owes,
                        EntriesOK, DeletedWithPermission
    <2>3. ASSUME NEW c \in Caller, reply[c] = "Deleted", call[c] \notin oldEntries
          PROVE  EntryOf(call[c], Actor[c]) \in audit'
      <3>1. call[c] \in Msg /\ Actor[c] \in User
        BY <2>3, <1>u, StoreAssumption DEF TaskOK, TypeOK
      <3>2. QED
        BY <2>1, <2>3, <3>1, <1>u, EntryParts DEF AnnouncedIsAudited
    <2>4. AnnouncedIsAudited'
      BY <2>1, <2>3 DEF AnnouncedIsAudited
    <2>5. QED
      BY <2>2, <2>4
  <1>12. ASSUME Restart
         PROVE  Rest'
    <2>1. /\ UNCHANGED <<stored, deletedBy, audit, oldEntries>>
          /\ \A c \in Caller : pc'[c] = "idle" /\ reply'[c] = "none" /\ call'[c] = None
      BY <1>12 DEF Restart, tables
    <2>2. \A c \in Caller : ~Claims(c)' /\ ~Owes(c)'
      BY <2>1 DEF Claims, Owes
    <2>3. QED
      BY <2>1, <2>2, <1>u DEF TaskOK, CheckStands, ClaimsOK, EntriesOK,
                              DeletedWithPermission, AnnouncedIsAudited
  <1>13. ASSUME UNCHANGED vars \/ PurgeFails \/ \E m \in Msg : ExpireMessage(m)
         PROVE  Rest'
    <2>1. UNCHANGED <<stored, deletedBy, audit, oldEntries, call, reply, pc>>
      BY <1>13 DEF vars, ExpireMessage, PurgeFails, tables
    <2>2. QED
      BY <2>1, <1>u DEF TaskOK, CheckStands, MayDelete, ClaimsOK, Claims, Owes,
                        EntriesOK, DeletedWithPermission, AnnouncedIsAudited
  <1>14. QED
    BY <1>1, <1>2, <1>3, <1>4, <1>5, <1>6, <1>7, <1>8, <1>9, <1>10, <1>11, <1>12,
       <1>13 DEF Next, Statement

-----------------------------------------------------------------------------
(* What holds whatever fails.                                              *)

LEMMA Invariance == Spec => []IInv
  BY InitInv, NextInv, PTL DEF Spec

\* The variables keep their types: rows stay rows of known messages and users.
THEOREM TypeCorrect == Spec => []TypeOK
  BY Invariance, PTL DEF IInv

LEMMA InvAudit == IInv => AuditTellsTruth
  <1> SUFFICES ASSUME IInv
               PROVE  AuditTellsTruth
    OBVIOUS
  <1>1. ASSUME NEW e \in Owed
        PROVE  /\ stored[e.message] \in {"deleted", "purged"}
               /\ stored[e.message] = "deleted" => deletedBy[e.message] = e.actor
    <2>1. PICK c \in Caller : Owes(c) /\ e = EntryOf(call[c], Actor[c])
      BY DEF Owed
    <2>2. call[c] \in Msg /\ Actor[c] \in User
      BY <2>1, StoreAssumption DEF IInv, TaskOK, Owes
    <2>3. e.message = call[c] /\ e.actor = Actor[c]
      BY <2>1, <2>2, EntryParts
    <2>4. QED
      BY <2>1, <2>3 DEF IInv, ClaimsOK, Claims
  <1>2. QED
    BY <1>1 DEF AuditTellsTruth, IInv, EntriesOK

LEMMA InvOnce == IInv => DeletedOnce
  BY DEF IInv, ClaimsOK, Claims, DeletedOnce

\* The audit log never tells of a deletion that did not happen, and a message is
\* deleted at most once, by a user who may: for any number of tasks racing each
\* other and any number of failing statements and restarts.
THEOREM DeletionIsSound == Spec => []DeletionsAreSound
  <1>1. IInv => DeletionsAreSound
    BY InvAudit, InvOnce DEF IInv, DeletionsAreSound
  <1>2. QED
    BY <1>1, Invariance, PTL

\* A deletion is announced to the clients only once its audit entry is written.
THEOREM Announced == Spec => []AnnouncedIsAudited
  BY Invariance, PTL DEF IInv

-----------------------------------------------------------------------------
(* The refinement, while nothing fails.                                    *)

Written == audit \cup Owed
Told    == [c \in Caller |-> IF Owes(c) THEN "Deleted" ELSE reply[c]]

LEMMA InitMaps == Init => Promise!Init
  BY DEF Init, Promise!Init, Owed, Owes

\* Steps that leave every claim alone leave the owed entries alone.
LEMMA OwedKept ==
  ASSUME \A d \in Caller : Owes(d)' <=> Owes(d),
         \A d \in Caller : Owes(d) => call'[d] = call[d]
  PROVE  Owed' = Owed
  <1>1. ASSUME NEW e
        PROVE  e \in Owed' <=> e \in Owed
    BY DEF Owed, EntryOf
  <1>2. QED
    BY <1>1

\* A task refused by the SELECT or the UPDATE is refused by the promise.
LEMMA RefuseMaps ==
  ASSUME IInv, NEW c \in Caller, NEW result \in {"NotFound", "Forbidden"},
         pc[c] \in {"select", "update"}, Finish(c, result),
         \/ result = "NotFound" /\ stored[call[c]] # "visible"
         \/ result = "Forbidden" /\ stored[call[c]] = "visible" /\ ~MayDelete(c, call[c]),
         UNCHANGED <<tables, call>>
  PROVE  Promise!Next
  <1>1. /\ pc'[c] = "done" /\ reply'[c] = result /\ reply[c] = "none" /\ call[c] \in Msg
        /\ \A d \in Caller : d # c => pc'[d] = pc[d] /\ reply'[d] = reply[d]
    BY DEF IInv, TypeOK, TaskOK, Finish
  <1>2. \A d \in Caller : Owes(d)' <=> Owes(d)
    BY <1>1 DEF Owes
  <1>3. Owed' = Owed
    BY <1>2, OwedKept
  <1>4. Told' = [Told EXCEPT ![c] = result] /\ Told[c] = "none"
    BY <1>1, <1>2 DEF Told, Owes
  <1>5. PICK m \in Msg : m = call[c]
    BY <1>1
  <1>6. Promise!Refuse(c, m, result)
    BY <1>1, <1>3, <1>4, <1>5 DEF Promise!Refuse, Promise!Waiting, Promise!MayDelete,
                                  MayDelete, tables, Told
  <1>7. QED
    BY <1>6 DEF Promise!Next

LEMMA StepMaps ==
  ASSUME IInv, [Next]_vars, faults' = 0
  PROVE  [Promise!Next]_(Promise!vars)
  <1>u. TypeOK /\ TaskOK
    BY DEF IInv
  <1>f. ~Fault
    BY <1>u DEF Fault, TypeOK
  <1>1. ASSUME NEW m \in Msg, InsertMessage(m)
        PROVE  Promise!Next
    <2>1. Owed' = Owed /\ Told' = Told
      BY <1>1, OwedKept DEF InsertMessage, Owes, Told
    <2>2. Promise!Save(m)
      BY <1>1, <2>1 DEF InsertMessage, Promise!Save, Told
    <2>3. QED
      BY <2>2 DEF Promise!Next
  <1>2. ASSUME NEW m \in Msg, ExpireMessage(m)
        PROVE  Promise!Next
    <2>1. Owed' = Owed /\ Told' = Told
      BY <1>2, OwedKept DEF ExpireMessage, Owes, Told
    <2>2. Promise!ExpireMessage(m)
      BY <1>2, <2>1 DEF ExpireMessage, Promise!ExpireMessage, Told
    <2>3. QED
      BY <2>2 DEF Promise!Next
  <1>3. ASSUME NEW c \in Caller, NEW m \in Msg, BeginDelete(c, m)
        PROVE  Promise!Next
    <2>1. /\ pc[c] = "idle" /\ call[c] = None /\ pc'[c] = "select" /\ reply' = reply
          /\ \A d \in Caller : d # c => pc'[d] = pc[d] /\ call'[d] = call[d]
      BY <1>3, <1>u DEF BeginDelete, TypeOK, TaskOK
    <2>2. \A d \in Caller : (Owes(d)' <=> Owes(d)) /\ (Owes(d) => call'[d] = call[d])
      BY <2>1 DEF Owes
    <2>3. Owed' = Owed /\ Told' = Told
      BY <2>1, <2>2, OwedKept DEF Told
    <2>4. Promise!Ask(c, m)
      BY <1>3, <2>1, <2>3 DEF BeginDelete, tables, Promise!Ask, Told
    <2>5. QED
      BY <2>4 DEF Promise!Next
  <1>4. ASSUME NEW c \in Caller, SelectMessage(c)
        PROVE  Promise!Next \/ UNCHANGED Promise!vars
    <2>1. CASE pc' = [pc EXCEPT ![c] = "update"] /\ reply' = reply
      <3>1. \A d \in Caller : (Owes(d)' <=> Owes(d)) /\ (Owes(d) => call'[d] = call[d])
        BY <1>4, <1>u, <2>1 DEF SelectMessage, Owes, TypeOK
      <3>2. Owed' = Owed /\ Told' = Told
        BY <2>1, <3>1, OwedKept DEF Told
      <3>3. QED
        BY <1>4, <3>2 DEF SelectMessage, tables, Promise!vars, Told
    <2>2. CASE ~(pc' = [pc EXCEPT ![c] = "update"] /\ reply' = reply)
      BY <1>4, <2>2, RefuseMaps DEF SelectMessage
    <2>3. QED
      BY <2>1, <2>2
  <1>5. ASSUME NEW c \in Caller, UpdateMessage(c)
        PROVE  Promise!Next
    <2>0. PICK m \in Msg : m = call[c]
      BY <1>5, <1>u DEF UpdateMessage, TaskOK
    <2>1. CASE stored[m] = "visible"
      <3>1. /\ pc[c] = "update" /\ pc'[c] = "insert" /\ reply' = reply /\ reply[c] = "none"
            /\ call' = call /\ MayDelete(c, m)
            /\ \A d \in Caller : d # c => pc'[d] = pc[d]
        BY <2>0, <1>5, <1>u, <2>1 DEF UpdateMessage, Finish, TypeOK, TaskOK, IInv, CheckStands
      <3>2. \A d \in Caller : Owes(d)' <=> Owes(d) \/ d = c
        BY <3>1 DEF Owes
      <3>3. Owed' = Owed \cup {EntryOf(m, Actor[c])}
        <4>1. ASSUME NEW e
              PROVE  e \in Owed' <=> e \in Owed \/ e = EntryOf(m, Actor[c])
          BY <2>0, <3>1, <3>2 DEF Owed, EntryOf
        <4>2. QED
          BY <4>1
      <3>4. Told' = [Told EXCEPT ![c] = "Deleted"] /\ Told[c] = "none"
        BY <3>1, <3>2 DEF Told, Owes
      <3>5. Promise!Delete(c, m)
        BY <2>0, <1>5, <2>1, <3>1, <3>3, <3>4
        DEF UpdateMessage, MarkDeleted, MayDelete, EntryOf, Promise!Delete, Promise!Waiting,
            Promise!MayDelete, Promise!EntryOf, Told
      <3>6. QED
        BY <3>5 DEF Promise!Next
    <2>2. CASE stored[m] # "visible"
      BY <2>0, <1>5, <2>2, RefuseMaps DEF UpdateMessage, tables
    <2>3. QED
      BY <2>1, <2>2
  <1>6. ASSUME NEW c \in Caller, InsertAudit(c)
        PROVE  UNCHANGED Promise!vars
    <2>1. /\ pc[c] = "insert" /\ pc'[c] = "done" /\ reply'[c] = "Deleted" /\ call' = call
          /\ \A d \in Caller : d # c => pc'[d] = pc[d] /\ reply'[d] = reply[d]
      BY <1>6, <1>u DEF InsertAudit, Finish, TypeOK
    <2>2. \A d \in Caller : Owes(d) <=> Owes(d)' \/ d = c
      BY <2>1 DEF Owes
    <2>3. Written' = Written
      <3>1. ASSUME NEW e
            PROVE  e \in Owed <=> e \in Owed' \/ e = EntryOf(call[c], Actor[c])
        BY <2>1, <2>2 DEF Owed, EntryOf
      <3>2. QED
        BY <1>6, <3>1 DEF InsertAudit, Written
    <2>4. Told' = Told
      BY <2>1, <2>2 DEF Told, Owes
    <2>5. QED
      BY <1>6, <2>3, <2>4 DEF InsertAudit, Promise!vars, Written, Told
  <1>7. ASSUME NEW c \in Caller, Return(c)
        PROVE  Promise!Next
    <2>1. /\ pc[c] = "done" /\ pc'[c] = "idle" /\ reply[c] # "none" /\ reply'[c] = "none"
          /\ \A d \in Caller : d # c =>
               pc'[d] = pc[d] /\ reply'[d] = reply[d] /\ call'[d] = call[d]
      BY <1>7, <1>u DEF Return, TypeOK, TaskOK
    <2>2. \A d \in Caller : (Owes(d)' <=> Owes(d)) /\ (Owes(d) => call'[d] = call[d])
      BY <2>1 DEF Owes
    <2>3. Owed' = Owed /\ Told' = [Told EXCEPT ![c] = "none"] /\ Told[c] # "none"
      BY <2>1, <2>2, OwedKept DEF Told, Owes
    <2>4. Promise!Return(c)
      BY <1>7, <2>3 DEF Return, tables, Promise!Return, Told
    <2>5. QED
      BY <2>4 DEF Promise!Next
  <1>8. ASSUME NEW e \in audit, ExpireEntry(e)
        PROVE  Promise!Next
    <2>1. Owed' = Owed /\ Told' = Told
      BY <1>8, OwedKept DEF ExpireEntry, Owes, Told
    <2>2. Promise!ExpireEntry(e)
      BY <1>8, <2>1 DEF ExpireEntry, Promise!ExpireEntry, Told
    <2>3. QED
      BY <2>2 DEF Promise!Next
  <1>9. ASSUME PurgeMessages
        PROVE  Promise!Next
    <2>1. Owed' = Owed /\ Told' = Told
      BY <1>9, OwedKept DEF PurgeMessages, Owes, Told
    <2>2. Promise!Purge(expired, {})
      BY <1>9, <2>1 DEF PurgeMessages, Promise!Purge, Told
    <2>3. QED
      BY <2>2 DEF Promise!Next
  <1>10. ASSUME PurgeAudit
         PROVE  Promise!Next
    <2> DEFINE lost == {e \in audit : e.message \in oldEntries}
    <2>1. Owed' = Owed /\ Told' = Told
      BY <1>10, OwedKept DEF PurgeAudit, Owes, Told
    <2>2. Owed \cap audit = {}
      <3>1. ASSUME NEW c \in Caller, Owes(c)
            PROVE  EntryOf(call[c], Actor[c]) \notin audit
        <4>1. call[c] \in Msg /\ Actor[c] \in User
          BY <3>1, <1>u, StoreAssumption DEF TaskOK, Owes
        <4>2. QED
          BY <3>1, <4>1, EntryParts DEF IInv, EntriesOK
      <3>2. QED
        BY <3>1 DEF Owed
    <2>3. Written' = Written \ lost
      BY <1>10, <2>1, <2>2 DEF PurgeAudit, Written
    <2>4. \A m \in Msg : stored'[m] = stored[m] /\ deletedBy'[m] = deletedBy[m]
      BY <1>10 DEF PurgeAudit
    <2>5. Promise!Purge({}, lost)
      <3>1. /\ stored' = [m \in Msg |-> IF m \in {} THEN "purged" ELSE stored[m]]
            /\ deletedBy' = [m \in Msg |-> IF m \in {} THEN None ELSE deletedBy[m]]
        BY <1>10, <1>u DEF PurgeAudit, TypeOK
      <3>2. QED
        BY <1>10, <2>1, <2>3, <3>1 DEF PurgeAudit, Promise!Purge, Written, Told
    <2>6. lost \in SUBSET Written
      BY DEF Written
    <2>7. QED
      BY <2>5, <2>6 DEF Promise!Next, Written
  <1>11. ASSUME UNCHANGED vars
         PROVE  UNCHANGED Promise!vars
    <2>1. Owed' = Owed /\ Told' = Told
      BY <1>11, OwedKept DEF vars, Owes, Told
    <2>2. QED
      BY <1>11, <2>1 DEF vars, Promise!vars, Told
  <1>12. QED
    BY <1>f, <1>1, <1>2, <1>3, <1>4, <1>5, <1>6, <1>7, <1>8, <1>9, <1>10, <1>11
    DEF Next, Statement, StatementFails, UpdateUnanswered, InsertUnanswered, PurgeFails,
        Restart

\* Until a statement fails or the server stops, the three statements of a
\* deletion, interleaved with those of other tasks and with retention, behave as
\* the one atomic deletion that MemoryStorage performs.
THEOREM KeepsPromise == Spec => ImplementsPromise
  <1>1. Init => Promise!Init
    BY InitMaps
  <1>2. IInv /\ [Next]_vars => [faults' = 0 => [Promise!Next]_(Promise!vars)]_vars
    BY StepMaps
  <1>3. QED
    BY <1>1, <1>2, Invariance, PTL DEF Spec, ImplementsPromise

-----------------------------------------------------------------------------
(* Deletions are audited unless something fails: the promise carries it.   *)

\* Every deleted message has its entry, written or owed, or is old enough to have
\* lost it.
Covered ==
  \A m \in Msg : stored[m] = "deleted" =>
    EntryOf(m, deletedBy[m]) \in Written \/ m \in oldEntries

LEMMA PromiseCovers ==
  ASSUME IInv, Covered, [Promise!Next]_(Promise!vars)
  PROVE  Covered'
  <1> SUFFICES ASSUME NEW m \in Msg, stored'[m] = "deleted"
               PROVE  EntryOf(m, deletedBy'[m]) \in Written' \/ m \in oldEntries'
    BY DEF Covered, EntryOf
  <1>u. TypeOK
    BY DEF IInv
  <1>1. CASE UNCHANGED Promise!vars
    BY <1>1 DEF Promise!vars, Covered, Written
  <1>2. ASSUME NEW n \in Msg, Promise!Save(n)
        PROVE  EntryOf(m, deletedBy'[m]) \in Written' \/ m \in oldEntries'
    BY <1>2, <1>u DEF Promise!Save, Covered, Written, TypeOK
  <1>3. ASSUME NEW n \in Msg, Promise!ExpireMessage(n)
        PROVE  EntryOf(m, deletedBy'[m]) \in Written' \/ m \in oldEntries'
    BY <1>3 DEF Promise!ExpireMessage, Covered, Written
  <1>4. ASSUME NEW c \in Caller, NEW n \in Msg, Promise!Delete(c, n)
        PROVE  EntryOf(m, deletedBy'[m]) \in Written' \/ m \in oldEntries'
    <2>1. CASE m = n
      BY <1>4, <2>1, <1>u DEF Promise!Delete, Promise!EntryOf, EntryOf, Written, TypeOK
    <2>2. CASE m # n
      BY <1>4, <2>2, <1>u DEF Promise!Delete, Covered, Written, TypeOK
    <2>3. QED
      BY <2>1, <2>2
  <1>5. ASSUME NEW c \in Caller, NEW n \in Msg,
               \/ Promise!Ask(c, n) \/ Promise!Return(c)
               \/ \E result \in {"NotFound", "Forbidden"} : Promise!Refuse(c, n, result)
        PROVE  EntryOf(m, deletedBy'[m]) \in Written' \/ m \in oldEntries'
    BY <1>5 DEF Promise!Ask, Promise!Return, Promise!Refuse, Covered, Written
  <1>6. ASSUME NEW e \in Written, Promise!ExpireEntry(e)
        PROVE  EntryOf(m, deletedBy'[m]) \in Written' \/ m \in oldEntries'
    BY <1>6 DEF Promise!ExpireEntry, Covered, Written
  <1>7. ASSUME NEW gone \in SUBSET expired, NEW lost \in SUBSET Written,
               Promise!Purge(gone, lost)
        PROVE  EntryOf(m, deletedBy'[m]) \in Written' \/ m \in oldEntries'
    <2>1. stored[m] = "deleted" /\ deletedBy'[m] = deletedBy[m]
      BY <1>7 DEF Promise!Purge
    <2>2. EntryOf(m, deletedBy[m]).message = m
      BY DEF EntryOf
    <2>3. QED
      BY <1>7, <2>1, <2>2 DEF Promise!Purge, Covered, Written
  <1>8. QED
    BY <1>1, <1>2, <1>3, <1>4, <1>5, <1>6, <1>7 DEF Promise!Next, Written

CoveredUnlessFailed == faults = 0 => Covered

LEMMA StepCovers == IInv /\ CoveredUnlessFailed /\ [Next]_vars => CoveredUnlessFailed'
  <1> SUFFICES ASSUME IInv, CoveredUnlessFailed, [Next]_vars, faults' = 0
               PROVE  Covered'
    BY DEF CoveredUnlessFailed
  <1>1. faults = 0
    BY DEF IInv, TypeOK, Next, vars, InsertMessage, ExpireMessage, BeginDelete, Statement,
           SelectMessage, UpdateMessage, InsertAudit, Return, StatementFails,
           UpdateUnanswered, InsertUnanswered, Fault, ExpireEntry, PurgeMessages,
           PurgeAudit, PurgeFails, Restart
  <1>2. QED
    BY <1>1, StepMaps, PromiseCovers DEF CoveredUnlessFailed

\* It takes a failed statement or a restart to leave a deletion without its audit
\* entry, for any number of tasks deleting the same messages and with retention
\* running between their statements.
THEOREM Audited == Spec => []AuditedUnlessFailed
  <1>1. Init => CoveredUnlessFailed
    BY DEF Init, CoveredUnlessFailed, Covered
  <1>2. CoveredUnlessFailed => AuditedUnlessFailed
    <2> SUFFICES ASSUME Covered, \A c \in Caller : pc[c] \in {"idle", "done"}
                 PROVE  \A m \in Msg : stored[m] = "deleted" =>
                          EntryOf(m, deletedBy[m]) \in audit \/ m \in oldEntries
      BY DEF CoveredUnlessFailed, AuditedUnlessFailed, DeletionsAudited
    <2>1. Owed = {}
      BY DEF Owed, Owes
    <2>2. QED
      BY <2>1 DEF Covered, Written
  <1>3. QED
    BY <1>1, <1>2, StepCovers, Invariance, PTL DEF Spec

\* What the server tells its clients of a deletion is in the audit log, and what the
\* log lacks is a failure's doing.
THEOREM AuditComplete == Spec => []AuditIsComplete
  BY Announced, Audited, PTL DEF AuditIsComplete

=============================================================================
