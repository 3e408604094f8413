----------------------------- MODULE PgMessages -----------------------------
(***************************************************************************)
(* The message operations of PostgresStorage.  Every SQL statement commits *)
(* on its own and the calling tasks interleave between statements; a       *)
(* statement can fail, and the server can stop and start again between two *)
(* of them.  The tables outlive the server.                                *)
(***************************************************************************)
EXTENDS Naturals

CONSTANTS
  Msg, User, Caller, Author, Actor, Admins, None,
  MaxFaults   \* bound: statement failures and server restarts

ASSUME StoreAssumption ==
  /\ Author \in [Msg -> User]
  /\ Actor \in [Caller -> User]
  /\ None \notin Msg \cup User
ASSUME FaultAssumption == MaxFaults \in Nat

VARIABLES
  stored, deletedBy,     \* the messages table
  audit,                 \* the audit_log table
  expired, oldEntries,   \* what lies beyond the two retention cutoffs
  call, reply,           \* the request of each task and its result
  pc,                    \* the statement each task runs next
  purging,               \* which DELETE the retention task runs next
  faults                 \* failures so far

tables == <<stored, deletedBy, audit, expired, oldEntries>>
vars == <<stored, deletedBy, audit, expired, oldEntries, call, reply,
          pc, purging, faults>>

Life    == {"unsent", "visible", "deleted", "purged"}
Results == {"none", "Deleted", "Forbidden", "NotFound", "Error"}
Entry   == [message : Msg, actor : User]
Place   == {"idle", "select", "update", "insert", "done"}

TypeOK ==
  /\ stored \in [Msg -> Life]
  /\ deletedBy \in [Msg -> User \cup {None}]
  /\ audit \subseteq Entry
  /\ expired \subseteq Msg
  /\ oldEntries \subseteq Msg
  /\ call \in [Caller -> Msg \cup {None}]
  /\ reply \in [Caller -> Results]
  /\ pc \in [Caller -> Place]
  /\ purging \in {"messages", "audit"}
  /\ faults \in 0..MaxFaults

Init ==
  /\ stored = [m \in Msg |-> "unsent"]
  /\ deletedBy = [m \in Msg |-> None]
  /\ audit = {}
  /\ expired = {}
  /\ oldEntries = {}
  /\ call = [c \in Caller |-> None]
  /\ reply = [c \in Caller |-> "none"]
  /\ pc = [c \in Caller |-> "idle"]
  /\ purging = "messages"
  /\ faults = 0

EntryOf(m, u) == [message |-> m, actor |-> u]
MayDelete(c, m) == Actor[c] = Author[m] \/ Actor[c] \in Admins

-----------------------------------------------------------------------------
(* save_message: one INSERT.                                               *)

InsertMessage(m) ==
  /\ stored[m] = "unsent"
  /\ stored' = [stored EXCEPT ![m] = "visible"]
  /\ UNCHANGED <<deletedBy, audit, expired, oldEntries, call, reply,
                 pc, purging, faults>>

-----------------------------------------------------------------------------
(* soft_delete_message: SELECT, UPDATE, INSERT.                            *)

BeginDelete(c, m) ==
  /\ pc[c] = "idle"
  /\ call' = [call EXCEPT ![c] = m]
  /\ pc' = [pc EXCEPT ![c] = "select"]
  /\ UNCHANGED <<tables, reply, purging, faults>>

Finish(c, result) ==
  /\ reply' = [reply EXCEPT ![c] = result]
  /\ pc' = [pc EXCEPT ![c] = "done"]

\* The row must be there and not deleted; who may delete it is decided here.
SelectMessage(c) ==
  LET m == call[c] IN
  /\ pc[c] = "select"
  /\ \/ stored[m] # "visible" /\ Finish(c, "NotFound")
     \/ stored[m] = "visible" /\ ~MayDelete(c, m) /\ Finish(c, "Forbidden")
     \/ /\ stored[m] = "visible" /\ MayDelete(c, m)
        /\ pc' = [pc EXCEPT ![c] = "update"]
        /\ UNCHANGED reply
  /\ UNCHANGED <<tables, call, purging, faults>>

MarkDeleted(m, u) ==
  /\ stored' = [stored EXCEPT ![m] = "deleted"]
  /\ deletedBy' = [deletedBy EXCEPT ![m] = u]

\* Mutants: the WHERE clause tests the id alone; an update of no row is retried.
UpdateMessage_AnyRow(c) ==
  /\ pc[c] = "update"
  /\ MarkDeleted(call[c], Actor[c])
  /\ pc' = [pc EXCEPT ![c] = "insert"]
  /\ UNCHANGED <<audit, expired, oldEntries, call, reply, purging, faults>>

UpdateMessage_Retries(c) ==
  /\ pc[c] = "update" /\ stored[call[c]] = "visible"
  /\ MarkDeleted(call[c], Actor[c])
  /\ pc' = [pc EXCEPT ![c] = "insert"]
  /\ UNCHANGED <<audit, expired, oldEntries, call, reply, purging, faults>>

\* UPDATE ... WHERE deleted_at_unix_ms IS NULL: no row, no deletion.
UpdateMessage(c) ==
  LET m == call[c] IN
  /\ pc[c] = "update"
  /\ \/ /\ stored[m] = "visible"
        /\ MarkDeleted(m, Actor[c])
        /\ pc' = [pc EXCEPT ![c] = "insert"]
        /\ UNCHANGED reply
     \/ /\ stored[m] # "visible"
        /\ Finish(c, "NotFound")
        /\ UNCHANGED <<stored, deletedBy>>
  /\ UNCHANGED <<audit, expired, oldEntries, call, purging, faults>>

\* Mutant: a failed INSERT is ignored.
InsertAudit_Ignored(c) ==
  /\ pc[c] = "insert"
  /\ \/ audit' = audit \cup {EntryOf(call[c], Actor[c])}
     \/ UNCHANGED audit
  /\ Finish(c, "Deleted")
  /\ UNCHANGED <<stored, deletedBy, expired, oldEntries, call, purging, faults>>

InsertAudit(c) ==
  /\ pc[c] = "insert"
  /\ audit' = audit \cup {EntryOf(call[c], Actor[c])}
  /\ Finish(c, "Deleted")
  /\ UNCHANGED <<stored, deletedBy, expired, oldEntries, call, purging, faults>>

\* delete_chat_message has its result and the task reads its next frame.
Return(c) ==
  /\ pc[c] = "done"
  /\ pc' = [pc EXCEPT ![c] = "idle"]
  /\ call' = [call EXCEPT ![c] = None]
  /\ reply' = [reply EXCEPT ![c] = "none"]
  /\ UNCHANGED <<tables, purging, faults>>

-----------------------------------------------------------------------------
(* Retention.                                                              *)

ExpireMessage(m) ==
  /\ stored[m] # "unsent"
  /\ expired' = expired \cup {m}
  /\ UNCHANGED <<stored, deletedBy, audit, oldEntries, call, reply,
                 pc, purging, faults>>

ExpireEntry(e) ==
  /\ e \in audit
  /\ oldEntries' = oldEntries \cup {e.message}
  /\ UNCHANGED <<stored, deletedBy, audit, expired, call, reply,
                 pc, purging, faults>>

\* purge_expired: one DELETE per table.
PurgeMessages ==
  /\ purging = "messages"
  /\ stored' = [m \in Msg |-> IF m \in expired THEN "purged" ELSE stored[m]]
  /\ deletedBy' = [m \in Msg |-> IF m \in expired THEN None ELSE deletedBy[m]]
  /\ purging' = "audit"
  /\ UNCHANGED <<audit, expired, oldEntries, call, reply, pc, faults>>

\* Mutant: the log is cut with the cutoff of the messages.
PurgeAudit_VisibleCutoff ==
  /\ purging = "audit"
  /\ audit' = {e \in audit : e.message \notin expired}
  /\ purging' = "messages"
  /\ UNCHANGED <<stored, deletedBy, expired, oldEntries, call, reply, pc, faults>>

PurgeAudit ==
  /\ purging = "audit"
  /\ audit' = {e \in audit : e.message \notin oldEntries}
  /\ purging' = "messages"
  /\ UNCHANGED <<stored, deletedBy, expired, oldEntries, call, reply, pc, faults>>

-----------------------------------------------------------------------------
(* Failures.                                                               *)

Fault == faults < MaxFaults /\ faults' = faults + 1

\* A statement fails without effect: `?` returns the error to the handler.
StatementFails(c) ==
  /\ Fault
  /\ pc[c] \in {"select", "update", "insert"}
  /\ Finish(c, "Error")
  /\ UNCHANGED <<tables, call, purging>>

\* The UPDATE commits but the connection breaks before its answer arrives.
UpdateUnanswered(c) ==
  /\ Fault
  /\ pc[c] = "update"
  /\ stored[call[c]] = "visible"
  /\ MarkDeleted(call[c], Actor[c])
  /\ Finish(c, "Error")
  /\ UNCHANGED <<audit, expired, oldEntries, call, purging>>

\* The same for the INSERT of the audit entry.
InsertUnanswered(c) ==
  /\ Fault
  /\ pc[c] = "insert"
  /\ audit' = audit \cup {EntryOf(call[c], Actor[c])}
  /\ Finish(c, "Error")
  /\ UNCHANGED <<stored, deletedBy, expired, oldEntries, call, purging>>

\* A DELETE fails: run_retention logs it and begins anew at its next tick.
PurgeFails ==
  /\ Fault
  /\ purging' = "messages"
  /\ UNCHANGED <<tables, call, reply, pc>>

\* The server stops and starts again: no task survives, the tables do.
Restart ==
  /\ Fault
  /\ call' = [c \in Caller |-> None]
  /\ reply' = [c \in Caller |-> "none"]
  /\ pc' = [c \in Caller |-> "idle"]
  /\ purging' = "messages"
  /\ UNCHANGED tables

-----------------------------------------------------------------------------

Statement(c) == SelectMessage(c) \/ UpdateMessage(c) \/ InsertAudit(c)

Next ==
  \/ \E m \in Msg : InsertMessage(m) \/ ExpireMessage(m)
  \/ \E c \in Caller :
       \/ \E m \in Msg : BeginDelete(c, m)
       \/ Statement(c) \/ Return(c)
       \/ StatementFails(c) \/ UpdateUnanswered(c) \/ InsertUnanswered(c)
  \/ \E e \in audit : ExpireEntry(e)
  \/ PurgeMessages \/ PurgeAudit
  \/ PurgeFails \/ Restart

Spec == Init /\ [][Next]_vars

\* The database answers or fails: a statement does not wait for ever.
FairSpec == Spec /\ \A c \in Caller : WF_vars(Statement(c)) /\ WF_vars(Return(c))

-----------------------------------------------------------------------------
(* The promise it keeps while nothing fails.                               *)

\* Between UPDATE and INSERT the deletion is done and its entry is owed.
Owes(c) == pc[c] = "insert"
Owed == {EntryOf(call[c], Actor[c]) : c \in {d \in Caller : Owes(d)}}

Promise == INSTANCE MessageStore
  WITH audit <- audit \cup Owed,
       reply <- [c \in Caller |-> IF Owes(c) THEN "Deleted" ELSE reply[c]]

\* Until a statement fails or the server restarts, the statements behave as the
\* atomic operations of MessageStore: the UPDATE is where a deletion takes effect,
\* and the entry it owes counts as written.
ImplementsPromise ==
  /\ Promise!Init
  /\ [][faults' = 0 => [Promise!Next]_(Promise!vars)]_vars

-----------------------------------------------------------------------------
(* What holds whatever fails.                                              *)

\* An audit entry, written or owed, tells of a deletion that happened: the
\* message is hidden and, while its row exists, deleted by that very user.  Two
\* deletions of one message racing each other leave one entry: none is owed
\* where one is written.
AuditTellsTruth ==
  /\ \A e \in audit \cup Owed :
       /\ stored[e.message] \in {"deleted", "purged"}
       /\ stored[e.message] = "deleted" => deletedBy[e.message] = e.actor
  /\ \A e, f \in audit : e.message = f.message => e = f
  /\ \A c \in Caller, e \in audit : Owes(c) => e.message # call[c]

\* A message is deleted by its author or by an administrator, although the row
\* that decided it was read in an earlier statement.
DeletedWithPermission ==
  \A m \in Msg : stored[m] = "deleted" =>
    deletedBy[m] = Author[m] \/ deletedBy[m] \in Admins

\* MessageDeleted is broadcast only for a deletion whose audit entry is in the
\* table (or has aged out of it): the entry is written before the answer.
AnnouncedIsAudited ==
  \A c \in Caller : reply[c] = "Deleted" =>
    EntryOf(call[c], Actor[c]) \in audit \/ call[c] \in oldEntries

\* Two tasks deleting one message are never both told that they did.
DeletedOnce ==
  \A c, d \in Caller :
    reply[c] = "Deleted" /\ reply[d] = "Deleted" /\ call[c] = call[d] => c = d

\* Deletions are sound whatever fails: truly audited, permitted, done once.
DeletionsAreSound == AuditTellsTruth /\ DeletedWithPermission /\ DeletedOnce

\* Every request is answered, with a result or an error, unless the server
\* restarts first.
RequestsAnswered == \A c \in Caller : (pc[c] # "idle") ~> (pc[c] = "idle")

-----------------------------------------------------------------------------

\* docs/requirements-ja.md:88: a message deletion must be a soft delete from the
\* history and must write an audit event.  When no request is running, every
\* deleted message would have its entry.
DeletionsAudited ==
  (\A c \in Caller : pc[c] \in {"idle", "done"}) =>
    \A m \in Msg : stored[m] = "deleted" =>
      EntryOf(m, deletedBy[m]) \in audit \/ m \in oldEntries

\* It takes a failed statement or a restart to leave a deletion without its
\* entry: neither racing deletions nor retention do.
AuditedUnlessFailed == faults = 0 => DeletionsAudited

\* No deletion is hidden from the audit log: none is announced before its entry is
\* written, and none lacks one unless a statement failed or the server restarted.
AuditIsComplete == AnnouncedIsAudited /\ AuditedUnlessFailed

=============================================================================
