---------------------------- MODULE MessageStore ----------------------------
(***************************************************************************)
(* What the storage crate promises about messages, as MemoryStorage keeps  *)
(* it: every operation is one section of its RwLock.  A deletion hides a   *)
(* message and writes its audit entry in one step, a message is deleted at *)
(* most once, by its author or an administrator, and retention removes     *)
(* only what has expired.                                                  *)
(***************************************************************************)
CONSTANTS
  Msg,      \* message ids
  Caller,   \* server tasks that call the storage
  Author,   \* message -> the user who wrote it
  Actor,    \* caller -> the user it acts for
  Admins,   \* users with is_admin
  None      \* absence of a message or a user

VARIABLES
  stored,       \* message -> where it is in its life
  deletedBy,    \* message -> the user who deleted it
  audit,        \* entries of the audit log: who deleted what
  expired,      \* messages older than the visible retention
  oldEntries,   \* messages whose audit entry is older than its retention
  call,         \* caller -> the message it asked to delete
  reply         \* caller -> the result of that request

vars == <<stored, deletedBy, audit, expired, oldEntries, call, reply>>

\* A message is unsent, visible, deleted or purged (its row is gone).
Init ==
  /\ stored = [m \in Msg |-> "unsent"]
  /\ deletedBy = [m \in Msg |-> None]
  /\ audit = {}
  /\ expired = {}
  /\ oldEntries = {}
  /\ call = [c \in Caller |-> None]
  /\ reply = [c \in Caller |-> "none"]

-----------------------------------------------------------------------------

EntryOf(m, u) == [message |-> m, actor |-> u]

MayDelete(c, m) == Actor[c] = Author[m] \/ Actor[c] \in Admins

Save(m) ==
  /\ stored[m] = "unsent"
  /\ stored' = [stored EXCEPT ![m] = "visible"]
  /\ UNCHANGED <<deletedBy, audit, expired, oldEntries, call, reply>>

Ask(c, m) ==
  /\ call[c] = None
  /\ call' = [call EXCEPT ![c] = m]
  /\ UNCHANGED <<stored, deletedBy, audit, expired, oldEntries, reply>>

Waiting(c, m) == call[c] = m /\ reply[c] = "none"

Delete(c, m) ==
  /\ Waiting(c, m)
  /\ stored[m] = "visible" /\ MayDelete(c, m)
  /\ stored' = [stored EXCEPT ![m] = "deleted"]
  /\ deletedBy' = [deletedBy EXCEPT ![m] = Actor[c]]
  /\ audit' = audit \cup {EntryOf(m, Actor[c])}
  /\ reply' = [reply EXCEPT ![c] = "Deleted"]
  /\ UNCHANGED <<expired, oldEntries, call>>

Refuse(c, m, result) ==
  /\ Waiting(c, m)
  /\ \/ result = "NotFound" /\ stored[m] # "visible"
     \/ result = "Forbidden" /\ stored[m] = "visible" /\ ~MayDelete(c, m)
  /\ reply' = [reply EXCEPT ![c] = result]
  /\ UNCHANGED <<stored, deletedBy, audit, expired, oldEntries, call>>

Return(c) ==
  /\ reply[c] # "none"
  /\ call' = [call EXCEPT ![c] = None]
  /\ reply' = [reply EXCEPT ![c] = "none"]
  /\ UNCHANGED <<stored, deletedBy, audit, expired, oldEntries>>

\* Time passes one of the two cutoffs for a message or for its audit entry.
ExpireMessage(m) ==
  /\ stored[m] # "unsent"
  /\ expired' = expired \cup {m}
  /\ UNCHANGED <<stored, deletedBy, audit, oldEntries, call, reply>>

ExpireEntry(e) ==
  /\ e \in audit
  /\ oldEntries' = oldEntries \cup {e.message}
  /\ UNCHANGED <<stored, deletedBy, audit, expired, call, reply>>

\* purge_expired: the promise lets retention remove any part of what expired
\* (MemoryStorage removes all of it under its lock, PostgresStorage table by
\* table).
Purge(gone, lost) ==
  /\ gone \subseteq expired
  /\ \A e \in lost : e \in audit /\ e.message \in oldEntries
  /\ stored' = [m \in Msg |-> IF m \in gone THEN "purged" ELSE stored[m]]
  /\ deletedBy' = [m \in Msg |-> IF m \in gone THEN None ELSE deletedBy[m]]
  /\ audit' = audit \ lost
  /\ UNCHANGED <<expired, oldEntries, call, reply>>

Next ==
  \/ \E m \in Msg : Save(m) \/ ExpireMessage(m)
  \/ \E c \in Caller, m \in Msg :
       \/ Ask(c, m) \/ Delete(c, m)
       \/ \E result \in {"NotFound", "Forbidden"} : Refuse(c, m, result)
  \/ \E c \in Caller : Return(c)
  \/ \E e \in audit : ExpireEntry(e)
  \/ \E gone \in SUBSET expired, lost \in SUBSET audit : Purge(gone, lost)

Spec == Init /\ [][Next]_vars

=============================================================================
