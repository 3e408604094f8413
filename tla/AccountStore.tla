---------------------------- MODULE AccountStore ----------------------------
(***************************************************************************)
(* What the storage crate promises about accounts, as MemoryStorage keeps  *)
(* them: every operation is one section of its RwLock.  A registration     *)
(* checks its invite and its name, creates the account and uses the invite *)
(* up in one step.  The tasks that call it are those of                    *)
(* authenticate_first_frame.                                               *)
(***************************************************************************)
CONSTANTS
  Task,        \* connections that authenticate
  User,        \* user ids (uuids)
  Name,        \* display names up to case
  Invite,      \* hashed invite codes
  AdminName,   \* LD_BOOTSTRAP_ADMIN_NAME
  BootInvite,  \* LD_BOOTSTRAP_INVITE_CODE
  None

VARIABLES
  name,      \* users: id -> display name, None without an entry
  indexed,   \* ids that display_name_index leads to
  password,  \* users with a password hash
  admins,    \* users with is_admin
  known,     \* invite_codes: the codes that were created
  consumer,  \* invite_codes: code -> consumed_by_user_id
  sessions,  \* users that own a token
  boot,      \* where main is in its start: starting, invite, serving
  at,        \* the call each task is about to make, or how it was answered
  want,      \* the display name it presented
  code,      \* the invite code it presented
  me         \* the user id it works with

accounts == <<name, indexed, password, admins>>
invites  == <<known, consumer>>
asked    == <<want, code>>
vars == <<accounts, invites, sessions, boot, at, asked, me>>

Init ==
  /\ name = [u \in User |-> None]
  /\ indexed = {} /\ password = {} /\ admins = {} /\ sessions = {}
  /\ known = {}
  /\ consumer = [i \in Invite |-> None]
  /\ boot = "starting"
  /\ at = [t \in Task |-> "idle"]
  /\ want = [t \in Task |-> None]
  /\ code = [t \in Task |-> None]
  /\ me = [t \in Task |-> None]

Named(n) == {u \in indexed : name[u] = n}
Goto(t, place) == at' = [at EXCEPT ![t] = place]

-----------------------------------------------------------------------------
(* The start of the server.                                                *)

Start ==
  /\ boot = "starting" /\ boot' = "serving"
  /\ UNCHANGED <<accounts, invites, sessions, at, asked, me>>

\* ensure_bootstrap_admin: the account of that name, or a new one.
EnsureAdmin(u) ==
  /\ boot = "starting" /\ boot' = "invite"
  /\ u \in Named(AdminName) \/ (Named(AdminName) = {} /\ name[u] = None)
  /\ name' = [name EXCEPT ![u] = AdminName]
  /\ indexed' = indexed \cup {u}
  /\ password' = password \cup {u}
  /\ admins' = admins \cup {u}
  /\ UNCHANGED <<invites, sessions, at, asked, me>>

\* create_invite is called with a code that is not there yet: fresh ones, and the
\* one of the environment at the start of the empty store.
NewInvite(i) ==
  /\ i \notin known
  /\ known' = known \cup {i}
  /\ consumer' = [consumer EXCEPT ![i] = None]

FirstInvite ==
  /\ boot = "invite" /\ boot' = "serving"
  /\ NewInvite(BootInvite) \/ UNCHANGED invites
  /\ UNCHANGED <<accounts, sessions, at, asked, me>>

-----------------------------------------------------------------------------
(* The calls of a connection.                                              *)

Ask(t, place, n, i) ==
  /\ boot = "serving"
  /\ at[t] = "idle" /\ Goto(t, place)
  /\ want' = [want EXCEPT ![t] = n]
  /\ code' = [code EXCEPT ![t] = i]
  /\ UNCHANGED <<accounts, invites, sessions, boot, me>>

Invited(t) == code[t] \in known /\ consumer[code[t]] = None

AddUser(t, u) ==
  /\ name[u] = None
  /\ name' = [name EXCEPT ![u] = want[t]]
  /\ me' = [me EXCEPT ![t] = u]

\* create_user_with_invite.
Register(t, u) ==
  /\ at[t] = "register" /\ Goto(t, "session")
  /\ Invited(t) /\ Named(want[t]) = {}
  /\ AddUser(t, u)
  /\ indexed' = indexed \cup {u}
  /\ password' = password \cup {u}
  /\ consumer' = [consumer EXCEPT ![code[t]] = u]
  /\ UNCHANGED <<admins, known, sessions, boot, asked>>

\* register_ephemeral_user: MemoryStorage leaves a guest out of the index, and
\* PostgresStorage, which does not, refuses a name that is taken.
Greet(t, u) ==
  /\ at[t] = "hello" /\ Goto(t, "welcome")
  /\ AddUser(t, u)
  /\ \/ indexed' = indexed
     \/ Named(want[t]) = {} /\ indexed' = indexed \cup {u}
  /\ UNCHANGED <<password, admins, invites, sessions, boot, asked>>

\* find_user_by_display_name and the check of the password.
Login(t, u) ==
  /\ at[t] = "login" /\ Goto(t, "session")
  /\ u \in Named(want[t]) \cap password
  /\ me' = [me EXCEPT ![t] = u]
  /\ UNCHANGED <<accounts, invites, sessions, boot, asked>>

CreateSession(t) ==
  /\ at[t] = "session" /\ Goto(t, "welcome")
  /\ name[me[t]] # None
  /\ sessions' = sessions \cup {me[t]}
  /\ UNCHANGED <<accounts, invites, boot, asked, me>>

ValidateSession(t, u) ==
  /\ at[t] = "resume" /\ Goto(t, "welcome")
  /\ u \in sessions
  /\ me' = [me EXCEPT ![t] = u]
  /\ UNCHANGED <<accounts, invites, sessions, boot, asked>>

\* A registration is refused for its code or its name, a guest for the name; a
\* password or a token can always be wrong.
Refuse(t) ==
  /\ \/ at[t] = "register" /\ (~Invited(t) \/ Named(want[t]) # {})
     \/ at[t] = "hello" /\ Named(want[t]) # {}
     \/ at[t] \in {"login", "resume"}
  /\ Goto(t, "refused")
  /\ UNCHANGED <<accounts, invites, sessions, boot, asked, me>>

CreateInvite(t, i) ==
  /\ at[t] = "welcome" /\ me[t] \in admins
  /\ NewInvite(i)
  /\ UNCHANGED <<accounts, sessions, boot, at, asked, me>>

Disconnect(t) ==
  /\ at[t] \in {"welcome", "refused"} /\ Goto(t, "idle")
  /\ want' = [want EXCEPT ![t] = None]
  /\ code' = [code EXCEPT ![t] = None]
  /\ me' = [me EXCEPT ![t] = None]
  /\ UNCHANGED <<accounts, invites, sessions, boot>>

-----------------------------------------------------------------------------

Next ==
  \/ Start \/ FirstInvite
  \/ \E u \in User : EnsureAdmin(u)
  \/ \E t \in Task :
       \/ \E n \in Name : Ask(t, "login", n, None) \/ Ask(t, "hello", n, None)
       \/ \E n \in Name, i \in Invite : Ask(t, "register", n, i)
       \/ Ask(t, "resume", None, None)
       \/ \E u \in User :
            Register(t, u) \/ Greet(t, u) \/ Login(t, u) \/ ValidateSession(t, u)
       \/ CreateSession(t) \/ Refuse(t) \/ Disconnect(t)
       \/ \E i \in Invite : CreateInvite(t, i)

Spec == Init /\ [][Next]_vars

=============================================================================
