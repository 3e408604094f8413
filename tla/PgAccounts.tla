----------------------------- MODULE PgAccounts -----------------------------
(***************************************************************************)
(* How a connection authenticates against PostgresStorage, and how the     *)
(* server bootstraps its administrator when it starts.  As in PgMessages,  *)
(* each SQL statement commits on its own, tasks interleave between their   *)
(* statements, a statement can fail and the server can restart.  The       *)
(* display name of a row is unique up to case (users_display_name_lower_   *)
(* idx): Name holds one value per class.                                   *)
(***************************************************************************)
EXTENDS FiniteSets, Naturals

CONSTANTS
  Task,        \* connections that authenticate
  User,        \* ids of user rows (uuids)
  Name,        \* display names up to case
  Invite,      \* hashed invite codes
  AdminName,   \* LD_BOOTSTRAP_ADMIN_NAME
  BootInvite,  \* LD_BOOTSTRAP_INVITE_CODE
  None,
  MaxFaults    \* bound: statement failures and server restarts

ASSUME AccountAssumption ==
  /\ AdminName \in Name
  /\ BootInvite \in Invite
  /\ None \notin User \cup Name \cup Invite
  /\ MaxFaults \in Nat

VARIABLES
  name,      \* users: row -> display name, None when there is no such row
  password,  \* users: rows with a password hash
  admins,    \* users: rows with is_admin
  members,   \* members: rows with a membership
  invites,   \* invite_codes: code -> absent, open or used
  usedBy,    \* invite_codes: code -> consumed_by_user_id
  sessions,  \* sessions: rows that own a token
  boot,      \* where main is in its start
  pc,        \* the statement each task runs next
  want,      \* the display name it presented
  code,      \* the invite code it presented
  me,        \* the user id it works with
  raced,     \* history: codes with which an account was inserted that were taken by then
  faults

tables == <<name, password, admins, members, invites, usedBy, sessions>>
locals == <<want, code>>
vars == <<name, password, admins, members, invites, usedBy, sessions,
          boot, pc, want, code, me, raced, faults>>

Register   == {"invite", "name", "user", "member", "consume"}
Statements == Register \cup {"login", "account", "session", "resume", "guest", "guestMember"}
Place      == Statements \cup {"idle", "welcome", "refused"}
Boot       == {"find", "promote", "insert", "join", "invite", "serving"}

TypeOK ==
  /\ name \in [User -> Name \cup {None}]
  /\ password \subseteq User /\ admins \subseteq User
  /\ members \subseteq User /\ sessions \subseteq User
  /\ invites \in [Invite -> {"absent", "open", "used"}]
  /\ usedBy \in [Invite -> User \cup {None}]
  /\ boot \in Boot
  /\ pc \in [Task -> Place]
  /\ want \in [Task -> Name \cup {None}]
  /\ code \in [Task -> Invite \cup {None}]
  /\ me \in [Task -> User \cup {None}]
  /\ raced \subseteq Invite
  /\ faults \in 0..MaxFaults

Init ==
  /\ name = [u \in User |-> None]
  /\ password = {} /\ admins = {} /\ members = {} /\ sessions = {}
  /\ invites = [i \in Invite |-> "absent"]
  /\ usedBy = [i \in Invite |-> None]
  /\ boot = "find"
  /\ pc = [t \in Task |-> "idle"]
  /\ want = [t \in Task |-> None]
  /\ code = [t \in Task |-> None]
  /\ me = [t \in Task |-> None]
  /\ raced = {}
  /\ faults = 0

Rows == {u \in User : name[u] # None}
Named(n) == {u \in User : name[u] = n}
Goto(t, place) == pc' = [pc EXCEPT ![t] = place]

\* A registration whose account is there and whose code is not consumed yet.
Claims(t) == pc[t] \in {"member", "consume"}

Taken(i) == invites[i] = "used" \/ \E t \in Task : Claims(t) /\ code[t] = i

-----------------------------------------------------------------------------
(* main: ensure_bootstrap_admin, then the bootstrap invite, then serving.  *)
(* LD_BOOTSTRAP_ADMIN_PASSWORD may be unset at any start.                  *)

Starting(from, to) ==
  /\ boot = from
  /\ boot' = to
  /\ UNCHANGED <<pc, want, code, me, raced, faults>>

StartWithoutBootstrap ==
  Starting("find", "serving") /\ UNCHANGED tables

FindAdmin ==
  /\ \/ Named(AdminName) # {} /\ Starting("find", "promote")
     \/ Named(AdminName) = {} /\ Starting("find", "insert")
  /\ UNCHANGED tables

\* An account of that name becomes the administrator, with the new password.
PromoteAdmin ==
  /\ Starting("promote", "invite")
  /\ password' = password \cup Named(AdminName)
  /\ admins' = admins \cup Named(AdminName)
  /\ UNCHANGED <<name, members, invites, usedBy, sessions>>

InsertAdmin ==
  /\ Starting("insert", "join")
  /\ \E u \in User \ Rows :
       /\ name' = [name EXCEPT ![u] = AdminName]
       /\ password' = password \cup {u}
       /\ admins' = admins \cup {u}
  /\ UNCHANGED <<members, invites, usedBy, sessions>>

JoinAdmin ==
  /\ Starting("join", "invite")
  /\ members' = members \cup Named(AdminName)
  /\ UNCHANGED <<name, password, admins, invites, usedBy, sessions>>

\* Mutant: DO UPDATE instead of DO NOTHING makes a used code new again.
OpenInvite_Renews(i) ==
  /\ invites' = [invites EXCEPT ![i] = "open"]
  /\ usedBy' = [usedBy EXCEPT ![i] = None]
  /\ UNCHANGED <<name, password, admins, members, sessions>>

\* create_invite: ON CONFLICT (code_hash) DO NOTHING.
OpenInvite(i) ==
  /\ invites' = IF invites[i] = "absent" THEN [invites EXCEPT ![i] = "open"] ELSE invites
  /\ UNCHANGED <<name, password, admins, members, usedBy, sessions>>

\* LD_BOOTSTRAP_INVITE_CODE may be unset; a failure of it is only logged.
BootstrapInvite ==
  /\ Starting("invite", "serving")
  /\ OpenInvite(BootInvite) \/ UNCHANGED tables

-----------------------------------------------------------------------------
(* Register: create_user_with_invite, then authenticated_with_session.     *)

Begin(t, place, n, i) ==
  /\ boot = "serving"
  /\ pc[t] = "idle"
  /\ Goto(t, place)
  /\ want' = [want EXCEPT ![t] = n]
  /\ code' = [code EXCEPT ![t] = i]
  /\ UNCHANGED <<tables, boot, me, raced, faults>>

BeginRegister(t, n, i) == Begin(t, "invite", n, i)

\* Mutant: the code is not checked.
CheckInvite_Skipped(t) ==
  /\ pc[t] = "invite"
  /\ Goto(t, "name")
  /\ UNCHANGED <<tables, boot, locals, me, raced, faults>>

CheckInvite(t) ==
  /\ pc[t] = "invite"
  /\ Goto(t, IF invites[code[t]] = "open" THEN "name" ELSE "refused")
  /\ UNCHANGED <<tables, boot, locals, me, raced, faults>>

CheckName(t) ==
  /\ pc[t] = "name"
  /\ Goto(t, IF Named(want[t]) = {} THEN "user" ELSE "refused")
  /\ UNCHANGED <<tables, boot, locals, me, raced, faults>>

\* The unique index decides between two tasks that both found the name free.
InsertRow(t, next) ==
  \/ Named(want[t]) # {} /\ Goto(t, "refused") /\ UNCHANGED <<name, me>>
  \/ /\ Named(want[t]) = {}
     /\ \E u \in User \ Rows :
          /\ name' = [name EXCEPT ![u] = want[t]]
          /\ me' = [me EXCEPT ![t] = u]
          /\ Goto(t, next)

InsertUser(t) ==
  /\ pc[t] = "user"
  /\ InsertRow(t, "member")
  /\ password' = password \cup {u \in User : name[u] # name'[u]}
  /\ raced' = IF name' # name /\ Taken(code[t]) THEN raced \cup {code[t]} ELSE raced
  /\ UNCHANGED <<admins, members, invites, usedBy, sessions, boot, locals, faults>>

InsertMember(t) ==
  /\ pc[t] = "member"
  /\ members' = members \cup {me[t]}
  /\ Goto(t, "consume")
  /\ UNCHANGED <<name, password, admins, invites, usedBy, sessions, boot, locals, me, raced, faults>>

\* Mutant: the invite is only checked.
ConsumeInvite_Skipped(t) ==
  /\ pc[t] = "consume"
  /\ Goto(t, "account")
  /\ UNCHANGED <<tables, boot, locals, me, raced, faults>>

\* UPDATE ... WHERE consumed_at_unix_ms IS NULL; the count is not looked at.
ConsumeInvite(t) ==
  LET i == code[t] IN
  /\ pc[t] = "consume"
  /\ \/ /\ invites[i] = "open"
        /\ invites' = [invites EXCEPT ![i] = "used"]
        /\ usedBy' = [usedBy EXCEPT ![i] = me[t]]
     \/ invites[i] # "open" /\ UNCHANGED <<invites, usedBy>>
  /\ Goto(t, "account")
  /\ UNCHANGED <<name, password, admins, members, sessions, boot, locals, me, raced, faults>>

\* create_session looks the user up by id, then inserts the token.
FindAccount(t) ==
  /\ pc[t] = "account"
  /\ Goto(t, IF me[t] \in Rows THEN "session" ELSE "refused")
  /\ UNCHANGED <<tables, boot, locals, me, raced, faults>>

InsertSession(t) ==
  /\ pc[t] = "session"
  /\ sessions' = sessions \cup {me[t]}
  /\ Goto(t, "welcome")
  /\ UNCHANGED <<name, password, admins, members, invites, usedBy, boot, locals, me, raced, faults>>

-----------------------------------------------------------------------------
(* Login, ResumeSession and, in development, Hello.                        *)

BeginLogin(t, n) == Begin(t, "login", n, None)

\* Mutant: an account without a password can be logged in to.
FindByName_Guests(t) ==
  /\ pc[t] = "login"
  /\ \/ \E u \in Named(want[t]) :
          me' = [me EXCEPT ![t] = u] /\ Goto(t, "account")
     \/ UNCHANGED me /\ Goto(t, "refused")
  /\ UNCHANGED <<tables, boot, locals, raced, faults>>

\* A wrong password is refused like a name without an account.
FindByName(t) ==
  /\ pc[t] = "login"
  /\ \/ \E u \in Named(want[t]) \cap password :
          me' = [me EXCEPT ![t] = u] /\ Goto(t, "account")
     \/ UNCHANGED me /\ Goto(t, "refused")
  /\ UNCHANGED <<tables, boot, locals, raced, faults>>

BeginResume(t) == Begin(t, "resume", None, None)

\* The token names a session, or nothing.  (last_seen is not modelled.)
ValidateSession(t) ==
  /\ pc[t] = "resume"
  /\ \/ \E u \in sessions : me' = [me EXCEPT ![t] = u] /\ Goto(t, "welcome")
     \/ UNCHANGED me /\ Goto(t, "refused")
  /\ UNCHANGED <<tables, boot, locals, raced, faults>>

BeginHello(t, n) == Begin(t, "guest", n, None)

InsertGuest(t) ==
  /\ pc[t] = "guest"
  /\ InsertRow(t, "guestMember")
  /\ UNCHANGED <<password, admins, members, invites, usedBy, sessions, boot, locals, raced, faults>>

InsertGuestMember(t) ==
  /\ pc[t] = "guestMember"
  /\ members' = members \cup {me[t]}
  /\ Goto(t, "welcome")
  /\ UNCHANGED <<name, password, admins, invites, usedBy, sessions, boot, locals, me, raced, faults>>

-----------------------------------------------------------------------------
(* After the welcome.                                                      *)

\* AdminCreateInvite makes a code never seen before.
CreateInvite(t, i) ==
  /\ pc[t] = "welcome" /\ me[t] \in admins
  /\ i # BootInvite /\ invites[i] = "absent"
  /\ OpenInvite(i)
  /\ UNCHANGED <<boot, pc, want, code, me, raced, faults>>

Disconnect(t) ==
  /\ pc[t] \in {"welcome", "refused"}
  /\ Goto(t, "idle")
  /\ want' = [want EXCEPT ![t] = None]
  /\ code' = [code EXCEPT ![t] = None]
  /\ me' = [me EXCEPT ![t] = None]
  /\ UNCHANGED <<tables, boot, raced, faults>>

-----------------------------------------------------------------------------
(* Failures.                                                               *)

Fault == faults < MaxFaults /\ faults' = faults + 1

\* `?` turns the failure of a statement into a refusal.  (A statement that
\* commits but is not answered leaves the tables as the failure of the next.)
StatementFails(t) ==
  /\ Fault
  /\ pc[t] \in Statements
  /\ Goto(t, "refused")
  /\ UNCHANGED <<tables, boot, locals, me, raced>>

\* The server stops, at any point of its start or later, and starts again.
Restart ==
  /\ Fault
  /\ boot' = "find"
  /\ pc' = [t \in Task |-> "idle"]
  /\ want' = [t \in Task |-> None]
  /\ code' = [t \in Task |-> None]
  /\ me' = [t \in Task |-> None]
  /\ UNCHANGED <<tables, raced>>

-----------------------------------------------------------------------------

BootStep ==
  \/ StartWithoutBootstrap \/ FindAdmin \/ PromoteAdmin
  \/ InsertAdmin \/ JoinAdmin \/ BootstrapInvite

Step(t) ==
  \/ CheckInvite(t) \/ CheckName(t) \/ InsertUser(t) \/ InsertMember(t)
  \/ ConsumeInvite(t) \/ FindAccount(t) \/ InsertSession(t)
  \/ FindByName(t) \/ ValidateSession(t)
  \/ InsertGuest(t) \/ InsertGuestMember(t)

Next ==
  \/ BootStep
  \/ \E t \in Task :
       \/ \E n \in Name : BeginLogin(t, n) \/ BeginHello(t, n)
       \/ \E n \in Name, i \in Invite : BeginRegister(t, n, i)
       \/ BeginResume(t)
       \/ Step(t)
       \/ \E i \in Invite : CreateInvite(t, i)
       \/ Disconnect(t) \/ StatementFails(t)
  \/ Restart

Spec == Init /\ [][Next]_vars

-----------------------------------------------------------------------------

\* Two accounts never share a display name, although a registration looks the
\* name up and inserts the row in two statements.
NamesUnique ==
  \A u, v \in Rows : name[u] = name[v] => u = v

\* The foreign keys hold, and a code records as consumer an account with a
\* password, and no account consumed two codes.
RowsAgree ==
  /\ members \cup sessions \cup admins \cup password \subseteq Rows
  /\ \A i \in Invite : invites[i] = "used" <=> usedBy[i] # None
  /\ \A i \in Invite : invites[i] = "used" => usedBy[i] \in password \cap members
  /\ \A i, j \in Invite : usedBy[i] = usedBy[j] /\ usedBy[i] # None => i = j

\* A registration that is welcomed has used its code up and has its account, its
\* membership and its session, whatever failed around it.
WelcomeIsComplete ==
  \A t \in Task : pc[t] = "welcome" =>
    /\ me[t] \in Rows
    /\ code[t] # None =>
         /\ invites[code[t]] = "used"
         /\ name[me[t]] = want[t]
         /\ me[t] \in members \cap sessions \cap password

\* Only the account named in the environment is ever an administrator.
AdminsAreNamed == \A u \in admins : name[u] = AdminName

\* Accounts stay consistent whatever fails, restarts and races.
AccountsAreSound == NamesUnique /\ RowsAgree /\ WelcomeIsComplete /\ AdminsAreNamed

\* A used code is never usable again and keeps its consumer: not when the server
\* restarts with the same LD_BOOTSTRAP_INVITE_CODE, not when two registrations
\* race for it.
InviteStaysUsed ==
  [][\A i \in Invite : invites[i] = "used" =>
       invites'[i] = "used" /\ usedBy'[i] = usedBy[i]]_vars

-----------------------------------------------------------------------------

\* The part of a call that is still to run, as MemoryStorage does it: the row of
\* a registration or of a guest is where the call takes effect.
Stage(place) ==
  CASE place \in {"invite", "name", "user"}                   -> "register"
    [] place \in {"member", "consume", "account", "session"}  -> "session"
    [] place = "guest"                                        -> "hello"
    [] place = "guestMember"                                  -> "welcome"
    [] OTHER                                                  -> place

\* A code counts as consumed when the account is there that will consume it.
Consumer(i) ==
  IF \E t \in Task : Claims(t) /\ code[t] = i
  THEN me[CHOOSE t \in Task : Claims(t) /\ code[t] = i]
  ELSE usedBy[i]

Promise == INSTANCE AccountStore
  WITH indexed  <- Rows,
       known    <- {i \in Invite : invites[i] # "absent"},
       consumer <- [i \in Invite |-> Consumer(i)],
       boot     <- IF boot \in {"find", "promote", "insert"} THEN "starting"
                   ELSE IF boot = "join" THEN "invite" ELSE boot,
       at       <- [t \in Task |-> Stage(pc[t])]

\* Until a statement fails, the server restarts, or an account is inserted with a
\* code that another one has taken since the check, the statements behave as the
\* atomic operations of AccountStore.
KeepsAccountPromise ==
  /\ Promise!Init
  /\ [][faults' = 0 /\ raced' = {} => [Promise!Next]_(Promise!vars)]_vars

\* Unless something failed or raced, behind each account that can log in with a
\* password, and is not the administrator's, there is a code that it has consumed,
\* or that the task which inserted it is about to consume.
AccountsAreInvited ==
  faults = 0 /\ raced = {} =>
    \A u \in password \ admins :
      \/ \E i \in Invite : usedBy[i] = u
      \/ \E t \in Task : Claims(t) /\ me[t] = u

-----------------------------------------------------------------------------

\* docs/architecture.md:44: AdminCreateInvite creates a one-time invite code.  No
\* two registrations are welcomed with one code.
InviteOnce ==
  \A s, t \in Task :
    /\ pc[s] = "welcome" /\ pc[t] = "welcome"
    /\ code[s] # None /\ code[s] = code[t]
    => s = t

=============================================================================
