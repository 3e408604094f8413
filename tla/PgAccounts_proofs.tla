-------------------------- MODULE PgAccounts_proofs --------------------------
(***************************************************************************)
(* Proofs about PgAccounts, for any number of connections, rows, names and *)
(* codes and any number of failures and restarts: its accounts are sound,  *)
(* and while nothing fails and no two registrations race for a code, its   *)
(* statements are the operations of AccountStore.                          *)
(***************************************************************************)
EXTENDS PgAccounts, TLAPS

-----------------------------------------------------------------------------
(* The inductive invariant.                                                *)

\* What a task presented, statement by statement: a registration has a name and
\* a code, which exists once it was checked; everybody else has no code.
Presented ==
  \A t \in Task :
    /\ pc[t] \in Register => code[t] \in Invite /\ want[t] \in Name
    /\ pc[t] \in Register \ {"invite"} => invites[code[t]] # "absent"
    /\ pc[t] = "guest" => want[t] \in Name
    /\ pc[t] \in {"login", "resume", "guest", "guestMember"} => code[t] = None

\* The row a task works with: its own new row until it has consumed the code,
\* some row after that, and a complete one if it registered it.
OwnsRow ==
  \A t \in Task :
    /\ pc[t] \in {"member", "consume"} =>
         /\ me[t] \in password /\ name[me[t]] = want[t]
         /\ \A i \in Invite : usedBy[i] # me[t]
    /\ pc[t] = "consume" => me[t] \in members
    /\ pc[t] = "guestMember" => me[t] \in Rows
    /\ pc[t] \in {"account", "session", "welcome"} =>
         /\ me[t] \in Rows
         /\ code[t] # None =>
              /\ invites[code[t]] = "used"
              /\ name[me[t]] = want[t]
              /\ me[t] \in members \cap password
    /\ pc[t] = "welcome" /\ code[t] # None => me[t] \in sessions

\* Two tasks that have not consumed their codes yet have rows of their own.
RowsApart ==
  \A s, t \in Task :
    /\ s # t
    /\ pc[s] \in {"member", "consume"} /\ pc[t] \in {"member", "consume"}
    => me[s] # me[t]

\* Nobody is served before the bootstrap is over, and nothing else inserts the
\* administrator while it runs.
BootOrder ==
  /\ boot # "serving" => \A t \in Task : pc[t] = "idle"
  /\ boot = "insert" => Named(AdminName) = {}
  /\ boot = "promote" => Named(AdminName) # {}

IInv ==
  /\ TypeOK /\ BootOrder
  /\ NamesUnique /\ RowsAgree /\ AdminsAreNamed
  /\ Presented /\ OwnsRow /\ RowsApart

-----------------------------------------------------------------------------

\* Every step keeps the invariant, one step of the proof per action.
LEMMA StepInv ==
  ASSUME IInv, [Next]_vars
  PROVE  IInv'
  <1> USE AccountAssumption
      DEF IInv, TypeOK, BootOrder, NamesUnique,
         RowsAgree, AdminsAreNamed, Presented, OwnsRow, RowsApart,
         Register, Statements, Place, Boot,
         Rows, Named, tables, locals
  <1>1. CASE StartWithoutBootstrap
    BY <1>1 DEF StartWithoutBootstrap, Starting
  <1>2. CASE FindAdmin
    BY <1>2 DEF FindAdmin, Starting
  <1>3. CASE PromoteAdmin
    BY <1>3 DEF PromoteAdmin, Starting
  <1>4. CASE InsertAdmin
    BY <1>4 DEF InsertAdmin, Starting
  <1>5. CASE JoinAdmin
    BY <1>5 DEF JoinAdmin, Starting
  <1>6. CASE BootstrapInvite
    BY <1>6 DEF BootstrapInvite, Starting, OpenInvite
  <1>7. ASSUME NEW t \in Task, CheckInvite(t)
        PROVE  IInv'
    BY <1>7 DEF CheckInvite, Goto
  <1>8. ASSUME NEW t \in Task, CheckName(t)
        PROVE  IInv'
    BY <1>8 DEF CheckName, Goto
  <1>9. ASSUME NEW t \in Task, InsertUser(t)
        PROVE  IInv'
    BY <1>9 DEF InsertUser, InsertRow, Goto
  <1>10. ASSUME NEW t \in Task, InsertMember(t)
        PROVE  IInv'
    BY <1>10 DEF InsertMember, Goto
  <1>11. ASSUME NEW t \in Task, ConsumeInvite(t)
        PROVE  IInv'
    BY <1>11 DEF ConsumeInvite, Goto
  <1>12. ASSUME NEW t \in Task, FindAccount(t)
        PROVE  IInv'
    BY <1>12 DEF FindAccount, Goto
  <1>13. ASSUME NEW t \in Task, InsertSession(t)
        PROVE  IInv'
    BY <1>13 DEF InsertSession, Goto
  <1>14. ASSUME NEW t \in Task, FindByName(t)
        PROVE  IInv'
    BY <1>14 DEF FindByName, Goto
  <1>15. ASSUME NEW t \in Task, ValidateSession(t)
        PROVE  IInv'
    BY <1>15 DEF ValidateSession, Goto
  <1>16. ASSUME NEW t \in Task, InsertGuest(t)
        PROVE  IInv'
    BY <1>16 DEF InsertGuest, InsertRow, Goto
  <1>17. ASSUME NEW t \in Task, InsertGuestMember(t)
        PROVE  IInv'
    BY <1>17 DEF InsertGuestMember, Goto
  <1>18. ASSUME NEW t \in Task, NEW n \in Name, BeginLogin(t, n)
        PROVE  IInv'
    BY <1>18 DEF BeginLogin, Begin, Goto
  <1>19. ASSUME NEW t \in Task, NEW n \in Name, BeginHello(t, n)
        PROVE  IInv'
    BY <1>19 DEF BeginHello, Begin, Goto
  <1>20. ASSUME NEW t \in Task, NEW n \in Name, NEW i \in Invite,
                BeginRegister(t, n, i)
        PROVE  IInv'
    BY <1>20 DEF BeginRegister, Begin, Goto
  <1>21. ASSUME NEW t \in Task, BeginResume(t)
        PROVE  IInv'
    BY <1>21 DEF BeginResume, Begin, Goto
  <1>22. ASSUME NEW t \in Task, NEW i \in Invite, CreateInvite(t, i)
        PROVE  IInv'
    BY <1>22 DEF CreateInvite, OpenInvite
  <1>23. ASSUME NEW t \in Task, Disconnect(t)
        PROVE  IInv'
    BY <1>23 DEF Disconnect, Goto
  <1>24. ASSUME NEW t \in Task, StatementFails(t)
        PROVE  IInv'
    BY <1>24 DEF StatementFails, Fault, Goto
  <1>25. CASE Restart
    BY <1>25 DEF Restart, Fault
  <1>26. CASE UNCHANGED vars
    BY <1>26 DEF vars
  <1> QED
    BY <1>1, <1>2, <1>3, <1>4, <1>5, <1>6, <1>7, <1>8, <1>9, <1>10, <1>11,
       <1>12, <1>13, <1>14, <1>15, <1>16, <1>17, <1>18, <1>19, <1>20, <1>21,
       <1>22, <1>23, <1>24, <1>25, <1>26 DEF Next, BootStep, Step

LEMMA InitInv == Init => IInv
  BY AccountAssumption DEF Init, IInv, TypeOK, BootOrder,
      NamesUnique, RowsAgree, AdminsAreNamed, Presented,
      OwnsRow, RowsApart, Rows, Named, Register,
      Statements, Place, Boot

LEMMA Invariance == Spec => []IInv
  <1>1. Init => IInv
    BY InitInv
  <1>2. IInv /\ [Next]_vars => IInv'
    BY StepInv
  <1> QED
    BY <1>1, <1>2, PTL DEF Spec

\* Every row that a statement of create_user_with_invite, create_session or the
\* bootstrap refers to is a row: the tables and variables keep their types.
THEOREM TypeCorrect == Spec => []TypeOK
  <1>0. Spec => []IInv
    BY Invariance
  <1>1. IInv => TypeOK
    BY DEF IInv
  <1> QED
    BY <1>1, <1>0, PTL

\* Names are unique, the foreign keys hold, a used code has one consumer with a
\* whole account, whoever is welcomed with a code has used it and is complete, and
\* only the account of the environment administrates, whatever fails or races.
THEOREM SoundAccounts == Spec => []AccountsAreSound
  <1>0. Spec => []IInv
    BY Invariance
  <1>1. IInv => WelcomeIsComplete
    BY DEF IInv, OwnsRow, WelcomeIsComplete
  <1>2. IInv => AccountsAreSound
    BY <1>1 DEF IInv, AccountsAreSound
  <1> QED
    BY <1>2, <1>0, PTL

-----------------------------------------------------------------------------

UsedStays ==
  \A i \in Invite : invites[i] = "used" =>
    invites'[i] = "used" /\ usedBy'[i] = usedBy[i]

\* Only two statements write invite_codes, and both look at the row first.
LEMMA UsedStep ==
  ASSUME TypeOK, [Next]_vars
  PROVE  UsedStays
  <1>1. ASSUME UNCHANGED <<invites, usedBy>>
        PROVE  UsedStays
    BY <1>1 DEF UsedStays
  <1>2. ASSUME NEW t \in Task, ConsumeInvite(t)
        PROVE  UsedStays
    BY <1>2 DEF UsedStays, ConsumeInvite, TypeOK
  <1>3. ASSUME NEW i \in Invite, OpenInvite(i)
        PROVE  UsedStays
    BY <1>3 DEF UsedStays, OpenInvite, TypeOK
  <1>4. ASSUME BootStep
        PROVE  UsedStays
    BY <1>1, <1>3, <1>4, AccountAssumption
    DEF BootStep, StartWithoutBootstrap, FindAdmin,
        PromoteAdmin, InsertAdmin, JoinAdmin,
        BootstrapInvite, Starting, tables
  <1>5. ASSUME NEW t \in Task, Step(t)
        PROVE  UsedStays
    BY <1>1, <1>2, <1>5
    DEF Step, CheckInvite, CheckName, InsertUser,
        InsertMember, FindAccount, InsertSession,
        FindByName, ValidateSession, InsertGuest,
        InsertGuestMember, tables
  <1>6. CASE UNCHANGED vars
    BY <1>1, <1>6 DEF vars
  <1> QED
    BY <1>1, <1>3, <1>4, <1>5, <1>6
    DEF Next, BeginRegister, BeginLogin, BeginHello,
        BeginResume, Begin, CreateInvite,
        Disconnect, StatementFails, Restart, tables

\* A used code stays used and keeps its consumer, over restarts with the same
\* bootstrap invite (create_invite) and races for one code (create_user_with_invite).
THEOREM UsedForGood == Spec => InviteStaysUsed
  <1>0. Spec => []TypeOK
    BY TypeCorrect
  <1>1. TypeOK /\ [Next]_vars => [UsedStays]_vars
    BY UsedStep
  <1> QED
    BY <1>0, <1>1, PTL DEF Spec, InviteStaysUsed, UsedStays

-----------------------------------------------------------------------------
(* Who takes a code.                                                       *)

\* Before the first race, a code that a task claims is open, and claimed by no
\* other.
ClaimsAlone ==
  raced = {} =>
    \A t \in Task : Claims(t) =>
      /\ invites[code[t]] = "open"
      /\ \A s \in Task : Claims(s) /\ code[s] = code[t] => s = t

\* A step without an insertion makes no claim.
LEMMA NoNewClaims ==
  ASSUME ClaimsAlone, raced' = raced,
         \A t \in Task : Claims(t)' =>
           Claims(t) /\ code'[t] = code[t] /\ invites'[code[t]] = invites[code[t]]
  PROVE  ClaimsAlone'
  BY DEF ClaimsAlone

LEMMA StepClaims ==
  ASSUME IInv, ClaimsAlone, [Next]_vars
  PROVE  ClaimsAlone'
  <1>u. TypeOK /\ Presented
    BY DEF IInv
  <1>1. ASSUME UNCHANGED <<invites, pc, code, raced>>
        PROVE  ClaimsAlone'
    BY <1>1, NoNewClaims DEF Claims
  <1>2. ASSUME NEW i \in Invite, OpenInvite(i), UNCHANGED <<pc, code, raced>>
        PROVE  ClaimsAlone'
    <2>1. \A t \in Task : Claims(t) /\ raced = {} => invites[code[t]] = "open"
      BY DEF ClaimsAlone
    <2>2. \A j \in Invite : invites[j] # "absent" => invites'[j] = invites[j]
      BY <1>2, <1>u DEF OpenInvite, TypeOK
    <2>3. \A t \in Task : Claims(t) => code[t] \in Invite /\ invites[code[t]] # "absent"
      BY <1>u DEF Claims, Presented, Register
    <2>4. QED
      BY <1>2, <2>2, <2>3, NoNewClaims DEF Claims
  <1>3. ASSUME BootStep
        PROVE  ClaimsAlone'
    BY <1>1, <1>2, <1>3, AccountAssumption
    DEF BootStep, StartWithoutBootstrap, FindAdmin, PromoteAdmin, InsertAdmin, JoinAdmin,
        BootstrapInvite, Starting, tables
  <1>4. ASSUME NEW t \in Task, NEW place, Goto(t, place), place \notin {"member", "consume"},
               UNCHANGED <<invites, raced>>,
               \A d \in Task : d # t => code'[d] = code[d]
        PROVE  ClaimsAlone'
    BY <1>4, <1>u, NoNewClaims DEF Claims, Goto, TypeOK
  <1>5. ASSUME NEW t \in Task, InsertUser(t)
        PROVE  ClaimsAlone'
    <2>1. CASE Goto(t, "refused") /\ name' = name
      <3>1. raced' = raced /\ UNCHANGED <<invites, code>>
        BY <1>5, <2>1 DEF InsertUser, locals
      <3>2. QED
        BY <1>4, <2>1, <3>1
    <2>2. CASE Goto(t, "member") /\ name' # name
      <3>1. /\ pc[t] = "user" /\ pc'[t] = "member" /\ UNCHANGED <<invites, code>>
            /\ \A d \in Task : d # t => pc'[d] = pc[d]
        BY <1>5, <2>2, <1>u DEF InsertUser, Goto, locals, TypeOK
      <3>2. CASE Taken(code[t])
        BY <1>5, <2>2, <3>2 DEF InsertUser, ClaimsAlone
      <3>3. CASE ~Taken(code[t])
        <4>1. raced' = raced /\ invites[code[t]] # "used"
              /\ \A d \in Task : Claims(d) => code[d] # code[t]
          BY <1>5, <3>3 DEF InsertUser, Taken
        <4>2. invites[code[t]] = "open"
          BY <1>u, <3>1, <4>1 DEF Presented, TypeOK, Register
        <4>3. \A d \in Task : Claims(d)' => d = t \/ Claims(d)
          BY <3>1 DEF Claims
        <4>4. QED
          BY <3>1, <4>1, <4>2, <4>3 DEF ClaimsAlone
      <3>4. QED
        BY <3>2, <3>3
    <2>3. QED
      <3>1. CASE Named(want[t]) # {} /\ Goto(t, "refused") /\ UNCHANGED <<name, me>>
        BY <2>1, <3>1
      <3>2. ASSUME NEW u \in User \ Rows, name' = [name EXCEPT ![u] = want[t]],
                   Goto(t, "member")
            PROVE  ClaimsAlone'
        <4>1. name[u] = None /\ name'[u] = want[t] /\ want[t] \in Name /\ None \notin Name
          BY <1>5, <1>u, <3>2, AccountAssumption
          DEF InsertUser, Presented, Register, Rows, TypeOK
        <4>2. QED
          BY <2>2, <3>2, <4>1
      <3>3. QED
        BY <1>5, <3>1, <3>2 DEF InsertUser, InsertRow
  <1>6. ASSUME NEW t \in Task, InsertMember(t)
        PROVE  ClaimsAlone'
    <2>1. /\ UNCHANGED <<invites, code, raced>>
          /\ \A d \in Task : Claims(d)' => Claims(d)
      BY <1>6, <1>u DEF InsertMember, Goto, Claims, locals, TypeOK
    <2>2. QED
      BY <2>1, NoNewClaims
  <1>7. ASSUME NEW t \in Task, ConsumeInvite(t)
        PROVE  ClaimsAlone'
    <2>1. /\ pc[t] = "consume" /\ pc'[t] = "account" /\ UNCHANGED <<code, raced>>
          /\ \A d \in Task : d # t => pc'[d] = pc[d]
          /\ \A j \in Invite : j # code[t] => invites'[j] = invites[j]
      BY <1>7, <1>u DEF ConsumeInvite, Goto, locals, TypeOK
    <2>2. \A d \in Task : Claims(d)' => d # t /\ Claims(d) /\ code[d] \in Invite
      BY <2>1, <1>u DEF Claims, Presented, Register
    <2>3. CASE raced = {}
      <3>1. Claims(t)
        BY <2>1 DEF Claims
      <3>2. \A d \in Task : Claims(d)' => code[d] # code[t]
        BY <2>2, <2>3, <3>1 DEF ClaimsAlone
      <3>3. QED
        BY <2>1, <2>2, <3>2, NoNewClaims
    <2>4. CASE raced # {}
      BY <2>1, <2>4 DEF ClaimsAlone
    <2>5. QED
      BY <2>3, <2>4
  <1>8. ASSUME NEW t \in Task,
               \/ CheckInvite(t) \/ CheckName(t) \/ FindAccount(t) \/ InsertSession(t)
               \/ FindByName(t) \/ ValidateSession(t)
               \/ InsertGuest(t) \/ InsertGuestMember(t)
               \/ StatementFails(t) \/ Disconnect(t)
        PROVE  ClaimsAlone'
    <2>1. \E place : Goto(t, place) /\ place \notin {"member", "consume"}
      BY <1>8 DEF CheckInvite, CheckName, FindAccount, InsertSession, FindByName,
                  ValidateSession, InsertGuest, InsertGuestMember, InsertRow,
                  StatementFails, Disconnect
    <2>2. UNCHANGED <<invites, raced>> /\ \A d \in Task : d # t => code'[d] = code[d]
      BY <1>8, <1>u DEF CheckInvite, CheckName, FindAccount, InsertSession, FindByName,
                  ValidateSession, InsertGuest, InsertGuestMember, StatementFails, Disconnect,
                  tables, locals, TypeOK
    <2>3. QED
      BY <1>4, <2>1, <2>2
  <1>9. ASSUME NEW t \in Task, NEW place \in {"login", "guest", "invite", "resume"}, NEW n, NEW i,
               Begin(t, place, n, i)
        PROVE  ClaimsAlone'
    BY <1>4, <1>9, <1>u DEF Begin, tables, TypeOK
  <1>10. ASSUME NEW t \in Task, NEW i \in Invite, CreateInvite(t, i)
         PROVE  ClaimsAlone'
    BY <1>2, <1>10 DEF CreateInvite
  <1>11. CASE Restart
    BY <1>11, NoNewClaims DEF Restart, Claims, tables
  <1>12. CASE UNCHANGED vars
    BY <1>1, <1>12 DEF vars
  <1>13. QED
    BY <1>3, <1>5, <1>6, <1>7, <1>8, <1>9, <1>10, <1>11, <1>12
    DEF Next, Step, BeginLogin, BeginHello, BeginRegister, BeginResume

LEMMA AlwaysAlone == Spec => []ClaimsAlone
  <1>1. Init => ClaimsAlone
    BY DEF Init, ClaimsAlone, Claims
  <1>2. IInv /\ ClaimsAlone /\ [Next]_vars => ClaimsAlone'
    BY StepClaims
  <1>3. QED
    BY <1>1, <1>2, Invariance, PTL DEF Spec

-----------------------------------------------------------------------------
(* The promise of AccountStore: what a step does to the mapped variables.  *)

\* The consumer of a code is the row of the task that claims it, if one does.
ConsumerIs ==
  \A i \in Invite :
    /\ \A t \in Task : Claims(t) /\ code[t] = i => Consumer(i) = me[t]
    /\ (\A t \in Task : Claims(t) => code[t] # i) => Consumer(i) = usedBy[i]

LEMMA ConsumerFact == ClaimsAlone /\ raced = {} => ConsumerIs
  <1> SUFFICES ASSUME ClaimsAlone, raced = {}, NEW i \in Invite
               PROVE  /\ \A t \in Task : Claims(t) /\ code[t] = i => Consumer(i) = me[t]
                      /\ (\A t \in Task : Claims(t) => code[t] # i) => Consumer(i) = usedBy[i]
    BY DEF ConsumerIs
  <1>1. ASSUME NEW t \in Task, Claims(t), code[t] = i
        PROVE  Consumer(i) = me[t]
    <2> DEFINE s == CHOOSE d \in Task : Claims(d) /\ code[d] = i
    <2>1. s \in Task /\ Claims(s) /\ code[s] = i
      BY <1>1
    <2>2. s = t
      BY <1>1, <2>1 DEF ClaimsAlone
    <2>3. QED
      BY <1>1, <2>2 DEF Consumer
  <1>2. ASSUME \A t \in Task : Claims(t) => code[t] # i
        PROVE  Consumer(i) = usedBy[i]
    BY <1>2 DEF Consumer
  <1>3. QED
    BY <1>1, <1>2

LEMMA ConsumerFactNext == (ClaimsAlone /\ raced = {})' => ConsumerIs'
  BY ConsumerFact, PTL

\* A step that leaves usedBy and the claims alone leaves the consumers alone.
LEMMA SameConsumers ==
  ASSUME ConsumerIs, ConsumerIs', usedBy' = usedBy,
         \A t \in Task : Claims(t)' <=> Claims(t),
         \A t \in Task : Claims(t) => code'[t] = code[t] /\ me'[t] = me[t]
  PROVE  \A i \in Invite : Consumer(i)' = Consumer(i)
  <1> SUFFICES ASSUME NEW i \in Invite
               PROVE  Consumer(i)' = Consumer(i)
    OBVIOUS
  <1>1. CASE \E t \in Task : Claims(t) /\ code[t] = i
    BY <1>1 DEF ConsumerIs
  <1>2. CASE \A t \in Task : Claims(t) => code[t] # i
    BY <1>2 DEF ConsumerIs
  <1>3. QED
    BY <1>1, <1>2

LEMMA Stages ==
  /\ Stage("invite") = "register" /\ Stage("name") = "register" /\ Stage("user") = "register"
  /\ Stage("member") = "session" /\ Stage("consume") = "session"
  /\ Stage("account") = "session" /\ Stage("session") = "session"
  /\ Stage("guest") = "hello" /\ Stage("guestMember") = "welcome"
  /\ Stage("login") = "login" /\ Stage("resume") = "resume"
  /\ Stage("idle") = "idle" /\ Stage("welcome") = "welcome" /\ Stage("refused") = "refused"
  BY DEF Stage

\* A task moves on in the promise to the stage of its next statement.
LEMMA Moves ==
  ASSUME TypeOK, NEW t \in Task, NEW place, Goto(t, place)
  PROVE  /\ [d \in Task |-> Stage(pc[d])]'
              = [[d \in Task |-> Stage(pc[d])] EXCEPT ![t] = Stage(place)]
         /\ Stage(place) = Stage(pc[t]) =>
              [d \in Task |-> Stage(pc[d])]' = [d \in Task |-> Stage(pc[d])]
  BY DEF TypeOK, Goto

LEMMA NamedMaps ==
  ASSUME NEW n \in Name
  PROVE  Promise!Named(n) = Named(n)
  BY AccountAssumption DEF Promise!Named, Named, Rows

LEMMA InitMaps == Init => Promise!Init
  BY DEF Init, Promise!Init, Rows, Consumer, Claims, Stage

LEMMA RacedGrows ==
  ASSUME [Next]_vars
  PROVE  raced \subseteq raced'
  BY DEF vars, Next, BootStep, Step, StartWithoutBootstrap, FindAdmin, PromoteAdmin, InsertAdmin,
         JoinAdmin, BootstrapInvite, Starting, CheckInvite, CheckName, InsertUser, InsertMember,
         ConsumeInvite, FindAccount, InsertSession, FindByName, ValidateSession, InsertGuest,
         InsertGuestMember, BeginLogin, BeginHello, BeginRegister, BeginResume, Begin,
         CreateInvite, Disconnect, StatementFails, Restart

\* A task moves on without a claim made or given up, and no code changes.
LEMMA PlainStep ==
  ASSUME TypeOK, ConsumerIs, ConsumerIs', NEW t \in Task, NEW place, Goto(t, place),
         pc[t] \notin {"member", "consume"}, place \notin {"member", "consume"},
         UNCHANGED <<invites, usedBy>>,
         \A d \in Task : d # t => code'[d] = code[d] /\ me'[d] = me[d]
  PROVE  /\ {i \in Invite : invites[i] # "absent"}' = {i \in Invite : invites[i] # "absent"}
         /\ [i \in Invite |-> Consumer(i)]' = [i \in Invite |-> Consumer(i)]
  <1>1. \A d \in Task : (Claims(d)' <=> Claims(d)) /\ (Claims(d) => d # t)
    BY DEF TypeOK, Goto, Claims
  <1>2. \A i \in Invite : Consumer(i)' = Consumer(i)
    BY <1>1, SameConsumers
  <1>3. QED
    BY <1>2

\* A step that leaves the tasks and the codes alone.
LEMMA TablesOnly ==
  ASSUME ConsumerIs, ConsumerIs', UNCHANGED <<invites, usedBy, pc, code, me>>
  PROVE  /\ {i \in Invite : invites[i] # "absent"}' = {i \in Invite : invites[i] # "absent"}
         /\ [i \in Invite |-> Consumer(i)]' = [i \in Invite |-> Consumer(i)]
         /\ [d \in Task |-> Stage(pc[d])]' = [d \in Task |-> Stage(pc[d])]
  <1>1. \A i \in Invite : Consumer(i)' = Consumer(i)
    BY SameConsumers DEF Claims
  <1>2. QED
    BY <1>1

\* create_invite with a code that is not there yet.
LEMMA OpenMaps ==
  ASSUME IInv, ConsumerIs, ConsumerIs', NEW i \in Invite, OpenInvite(i), UNCHANGED <<pc, code, me>>,
         invites[i] = "absent"
  PROVE  Promise!NewInvite(i)
  <1>1. usedBy' = usedBy /\ invites' = [invites EXCEPT ![i] = "open"]
    BY DEF OpenInvite
  <1>2. \A j \in Invite : Consumer(j)' = Consumer(j)
    BY <1>1, SameConsumers DEF Claims
  <1>3. \A t \in Task : Claims(t) => code[t] # i
    BY DEF IInv, Presented, Register, Claims
  <1>4. Consumer(i) = None
    BY <1>3 DEF ConsumerIs, IInv, RowsAgree
  <1>5. {j \in Invite : invites[j] # "absent"}' = {j \in Invite : invites[j] # "absent"} \cup {i}
    BY <1>1 DEF IInv, TypeOK
  <1>6. [j \in Invite |-> Consumer(j)]' = [[j \in Invite |-> Consumer(j)] EXCEPT ![i] = None]
    BY <1>2, <1>4
  <1>7. QED
    BY <1>5, <1>6 DEF Promise!NewInvite

LEMMA BootMaps ==
  ASSUME IInv, ConsumerIs, ConsumerIs', BootStep
  PROVE  [Promise!Next]_(Promise!vars)
  <1> USE DEF Promise!vars, Promise!accounts, Promise!invites, Promise!asked, tables, Starting
  <1>u. TypeOK /\ BootOrder /\ AdminName \in Name
    BY AccountAssumption DEF IInv
  <1>1. CASE StartWithoutBootstrap
    <2>1. Promise!Start
      BY <1>1, TablesOnly DEF StartWithoutBootstrap, Promise!Start, Rows
    <2>2. QED
      BY <2>1 DEF Promise!Next
  <1>2. CASE FindAdmin
    BY <1>2, TablesOnly DEF FindAdmin, Rows
  <1>3. CASE PromoteAdmin
    <2>1. PICK u \in User : u \in Named(AdminName)
      BY <1>3, <1>u DEF PromoteAdmin, BootOrder, Named
    <2>2. Named(AdminName) = {u} /\ u \in Rows
      BY <2>1, AccountAssumption DEF IInv, NamesUnique, Named, Rows
    <2>3. name' = [name EXCEPT ![u] = AdminName] /\ Rows' = Rows \cup {u}
      BY <1>3, <1>u, <2>1, <2>2 DEF PromoteAdmin, Named, Rows, TypeOK
    <2>4. Promise!EnsureAdmin(u)
      BY <1>3, <1>u, <2>2, <2>3, NamedMaps, TablesOnly DEF PromoteAdmin, Promise!EnsureAdmin
    <2>5. QED
      BY <2>4 DEF Promise!Next
  <1>4. CASE InsertAdmin
    <2>1. PICK u \in User \ Rows :
            /\ name' = [name EXCEPT ![u] = AdminName]
            /\ password' = password \cup {u} /\ admins' = admins \cup {u}
      BY <1>4 DEF InsertAdmin
    <2>2. Named(AdminName) = {} /\ name[u] = None
      BY <1>4, <1>u, <2>1 DEF InsertAdmin, BootOrder, Rows
    <2>3. Rows' = Rows \cup {u}
      BY <1>u, <2>1, AccountAssumption DEF Rows, TypeOK
    <2>4. Promise!EnsureAdmin(u)
      BY <1>4, <1>u, <2>1, <2>2, <2>3, NamedMaps, TablesOnly DEF InsertAdmin, Promise!EnsureAdmin
    <2>5. QED
      BY <2>1, <2>4 DEF Promise!Next
  <1>5. CASE JoinAdmin
    BY <1>5, TablesOnly DEF JoinAdmin, Rows
  <1>6. CASE BootstrapInvite
    <2>1. CASE UNCHANGED tables
      <3>1. Promise!FirstInvite
        BY <1>6, <2>1, TablesOnly DEF BootstrapInvite, Promise!FirstInvite, Rows
      <3>2. QED
        BY <3>1 DEF Promise!Next
    <2>2. CASE OpenInvite(BootInvite) /\ invites[BootInvite] = "absent"
      <3>1. Promise!NewInvite(BootInvite)
        BY <1>6, <2>2, OpenMaps, AccountAssumption DEF BootstrapInvite
      <3>2. UNCHANGED <<name, password, admins, sessions, pc, want, code, me>>
        BY <1>6, <2>2 DEF BootstrapInvite, OpenInvite
      <3>3. Promise!FirstInvite
        BY <1>6, <3>1, <3>2 DEF BootstrapInvite, Promise!FirstInvite, Rows
      <3>4. QED
        BY <3>3 DEF Promise!Next
    <2>3. QED
      BY <1>6, <2>1, <2>2 DEF BootstrapInvite, OpenInvite
  <1>7. QED
    BY <1>1, <1>2, <1>3, <1>4, <1>5, <1>6 DEF BootStep

\* Inserting the row registers the account: its code counts as consumed from here.
LEMMA RegisterMaps ==
  ASSUME IInv, ConsumerIs, ConsumerIs', raced' = {}, NEW t \in Task, InsertUser(t),
         NEW u \in User \ Rows, name' = [name EXCEPT ![u] = want[t]],
         me' = [me EXCEPT ![t] = u], Goto(t, "member"), Named(want[t]) = {}
  PROVE  Promise!Register(t, u)
  <1>1. /\ TypeOK /\ pc[t] = "user" /\ code[t] \in Invite /\ want[t] \in Name
        /\ invites[code[t]] # "absent" /\ name[u] = None
    BY DEF IInv, InsertUser, Presented, Register, Rows
  <1>2. name'[u] = want[t] /\ name' # name
    BY <1>1, AccountAssumption DEF TypeOK
  <1>3. ~Taken(code[t]) /\ UNCHANGED <<invites, usedBy, want, code, admins, sessions, boot>>
    BY <1>2 DEF InsertUser, locals
  <1>4. /\ \A d \in Task : Claims(d)' <=> Claims(d) \/ d = t
        /\ \A d \in Task : Claims(d) => d # t /\ me'[d] = me[d]
    BY <1>1 DEF Claims, Goto, TypeOK
  <1>5. Consumer(code[t]) = None
    BY <1>1, <1>3 DEF Taken, ConsumerIs, IInv, RowsAgree
  <1>6. ASSUME NEW i \in Invite, i = code[t]
        PROVE  Consumer(i)' = u
    BY <1>1, <1>3, <1>4, <1>6 DEF ConsumerIs, TypeOK
  <1>7. ASSUME NEW i \in Invite, i # code[t]
        PROVE  Consumer(i)' = Consumer(i)
    <2>1. CASE \E d \in Task : Claims(d) /\ code[d] = i
      BY <1>3, <1>4, <2>1 DEF ConsumerIs
    <2>2. CASE \A d \in Task : Claims(d) => code[d] # i
      BY <1>3, <1>4, <1>7, <2>2 DEF ConsumerIs
    <2>3. QED
      BY <2>1, <2>2
  <1>8. [i \in Invite |-> Consumer(i)]'
          = [[i \in Invite |-> Consumer(i)] EXCEPT ![code[t]] = u]
    BY <1>6, <1>7
  <1>9. Promise!Invited(t)
    BY <1>1, <1>5 DEF Promise!Invited
  <1>10. [d \in Task |-> Stage(pc[d])]' = [[d \in Task |-> Stage(pc[d])] EXCEPT ![t] = "session"]
    BY <1>1, Moves, Stages
  <1>11. /\ Rows' = Rows \cup {u}
         /\ password' = password \cup {u}
    BY <1>1, <1>2, AccountAssumption DEF InsertUser, Rows, TypeOK
  <1>12. {i \in Invite : invites[i] # "absent"}' = {i \in Invite : invites[i] # "absent"}
    BY <1>3
  <1>13. Promise!Named(want[t]) = {} /\ Stage(pc[t]) = "register"
    BY <1>1, NamedMaps, Stages
  <1>14. QED
    BY <1>1, <1>3, <1>8, <1>9, <1>10, <1>11, <1>12, <1>13
    DEF Promise!Register, Promise!AddUser, Promise!Goto, Promise!asked

\* Consuming the code changes nothing any more.
LEMMA ConsumeMaps ==
  ASSUME IInv, ClaimsAlone, ConsumerIs, ConsumerIs', raced = {}, NEW t \in Task, ConsumeInvite(t)
  PROVE  UNCHANGED Promise!vars
  <1>1. /\ TypeOK /\ pc[t] = "consume" /\ code[t] \in Invite /\ Claims(t)
    BY DEF IInv, ConsumeInvite, Presented, Register, Claims
  <1>2. invites[code[t]] = "open"
    BY <1>1 DEF ClaimsAlone
  <1>3. /\ invites' = [invites EXCEPT ![code[t]] = "used"]
        /\ usedBy' = [usedBy EXCEPT ![code[t]] = me[t]]
        /\ UNCHANGED <<name, password, admins, sessions, boot, want, code, me>>
    BY <1>2 DEF ConsumeInvite, locals
  <1>4. \A d \in Task : Claims(d)' <=> Claims(d) /\ d # t
    BY <1>1 DEF ConsumeInvite, Claims, Goto, TypeOK
  <1>5. ASSUME NEW i \in Invite, i = code[t]
        PROVE  Consumer(i)' = Consumer(i)
    <2>1. \A d \in Task : Claims(d)' => code'[d] # i
      BY <1>1, <1>3, <1>4, <1>5 DEF ClaimsAlone
    <2>2. Consumer(i)' = usedBy'[i] /\ Consumer(i) = me[t]
      BY <1>1, <1>5, <2>1 DEF ConsumerIs
    <2>3. QED
      BY <1>1, <1>3, <1>5, <2>2 DEF TypeOK
  <1>6. ASSUME NEW i \in Invite, i # code[t]
        PROVE  Consumer(i)' = Consumer(i)
    <2>1. CASE \E d \in Task : Claims(d) /\ code[d] = i
      BY <1>3, <1>4, <1>6, <2>1 DEF ConsumerIs
    <2>2. CASE \A d \in Task : Claims(d) => code[d] # i
      <3>1. Consumer(i) = usedBy[i] /\ Consumer(i)' = usedBy'[i]
        BY <1>3, <1>4, <2>2 DEF ConsumerIs
      <3>2. QED
        BY <1>1, <1>3, <1>6, <3>1 DEF TypeOK
    <2>3. QED
      BY <2>1, <2>2
  <1>7. [i \in Invite |-> Consumer(i)]' = [i \in Invite |-> Consumer(i)]
    BY <1>5, <1>6
  <1>8. {i \in Invite : invites[i] # "absent"}' = {i \in Invite : invites[i] # "absent"}
    BY <1>1, <1>2, <1>3 DEF TypeOK
  <1>9. [d \in Task |-> Stage(pc[d])]' = [d \in Task |-> Stage(pc[d])]
    <2>1. Goto(t, "account")
      BY DEF ConsumeInvite
    <2>2. Stage("account") = Stage(pc[t])
      BY <1>1, Stages
    <2>3. QED
      BY <1>1, <2>1, <2>2, Moves
  <1>10. QED
    BY <1>3, <1>7, <1>8, <1>9
    DEF Promise!vars, Promise!accounts, Promise!invites, Promise!asked, Rows

\* The statements of a call, and its beginning and end.
LEMMA CallMaps ==
  ASSUME IInv, ClaimsAlone, ConsumerIs, ConsumerIs', raced = {}, raced' = {}, NEW t \in Task,
         \/ \E n \in Name : BeginLogin(t, n) \/ BeginHello(t, n)
         \/ \E n \in Name, i \in Invite : BeginRegister(t, n, i)
         \/ BeginResume(t) \/ Step(t) \/ Disconnect(t)
         \/ \E i \in Invite : CreateInvite(t, i)
  PROVE  [Promise!Next]_(Promise!vars)
  <1> USE DEF Promise!vars, Promise!accounts, Promise!invites, Promise!asked, Promise!Goto,
              tables, locals, Rows
  <1>u. TypeOK /\ Presented /\ OwnsRow
    BY DEF IInv
  <1>1. ASSUME NEW n, NEW i, NEW place \in {"invite", "guest", "login", "resume"},
               Begin(t, place, n, i)
        PROVE  Promise!Ask(t, Stage(place), n, i)
    <2>1. pc[t] = "idle" /\ Goto(t, place) /\ UNCHANGED <<invites, usedBy>>
          /\ \A d \in Task : d # t => code'[d] = code[d] /\ me'[d] = me[d]
      BY <1>1, <1>u DEF Begin, TypeOK
    <2>2. QED
      BY <1>1, <1>u, <2>1, PlainStep, Moves, Stages DEF Begin, Promise!Ask
  <1>2. ASSUME NEW n \in Name, BeginLogin(t, n) \/ BeginHello(t, n)
        PROVE  Promise!Next
    BY <1>1, <1>2, Stages DEF BeginLogin, BeginHello, Promise!Next
  <1>3. ASSUME NEW n \in Name, NEW i \in Invite, BeginRegister(t, n, i)
        PROVE  Promise!Next
    BY <1>1, <1>3, Stages DEF BeginRegister, Promise!Next
  <1>4. CASE BeginResume(t)
    BY <1>1, <1>4, Stages DEF BeginResume, Promise!Next
  <1>5. CASE Disconnect(t)
    <2>1. \A d \in Task : d # t => code'[d] = code[d] /\ me'[d] = me[d]
      BY <1>5, <1>u DEF Disconnect, TypeOK
    <2>2. Promise!Disconnect(t)
      BY <1>5, <1>u, <2>1, PlainStep, Moves, Stages DEF Disconnect, Promise!Disconnect
    <2>3. QED
      BY <2>2 DEF Promise!Next
  <1>6. ASSUME NEW i \in Invite, CreateInvite(t, i)
        PROVE  Promise!Next
    <2>1. Promise!NewInvite(i) /\ UNCHANGED <<name, password, admins, sessions>>
      BY <1>6, OpenMaps DEF CreateInvite, OpenInvite
    <2>2. Promise!CreateInvite(t, i)
      BY <1>6, <2>1, Stages DEF CreateInvite, Promise!CreateInvite
    <2>3. QED
      BY <2>2 DEF Promise!Next
  <1>7. ASSUME Goto(t, "refused"), UNCHANGED <<tables, boot, locals, me>>,
               \/ pc[t] \in {"invite", "name", "user"}
                  /\ (~Promise!Invited(t) \/ Named(want[t]) # {})
               \/ pc[t] = "guest" /\ Named(want[t]) # {}
               \/ pc[t] \in {"login", "resume"}
        PROVE  Promise!Next
    <2>1. pc[t] \in {"invite", "name", "user", "guest"} => want[t] \in Name
      BY <1>u DEF Presented, Register
    <2>2. Promise!Refuse(t)
      BY <1>7, <1>u, <2>1, PlainStep, Moves, Stages, NamedMaps DEF Promise!Refuse
    <2>3. QED
      BY <2>2 DEF Promise!Next
  <1>8. ASSUME NEW place, Goto(t, place), Stage(place) = Stage(pc[t]),
               UNCHANGED <<name, password, admins, invites, usedBy, sessions, boot, locals, me>>,
               \/ pc[t] \notin {"member", "consume"} /\ place \notin {"member", "consume"}
               \/ pc[t] \in {"member", "consume"} /\ place \in {"member", "consume"}
        PROVE  UNCHANGED Promise!vars
    <2>1. \A d \in Task : Claims(d)' <=> Claims(d)
      BY <1>8, <1>u DEF Claims, Goto, TypeOK
    <2>2. \A i \in Invite : Consumer(i)' = Consumer(i)
      BY <1>8, <2>1, SameConsumers
    <2>3. QED
      BY <1>8, <1>u, <2>2, Moves
  <1>9. CASE CheckInvite(t)
    <2>1. CASE invites[code[t]] = "open"
      BY <1>8, <1>9, <2>1, Stages DEF CheckInvite
    <2>2. CASE invites[code[t]] # "open"
      <3>1. code[t] \in Invite
        BY <1>9, <1>u DEF CheckInvite, Presented, Register
      <3>2. ~Promise!Invited(t)
        <4>1. CASE invites[code[t]] = "absent"
          BY <4>1 DEF Promise!Invited
        <4>2. CASE invites[code[t]] = "used"
          <5>1. \A d \in Task : Claims(d) => code[d] # code[t]
            BY <4>2 DEF ClaimsAlone
          <5>2. Consumer(code[t]) # None
            BY <3>1, <4>2, <5>1 DEF ConsumerIs, IInv, RowsAgree
          <5>3. QED
            BY <3>1, <5>2 DEF Promise!Invited
        <4>3. QED
          BY <2>2, <3>1, <4>1, <4>2, <1>u DEF TypeOK
      <3>3. QED
        BY <1>7, <1>9, <2>2, <3>2 DEF CheckInvite
    <2>3. QED
      BY <2>1, <2>2
  <1>10. CASE CheckName(t)
    <2>1. CASE Named(want[t]) = {}
      BY <1>8, <1>10, <2>1, Stages DEF CheckName
    <2>2. CASE Named(want[t]) # {}
      BY <1>7, <1>10, <2>2 DEF CheckName
    <2>3. QED
      BY <2>1, <2>2
  <1>11. CASE InsertUser(t)
    <2>1. CASE Named(want[t]) # {} /\ Goto(t, "refused") /\ UNCHANGED <<name, me>>
      <3>1. password' = password /\ UNCHANGED <<admins, members, invites, usedBy, sessions, boot, locals>>
        BY <1>11, <2>1 DEF InsertUser
      <3>2. QED
        BY <1>7, <1>11, <2>1, <3>1 DEF InsertUser
    <2>2. ASSUME NEW u \in User \ Rows, name' = [name EXCEPT ![u] = want[t]],
                 me' = [me EXCEPT ![t] = u], Goto(t, "member"), Named(want[t]) = {}
          PROVE  Promise!Next
      <3>1. Promise!Register(t, u)
        BY <1>11, <2>2, RegisterMaps
      <3>2. QED
        BY <3>1 DEF Promise!Next
    <2>3. QED
      BY <1>11, <2>1, <2>2 DEF InsertUser, InsertRow
  <1>12. CASE InsertMember(t)
    BY <1>8, <1>12, Stages DEF InsertMember
  <1>13. CASE ConsumeInvite(t)
    BY <1>13, ConsumeMaps
  <1>14. CASE FindAccount(t)
    <2>1. me[t] \in Rows
      BY <1>14, <1>u DEF FindAccount, OwnsRow
    <2>2. QED
      BY <1>8, <1>14, <2>1, Stages DEF FindAccount
  <1>15. CASE InsertSession(t)
    <2>1. name[me[t]] # None
      BY <1>15, <1>u DEF InsertSession, OwnsRow
    <2>2. Promise!CreateSession(t)
      BY <1>15, <1>u, <2>1, PlainStep, Moves, Stages DEF InsertSession, Promise!CreateSession
    <2>3. QED
      BY <2>2 DEF Promise!Next
  <1>16. CASE FindByName(t)
    <2>1. CASE UNCHANGED me /\ Goto(t, "refused")
      BY <1>7, <1>16, <2>1 DEF FindByName
    <2>2. ASSUME NEW u \in Named(want[t]) \cap password, me' = [me EXCEPT ![t] = u],
                 Goto(t, "account")
          PROVE  Promise!Next
      <3>1. u \in Promise!Named(want[t]) \cap password /\ u \in User
        BY <2>2 DEF IInv, RowsAgree, Named, Promise!Named
      <3>2. \A d \in Task : d # t => me'[d] = me[d]
        BY <2>2, <1>u DEF TypeOK
      <3>3. Promise!Login(t, u)
        BY <1>16, <1>u, <2>2, <3>1, <3>2, PlainStep, Moves, Stages DEF FindByName, Promise!Login
      <3>4. QED
        BY <3>1, <3>3 DEF Promise!Next
    <2>3. QED
      BY <1>16, <2>1, <2>2 DEF FindByName
  <1>17. CASE ValidateSession(t)
    <2>1. CASE UNCHANGED me /\ Goto(t, "refused")
      BY <1>7, <1>17, <2>1 DEF ValidateSession
    <2>2. ASSUME NEW u \in sessions, me' = [me EXCEPT ![t] = u], Goto(t, "welcome")
          PROVE  Promise!Next
      <3>1. u \in User /\ \A d \in Task : d # t => me'[d] = me[d]
        BY <2>2, <1>u DEF TypeOK
      <3>2. Promise!ValidateSession(t, u)
        BY <1>17, <1>u, <2>2, <3>1, PlainStep, Moves, Stages
        DEF ValidateSession, Promise!ValidateSession
      <3>3. QED
        BY <3>1, <3>2 DEF Promise!Next
    <2>3. QED
      BY <1>17, <2>1, <2>2 DEF ValidateSession
  <1>18. CASE InsertGuest(t)
    <2>0. want[t] \in Name
      BY <1>18, <1>u DEF InsertGuest, Presented
    <2>1. CASE Named(want[t]) # {} /\ Goto(t, "refused") /\ UNCHANGED <<name, me>>
      BY <1>7, <1>18, <2>1 DEF InsertGuest
    <2>2. ASSUME NEW u \in User \ Rows, name' = [name EXCEPT ![u] = want[t]],
                 me' = [me EXCEPT ![t] = u], Goto(t, "guestMember"), Named(want[t]) = {}
          PROVE  Promise!Next
      <3>1. \A d \in Task : d # t => me'[d] = me[d]
        BY <2>2, <1>u DEF TypeOK
      <3>2. Rows' = Rows \cup {u} /\ name[u] = None
        BY <2>2, <2>0, <1>u, AccountAssumption DEF TypeOK
      <3>3. Promise!Greet(t, u)
        BY <1>18, <1>u, <2>0, <2>2, <3>1, <3>2, PlainStep, Moves, Stages, NamedMaps
        DEF InsertGuest, Promise!Greet, Promise!AddUser
      <3>4. QED
        BY <3>3 DEF Promise!Next
    <2>3. QED
      BY <1>18, <2>1, <2>2 DEF InsertGuest, InsertRow
  <1>19. CASE InsertGuestMember(t)
    BY <1>8, <1>19, Stages DEF InsertGuestMember
  <1>20. QED
    BY <1>2, <1>3, <1>4, <1>5, <1>6, <1>9, <1>10, <1>11, <1>12, <1>13, <1>14, <1>15, <1>16,
       <1>17, <1>18, <1>19 DEF Step

LEMMA StepMaps ==
  ASSUME IInv, IInv', ClaimsAlone, ClaimsAlone', [Next]_vars, faults' = 0, raced' = {}
  PROVE  [Promise!Next]_(Promise!vars)
  <1>f. faults \in Nat
    BY AccountAssumption DEF IInv, TypeOK
  <1>r. raced = {}
    BY RacedGrows
  <1>c. ConsumerIs /\ ConsumerIs'
    BY <1>r, ConsumerFact, ConsumerFactNext
  <1>1. CASE BootStep
    BY <1>1, <1>c, BootMaps
  <1>2. ASSUME NEW t \in Task,
               \/ \E n \in Name : BeginLogin(t, n) \/ BeginHello(t, n)
               \/ \E n \in Name, i \in Invite : BeginRegister(t, n, i)
               \/ BeginResume(t) \/ Step(t) \/ Disconnect(t)
               \/ \E i \in Invite : CreateInvite(t, i)
        PROVE  [Promise!Next]_(Promise!vars)
    BY <1>2, <1>c, <1>r, CallMaps
  <1>3. CASE UNCHANGED vars
    BY <1>3, <1>c, TablesOnly
    DEF vars, Promise!vars, Promise!accounts, Promise!invites, Promise!asked, Rows
  <1>4. ~Restart /\ \A t \in Task : ~StatementFails(t)
    BY <1>f DEF Restart, StatementFails, Fault
  <1>5. QED
    BY <1>1, <1>2, <1>3, <1>4 DEF Next

\* Until a statement fails, the server restarts, or two registrations race for one
\* code, the five statements of create_user_with_invite and all the others, of any
\* number of connections, behave as MemoryStorage's atomic operations.
THEOREM KeepsPromise == Spec => KeepsAccountPromise
  <1>1. Init => Promise!Init
    BY InitMaps
  <1>2. IInv /\ IInv' /\ ClaimsAlone /\ ClaimsAlone' /\ [Next]_vars
          => [faults' = 0 /\ raced' = {} => [Promise!Next]_(Promise!vars)]_vars
    BY StepMaps
  <1>3. QED
    BY <1>1, <1>2, Invariance, AlwaysAlone, PTL DEF Spec, KeepsAccountPromise

-----------------------------------------------------------------------------
(* Accounts are invited: the promise carries it.                           *)

\* In the promise, an account with a password is the administrator's or a code's.
Covered ==
  \A u \in password : u \in admins \/ \E i \in Invite : Consumer(i) = u

LEMMA PromiseCovers ==
  ASSUME IInv, ConsumerIs, Covered, [Promise!Next]_(Promise!vars)
  PROVE  Covered'
  <1> SUFFICES ASSUME NEW u, u \in password', u \notin admins'
               PROVE  \E i \in Invite : Consumer(i)' = u
    BY DEF Covered
  <1> USE DEF Promise!vars, Promise!accounts, Promise!invites, Promise!asked
  <1>u. TypeOK /\ None \notin password
    BY AccountAssumption DEF IInv, TypeOK
  <1>1. ASSUME admins \subseteq admins', u \in password,
               [i \in Invite |-> Consumer(i)]' = [i \in Invite |-> Consumer(i)]
        PROVE  \E i \in Invite : Consumer(i)' = u
    <2>1. PICK i \in Invite : Consumer(i) = u
      BY <1>1 DEF Covered
    <2>2. Consumer(i)' = Consumer(i)
      BY <1>1
    <2>3. QED
      BY <2>1, <2>2
  <1>2. ASSUME NEW j \in Invite, Promise!NewInvite(j), UNCHANGED <<password, admins>>
        PROVE  \E i \in Invite : Consumer(i)' = u
    <2>1. PICK i \in Invite : Consumer(i) = u
      BY <1>2 DEF Covered
    <2>2. Consumer(j) = None
      <3>1. invites[j] = "absent" /\ \A t \in Task : Claims(t) => code[t] # j
        BY <1>2 DEF Promise!NewInvite, IInv, Presented, Register, Claims
      <3>2. QED
        BY <3>1 DEF ConsumerIs, IInv, RowsAgree
    <2>3. Consumer(i)' = Consumer(i)
      BY <1>2, <1>u, <2>1, <2>2 DEF Promise!NewInvite
    <2>4. QED
      BY <2>1, <2>3
  <1>3. ASSUME NEW t \in Task, NEW v \in User, Promise!Register(t, v)
        PROVE  \E i \in Invite : Consumer(i)' = u
    <2>1. code[t] \in Invite /\ Consumer(code[t]) = None
      BY <1>3 DEF Promise!Register, Promise!Invited
    <2>2. CASE u = v
      <3>1. \A i \in Invite : i = code[t] => Consumer(i)' = v
        BY <1>3, <2>1 DEF Promise!Register
      <3>2. QED
        BY <2>1, <2>2, <3>1
    <2>3. CASE u # v
      <3>1. u \in password /\ \E i \in Invite : Consumer(i) = u
        BY <1>3, <2>3 DEF Promise!Register, Covered
      <3>i. PICK i \in Invite : Consumer(i) = u
        BY <3>1
      <3>2. i # code[t]
        BY <1>u, <2>1, <3>1, <3>i
      <3>3. Consumer(i)' = Consumer(i)
        BY <1>3, <3>2 DEF Promise!Register
      <3>4. QED
        BY <3>i, <3>3
    <2>4. QED
      BY <2>2, <2>3
  <1>4. ASSUME NEW v \in User, Promise!EnsureAdmin(v)
        PROVE  \E i \in Invite : Consumer(i)' = u
    BY <1>1, <1>4 DEF Promise!EnsureAdmin
  <1>5. ASSUME NEW t \in Task,
               \/ \E place, n, i : Promise!Ask(t, place, n, i)
               \/ \E v \in User :
                    Promise!Greet(t, v) \/ Promise!Login(t, v) \/ Promise!ValidateSession(t, v)
               \/ Promise!CreateSession(t) \/ Promise!Refuse(t) \/ Promise!Disconnect(t)
        PROVE  \E i \in Invite : Consumer(i)' = u
    BY <1>1, <1>5
    DEF Promise!Ask, Promise!Greet, Promise!Login, Promise!ValidateSession,
        Promise!CreateSession, Promise!Refuse, Promise!Disconnect
  <1>6. CASE Promise!Start \/ UNCHANGED Promise!vars
    BY <1>1, <1>6 DEF Promise!Start
  <1>7. CASE Promise!FirstInvite
    BY <1>1, <1>2, <1>7, AccountAssumption DEF Promise!FirstInvite
  <1>8. ASSUME NEW t \in Task, NEW i \in Invite, Promise!CreateInvite(t, i)
        PROVE  \E j \in Invite : Consumer(j)' = u
    BY <1>2, <1>8 DEF Promise!CreateInvite
  <1>9. QED
    BY <1>3, <1>4, <1>5, <1>6, <1>7, <1>8 DEF Promise!Next

CoveredUnlessRaced == faults = 0 /\ raced = {} => Covered

LEMMA StepCovers ==
  ASSUME IInv, IInv', ClaimsAlone, ClaimsAlone', CoveredUnlessRaced, [Next]_vars
  PROVE  CoveredUnlessRaced'
  <1> SUFFICES ASSUME faults' = 0, raced' = {}
               PROVE  Covered'
    BY DEF CoveredUnlessRaced
  <1>1. faults \in Nat /\ (faults' = faults \/ faults' = faults + 1)
    BY AccountAssumption
    DEF IInv, TypeOK, vars, Next, BootStep, Step, StartWithoutBootstrap, FindAdmin, PromoteAdmin,
        InsertAdmin, JoinAdmin, BootstrapInvite, Starting, CheckInvite, CheckName, InsertUser,
        InsertMember, ConsumeInvite, FindAccount, InsertSession, FindByName, ValidateSession,
        InsertGuest, InsertGuestMember, BeginLogin, BeginHello, BeginRegister, BeginResume, Begin,
        CreateInvite, Disconnect, StatementFails, Restart, Fault
  <1>2. faults = 0 /\ raced = {}
    BY <1>1, RacedGrows
  <1>3. QED
    BY <1>2, StepMaps, ConsumerFact, PromiseCovers DEF CoveredUnlessRaced

\* It takes a failure or a race to get an account with a password, other than the
\* administrator's, that no code stands behind (create_user_with_invite).
THEOREM EveryoneInvited == Spec => []AccountsAreInvited
  <1>1. Init => CoveredUnlessRaced
    BY DEF Init, CoveredUnlessRaced, Covered
  <1>2. IInv /\ IInv' /\ ClaimsAlone /\ ClaimsAlone' /\ CoveredUnlessRaced /\ [Next]_vars
          => CoveredUnlessRaced'
    BY StepCovers
  <1>3. ClaimsAlone /\ CoveredUnlessRaced => AccountsAreInvited
    <2> SUFFICES ASSUME ClaimsAlone, Covered, raced = {}, NEW u \in password \ admins
                 PROVE  \/ \E i \in Invite : usedBy[i] = u
                        \/ \E t \in Task : Claims(t) /\ me[t] = u
      BY DEF AccountsAreInvited, CoveredUnlessRaced
    <2>1. ConsumerIs
      BY ConsumerFact
    <2>2. PICK i \in Invite : Consumer(i) = u
      BY DEF Covered
    <2>3. QED
      BY <2>1, <2>2 DEF ConsumerIs
  <1>4. QED
    BY <1>1, <1>2, <1>3, Invariance, AlwaysAlone, PTL DEF Spec

=============================================================================
