-------------------------- MODULE TokenStore_proofs --------------------------
(***************************************************************************)
(* What the token store promises, for any number of clients and addresses. *)
(* The calls of several clients interleave freely; the argument is that    *)
(* the history variable newest is set only by a call that was alone at its *)
(* address from its first step to its last.                                *)
(***************************************************************************)
EXTENDS TokenStore, TLAPS

\* While a call is in progress nothing is claimed of its address, and a call that
\* is still alone has no other beside it.
CallsAreApart ==
  \A p \in Process : InProgress(p) =>
    /\ newest[addr[p]] = Unknown
    /\ busy[p].alone => Others(p) = {}

\* What a call that is alone has done so far is still there.
HalfDone ==
  \A p \in Process : busy[p].alone =>
    /\ busy[p].step = "remove" /\ busy[p].ring => keyring[addr[p]] = None
    /\ busy[p].step = "write" => busy[p].linked
    /\ busy[p].step = "mode" => file[addr[p]] = busy[p].token

\* Only a save of some token opens, writes or restricts a file.
SavesHaveTokens ==
  \A p \in Process :
    busy[p].step \in {"open", "write", "mode"} => busy[p].token \in Token

\* What the last call left is in the store that took it.
StoresHold ==
  \A a \in Addr : newest[a] # Unknown =>
    /\ last[a] => keyring[a] = newest[a]
    /\ last[a] /\ newest[a] = None => file[a] = None
    /\ ~last[a] => file[a] = newest[a]

\* Where tokens are, they have been issued, and by whom.
AtHome(t, a) == t <= issued /\ (t \notin strayed => origin[t] = a)

Home ==
  /\ \A a \in Addr : \A t \in {keyring[a], file[a]} \cap Token : AtHome(t, a)
  /\ \A p \in Process : busy[p].token \in Token =>
       busy[p].step # "idle" /\ AtHome(busy[p].token, addr[p])

\* What is proved to be inductive.
IInv == TypeOK /\ CallsAreApart /\ HalfDone /\ SavesHaveTokens /\ StoresHold /\ Home
-----------------------------------------------------------------------------
(* Types.                                                                  *)

Call == [step : Step, token : Token \cup {None}, linked : BOOLEAN,
         ring : BOOLEAN, alone : BOOLEAN]

LEMMA BeginTyped ==
  ASSUME TypeOK, NEW p \in Process, NEW step \in Step, NEW t \in Token \cup {None},
         NEW ring \in BOOLEAN, Begin(p, step, t, ring)
  PROVE  /\ busy' \in [Process -> Call]
         /\ newest' \in [Addr -> Token \cup {None, Unknown}] /\ last' = last
<1>1. ASSUME NEW q \in Process PROVE [busy[q] EXCEPT !.alone = FALSE] \in Call
  BY ZenonT(30) DEF TypeOK, Call
<1>2. [step |-> step, token |-> t, linked |-> FALSE, ring |-> ring,
       alone |-> Others(p) = {}] \in Call
  <2>1. (Others(p) = {}) \in BOOLEAN
    OBVIOUS
  <2> QED BY <2>1 DEF Call
<1>3. busy' \in [Process -> Call]
  BY <1>1, <1>2 DEF Begin, TypeOK, Call
<1> QED BY <1>3 DEF Begin, TypeOK

LEMMA PassesTyped ==
  ASSUME TypeOK, NEW p \in Process, NEW t \in Token \cup {None}, Passes(p, t)
  PROVE  /\ busy' \in [Process -> Call]
         /\ newest' \in [Addr -> Token \cup {None, Unknown}]
         /\ last' \in [Addr -> BOOLEAN]
<1>1. ASSUME NEW q \in Process PROVE [busy[q] EXCEPT !.alone = FALSE] \in Call
  BY ZenonT(30) DEF TypeOK, Call
<1>2. busy' \in [Process -> Call]
  BY <1>1 DEF Passes, TypeOK, Call
<1> QED BY <1>2 DEF Passes, Leaves, TypeOK

LEMMA SaveTyped ==
  ASSUME TypeOK, NEW p \in Process, NEW t \in Token, SaveToken(p, t)
  PROVE  /\ keyring' \in [Addr -> Token \cup {None}]
         /\ busy' \in [Process -> Call]
         /\ newest' \in [Addr -> Token \cup {None, Unknown}]
         /\ last' \in [Addr -> BOOLEAN]
<1>1. CASE answering /\ Passes(p, t) /\ keyring' = [keyring EXCEPT ![addr[p]] = t]
  BY <1>1, PassesTyped DEF TypeOK
<1>2. CASE Begin(p, "open", t, FALSE) /\ UNCHANGED keyring
  <2>1. "open" \in Step /\ FALSE \in BOOLEAN /\ t \in Token \cup {None}
    BY DEF Step
  <2> QED BY <1>2, <2>1, BeginTyped DEF TypeOK
<1> QED BY <1>1, <1>2 DEF SaveToken

LEMMA Typed == Spec => []TypeOK
<1>1. Init => TypeOK
  BY TokenAssumption DEF Init, TypeOK, Content, Window, Step, Idle
<1>2. TypeOK /\ [Next]_vars => TypeOK'
  <2> SUFFICES ASSUME TypeOK, [Next]_vars PROVE TypeOK'
    OBVIOUS
  <2> USE TokenAssumption
  <2>a. Idle \in Call
    BY DEF Idle, Call, Step
  <2>1. CASE SwitchKeyring
    BY <2>1 DEF TypeOK, SwitchKeyring, stores, clients, history
  <2>2. ASSUME NEW p \in Process, NEW a \in Addr, EditAddr(p, a) PROVE TypeOK'
    BY <2>2 DEF TypeOK, EditAddr, stores, history
  <2>3. ASSUME NEW p \in Process,
               Start(p) \/ Exit(p) \/ Connect(p) \/ PollConnected(p) \/ Disconnect(p)
        PROVE  TypeOK'
    <3>1. CASE Exit(p)
      BY <3>1, <2>a DEF TypeOK, Exit, Return, Move, Window, Call, stores, history
    <3> QED BY <2>3, <3>1 DEF TypeOK, Start, Connect, PollConnected, Disconnect, Move,
                              Window, stores, history
  <2>4. ASSUME NEW p \in Process, Welcome(p) PROVE TypeOK'
    <3>1. CASE UNCHANGED <<keyring, issued, origin, busy, history>>
      BY <2>4, <3>1 DEF TypeOK, Welcome, Move, Window, history
    <3>2. CASE /\ issued < MaxTokens /\ issued' = issued + 1
               /\ origin' = [origin EXCEPT ![issued'] = network[p]]
               /\ strayed' = IF addr[p] = network[p] THEN strayed
                             ELSE strayed \cup {issued'}
               /\ SaveToken(p, issued')
      <4>1. issued' \in Token /\ issued' \in 0..MaxTokens
        BY <3>2 DEF TypeOK, Token
      <4>2. origin' \in [Token -> Addr \cup {None}] /\ strayed' \subseteq Token
        BY <3>2, <4>1 DEF TypeOK
      <4>3. /\ keyring' \in [Addr -> Token \cup {None}]
            /\ busy' \in [Process -> Call]
            /\ newest' \in [Addr -> Token \cup {None, Unknown}]
            /\ last' \in [Addr -> BOOLEAN]
        BY <3>2, <4>1, SaveTyped
      <4> QED BY <2>4, <4>1, <4>2, <4>3 DEF TypeOK, Welcome, Move, Window, Call
    <3> QED BY <2>4, <3>1, <3>2 DEF Welcome
  <2>5. ASSUME NEW p \in Process, OpenFile(p) PROVE TypeOK'
    BY <2>5, <2>a DEF TypeOK, OpenFile, Return, Content, Step, Call, clients, history
  <2>6. ASSUME NEW p \in Process, WriteFile(p) PROVE TypeOK'
    BY <2>6, <2>a, SMTT(30) DEF TypeOK, WriteFile, Go, Return, Content, Step, Call, clients, history
  <2>7. ASSUME NEW p \in Process, RestrictMode(p) PROVE TypeOK'
    BY <2>7, <2>a, ZenonT(30) DEF TypeOK, RestrictMode, Leaves, Return, Call, stores, clients
  <2>8. ASSUME NEW p \in Process, Forget(p) PROVE TypeOK'
    <3>1. "remove" \in Step /\ None \in Token \cup {None} /\ answering \in BOOLEAN
      BY DEF Step, TypeOK
    <3>2. busy' \in [Process -> Call]
            /\ newest' \in [Addr -> Token \cup {None, Unknown}] /\ last' = last
      BY <2>8, <3>1, BeginTyped DEF Forget
    <3> QED BY <2>8, <3>2 DEF TypeOK, Forget, Call, clients
  <2>9. ASSUME NEW p \in Process, RemoveFile(p) PROVE TypeOK'
    <3>1. CASE Return(p) /\ UNCHANGED <<file, newest, last>>
      BY <2>9, <3>1, <2>a DEF TypeOK, RemoveFile, Return, Call, clients
    <3>2. CASE /\ file' = [file EXCEPT ![addr[p]] = None]
               /\ busy' = [q \in Process |->
                     CASE q = p -> Idle
                       [] q # p /\ addr[q] = addr[p] -> [busy[q] EXCEPT !.linked = FALSE]
                       [] OTHER -> busy[q]]
               /\ Leaves(p, busy[p].ring, busy[p].alone, None)
      <4>1. ASSUME NEW q \in Process PROVE [busy[q] EXCEPT !.linked = FALSE] \in Call
        <5>1. busy[q] \in Call
          BY DEF TypeOK, Call
        <5> QED BY <5>1 DEF Call
      <4>2. busy' \in [Process -> Call]
        BY <3>2, <4>1, <2>a DEF TypeOK, Call
      <4>3. newest' \in [Addr -> Token \cup {None, Unknown}] /\ last' \in [Addr -> BOOLEAN]
        BY <3>2 DEF TypeOK, Leaves
      <4> QED BY <2>9, <3>2, <4>2, <4>3 DEF TypeOK, RemoveFile, Content, Call, clients
    <3> QED BY <2>9, <3>1, <3>2 DEF RemoveFile
  <2>10. CASE UNCHANGED vars
    BY <2>10 DEF TypeOK, vars, stores, clients, history
  <2> QED BY <2>1, <2>2, <2>3, <2>4, <2>5, <2>6, <2>7, <2>8, <2>9, <2>10 DEF Next
<1> QED BY <1>1, <1>2, PTL DEF Spec

-----------------------------------------------------------------------------
(* The inductive invariant.                                                *)

Apart == CallsAreApart /\ HalfDone /\ SavesHaveTokens /\ StoresHold

LEMMA BeginFields ==
  ASSUME TypeOK, NEW p \in Process, NEW step, NEW t, NEW ring, Begin(p, step, t, ring)
  PROVE  /\ busy'[p].step = step /\ busy'[p].token = t /\ busy'[p].ring = ring
         /\ busy'[p].alone => Others(p) = {}
         /\ \A q \in Process \ {p} :
              /\ busy'[q].step = busy[q].step /\ busy'[q].token = busy[q].token
              /\ busy'[q].ring = busy[q].ring /\ busy'[q].linked = busy[q].linked
              /\ busy'[q].alone => busy[q].alone /\ q \notin Others(p)
<1>1. PICK r : r = [step |-> step, token |-> t, linked |-> FALSE, ring |-> ring,
                    alone |-> Others(p) = {}]
  OBVIOUS
<1>2. \A q \in Process :
        busy'[q] = CASE q = p -> r
                     [] q \in Others(p) -> [busy[q] EXCEPT !.alone = FALSE]
                     [] OTHER -> busy[q]
  BY <1>1 DEF Begin
<1>3. busy'[p] = r
  <2>1. busy'[p] = CASE p = p -> r
                     [] p \in Others(p) -> [busy[p] EXCEPT !.alone = FALSE]
                     [] OTHER -> busy[p]
    BY <1>2, Zenon
  <2> QED BY <2>1 DEF Others
<1>4. r.step = step /\ r.token = t /\ r.ring = ring /\ (r.alone => Others(p) = {})
  <2>1. r.step = step /\ r.token = t /\ r.ring = ring
    BY <1>1
  <2>2. r.alone => Others(p) = {}
    BY <1>1
  <2> QED BY <2>1, <2>2
<1>5. ASSUME NEW q \in Process \ {p}
      PROVE  /\ busy'[q].step = busy[q].step /\ busy'[q].token = busy[q].token
             /\ busy'[q].ring = busy[q].ring /\ busy'[q].linked = busy[q].linked
             /\ busy'[q].alone => busy[q].alone /\ q \notin Others(p)
  BY <1>2 DEF TypeOK
<1> QED BY <1>3, <1>4, <1>5

\* Beginning a call at an address puts an end to every claim about it.
LEMMA BeginApart ==
  ASSUME TypeOK, Apart, NEW p \in Process, Ready(p),
         NEW step \in Step, NEW t \in Token \cup {None}, NEW ring \in BOOLEAN,
         Begin(p, step, t, ring),
         step \in {"open", "write", "mode"} => t \in Token,
         step \notin {"idle", "write", "mode"},
         step = "remove" /\ ring => keyring'[addr[p]] = None,
         \A a \in Addr : a # addr[p] => keyring'[a] = keyring[a],
         UNCHANGED <<file, addr>>
  PROVE  Apart'
<1>2. /\ busy'[p].step = step /\ busy'[p].token = t /\ busy'[p].ring = ring
      /\ busy'[p].alone => Others(p) = {}
  BY BeginFields
<1>3. \A q \in Process \ {p} :
        /\ busy'[q].step = busy[q].step /\ busy'[q].token = busy[q].token
        /\ busy'[q].ring = busy[q].ring /\ busy'[q].linked = busy[q].linked
        /\ busy'[q].alone => busy[q].alone /\ q \notin Others(p)
  BY BeginFields
<1>4. newest' = [newest EXCEPT ![addr[p]] = Unknown] /\ last' = last
  BY DEF Begin
<1>5. addr[p] \in Addr /\ addr' = addr /\ file' = file
  BY DEF TypeOK
<1>6. CallsAreApart'
  <2> SUFFICES ASSUME NEW q \in Process, InProgress(q)'
               PROVE  newest'[addr[q]] = Unknown /\ (busy'[q].alone => Others(q)' = {})
    BY <1>5 DEF CallsAreApart
  <2>1. CASE q = p
    <3>1. newest'[addr[q]] = Unknown
      BY <2>1, <1>4, <1>5 DEF TypeOK
    <3>2. Others(p)' = Others(p)
      BY <1>3, <1>5 DEF Others, InProgress
    <3> QED BY <2>1, <3>1, <3>2, <1>2
  <2>2. CASE q # p
    <3>1. InProgress(q)
      BY <2>2, <1>3 DEF InProgress
    <3>2. newest'[addr[q]] = Unknown
      BY <3>1, <1>4, <1>5 DEF Apart, CallsAreApart, TypeOK
    <3>3. ASSUME busy'[q].alone PROVE Others(q)' = {}
      <4>1. Others(q) = {} /\ q \notin Others(p)
        BY <2>2, <3>1, <3>3, <1>3 DEF Apart, CallsAreApart
      <4>2. addr[q] # addr[p]
        BY <2>2, <3>1, <4>1 DEF Others
      <4> QED BY <4>1, <4>2, <1>3, <1>5 DEF Others, InProgress
    <3> QED BY <3>2, <3>3
  <2> QED BY <2>1, <2>2
<1>7. HalfDone'
  <2> SUFFICES ASSUME NEW q \in Process, busy'[q].alone
               PROVE  /\ busy'[q].step = "remove" /\ busy'[q].ring => keyring'[addr[q]] = None
                      /\ busy'[q].step = "write" => busy'[q].linked
                      /\ busy'[q].step = "mode" => file[addr[q]] = busy'[q].token
    BY <1>5 DEF HalfDone
  <2>1. CASE q = p
    BY <2>1, <1>2
  <2>2. CASE q # p
    <3>1. busy[q].alone /\ q \notin Others(p)
      BY <2>2, <1>3
    <3>2. busy[q].step # "idle" => addr[q] # addr[p]
      BY <2>2, <3>1 DEF Others, InProgress
    <3>3. addr[q] \in Addr
      BY DEF TypeOK
    <3> QED BY <2>2, <3>1, <3>2, <3>3, <1>3 DEF Apart, HalfDone
  <2> QED BY <2>1, <2>2
<1>8. SavesHaveTokens'
  BY <1>2, <1>3 DEF Apart, SavesHaveTokens
<1>9. StoresHold'
  BY <1>4, <1>5 DEF Apart, StoresHold, TypeOK
<1> QED BY <1>6, <1>7, <1>8, <1>9 DEF Apart

\* A call that leaves something at an address while no other is in progress
\* there may claim it; one that overlaps another claims nothing.
LEMMA PassesApart ==
  ASSUME TypeOK, Apart, NEW p \in Process, Ready(p), NEW t \in Token, Passes(p, t),
         keyring' = [keyring EXCEPT ![addr[p]] = t], UNCHANGED <<file, addr>>
  PROVE  Apart'
<1>1. \A q \in Process :
        busy'[q] = IF q \in Others(p) THEN [busy[q] EXCEPT !.alone = FALSE] ELSE busy[q]
  BY DEF Passes
<1>2. \A q \in Process :
        /\ busy'[q].step = busy[q].step /\ busy'[q].token = busy[q].token
        /\ busy'[q].ring = busy[q].ring /\ busy'[q].linked = busy[q].linked
        /\ busy'[q].alone => busy[q].alone /\ q \notin Others(p)
  BY <1>1 DEF TypeOK
<1>3. /\ newest' = [newest EXCEPT ![addr[p]] = IF Others(p) = {} THEN t ELSE Unknown]
      /\ last' = [last EXCEPT ![addr[p]] = TRUE]
  BY DEF Passes, Leaves
<1>4. addr[p] \in Addr /\ addr' = addr /\ file' = file /\ t # None
  BY TokenAssumption DEF TypeOK, Token
<1>5. \A q \in Process : Others(q)' = Others(q)
  BY <1>2, <1>4 DEF Others, InProgress
<1>6. CallsAreApart'
  <2> SUFFICES ASSUME NEW q \in Process, InProgress(q)'
               PROVE  newest'[addr[q]] = Unknown /\ (busy'[q].alone => Others(q)' = {})
    BY <1>4 DEF CallsAreApart
  <2>1. InProgress(q) /\ q # p
    BY <1>2 DEF InProgress, Ready
  <2>2. addr[q] = addr[p] => q \in Others(p)
    BY <2>1 DEF Others
  <2> QED BY <2>1, <2>2, <1>2, <1>3, <1>4, <1>5 DEF Apart, CallsAreApart, TypeOK
<1>7. HalfDone'
  <2> SUFFICES ASSUME NEW q \in Process, busy'[q].alone
               PROVE  /\ busy'[q].step = "remove" /\ busy'[q].ring => keyring'[addr[q]] = None
                      /\ busy'[q].step = "write" => busy'[q].linked
                      /\ busy'[q].step = "mode" => file[addr[q]] = busy'[q].token
    BY <1>4 DEF HalfDone
  <2>1. busy[q].alone /\ q \notin Others(p) /\ addr[q] \in Addr
    BY <1>2 DEF TypeOK
  <2>2. busy[q].step # "idle" => addr[q] # addr[p]
    BY <2>1 DEF Others, InProgress, Ready
  <2> QED BY <2>1, <2>2, <1>2 DEF Apart, HalfDone, TypeOK
<1>8. SavesHaveTokens'
  BY <1>2 DEF Apart, SavesHaveTokens
<1>9. StoresHold'
  BY <1>3, <1>4 DEF Apart, StoresHold, TypeOK
<1> QED BY <1>6, <1>7, <1>8, <1>9 DEF Apart

\* The end of a call that claims nothing: an error, or the end of the client.
LEMMA ReturnApart ==
  ASSUME TypeOK, Apart, NEW p \in Process, Return(p),
         \A q \in Process \ {p} : addr'[q] = addr[q],
         UNCHANGED <<keyring, file, newest, last>>
  PROVE  Apart'
<1>1. busy'[p] = Idle /\ \A q \in Process \ {p} : busy'[q] = busy[q]
  BY DEF Return, TypeOK
<1>2. ~busy'[p].alone /\ busy'[p].step = "idle"
  BY <1>1 DEF Idle
<1>3. CallsAreApart'
  BY <1>1, <1>2 DEF Apart, CallsAreApart, Others, InProgress
<1>4. HalfDone'
  BY <1>1, <1>2 DEF Apart, HalfDone
<1>5. SavesHaveTokens' /\ StoresHold'
  BY <1>1, <1>2 DEF Apart, SavesHaveTokens, StoresHold
<1> QED BY <1>3, <1>4, <1>5 DEF Apart

\* A step within a call, or one that no call is part of, that keeps the tokens
\* and the histories.
LEMMA GoApart ==
  ASSUME TypeOK, Apart, NEW p \in Process, busy[p].step \in {"open", "write"},
         NEW step \in {"write", "mode"}, NEW linked \in BOOLEAN,
         busy' = [busy EXCEPT ![p].step = step, ![p].linked = linked],
         step = "write" => linked,
         step = "mode" /\ busy[p].alone => file'[addr[p]] = busy[p].token,
         \A a \in Addr : a # addr[p] => file'[a] = file[a],
         UNCHANGED <<keyring, addr, newest, last>>
  PROVE  Apart'
<1>1. /\ busy'[p].step = step /\ busy'[p].linked = linked /\ busy'[p].token = busy[p].token
      /\ busy'[p].alone => busy[p].alone
      /\ \A q \in Process \ {p} : busy'[q] = busy[q]
  BY DEF TypeOK
<1>2. InProgress(p) /\ newest[addr[p]] = Unknown /\ addr[p] \in Addr /\ step # "idle"
  BY DEF Apart, CallsAreApart, InProgress, TypeOK
<1>3. \A q \in Process : InProgress(q)' <=> InProgress(q)
  BY <1>1, <1>2 DEF InProgress
<1>4. \A q \in Process : Others(q)' = Others(q)
  BY <1>3 DEF Others
<1>5. CallsAreApart'
  BY <1>1, <1>3, <1>4 DEF Apart, CallsAreApart
<1>6. HalfDone'
  <2> SUFFICES ASSUME NEW q \in Process, busy'[q].alone
               PROVE  /\ busy'[q].step = "remove" /\ busy'[q].ring => keyring[addr[q]] = None
                      /\ busy'[q].step = "write" => busy'[q].linked
                      /\ busy'[q].step = "mode" => file'[addr[q]] = busy'[q].token
    BY DEF HalfDone
  <2>1. CASE q = p
    BY <2>1, <1>1
  <2>2. CASE q # p
    <3>1. busy[q].alone /\ addr[q] \in Addr
      BY <2>2, <1>1 DEF TypeOK
    <3>2. busy[q].step = "mode" => addr[q] # addr[p]
      BY <2>2, <3>1, <1>2 DEF Apart, CallsAreApart, InProgress, Others
    <3> QED BY <2>2, <3>1, <3>2, <1>1 DEF Apart, HalfDone
  <2> QED BY <2>1, <2>2
<1>7. SavesHaveTokens'
  BY <1>1 DEF Apart, SavesHaveTokens
<1>8. StoresHold'
  BY <1>2 DEF Apart, StoresHold
<1> QED BY <1>5, <1>6, <1>7, <1>8 DEF Apart

LEMMA StaysApart ==
  ASSUME TypeOK, Apart, NEW p \in Process, Ready(p),
         \A q \in Process \ {p} : addr'[q] = addr[q],
         UNCHANGED <<stores, busy, newest, last>>
  PROVE  Apart'
<1>1. ~InProgress(p) /\ busy[p].step = "idle"
  BY DEF Ready, InProgress
<1>2. \A q \in Process : InProgress(q) => addr'[q] = addr[q] /\ Others(q)' = Others(q)
  BY <1>1 DEF Others, InProgress
<1>3. CallsAreApart'
  BY <1>2 DEF Apart, CallsAreApart, InProgress
<1>4. HalfDone'
  BY <1>1 DEF Apart, HalfDone, stores
<1> QED BY <1>3, <1>4 DEF Apart, SavesHaveTokens, StoresHold, stores

LEMMA RestrictModeApart ==
  ASSUME TypeOK, Apart, NEW p \in Process, RestrictMode(p)
  PROVE  Apart'
<1>1. CASE UNCHANGED <<newest, last>>
  BY <1>1, ReturnApart DEF RestrictMode, stores, clients
<1>2. CASE file[addr[p]] # None /\ Leaves(p, FALSE, busy[p].alone, busy[p].token)
  <2> DEFINE a == addr[p]
  <2>1. /\ busy'[p] = Idle /\ \A q \in Process \ {p} : busy'[q] = busy[q]
        /\ UNCHANGED <<keyring, file, addr>> /\ a \in Addr
    BY DEF RestrictMode, Return, TypeOK, stores, clients
  <2>2. busy'[p].step = "idle" /\ ~busy'[p].alone
    BY <2>1 DEF Idle
  <2>3. /\ newest'[a] = IF busy[p].alone THEN busy[p].token ELSE Unknown
        /\ ~last'[a]
        /\ \A b \in Addr \ {a} : newest'[b] = newest[b] /\ last'[b] = last[b]
    BY <1>2, <2>1 DEF Leaves, TypeOK
  <2>4. InProgress(p) /\ (busy[p].alone => file[a] = busy[p].token)
    BY DEF RestrictMode, InProgress, Apart, HalfDone
  <2>5. ASSUME NEW q \in Process, InProgress(q)'
        PROVE  newest'[addr[q]] = Unknown /\ (busy'[q].alone => Others(q)' = {})
    <3>1. q # p /\ InProgress(q) /\ busy'[q] = busy[q]
      BY <2>1, <2>2, <2>5 DEF InProgress
    <3>2. addr[q] = a => q \in Others(p)
      BY <3>1 DEF Others
    <3>3. newest'[addr[q]] = Unknown
      BY <3>1, <3>2, <2>3, <2>4 DEF Apart, CallsAreApart, TypeOK
    <3>4. busy'[q].alone => Others(q)' = {}
      BY <3>1, <2>1, <2>2 DEF Apart, CallsAreApart, Others, InProgress
    <3> QED BY <3>3, <3>4
  <2>6. CallsAreApart'
    BY <2>1, <2>5 DEF CallsAreApart
  <2>7. HalfDone' /\ SavesHaveTokens'
    BY <2>1, <2>2 DEF Apart, HalfDone, SavesHaveTokens
  <2>8. StoresHold'
    BY <2>1, <2>3, <2>4 DEF Apart, StoresHold
  <2> QED BY <2>6, <2>7, <2>8 DEF Apart
<1> QED BY <1>1, <1>2 DEF RestrictMode

LEMMA RemoveFileApart ==
  ASSUME TypeOK, Apart, NEW p \in Process, RemoveFile(p)
  PROVE  Apart'
<1>1. CASE Return(p) /\ UNCHANGED <<file, newest, last>>
  BY <1>1, ReturnApart DEF RemoveFile, clients
<1>2. CASE /\ file' = [file EXCEPT ![addr[p]] = None]
           /\ busy' = [q \in Process |->
                 CASE q = p -> Idle
                   [] q # p /\ addr[q] = addr[p] -> [busy[q] EXCEPT !.linked = FALSE]
                   [] OTHER -> busy[q]]
           /\ Leaves(p, busy[p].ring, busy[p].alone, None)
  <2> DEFINE a == addr[p]
  <2>1. UNCHANGED <<keyring, addr>> /\ a \in Addr
    BY DEF RemoveFile, TypeOK, clients
  <2>2. busy'[p].step = "idle" /\ ~busy'[p].alone
    BY <1>2 DEF Idle
  <2>3. \A q \in Process \ {p} :
          /\ busy'[q].step = busy[q].step /\ busy'[q].token = busy[q].token
          /\ busy'[q].ring = busy[q].ring /\ (busy'[q].alone <=> busy[q].alone)
          /\ addr[q] # a => busy'[q].linked = busy[q].linked
    BY <1>2, ZenonT(30) DEF TypeOK
  <2>4. /\ newest'[a] = IF busy[p].alone THEN None ELSE Unknown
        /\ last'[a] = busy[p].ring
        /\ \A b \in Addr \ {a} : newest'[b] = newest[b] /\ last'[b] = last[b]
        /\ file'[a] = None /\ \A b \in Addr \ {a} : file'[b] = file[b]
    BY <1>2, <2>1 DEF Leaves, TypeOK
  <2>5. InProgress(p) /\ (busy[p].alone /\ busy[p].ring => keyring[a] = None)
    BY DEF RemoveFile, InProgress, Apart, HalfDone
  <2>6. ASSUME NEW q \in Process, q # p, InProgress(q), busy[q].alone PROVE addr[q] # a
    BY <2>5, <2>6 DEF Apart, CallsAreApart, Others
  <2>7. ASSUME NEW q \in Process, InProgress(q)'
        PROVE  newest'[addr[q]] = Unknown /\ (busy'[q].alone => Others(q)' = {})
    <3>1. q # p /\ InProgress(q) /\ (busy'[q].alone => busy[q].alone)
      BY <2>2, <2>3, <2>7 DEF InProgress
    <3>2. addr[q] = a => q \in Others(p)
      BY <3>1 DEF Others
    <3>3. newest'[addr[q]] = Unknown
      BY <3>1, <3>2, <2>4, <2>5 DEF Apart, CallsAreApart, TypeOK
    <3>4. busy'[q].alone => Others(q)' = {}
      BY <3>1, <2>1, <2>2, <2>3 DEF Apart, CallsAreApart, Others, InProgress
    <3> QED BY <3>3, <3>4
  <2>8. CallsAreApart'
    BY <2>1, <2>7 DEF CallsAreApart
  <2>9. HalfDone'
    <3> SUFFICES ASSUME NEW q \in Process, busy'[q].alone
                 PROVE  /\ busy'[q].step = "remove" /\ busy'[q].ring => keyring[addr[q]] = None
                        /\ busy'[q].step = "write" => busy'[q].linked
                        /\ busy'[q].step = "mode" => file'[addr[q]] = busy'[q].token
      BY <2>1 DEF HalfDone
    <3>1. q # p /\ busy[q].alone /\ addr[q] \in Addr
      BY <2>2, <2>3 DEF TypeOK
    <3>2. busy[q].step # "idle" => addr[q] # a
      BY <3>1, <2>6 DEF InProgress
    <3> QED BY <3>1, <3>2, <2>3, <2>4 DEF Apart, HalfDone
  <2>10. SavesHaveTokens'
    BY <2>2, <2>3 DEF Apart, SavesHaveTokens
  <2>11. StoresHold'
    BY <2>1, <2>4, <2>5 DEF Apart, StoresHold
  <2> QED BY <2>8, <2>9, <2>10, <2>11 DEF Apart
<1> QED BY <1>1, <1>2 DEF RemoveFile

LEMMA ApartStep == TypeOK /\ Apart /\ [Next]_vars => Apart'
<1> SUFFICES ASSUME TypeOK, Apart, [Next]_vars PROVE Apart'
  OBVIOUS
<1>1. CASE SwitchKeyring \/ UNCHANGED vars
  BY <1>1 DEF SwitchKeyring, vars, stores, clients, history, Apart, CallsAreApart, HalfDone,
              SavesHaveTokens, StoresHold, Others, InProgress
<1>2. ASSUME NEW p \in Process, NEW a \in Addr, EditAddr(p, a) PROVE Apart'
  BY <1>2, StaysApart DEF EditAddr, Editable, TypeOK, history
<1>3. ASSUME NEW p \in Process, Connect(p) \/ PollConnected(p) \/ Disconnect(p) PROVE Apart'
  BY <1>3, StaysApart DEF Connect, PollConnected, Disconnect, Editable, history
<1>4. ASSUME NEW p \in Process, Start(p) PROVE Apart'
  BY <1>4 DEF Start, Apart, CallsAreApart, HalfDone, SavesHaveTokens, StoresHold,
              Others, InProgress, stores, history
<1>5. ASSUME NEW p \in Process, Exit(p) PROVE Apart'
  BY <1>5, ReturnApart DEF Exit, TypeOK, stores, history
<1>6. ASSUME NEW p \in Process, Welcome(p) PROVE Apart'
  <2>1. CASE UNCHANGED <<keyring, issued, origin, busy, history>>
    BY <1>6, <2>1, StaysApart DEF Welcome, stores, history
  <2>2. CASE issued < MaxTokens /\ issued' = issued + 1 /\ SaveToken(p, issued')
    <3>1. issued' \in Token /\ Ready(p) /\ UNCHANGED <<file, addr>>
      BY <1>6, <2>2, TokenAssumption DEF Welcome, TypeOK, Token
    <3>2. CASE keyring' = [keyring EXCEPT ![addr[p]] = issued'] /\ Passes(p, issued')
      BY <3>1, <3>2, PassesApart
    <3>3. CASE Begin(p, "open", issued', FALSE) /\ UNCHANGED keyring
      <4>1. "open" \in Step /\ FALSE \in BOOLEAN
        BY DEF Step
      <4> QED BY <3>1, <3>3, <4>1, BeginApart
    <3> QED BY <2>2, <3>2, <3>3 DEF SaveToken
  <2> QED BY <1>6, <2>1, <2>2 DEF Welcome
<1>7. ASSUME NEW p \in Process, OpenFile(p) PROVE Apart'
  <2>1. CASE Return(p) /\ UNCHANGED file
    BY <1>7, <2>1, ReturnApart DEF OpenFile, clients, history
  <2>2. CASE /\ file' = [file EXCEPT ![addr[p]] = Empty]
             /\ busy' = [busy EXCEPT ![p].step = "write", ![p].linked = TRUE]
    BY <1>7, <2>2, GoApart DEF OpenFile, TypeOK, clients, history
  <2> QED BY <1>7, <2>1, <2>2 DEF OpenFile
<1>8. ASSUME NEW p \in Process, WriteFile(p) PROVE Apart'
  <2>1. CASE Return(p) /\ UNCHANGED file
    BY <1>8, <2>1, ReturnApart DEF WriteFile, clients, history
  <2>2. CASE /\ file' = IF busy[p].linked THEN [file EXCEPT ![addr[p]] = busy[p].token]
                        ELSE file
             /\ Go(p, "mode")
    <3>1. busy[p].linked \in BOOLEAN /\ busy[p].step = "write"
      BY <1>8 DEF WriteFile, TypeOK
    <3>2. busy' = [busy EXCEPT ![p].step = "mode", ![p].linked = busy[p].linked]
      BY <2>2 DEF Go, TypeOK
    <3>3. busy[p].alone => file'[addr[p]] = busy[p].token
      BY <2>2, <3>1 DEF Apart, HalfDone, TypeOK
    <3>4. \A a \in Addr : a # addr[p] => file'[a] = file[a]
      BY <2>2 DEF TypeOK
    <3> QED BY <1>8, <3>1, <3>2, <3>3, <3>4, GoApart DEF WriteFile, clients, history
  <2> QED BY <1>8, <2>1, <2>2 DEF WriteFile
<1>9. ASSUME NEW p \in Process, RestrictMode(p) PROVE Apart'
  BY <1>9, RestrictModeApart
<1>10. ASSUME NEW p \in Process, Forget(p) PROVE Apart'
  <2>1. "remove" \in Step /\ None \in Token \cup {None} /\ answering \in BOOLEAN /\ Ready(p)
    BY <1>10 DEF Step, TypeOK, Forget, Editable
  <2>2. /\ answering => keyring'[addr[p]] = None
        /\ \A a \in Addr : a # addr[p] => keyring'[a] = keyring[a]
    BY <1>10 DEF Forget, TypeOK
  <2> QED BY <1>10, <2>1, <2>2, BeginApart DEF Forget, clients
<1>11. ASSUME NEW p \in Process, RemoveFile(p) PROVE Apart'
  BY <1>11, RemoveFileApart
<1> QED BY <1>1, <1>2, <1>3, <1>4, <1>5, <1>6, <1>7, <1>8, <1>9, <1>10, <1>11 DEF Next

\* No step moves a token, once it is stored or being stored, to another address.
LEMMA HomeStep == TypeOK /\ SavesHaveTokens /\ Home /\ [Next]_vars => Home'
<1> SUFFICES ASSUME TypeOK, SavesHaveTokens, Home, [Next]_vars PROVE Home'
  OBVIOUS
<1> USE TokenAssumption
<1>a. None \notin Token /\ Empty \notin Token
  BY DEF Token
<1>b. Idle.token = None
  BY DEF Idle
<1>1. CASE SwitchKeyring \/ UNCHANGED vars
  BY <1>1 DEF SwitchKeyring, vars, stores, clients, history, Home, AtHome
<1>2. ASSUME NEW p \in Process, NEW a \in Addr, EditAddr(p, a) PROVE Home'
  <2>1. busy[p].token \notin Token
    BY <1>2 DEF EditAddr, Editable, Ready, Home
  <2> QED BY <1>2, <2>1 DEF EditAddr, Home, AtHome, TypeOK, stores, history
<1>3. ASSUME NEW p \in Process,
             Start(p) \/ Connect(p) \/ PollConnected(p) \/ Disconnect(p)
      PROVE  Home'
  BY <1>3 DEF Start, Connect, PollConnected, Disconnect, Home, AtHome, stores, history
<1>4. ASSUME NEW p \in Process, Exit(p) PROVE Home'
  BY <1>4, <1>a, <1>b DEF Exit, Return, Home, AtHome, TypeOK, stores, history
<1>5. ASSUME NEW p \in Process, Welcome(p) PROVE Home'
  <2>1. CASE UNCHANGED <<keyring, issued, origin, busy, history>>
    BY <1>5, <2>1 DEF Welcome, history, Home, AtHome
  <2>2. CASE /\ issued < MaxTokens /\ issued' = issued + 1
             /\ origin' = [origin EXCEPT ![issued'] = network[p]]
             /\ strayed' = IF addr[p] = network[p] THEN strayed
                           ELSE strayed \cup {issued'}
             /\ SaveToken(p, issued')
    <3>0. PICK n \in Token : n = issued + 1
      BY <2>2 DEF TypeOK, Token
    <3>1. /\ issued' = n /\ SaveToken(p, n) /\ UNCHANGED <<file, addr>>
          /\ addr[p] \in Addr /\ issued \in Nat /\ n # None
      BY <1>5, <1>a, <2>2, <3>0 DEF Welcome, TypeOK
    <3>2. ASSUME NEW t \in Token, NEW a \in Addr, AtHome(t, a) PROVE AtHome(t, a)'
      <4>1. t <= issued /\ t # n /\ t <= n
        BY <3>0, <3>1, <3>2 DEF AtHome, Token
      <4>2. origin'[t] = origin[t] /\ (t \in strayed => t \in strayed')
        BY <2>2, <3>1, <4>1 DEF TypeOK
      <4> QED BY <3>1, <3>2, <4>1, <4>2 DEF AtHome
    <3>3. AtHome(n, addr[p])'
      <4>1. origin'[n] = network[p] /\ n <= n
        BY <2>2, <3>0, <3>1 DEF TypeOK, Token
      <4>2. addr[p] # network[p] => n \in strayed'
        BY <2>2, <3>1
      <4> QED BY <3>1, <4>1, <4>2 DEF AtHome
    <3>4. ASSUME NEW a \in Addr, NEW t \in {keyring'[a], file'[a]} \cap Token
          PROVE  AtHome(t, a)'
      <4>1. (t = n /\ a = addr[p]) \/ t \in {keyring[a], file[a]}
        BY <3>1, <3>4 DEF SaveToken, TypeOK
      <4>2. CASE t \in {keyring[a], file[a]}
        BY <3>2, <3>4, <4>2 DEF Home
      <4>3. CASE t = n /\ a = addr[p]
        BY <3>3, <4>3, <3>1
      <4> QED BY <4>1, <4>2, <4>3
    <3>5. ASSUME NEW q \in Process, busy'[q].token \in Token
          PROVE  /\ busy'[q].step # "idle" /\ busy'[q].token <= issued'
                 /\ busy'[q].token \notin strayed' => origin'[busy'[q].token] = addr'[q]
      <4> SUFFICES ASSUME NEW t \in Token, t = busy'[q].token
                   PROVE  busy'[q].step # "idle" /\ AtHome(t, addr[q])'
        BY <3>5, <3>1 DEF AtHome
      <4>1. CASE t = busy[q].token /\ busy'[q].step = busy[q].step
        BY <4>1, <3>1, <3>2 DEF Home, TypeOK
      <4>2. CASE q = p /\ t = n /\ busy'[q].step = "open"
        BY <4>2, <3>1, <3>3
      <4>3. CASE Passes(p, n)
        <5>1. busy'[q].token = busy[q].token /\ busy'[q].step = busy[q].step
          BY <4>3 DEF Passes, TypeOK
        <5> QED BY <5>1, <4>1
      <4>4. CASE Begin(p, "open", n, FALSE)
        <5>1. /\ busy'[p].token = n /\ busy'[p].step = "open"
              /\ \A r \in Process \ {p} :
                   busy'[r].token = busy[r].token /\ busy'[r].step = busy[r].step
          BY <4>4, BeginFields
        <5>2. q # p => busy'[q].token = busy[q].token /\ busy'[q].step = busy[q].step
          BY <5>1
        <5>3. CASE q = p
          BY <4>2, <5>1, <5>3
        <5> QED BY <4>1, <5>2, <5>3
      <4> QED BY <3>1, <4>3, <4>4 DEF SaveToken
    <3> QED BY <3>4, <3>5 DEF Home, AtHome
  <2> QED BY <1>5, <2>1, <2>2 DEF Welcome
<1>6. ASSUME NEW p \in Process, OpenFile(p) \/ WriteFile(p) PROVE Home'
  <2>1. UNCHANGED <<keyring, addr, issued, origin, strayed>> /\ busy[p].step # "idle"
        /\ busy[p].token \in Token /\ addr[p] \in Addr
    BY <1>6 DEF OpenFile, WriteFile, clients, history, SavesHaveTokens, TypeOK
  <2>2. \A a \in Addr : file'[a] \in Token => file'[a] = file[a] \/
                                          (a = addr[p] /\ file'[a] = busy[p].token)
    BY <1>6, <1>a DEF OpenFile, WriteFile, TypeOK
  <2>3. \A q \in Process : busy'[q].token \in Token =>
          busy'[q].token = busy[q].token /\ (busy'[q].step # "idle" \/ q # p)
    BY <1>6, <1>a, <1>b DEF OpenFile, WriteFile, Go, Return, TypeOK
  <2>4. \A q \in Process \ {p} : busy'[q].step = busy[q].step
    BY <1>6 DEF OpenFile, WriteFile, Go, Return, TypeOK
  <2> QED BY <2>1, <2>2, <2>3, <2>4 DEF Home, AtHome
<1>7. ASSUME NEW p \in Process, RestrictMode(p) PROVE Home'
  BY <1>7, <1>a, <1>b DEF RestrictMode, Return, Home, AtHome, TypeOK, stores, clients
<1>8. ASSUME NEW p \in Process, Forget(p) PROVE Home'
  <2>1. UNCHANGED <<file, addr, issued, origin, strayed>>
        /\ \A a \in Addr : keyring'[a] \in Token => keyring'[a] = keyring[a]
    BY <1>8, <1>a DEF Forget, clients, TypeOK
  <2>2. Begin(p, "remove", None, answering)
    BY <1>8 DEF Forget
  <2>3. \A q \in Process : busy'[q].token \in Token =>
          busy'[q].token = busy[q].token /\ busy'[q].step = busy[q].step
    BY <2>2, <1>a DEF Begin, TypeOK
  <2> QED BY <2>1, <2>3 DEF Home, AtHome
<1>9. ASSUME NEW p \in Process, RemoveFile(p) PROVE Home'
  <2>1. UNCHANGED <<keyring, addr, issued, origin, strayed>>
        /\ \A a \in Addr : file'[a] \in Token => file'[a] = file[a]
    BY <1>9, <1>a DEF RemoveFile, clients, TypeOK
  <2>2. \A q \in Process : busy'[q].token \in Token =>
          busy'[q].token = busy[q].token /\ busy'[q].step = busy[q].step
    BY <1>9, <1>a, <1>b DEF RemoveFile, Return, TypeOK
  <2> QED BY <2>1, <2>2 DEF Home, AtHome
<1> QED BY <1>1, <1>2, <1>3, <1>4, <1>5, <1>6, <1>7, <1>8, <1>9 DEF Next

LEMMA Invariant == Spec => []IInv
<1>1. Init => Apart /\ Home
  BY TokenAssumption DEF Init, Idle, Apart, CallsAreApart, HalfDone, SavesHaveTokens,
     StoresHold, InProgress, Home, Token
<1>2. TypeOK /\ Apart /\ Home /\ [Next]_vars => (Apart /\ Home)'
  BY ApartStep, HomeStep DEF Apart
<1>3. TypeOK /\ Apart /\ Home => IInv
  BY DEF IInv, Apart
<1> QED BY <1>1, <1>2, <1>3, Typed, PTL DEF Spec

-----------------------------------------------------------------------------
(* What follows from it.                                                   *)

\* Every variable of the token store keeps its type.
THEOREM TypeCorrect == Spec => []TypeOK
BY Typed, PTL

\* A load finds what the last save or forget left, as long as the keyring
\* answers as it did then: whatever clients were killed between two calls,
\* whatever other clients did at the same time, and although a fallback file
\* and an entry of the keyring can hold different tokens.
THEOREM NewestIsLoaded == Spec => []LoadFindsTheNewest
<1>1. IInv => LoadFindsTheNewest
  BY TokenAssumption DEF IInv, TypeOK, StoresHold, LoadFindsTheNewest, Loadable
<1> QED BY <1>1, Invariant, PTL

\* What was forgotten while the keyring answered is gone from both stores.
THEOREM ForgottenForGood == Spec => []ForgottenIsGone
<1>1. IInv => ForgottenIsGone
  BY TokenAssumption DEF IInv, StoresHold, ForgottenIsGone
<1> QED BY <1>1, Invariant, PTL

\* Tokens stay with the address of the server that issued them, in the keyring
\* and in the files, unless the address was edited before they came.
THEOREM TokensAtHome == Spec => []TokensStayHome
<1>1. IInv => TokensStayHome
  BY DEF IInv, Home, AtHome, TokensStayHome
<1> QED BY <1>1, Invariant, PTL
=============================================================================
