----------------------------- MODULE TokenStore -----------------------------
(***************************************************************************)
(* Where the desktop client keeps session tokens: an entry per server      *)
(* address in the keyring of the operating system and, when the keyring    *)
(* does not answer, a file per address.  Client processes of one user      *)
(* share both and run at the same time; each blocks its window while it    *)
(* saves, loads or forgets a token, and can be killed between two calls.   *)
(*                                                                         *)
(* The keyring answers or not as the desktop unlocks and locks it.  Keys   *)
(* and paths are derived from the address alone, so an address stands for  *)
(* them.  The authentication modes are left out: a Welcome brings a token  *)
(* (after Login and Register) or none (after ResumeSession and Hello).  So *)
(* is the token in the text field: a load changes nothing else, and what   *)
(* it would find is Loadable.                                              *)
(***************************************************************************)
EXTENDS Naturals

CONSTANTS
  Process,    \* client processes
  Addr,       \* server addresses
  Default,    \* the address a client starts with
  MaxTokens,  \* bound: tokens issued by the servers
  None,       \* no entry, no file, or no connection
  Empty,      \* a file without content
  Unknown     \* history: the last operation failed, was killed or overlapped

ASSUME TokenAssumption ==
  /\ Default \in Addr /\ MaxTokens \in Nat
  /\ None # Empty /\ None # Unknown /\ Empty # Unknown
  /\ {None, Empty, Unknown} \cap (Addr \cup 1..MaxTokens) = {}

VARIABLES
  keyring,    \* address -> the token of its entry
  file,       \* address -> the content of its file
  answering,  \* whether the keyring answers
  issued,     \* tokens issued so far: 1 .. issued
  origin,     \* token -> the address of the server that issued it
  window,     \* where each client stands
  addr,       \* the address in each client's text field
  network,    \* the address of each client's connection
  busy,       \* the save or forget each client is in: its next step and token
  newest,     \* history: what the last operation on an address left
  last,       \* history: whether the keyring answered that operation
  strayed     \* history: tokens that arrived after the address was edited

stores  == <<keyring, file>>
clients == <<window, addr, network>>
history == <<newest, last, strayed>>
vars == <<keyring, file, answering, issued, origin, window, addr, network,
          busy, newest, last, strayed>>

Token == 1..MaxTokens
Content == Token \cup {None, Empty}

\* connecting: the socket is not open yet; connected: no Welcome yet.
Window == {"closed", "offline", "connecting", "connected", "welcomed"}

\* write: the file is open and truncated; its name may have been removed since.
Step == {"idle", "open", "write", "mode", "remove"}
Idle == [step |-> "idle", token |-> None, linked |-> FALSE,
         ring |-> FALSE, alone |-> FALSE]

TypeOK ==
  /\ keyring \in [Addr -> Token \cup {None}]
  /\ file \in [Addr -> Content]
  /\ answering \in BOOLEAN
  /\ issued \in 0..MaxTokens
  /\ origin \in [Token -> Addr \cup {None}]
  /\ window \in [Process -> Window]
  /\ addr \in [Process -> Addr]
  /\ network \in [Process -> Addr \cup {None}]
  /\ busy \in [Process -> [step : Step, token : Token \cup {None}, linked : BOOLEAN,
                           ring : BOOLEAN, alone : BOOLEAN]]
  /\ newest \in [Addr -> Token \cup {None, Unknown}]
  /\ last \in [Addr -> BOOLEAN]
  /\ strayed \subseteq Token

Init ==
  /\ keyring = [a \in Addr |-> None]
  /\ file = [a \in Addr |-> None]
  /\ answering \in BOOLEAN
  /\ issued = 0
  /\ origin = [t \in Token |-> None]
  /\ window = [p \in Process |-> "closed"]
  /\ addr = [p \in Process |-> Default]
  /\ network = [p \in Process |-> None]
  /\ busy = [p \in Process |-> Idle]
  /\ newest = [a \in Addr |-> None]
  /\ last = [a \in Addr |-> TRUE]
  /\ strayed = {}

\* Secret services start, stop, lock and unlock.
SwitchKeyring ==
  /\ answering' = ~answering
  /\ UNCHANGED <<stores, issued, origin, clients, busy, history>>

-----------------------------------------------------------------------------
(* Calls.  A call is in progress from its first step to its last; the      *)
(* history variables remember what a save or a forget left if nobody else  *)
(* saved or forgot at the same address meanwhile.                          *)

InProgress(p) == busy[p].step # "idle"
Others(p) == {q \in Process \ {p} : InProgress(q) /\ addr[q] = addr[p]}

Begin(p, step, t, ring) ==
  /\ busy' = [q \in Process |->
       CASE q = p -> [step |-> step, token |-> t, linked |-> FALSE,
                      ring |-> ring, alone |-> Others(p) = {}]
         [] q \in Others(p) -> [busy[q] EXCEPT !.alone = FALSE]
         [] OTHER -> busy[q]]
  /\ newest' = [newest EXCEPT ![addr[p]] = Unknown]
  /\ UNCHANGED last

Go(p, step) == busy' = [busy EXCEPT ![p].step = step]

\* The call returns Ok and leaves token t, or None.
Leaves(p, ring, alone, t) ==
  /\ newest' = [newest EXCEPT ![addr[p]] = IF alone THEN t ELSE Unknown]
  /\ last' = [last EXCEPT ![addr[p]] = ring]

Return(p) == busy' = [busy EXCEPT ![p] = Idle]

\* A whole call in one step overlaps whatever is in progress.
Passes(p, t) ==
  /\ busy' = [q \in Process |->
       IF q \in Others(p) THEN [busy[q] EXCEPT !.alone = FALSE] ELSE busy[q]]
  /\ Leaves(p, TRUE, Others(p) = {}, t)

Move(p, w) == window' = [window EXCEPT ![p] = w]

\* The window handles an event or a click between two calls.
Ready(p) == busy[p].step = "idle"
Editable(p) == Ready(p) /\ window[p] \in {"offline", "connecting"}

-----------------------------------------------------------------------------
(* save_session_token, called when a Welcome brings a token.               *)

\* Mutant: the keyring's entry is that of the default address.
SaveToken_Default(p, t) ==
  \/ /\ answering
     /\ keyring' = [keyring EXCEPT ![Default] = t]
     /\ Passes(p, t)
  \/ /\ ~answering
     /\ Begin(p, "open", t, FALSE)
     /\ UNCHANGED keyring

\* The keyring if it takes the token, and the file if it does not.
SaveToken(p, t) ==
  \/ /\ answering
     /\ keyring' = [keyring EXCEPT ![addr[p]] = t]
     /\ Passes(p, t)
  \/ /\ ~answering
     /\ Begin(p, "open", t, FALSE)
     /\ UNCHANGED keyring

\* apply_server_frame(Welcome): the token is saved under the address that the
\* text field holds now.
Welcome(p) ==
  /\ Ready(p) /\ window[p] = "connected"
  /\ Move(p, "welcomed")
  /\ \/ /\ issued < MaxTokens
        /\ issued' = issued + 1
        /\ origin' = [origin EXCEPT ![issued'] = network[p]]
        /\ strayed' = IF addr[p] = network[p] THEN strayed ELSE strayed \cup {issued'}
        /\ SaveToken(p, issued')
     \/ UNCHANGED <<keyring, issued, origin, busy, history>>
  /\ UNCHANGED <<file, answering, addr, network>>

\* write_fallback_file: create and truncate, write, restrict the mode.  Each
\* call can fail, and the window then says so.
OpenFile(p) ==
  /\ busy[p].step = "open"
  /\ \/ /\ file' = [file EXCEPT ![addr[p]] = Empty]
        /\ busy' = [busy EXCEPT ![p].step = "write", ![p].linked = TRUE]
     \/ Return(p) /\ UNCHANGED file
  /\ UNCHANGED <<keyring, answering, issued, origin, clients, history>>

WriteFile(p) ==
  /\ busy[p].step = "write"
  /\ \/ /\ file' = IF busy[p].linked THEN [file EXCEPT ![addr[p]] = busy[p].token] ELSE file
        /\ Go(p, "mode")
     \/ Return(p) /\ UNCHANGED file
  /\ UNCHANGED <<keyring, answering, issued, origin, clients, history>>

\* set_permissions goes by the name, which is an error when it is gone.
RestrictMode(p) ==
  /\ busy[p].step = "mode"
  /\ Return(p)
  /\ \/ /\ file[addr[p]] # None
        /\ Leaves(p, FALSE, busy[p].alone, busy[p].token)
     \/ UNCHANGED <<newest, last>>
  /\ UNCHANGED <<stores, answering, issued, origin, clients, strayed>>

-----------------------------------------------------------------------------
(* load_session_token and delete_session_token.                            *)

\* Mutant: the file is looked at first.
Loadable_FileFirst(a) ==
  IF file[a] # None THEN file[a]
  ELSE IF answering THEN keyring[a] ELSE None

\* What a load finds now.
Loadable(a) ==
  IF answering /\ keyring[a] # None THEN keyring[a] ELSE file[a]

\* The keyring's answer is ignored, whatever it is.
Forget(p) ==
  /\ Editable(p)
  /\ keyring' = IF answering THEN [keyring EXCEPT ![addr[p]] = None] ELSE keyring
  /\ Begin(p, "remove", None, answering)
  /\ UNCHANGED <<file, answering, issued, origin, clients, strayed>>

\* Mutant: nothing is left to remove once the keyring has answered.
RemoveFile_KeyringOnly(p) ==
  /\ busy[p].step = "remove"
  /\ file' = IF busy[p].ring THEN file ELSE [file EXCEPT ![addr[p]] = None]
  /\ busy' = [q \in Process |-> IF q = p THEN Idle ELSE busy[q]]
  /\ Leaves(p, busy[p].ring, busy[p].alone, None)
  /\ UNCHANGED <<keyring, answering, issued, origin, clients, strayed>>

\* A file that another process has open loses its name.
RemoveFile(p) ==
  /\ busy[p].step = "remove"
  /\ \/ /\ file' = [file EXCEPT ![addr[p]] = None]
        /\ busy' = [q \in Process |->
             CASE q = p -> Idle
               [] q # p /\ addr[q] = addr[p] -> [busy[q] EXCEPT !.linked = FALSE]
               [] OTHER -> busy[q]]
        /\ Leaves(p, busy[p].ring, busy[p].alone, None)
     \/ Return(p) /\ UNCHANGED <<file, newest, last>>
  /\ UNCHANGED <<keyring, answering, issued, origin, clients, strayed>>

-----------------------------------------------------------------------------
(* The rest of a client's life.                                            *)

\* The text field can be edited until the window says connected, and so while
\* the connection is being made.
EditAddr(p, a) ==
  /\ Editable(p)
  /\ addr' = [addr EXCEPT ![p] = a]
  /\ UNCHANGED <<stores, answering, issued, origin, window, network, busy, history>>

Connect(p) ==
  /\ Editable(p)
  /\ Move(p, "connecting")
  /\ network' = [network EXCEPT ![p] = addr[p]]
  /\ UNCHANGED <<stores, answering, issued, origin, addr, busy, history>>

\* The event Connected of the network thread.
PollConnected(p) ==
  /\ Ready(p) /\ window[p] = "connecting"
  /\ Move(p, "connected")
  /\ UNCHANGED <<stores, answering, issued, origin, addr, network, busy, history>>

\* The button, or the event Disconnected.
Disconnect(p) ==
  /\ Ready(p) /\ window[p] \in {"connected", "welcomed"}
  /\ Move(p, "offline")
  /\ network' = [network EXCEPT ![p] = None]
  /\ UNCHANGED <<stores, answering, issued, origin, addr, busy, history>>

\* A client starts offline, with the default address, and loads its token.
Start(p) ==
  /\ window[p] = "closed"
  /\ Move(p, "offline")
  /\ UNCHANGED <<stores, answering, issued, origin, addr, network, busy, history>>

\* The process ends, or is killed in the middle of a call.
Exit(p) ==
  /\ window[p] # "closed"
  /\ Move(p, "closed")
  /\ addr' = [addr EXCEPT ![p] = Default]
  /\ network' = [network EXCEPT ![p] = None]
  /\ Return(p)
  /\ UNCHANGED <<stores, answering, issued, origin, history>>

Next ==
  \/ SwitchKeyring
  \/ \E p \in Process :
       \/ Start(p) \/ Exit(p) \/ Connect(p) \/ PollConnected(p) \/ Disconnect(p)
       \/ \E a \in Addr : EditAddr(p, a)
       \/ Welcome(p) \/ OpenFile(p) \/ WriteFile(p) \/ RestrictMode(p)
       \/ Forget(p) \/ RemoveFile(p)

Spec == Init /\ [][Next]_vars

-----------------------------------------------------------------------------
(* What the store promises.                                                *)

\* As long as the keyring answers as it did at the last save or forget of an
\* address (save_session_token, delete_session_token), a load finds exactly
\* what that call left, even with an older token in the other store; only
\* calls that failed, were killed or overlapped another process's are excepted.
LoadFindsTheNewest ==
  \A a \in Addr :
    newest[a] # Unknown /\ last[a] = answering => Loadable(a) = newest[a]

\* A token forgotten while the keyring answered is in neither store, and so no
\* later load finds it, whatever becomes of the keyring.
ForgottenIsGone ==
  \A a \in Addr :
    newest[a] = None /\ last[a] => keyring[a] = None /\ file[a] = None

\* A token is kept under the address of the server that issued it, unless the
\* address was edited between Connect and Welcome.
TokensStayHome ==
  \A a \in Addr : \A t \in {keyring[a], file[a]} \cap Token :
    t \notin strayed => origin[t] = a

=============================================================================
