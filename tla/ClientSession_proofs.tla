------------------------- MODULE ClientSession_proofs -------------------------
(***************************************************************************)
(* Proofs about ClientSession, for any number of connections and clicks    *)
(* and any lengths of the queues, and about ScreenShareSession, the screen *)
(* shares of one connection, for any number of them.                       *)
(***************************************************************************)
EXTENDS ClientSession, TLAPS

-----------------------------------------------------------------------------
(* Types.                                                                  *)

LEMMA InitType == Init => TypeOK
  <1> SUFFICES ASSUME Init
               PROVE  TypeOK
    OBVIOUS
  <1>1. connected \in BOOLEAN /\ shown \in BOOLEAN /\ remote \in BOOLEAN
        /\ (network = None => events = <<>> /\ ~connected)
    BY Zenon DEF Init
  <1>2. commands \in [Handle -> Seq(Command)] /\ wire \in [Handle -> Seq(Line)]
        /\ events \in Seq(Event)
    BY DEF Init
  <1>3. torn \in [Handle -> BOOLEAN]
    BY DEF Init
  <1>4. /\ net \in [Handle -> {"unused", "connecting", "open", "closed"}]
        /\ server \in [Handle -> {"none", "waiting", "serving", "ended"}]
        /\ {network, userId, voice} \subseteq Handle \cup {None}
        /\ lost \subseteq Handle /\ replaced \subseteq Handle
        /\ dropped \subseteq Handle /\ unsent \subseteq Handle
        /\ ops \in 0..MaxOps
    BY ClientAssumption DEF Init
  <1>5. QED
    BY <1>1, <1>2, <1>3, <1>4 DEF TypeOK

\* What the threads and the server may do to the variables they own.
LEMMA ThreadType ==
  ASSUME TypeOK, NEW h \in Handle, Thread(h)
  PROVE  TypeOK'
  <1>1. UNCHANGED <<connected, network, userId, voice, shown, remote, ops>>
    BY DEF Thread, Open, OpenFails, Write, WriteFails, Read, TimeoutInLine, EndOfStream,
           window, remotes
  <1>2. events' \in Seq(Event) /\ (network = None => events' = <<>>)
    <2>1. \/ events' = events
          \/ \E e \in Event : network = h /\ events' = Append(events, e)
      <3>1. \A e : Tell(h, e) => events' = events \/ (network = h /\ events' = Append(events, e))
        BY DEF Tell
      <3>2. CASE Read(h)
        <4>1. wire[h] \in Seq(Line) /\ wire[h] # <<>>
          BY <3>2 DEF Read, TypeOK
        <4>2. Head(wire[h]) \in Line
          BY <4>1
        <4>3. (IF torn[h] THEN "Error" ELSE Head(wire[h])) \in Event
          BY <4>2 DEF Event, Line
        <4>4. QED
          BY <3>1, <3>2, <4>3 DEF Read
      <3>3. CASE ~Read(h)
        <4>1. "Connected" \in Event /\ "Disconnected" \in Event /\ "Error" \in Event
          BY DEF Event, Line
        <4>2. \/ events' = events \/ Tell(h, "Connected") \/ Tell(h, "Disconnected")
              \/ Tell(h, "Error")
          BY <3>3 DEF Thread, Open, OpenFails, Write, WriteFails, TimeoutInLine, EndOfStream
        <4>3. QED
          BY <3>1, <4>1, <4>2
      <3>4. QED
        BY <3>2, <3>3
    <2>2. h # None /\ events \in Seq(Event) /\ (network = None => events = <<>>)
      BY ClientAssumption DEF TypeOK
    <2>3. QED
      BY <2>1, <2>2
  <1>3. net' \in [Handle -> {"unused", "connecting", "open", "closed"}]
    BY DEF TypeOK, Thread, Open, OpenFails, Write, WriteFails, Read, TimeoutInLine,
           EndOfStream, Close
  <1>4. commands' \in [Handle -> Seq(Command)]
    <2>1. \/ commands' = commands
          \/ commands' = [commands EXCEPT ![h] = <<>>]
          \/ commands[h] # <<>> /\ commands' = [commands EXCEPT ![h] = Tail(@)]
      BY DEF Thread, Open, OpenFails, Write, WriteFails, Read, TimeoutInLine, EndOfStream, Close
    <2>2. commands \in [Handle -> Seq(Command)]
      BY DEF TypeOK
    <2>3. <<>> \in Seq(Command) /\ (commands[h] # <<>> => Tail(commands[h]) \in Seq(Command))
      BY <2>2
    <2>4. PICK q \in Seq(Command) : commands' = commands \/ commands' = [commands EXCEPT ![h] = q]
      BY <2>1, <2>3
    <2>5. QED
      BY <2>2, <2>4
  <1>5. wire' \in [Handle -> Seq(Line)]
    <2>1. \/ wire' = wire
          \/ wire' = [wire EXCEPT ![h] = <<>>]
          \/ wire[h] # <<>> /\ wire' = [wire EXCEPT ![h] = Tail(@)]
      BY DEF Thread, Open, OpenFails, Write, WriteFails, Read, TimeoutInLine, EndOfStream, Close
    <2>2. wire \in [Handle -> Seq(Line)]
      BY DEF TypeOK
    <2>3. <<>> \in Seq(Line) /\ (wire[h] # <<>> => Tail(wire[h]) \in Seq(Line))
      BY <2>2
    <2>4. PICK q \in Seq(Line) : wire' = wire \/ wire' = [wire EXCEPT ![h] = q]
      BY <2>1, <2>3
    <2>5. QED
      BY <2>2, <2>4
  <1>6. torn' \in [Handle -> BOOLEAN]
    BY DEF TypeOK, Thread, Open, OpenFails, Write, WriteFails, Read, TimeoutInLine,
           EndOfStream, Close
  <1>7. server' \in [Handle -> {"none", "waiting", "serving", "ended"}]
    BY DEF TypeOK, Thread, Open, OpenFails, Write, WriteFails, Read, TimeoutInLine,
           EndOfStream, Handled, remotes
  <1>8. /\ lost' \subseteq Handle /\ replaced' \subseteq Handle
        /\ dropped' \subseteq Handle /\ unsent' \subseteq Handle
    BY DEF TypeOK, Thread, Open, OpenFails, Write, WriteFails, Read, TimeoutInLine,
           EndOfStream, history
  <1>9. QED
    BY <1>1, <1>2, <1>3, <1>4, <1>5, <1>6, <1>7, <1>8 DEF TypeOK

\* The window's part of TypeOK.
WindowTypeOK ==
  /\ events \in Seq(Event) /\ {network, userId, voice} \subseteq Handle \cup {None}
  /\ network = None => events = <<>> /\ ~connected
  /\ connected \in BOOLEAN /\ shown \in BOOLEAN

\* What the window may do.  The voice session needs a handle to be ended on.
LEMMA WindowType ==
  ASSUME TypeOK, voice # None => connected, Click \/ Poll
  PROVE  TypeOK'
  <1>1. WindowTypeOK
    BY DEF TypeOK, WindowTypeOK
  <1>2. WindowTypeOK'
    <2>1. CASE Poll
      <3>1. events # <<>> => Tail(events) \in Seq(Event)
        BY <1>1 DEF WindowTypeOK
      <3>2. events # <<>> /\ events' = Tail(events)
        BY <2>1 DEF Poll, PollConnected, PollWelcome, PollShare, PollError, PollDisconnected,
                    Take
      <3>3. network # None /\ network' = network
        BY <1>1, <2>1 DEF WindowTypeOK, Poll, PollConnected, PollWelcome, PollShare, PollError,
                          PollDisconnected, Take, window
      <3>4. userId' \in {userId, network} /\ voice' \in {voice, None}
        BY <2>1 DEF Poll, PollConnected, PollWelcome, PollShare, PollError,
                    PollDisconnected, window
      <3>5. connected' \in BOOLEAN /\ shown' \in BOOLEAN
        BY <1>1, <2>1 DEF WindowTypeOK, Poll, PollConnected, PollWelcome, PollShare, PollError,
                    PollDisconnected, window
      <3>6. QED
        BY <1>1, <3>1, <3>2, <3>3, <3>4, <3>5 DEF WindowTypeOK
    <2>2. ASSUME NEW h \in Handle, Connect(h)
          PROVE  WindowTypeOK'
      BY <1>1, <2>2, ClientAssumption DEF WindowTypeOK, Connect
    <2>3. CASE Disconnect
      <3>1. connected' = FALSE /\ shown' = FALSE
        BY <2>3, Zenon DEF Disconnect
      <3>2. events' = <<>> /\ network' = None /\ userId' = None /\ voice' = None
        BY <2>3 DEF Disconnect
      <3>3. /\ events' \in Seq(Event)
            /\ {network', userId', voice'} \subseteq Handle \cup {None}
        BY <3>2
      <3>4. connected' \in BOOLEAN /\ shown' \in BOOLEAN /\ ~connected'
        BY <3>1, Zenon
      <3>5. QED
        BY <3>2, <3>3, <3>4, Zenon DEF WindowTypeOK
    <2>4. CASE JoinVoice \/ LeaveVoice
      BY <1>1, <2>4 DEF WindowTypeOK, JoinVoice, LeaveVoice
    <2>5. QED
      BY <2>1, <2>2, <2>3, <2>4 DEF Click
  <1>3. commands' \in [Handle -> Seq(Command)]
    <2>1. commands \in [Handle -> Seq(Command)] /\ (connected => network \in Handle)
      BY DEF TypeOK
    <2>2. CASE commands' = commands
      BY <2>1, <2>2
    <2>3. ASSUME NEW c \in Command, Queue(network, c), connected
          PROVE  commands' \in [Handle -> Seq(Command)]
      <3>1. Append(commands[network], c) \in Seq(Command)
        BY <2>1, <2>3
      <3>2. QED
        BY <2>1, <2>3, <3>1 DEF Queue
    <2>4. commands' = commands \/ (connected /\ \E c \in Command : Queue(network, c))
      BY DEF Click, Connect, Disconnect, JoinVoice, LeaveVoice, Command, Poll, PollConnected,
             PollWelcome, PollShare, PollError, PollDisconnected, threads
    <2>5. QED
      BY <2>2, <2>3, <2>4
  <1>4. /\ net' \in [Handle -> {"unused", "connecting", "open", "closed"}]
        /\ wire' = wire /\ torn' = torn /\ server' = server /\ remote' = remote
    BY DEF TypeOK, Click, Connect, Disconnect, JoinVoice, LeaveVoice, Poll, PollConnected,
           PollWelcome, PollShare, PollError, PollDisconnected, threads, remotes
  <1>5. ops' \in 0..MaxOps
    <2>1. ops \in 0..MaxOps /\ (ops' = ops \/ Count)
      BY DEF TypeOK, Click, Connect, Disconnect, JoinVoice, LeaveVoice, Poll, PollConnected,
           PollWelcome, PollShare, PollError, PollDisconnected, remotes
    <2>2. QED
      BY <2>1, ClientAssumption DEF Count
  <1>6. /\ lost' \subseteq Handle /\ replaced' \subseteq Handle
        /\ dropped' \subseteq Handle /\ unsent' \subseteq Handle
    <2>1. CASE Click
      BY <2>1 DEF TypeOK, Click, Connect, Disconnect, JoinVoice, LeaveVoice, history
    <2>2. CASE Poll
      <3>1. network \in Handle
        BY <2>2 DEF TypeOK, Poll, PollConnected, PollWelcome, PollShare, PollError,
                    PollDisconnected, Take
      <3>2. QED
        BY <2>2, <3>1 DEF TypeOK, Poll, PollConnected, PollWelcome, PollShare, PollError,
                          PollDisconnected, history
    <2>3. QED
      BY <2>1, <2>2
  <1>7. QED
    BY <1>2, <1>3, <1>4, <1>5, <1>6 DEF TypeOK, WindowTypeOK

LEMMA ServerType ==
  ASSUME TypeOK, Server
  PROVE  TypeOK'
  <1>1. wire' \in [Handle -> Seq(Line)]
    <2>1. wire \in [Handle -> Seq(Line)]
      BY DEF TypeOK
    <2>2. \A h \in Handle : \A line \in Line : Append(wire[h], line) \in Seq(Line)
      BY <2>1
    <2>3. ASSUME NEW h \in Handle, Answer(h)
          PROVE  wire' \in [Handle -> Seq(Line)]
      BY <2>1, <2>2, <2>3 DEF Answer, Line
    <2>4. ASSUME NEW line \in Line, RemoteShares(line)
          PROVE  wire' \in [Handle -> Seq(Line)]
      BY <2>1, <2>2, <2>4 DEF RemoteShares
    <2>5. ASSUME NEW h \in Handle, ServerEnds(h)
          PROVE  wire' \in [Handle -> Seq(Line)]
      BY <2>1, <2>5 DEF ServerEnds, threads
    <2>6. QED
      BY <2>3, <2>4, <2>5 DEF Server
  <1>2. server' \in [Handle -> {"none", "waiting", "serving", "ended"}]
    BY DEF TypeOK, Server, Answer, ServerEnds, RemoteShares
  <1>3. remote' \in BOOLEAN
    BY DEF TypeOK, Server, Answer, ServerEnds, RemoteShares
  <1>4. ops' \in 0..MaxOps
    <2>1. ops \in 0..MaxOps /\ (ops' = ops \/ Count)
      BY DEF TypeOK, Server, Answer, ServerEnds, RemoteShares
    <2>2. QED
      BY <2>1, ClientAssumption DEF Count
  <1>5. UNCHANGED <<connected, network, userId, voice, shown, events, net, commands, torn,
                    lost, replaced, dropped, unsent>>
    BY DEF Server, Answer, ServerEnds, RemoteShares, window, threads, history
  <1>6. QED
    BY <1>1, <1>2, <1>3, <1>4, <1>5 DEF TypeOK

-----------------------------------------------------------------------------
(* The inductive invariant.                                                *)

\* What the queue of the current handle may hold.  A window that is not connected
\* has nothing to take before Connected, or the Error of a connection that was not
\* made; Disconnected is the last event of a thread.
EventsOK ==
  /\ ~connected => \/ events = <<>> \/ Head(events) = "Connected" \/ events = <<"Error">>
  /\ ~connected /\ events = <<>> /\ network # None => net[network] \in {"connecting", "closed"}
  /\ events # <<>> => net[network] # "connecting"
  /\ events = <<"Error">> /\ ~connected => net[network] = "closed"
  /\ \A i \in 1..Len(events) :
       events[i] = "Disconnected" => i = Len(events) /\ net[network] = "closed"

\* A handle that was used is not used again.
HandlesOK == network # None => net[network] # "unused"

\* Whose user id the window has, and speaks with.
UserOK ==
  /\ userId # None => userId \in dropped \/ (connected /\ userId = network)
  /\ voice # None => connected /\ (voice = network \/ voice \in dropped)

IInv == TypeOK /\ EventsOK /\ HandlesOK /\ UserOK /\ OfflineIsQuiet /\ NoOrphan

LEMMA InitInv == Init => IInv
  <1> SUFFICES ASSUME Init
               PROVE  IInv
    OBVIOUS
  <1>1. TypeOK
    BY InitType
  <1>2. /\ connected = FALSE /\ network = None /\ userId = None /\ voice = None
        /\ shown = FALSE /\ events = <<>>
    BY Zenon DEF Init
  <1>3. EventsOK
    <2>1. 1..Len(events) = {}
      BY <1>2
    <2>2. QED
      BY <1>2, <2>1, Zenon DEF EventsOK
  <1>4. HandlesOK /\ UserOK /\ OfflineIsQuiet
    BY <1>2, Zenon DEF HandlesOK, UserOK, OfflineIsQuiet
  <1>5. NoOrphan
    BY DEF Init, NoOrphan
  <1>6. QED
    BY <1>1, <1>3, <1>4, <1>5 DEF IInv

LEMMA NextType ==
  ASSUME IInv, [Next]_vars
  PROVE  TypeOK'
  <1>1. voice # None => connected
    BY DEF IInv, UserOK
  <1>2. CASE UNCHANGED vars
    BY <1>2 DEF vars, IInv, TypeOK
  <1>3. QED
    BY <1>1, <1>2, ThreadType, WindowType, ServerType DEF IInv, Next

Told(h) == \E i \in 1..Len(commands[h]) : commands[h][i] = "Disconnect"

\* A connection that is not the window's was told to end, or replaced.
LEMMA NextOrphan ==
  ASSUME IInv, [Next]_vars
  PROVE  NoOrphan'
  <1> SUFFICES ASSUME NEW h \in Handle, net'[h] \in {"connecting", "open"}, h # network'
               PROVE  h \in replaced' \/ Told(h)'
    BY DEF NoOrphan, Told
  <1>1. /\ commands \in [Handle -> Seq(Command)]
        /\ net \in [Handle -> {"unused", "connecting", "open", "closed"}]
    BY DEF IInv, TypeOK
  <1>2. net[h] \in {"connecting", "open"} /\ h # network => h \in replaced \/ Told(h)
    BY DEF IInv, NoOrphan, Told
  <1>3. ASSUME net'[h] = net[h], commands'[h] = commands[h], network' = network,
               replaced' = replaced
        PROVE  h \in replaced' \/ Told(h)'
    BY <1>2, <1>3 DEF Told
  <1>4. ASSUME NEW g \in Handle, Connect(g)
        PROVE  h \in replaced' \/ Told(h)'
    <2>1. g # h /\ net'[h] = net[h] /\ commands' = commands
      BY <1>1, <1>4 DEF Connect
    <2>2. CASE h = network
      BY <1>4, <2>2, ClientAssumption DEF Connect
    <2>3. CASE h # network
      BY <1>2, <1>4, <2>1, <2>3 DEF Connect, Told
    <2>4. QED
      BY <2>2, <2>3
  <1>5. CASE Disconnect
    <2>1. net' = net /\ replaced' = replaced /\ connected /\ Queue(network, "Disconnect")
      BY <1>5 DEF Disconnect, history
    <2>2. network \in Handle
      BY <2>1 DEF IInv, TypeOK
    <2>3. CASE h = network
      <3>1. commands'[h] = Append(commands[h], "Disconnect")
        BY <1>1, <2>1, <2>2, <2>3 DEF Queue
      <3>2. commands[h] \in Seq(Command) /\ "Disconnect" \in Command
        BY <1>1 DEF Command
      <3>3. /\ Len(commands'[h]) = Len(commands[h]) + 1 /\ Len(commands[h]) \in Nat
            /\ commands'[h][Len(commands[h]) + 1] = "Disconnect"
        BY <3>1, <3>2
      <3>4. QED
        BY <3>3 DEF Told
    <2>4. CASE h # network
      <3>1. commands'[h] = commands[h]
        BY <1>1, <2>1, <2>2, <2>4 DEF Queue
      <3>2. QED
        BY <1>2, <2>1, <2>4, <3>1 DEF Told
    <2>5. QED
      BY <2>3, <2>4
  <1>6. CASE JoinVoice \/ LeaveVoice
    <2>1. /\ net' = net /\ replaced' = replaced /\ network' = network
          /\ \E c \in Command : Queue(network, c)
      BY <1>6 DEF JoinVoice, LeaveVoice, history, Command
    <2>2. commands'[h] = commands[h]
      BY <1>1, <2>1 DEF Queue
    <2>3. QED
      BY <1>3, <2>1, <2>2
  <1>7. CASE Poll
    BY <1>3, <1>7 DEF Poll, PollConnected, PollWelcome, PollShare, PollError, PollDisconnected,
                      window, threads, history
  <1>8. CASE Server
    BY <1>3, <1>8 DEF Server, Answer, ServerEnds, RemoteShares, window, threads, history
  <1>9. ASSUME NEW g \in Handle, Thread(g)
        PROVE  h \in replaced' \/ Told(h)'
    <2>1. network' = network /\ replaced' = replaced
      BY <1>9 DEF Thread, Open, OpenFails, Write, WriteFails, Read, TimeoutInLine, EndOfStream,
                  window, history
    <2>2. CASE g # h
      <3>1. net'[h] = net[h] /\ commands'[h] = commands[h]
        BY <1>1, <1>9, <2>2 DEF Thread, Open, OpenFails, Write, WriteFails, Read, TimeoutInLine,
                                EndOfStream, Close
      <3>2. QED
        BY <1>3, <2>1, <3>1
    <2>3. CASE g = h
      <3>1. net[h] \in {"connecting", "open"}
        BY <1>9, <2>3 DEF Thread, Open, OpenFails, Write, WriteFails, Read, TimeoutInLine,
                          EndOfStream
      <3>2. h \in replaced \/ Told(h)
        BY <1>2, <2>1, <3>1
      <3>3. CASE Write(h)
        <4>1. /\ commands[h] # <<>> /\ Head(commands[h]) # "Disconnect"
              /\ commands'[h] = Tail(commands[h])
          BY <1>1, <3>3 DEF Write, Close
        <4>2. ASSUME Told(h)
              PROVE  Told(h)'
          <5>1. PICK i \in 1..Len(commands[h]) : commands[h][i] = "Disconnect"
            BY <4>2 DEF Told
          <5>2. commands[h] \in Seq(Command)
            BY <1>1
          <5>3. i # 1
            BY <4>1, <5>1, <5>2
          <5>4. i - 1 \in 1..Len(commands'[h]) /\ commands'[h][i - 1] = "Disconnect"
            BY <4>1, <5>1, <5>2, <5>3
          <5>5. QED
            BY <5>4 DEF Told
        <4>3. QED
          BY <2>1, <3>2, <4>2
      <3>4. CASE ~Write(h)
        <4>1. commands' = commands
          BY <1>1, <1>9, <2>3, <3>4 DEF Thread, Open, OpenFails, WriteFails, Read,
                                        TimeoutInLine,
                                        EndOfStream, Close
        <4>2. QED
          BY <2>1, <3>2, <4>1 DEF Told
      <3>5. QED
        BY <3>3, <3>4
    <2>4. QED
      BY <2>2, <2>3
  <1>10. CASE UNCHANGED vars
    BY <1>3, <1>10 DEF vars
  <1>11. QED
    BY <1>4, <1>5, <1>6, <1>7, <1>8, <1>9, <1>10 DEF Next, Click

\* A window that is not connected takes Connected first, or the one Error.
LEMMA PolledOffline ==
  ASSUME IInv, ~connected
  PROVE  /\ ~Take("Welcome") /\ ~Take("Disconnected")
         /\ ~(Take("ScreenShareStarted") \/ Take("ScreenShareFrame") \/ Take("ScreenShareStopped"))
  <1>1. events = <<>> \/ Head(events) \in {"Connected", "Error"}
    BY DEF IInv, EventsOK
  <1>2. QED
    BY <1>1 DEF Take

LEMMA NextUser ==
  ASSUME IInv, [Next]_vars
  PROVE  UserOK' /\ OfflineIsQuiet'
  <1>1. UserOK /\ OfflineIsQuiet
    BY DEF IInv
  <1>2. CASE UNCHANGED <<connected, network, userId, voice, shown, dropped>>
    BY <1>1, <1>2 DEF UserOK, OfflineIsQuiet
  <1>3. CASE PollConnected
    <2>1. connected' = TRUE /\ UNCHANGED <<network, userId, voice, shown, dropped>>
      BY <1>3 DEF PollConnected, window, history
    <2>2. QED
      BY <1>1, <2>1 DEF UserOK, OfflineIsQuiet
  <1>4. CASE PollWelcome
    <2>1. connected' = TRUE /\ userId' = network /\ UNCHANGED <<network, voice, shown, dropped>>
      BY <1>4 DEF PollWelcome, window, history
    <2>2. QED
      BY <1>1, <2>1 DEF UserOK, OfflineIsQuiet
  <1>5. CASE PollShare
    <2>1. connected /\ UNCHANGED <<connected, network, userId, voice, dropped>>
      BY <1>5, PolledOffline DEF PollShare, history
    <2>2. QED
      BY <1>1, <2>1 DEF UserOK, OfflineIsQuiet
  <1>6. CASE PollDisconnected
    <2>1. /\ connected /\ connected' = FALSE /\ voice' = None /\ shown' = FALSE
          /\ dropped' = dropped \cup {network} /\ UNCHANGED <<network, userId>>
      BY <1>6, PolledOffline DEF PollDisconnected
    <2>2. QED
      BY <1>1, <2>1 DEF UserOK, OfflineIsQuiet
  <1>7. ASSUME NEW h \in Handle, Connect(h)
        PROVE  UserOK' /\ OfflineIsQuiet'
    <2>1. ~connected /\ UNCHANGED <<connected, userId, voice, shown, dropped>>
      BY <1>7 DEF Connect
    <2>2. QED
      BY <1>1, <2>1 DEF UserOK, OfflineIsQuiet
  <1>8. CASE Disconnect
    <2>1. userId' = None /\ voice' = None /\ shown' = FALSE
      BY <1>8, Zenon DEF Disconnect
    <2>2. QED
      BY <2>1 DEF UserOK, OfflineIsQuiet
  <1>9. CASE JoinVoice
    <2>1. connected /\ voice' = userId /\ UNCHANGED <<connected, network, userId, shown, dropped>>
      BY <1>9 DEF JoinVoice, history
    <2>2. QED
      BY <1>1, <2>1 DEF UserOK, OfflineIsQuiet
  <1>10. CASE LeaveVoice
    <2>1. voice' = None /\ UNCHANGED <<connected, network, userId, shown, dropped>>
      BY <1>10 DEF LeaveVoice, history
    <2>2. QED
      BY <1>1, <2>1 DEF UserOK, OfflineIsQuiet
  <1>11. CASE PollError \/ Server \/ UNCHANGED vars
    BY <1>2, <1>11 DEF PollError, Server, Answer, ServerEnds, RemoteShares, window, history,
                       vars
  <1>12. ASSUME NEW h \in Handle, Thread(h)
         PROVE  UserOK' /\ OfflineIsQuiet'
    BY <1>2, <1>12 DEF Thread, Open, OpenFails, Write, WriteFails, Read, TimeoutInLine,
                       EndOfStream, window, history
  <1>13. QED
    BY <1>3, <1>4, <1>5, <1>6, <1>7, <1>8, <1>9, <1>10, <1>11, <1>12 DEF Next, Click, Poll

\* The events of the current handle, and where its thread is.
LEMMA NextEvents ==
  ASSUME IInv, [Next]_vars
  PROVE  EventsOK' /\ HandlesOK'
  <1>1. /\ EventsOK /\ HandlesOK /\ events \in Seq(Event)
        /\ network \in Handle \cup {None} /\ (network = None => events = <<>> /\ ~connected)
        /\ net \in [Handle -> {"unused", "connecting", "open", "closed"}]
    BY DEF IInv, TypeOK
  <1>2. CASE UNCHANGED <<connected, network, events, net>>
    BY <1>1, <1>2 DEF EventsOK, HandlesOK
  <1>3. ASSUME NEW h \in Handle, Connect(h)
        PROVE  EventsOK' /\ HandlesOK'
    <2>1. /\ ~connected' /\ events' = <<>> /\ network' = h /\ net'[h] = "connecting"
      BY <1>1, <1>3 DEF Connect
    <2>2. QED
      BY <2>1 DEF EventsOK, HandlesOK
  <1>4. CASE Disconnect
    <2>1. connected' = FALSE /\ events' = <<>> /\ network' = None
      BY <1>4, Zenon DEF Disconnect
    <2>2. QED
      BY <2>1 DEF EventsOK, HandlesOK
  <1>5. CASE Poll
    <2>1. events # <<>> /\ events' = Tail(events) /\ network' = network /\ net' = net
      BY <1>5 DEF Poll, PollConnected, PollWelcome, PollShare, PollError, PollDisconnected,
                  Take,
                  window, threads
    <2>2. /\ Len(events) \in Nat /\ Len(events) > 0 /\ Len(events') = Len(events) - 1
          /\ \A i \in 1..Len(events') : events'[i] = events[i + 1]
          /\ events[1] = Head(events) /\ events' \in Seq(Event)
      BY <1>1, <2>1
    <2>3. \A i \in 1..Len(events') :
            events'[i] = "Disconnected" => i = Len(events') /\ net'[network'] = "closed"
      <3> SUFFICES ASSUME NEW i \in 1..Len(events'), events'[i] = "Disconnected"
                   PROVE  i = Len(events') /\ net'[network'] = "closed"
        OBVIOUS
      <3>1. i + 1 \in 1..Len(events) /\ events[i + 1] = "Disconnected"
        BY <2>2
      <3>2. i + 1 = Len(events) /\ net[network] = "closed"
        BY <1>1, <3>1 DEF EventsOK
      <3>3. i = Len(events')
        BY <2>2, <3>2
      <3>4. net'[network'] = "closed"
        BY <2>1, <3>2
      <3>5. QED
        BY <3>3, <3>4
    <2>4. connected' \/ (events' = <<>> /\ net[network] = "closed")
      <3>1. CASE PollConnected \/ PollWelcome
        BY <3>1, Zenon DEF PollConnected, PollWelcome
      <3>2. CASE PollShare
        BY <3>2, PolledOffline DEF PollShare
      <3>3. CASE PollError
        <4>1. Head(events) = "Error" /\ connected' = connected
          BY <3>3 DEF PollError, Take, window
        <4>2. CASE ~connected
          BY <1>1, <2>1, <4>1, <4>2 DEF EventsOK
        <4>3. QED
          BY <4>1, <4>2
      <3>4. CASE PollDisconnected
        <4>1. events[1] = "Disconnected"
          BY <2>2, <3>4 DEF PollDisconnected, Take
        <4>2. 1 = Len(events) /\ net[network] = "closed"
          BY <1>1, <2>2, <4>1 DEF EventsOK
        <4>3. Len(events') = 0
          <5>1. Len(events) = 1 /\ Len(events') = Len(events) - 1
            BY <2>2, <4>2
          <5>2. QED
            BY <5>1
        <4>4. events' = <<>>
          BY <2>2, <4>3
        <4>5. QED
          BY <4>2, <4>4
      <3>5. QED
        BY <1>5, <3>1, <3>2, <3>3, <3>4 DEF Poll
    <2>5. QED
      BY <1>1, <2>1, <2>3, <2>4 DEF EventsOK, HandlesOK
  <1>6. ASSUME NEW h \in Handle, Thread(h)
        PROVE  EventsOK' /\ HandlesOK'
    <2>1. connected' = connected /\ network' = network /\ net[h] \in {"connecting", "open"}
      BY <1>6 DEF Thread, Open, OpenFails, Write, WriteFails, Read, TimeoutInLine, EndOfStream,
                  window
    <2>2. CASE network # h
      <3>1. events' = events
        BY <1>6, <2>2 DEF Thread, Open, OpenFails, Write, WriteFails, Read, TimeoutInLine,
                          EndOfStream, Tell
      <3>2. network # None => net'[network] = net[network]
        BY <1>1, <1>6, <2>2 DEF Thread, Open, OpenFails, Write, WriteFails, Read, TimeoutInLine,
                                EndOfStream, Close
      <3>3. CASE network = None
        <4>1. events' = <<>> /\ network' = None
          BY <1>1, <2>1, <3>1, <3>3
        <4>2. QED
          BY <4>1 DEF EventsOK, HandlesOK
      <3>4. CASE network # None
        <4>1. net'[network'] = net[network] /\ network' = network /\ events' = events
              /\ connected' = connected
          BY <2>1, <3>1, <3>2, <3>4
        <4>2. QED
          BY <1>1, <4>1 DEF EventsOK, HandlesOK
      <3>5. QED
        BY <3>3, <3>4
    <2>3. CASE network = h
      <3>1. CASE UNCHANGED <<events, net>>
        BY <1>2, <2>1, <3>1
      <3>2. CASE Open(h) \/ OpenFails(h)
        <4>1. events = <<>>
          BY <1>1, <2>3, <3>2 DEF EventsOK, Open, OpenFails
        <4>2. \/ events' = <<"Connected">> /\ net'[h] = "open"
              \/ events' = <<"Error">> /\ net'[h] = "closed"
          BY <1>1, <2>3, <3>2, <4>1 DEF Open, OpenFails, Tell, Close
        <4>3. events' # <<>> /\ Len(events') = 1 /\ events'[1] # "Disconnected"
              /\ Head(events') \in {"Connected", "Error"}
          BY <4>2
        <4>4. QED
          BY <2>1, <2>3, <4>2, <4>3 DEF EventsOK, HandlesOK
      <3>3. CASE net[h] = "open" /\ \E e \in Event :
                   /\ events' = Append(events, e)
                   /\ \/ net'[h] = "closed"
                      \/ net'[h] = "open" /\ e # "Disconnected"
        <4>1. PICK e \in Event : /\ events' = Append(events, e)
                                 /\ \/ net'[h] = "closed"
                                    \/ net'[h] = "open" /\ e # "Disconnected"
          BY <3>3
        <4>2. /\ Len(events) \in Nat /\ Len(events') = Len(events) + 1 /\ events' # <<>>
              /\ events'[Len(events) + 1] = e
              /\ \A i \in 1..Len(events) : events'[i] = events[i]
              /\ (events # <<>> => Head(events') = Head(events) /\ Len(events) > 0)
          BY <1>1, <4>1
        <4>3. \A i \in 1..Len(events) : events[i] # "Disconnected"
          BY <1>1, <2>3, <3>3 DEF EventsOK
        <4>4. \A i \in 1..Len(events') :
                events'[i] = "Disconnected" => i = Len(events') /\ net'[h] = "closed"
          BY <4>1, <4>2, <4>3
        <4>5. ~connected => Head(events') = "Connected"
          BY <1>1, <2>3, <3>3, <4>2, ClientAssumption DEF EventsOK
        <4>6. ~connected => events' # <<"Error">>
          BY <4>5
        <4>7. net'[h] # "connecting" /\ net'[h] # "unused"
          BY <4>1
        <4>8. QED
          BY <2>1, <2>3, <4>2, <4>4, <4>5, <4>6, <4>7 DEF EventsOK, HandlesOK
      <3>4. CASE Read(h)
        <4>1. wire[h] \in Seq(Line) /\ wire[h] # <<>>
          BY <3>4 DEF Read, IInv, TypeOK
        <4>2. Head(wire[h]) \in Line
          BY <4>1
        <4>3. PICK e \in Event : e # "Disconnected" /\ events' = Append(events, e)
          BY <2>3, <3>4, <4>2 DEF Read, Tell, Event, Line
        <4>4. net[h] = "open" /\ net'[h] = "open"
          BY <3>4 DEF Read
        <4>5. QED
          BY <3>3, <4>3, <4>4
      <3>5. CASE (Write(h) /\ net' # net) \/ WriteFails(h) \/ EndOfStream(h)
        <4>1. net[h] = "open" /\ net'[h] = "closed"
          BY <1>1, <3>5 DEF Write, WriteFails, EndOfStream, Close
        <4>2. \E e \in Event : events' = Append(events, e)
          BY <2>3, <3>5 DEF Write, WriteFails, EndOfStream, Tell, Event, Line
        <4>3. QED
          BY <3>3, <4>1, <4>2
      <3>6. CASE (Write(h) /\ net' = net) \/ TimeoutInLine(h)
        <4>1. CASE Write(h) /\ net' = net
          <5>1. net[h] = "open"
            BY <4>1 DEF Write
          <5>2. net'[h] = "open"
            BY <4>1, <5>1
          <5>3. ~Close(h)
            BY <1>1, <5>2 DEF Close
          <5>4. events' = events
            BY <4>1, <5>3 DEF Write
          <5>5. QED
            BY <3>1, <4>1, <5>4
        <4>2. CASE TimeoutInLine(h)
          BY <3>1, <4>2 DEF TimeoutInLine
        <4>3. QED
          BY <3>6, <4>1, <4>2
      <3>7. QED
        BY <1>6, <3>2, <3>4, <3>5, <3>6 DEF Thread
    <2>4. QED
      BY <2>2, <2>3
  <1>7. CASE JoinVoice \/ LeaveVoice \/ Server \/ UNCHANGED vars
    BY <1>2, <1>7 DEF JoinVoice, LeaveVoice, Server, Answer, ServerEnds, RemoteShares, window,
                      threads, vars
  <1>8. QED
    BY <1>3, <1>4, <1>5, <1>6, <1>7 DEF Next, Click

LEMMA Invariance == Spec => []IInv
  <1>1. IInv /\ [Next]_vars => IInv'
    BY NextType, NextEvents, NextUser, NextOrphan DEF IInv
  <1>2. QED
    BY <1>1, InitInv, PTL DEF Spec

-----------------------------------------------------------------------------

\* Only a thread that the window still has a use for tells it anything, a window
\* without a handle believes nothing, and every variable keeps its type.
THEOREM TypeCorrect == Spec => []TypeOK
  BY Invariance, PTL DEF IInv

\* A window that shows itself as not connected does not speak and shows no share.
THEOREM QuietOffline == Spec => []OfflineIsQuiet
  BY Invariance, PTL DEF IInv

\* A connection that the window dropped was told to end, or was replaced while the
\* window waited for it.
THEOREM NoneLeftOpen == Spec => []NoOrphan
  BY Invariance, PTL DEF IInv

\* The voice worker speaks as the user of the current connection or, after a
\* connection was lost, of that one.
THEOREM OwnVoice == Spec => []VoiceIsOurs
  <1>1. IInv => VoiceIsOurs
    BY DEF IInv, UserOK, VoiceIsOurs
  <1>2. QED
    BY <1>1, Invariance, PTL

\* However connections end and overlap, the window neither keeps nor leaves behind
\* what belongs to a connection it does not use.
THEOREM OwnResources == Spec => []OwnsItsResources
  BY QuietOffline, NoneLeftOpen, OwnVoice, PTL DEF OwnsItsResources

-----------------------------------------------------------------------------
(* What the window is going to know once it has read and polled all that   *)
(* is on its way.                                                          *)

Shows == {"ScreenShareStarted", "ScreenShareFrame"}

\* What a window that shows s will show after the lines q.
Showing(s, q) ==
  \E i \in 0..Len(q) :
    /\ IF i = 0 THEN s ELSE q[i] \in Shows
    /\ \A j \in 1..Len(q) : j > i => q[j] # "ScreenShareStopped"

LEMMA ShowingNothing ==
  ASSUME NEW s \in BOOLEAN
  PROVE  Showing(s, <<>>) <=> s
  <1>1. Len(<<>>) = 0
    OBVIOUS
  <1>2. \A i : i \in 0..0 <=> i = 0
    OBVIOUS
  <1>3. \A i : i \notin 1..0
    OBVIOUS
  <1> QED
    BY <1>1, <1>2, <1>3, Zenon DEF Showing

LEMMA ShowingAppend ==
  ASSUME NEW s \in BOOLEAN, NEW q \in Seq(Event), NEW x \in Event, Showing(s, Append(q, x))
  PROVE  x \in Shows \/ (x # "ScreenShareStopped" /\ Showing(s, q))
  <1> DEFINE r == Append(q, x)
  <1>1. /\ Len(q) \in Nat /\ Len(r) = Len(q) + 1 /\ r[Len(q) + 1] = x
        /\ \A i \in 1..Len(q) : r[i] = q[i]
    OBVIOUS
  <1>2. Showing(s, r)
    OBVIOUS
  <1> HIDE DEF r
  <1>3. PICK i \in 0..Len(r) :
          /\ IF i = 0 THEN s ELSE r[i] \in Shows
          /\ \A j \in 1..Len(r) : j > i => r[j] # "ScreenShareStopped"
    BY <1>2 DEF Showing
  <1>4. CASE i = Len(q) + 1
    BY <1>1, <1>3, <1>4
  <1>5. CASE i # Len(q) + 1
    <2>1. i \in 0..Len(q)
      BY <1>1, <1>5
    <2>2. Len(q) + 1 \in 1..Len(r) /\ Len(q) + 1 > i
      BY <1>1, <2>1
    <2>3. x # "ScreenShareStopped"
      BY <1>1, <1>3, <2>2
    <2>4. IF i = 0 THEN s ELSE q[i] \in Shows
      BY <1>1, <1>3, <2>1
    <2>5. \A j \in 1..Len(q) : j > i => q[j] # "ScreenShareStopped"
      BY <1>1, <1>3
    <2> QED
      BY <2>1, <2>3, <2>4, <2>5 DEF Showing
  <1> QED
    BY <1>4, <1>5

\* A line that is polled has had its effect.
LEMMA ShowingTail ==
  ASSUME NEW s \in BOOLEAN, NEW t \in BOOLEAN, NEW q \in Seq(Event), q # <<>>,
         t => Head(q) \in Shows \/ (s /\ Head(q) # "ScreenShareStopped"),
         Showing(t, Tail(q))
  PROVE  Showing(s, q)
  <1> DEFINE r == Tail(q)
  <1>1. /\ Len(q) \in Nat /\ Len(q) > 0 /\ Len(r) = Len(q) - 1 /\ q[1] = Head(q)
        /\ \A i \in 1..Len(r) : r[i] = q[i + 1]
    OBVIOUS
  <1>2. Showing(t, r)
    OBVIOUS
  <1> HIDE DEF r
  <1>3. PICK i \in 0..Len(r) :
          /\ IF i = 0 THEN t ELSE r[i] \in Shows
          /\ \A j \in 1..Len(r) : j > i => r[j] # "ScreenShareStopped"
    BY <1>2 DEF Showing
  <1>4. \A j \in 1..Len(q) : j > i + 1 => q[j] # "ScreenShareStopped"
    <2> SUFFICES ASSUME NEW j \in 1..Len(q), j > i + 1 PROVE q[j] # "ScreenShareStopped"
      OBVIOUS
    <2>1. j - 1 \in 1..Len(r) /\ j - 1 > i /\ r[j - 1] = q[j]
      BY <1>1, <1>3
    <2> QED
      BY <1>3, <2>1
  <1>5. CASE i = 0 /\ Head(q) \notin Shows
    <2>1. s /\ q[1] # "ScreenShareStopped"
      BY <1>1, <1>3, <1>5
    <2>2. \A j \in 1..Len(q) : j > 0 => q[j] # "ScreenShareStopped"
      BY <1>4, <1>5, <2>1
    <2>3. 0 \in 0..Len(q)
      BY <1>1
    <2> QED
      BY <2>1, <2>2, <2>3 DEF Showing
  <1>6. CASE i # 0 \/ Head(q) \in Shows
    <2>1. i + 1 \in 0..Len(q) /\ i + 1 # 0 /\ q[i + 1] \in Shows
      BY <1>1, <1>3, <1>6
    <2> QED
      BY <1>4, <2>1 DEF Showing
  <1> QED
    BY <1>5, <1>6

\* Lines of a share that the window was never told of.
LEMMA ShowingNone ==
  ASSUME NEW q \in Seq(Event), \A i \in 1..Len(q) : q[i] \notin Shows
  PROVE  ~Showing(FALSE, q)
  BY DEF Showing

LEMMA LinesJoin ==
  ASSUME NEW e \in Seq(Event), NEW w \in Seq(Line)
  PROVE  /\ e \o w \in Seq(Event)
         /\ \A x \in Line : e \o Append(w, x) = Append(e \o w, x)
         /\ w # <<>> => Append(e, Head(w)) \o Tail(w) = e \o w
         /\ e # <<>> => Tail(e) \o w = Tail(e \o w) /\ Head(e \o w) = Head(e) /\ e \o w # <<>>
  <1>1. Line \subseteq Event
    BY DEF Event
  <1>2. w \in Seq(Event)
    BY <1>1
  <1>3. e \o w \in Seq(Event)
    BY <1>2
  <1>4. \A x \in Line : e \o Append(w, x) = Append(e \o w, x)
    BY <1>2
  <1>5. w # <<>> => Append(e, Head(w)) \o Tail(w) = e \o w
    BY <1>2
  <1>6. e # <<>> => Tail(e) \o w = Tail(e \o w) /\ Head(e \o w) = Head(e) /\ e \o w # <<>>
    BY <1>2
  <1> QED
    BY <1>3, <1>4, <1>5, <1>6

\* What the current handle has to tell, polled or not.
OnTheWay == events \o wire[network]

\* A handle's connection is made before the server has it, and the server writes
\* nothing before its answer.
AnswersFirst ==
  \A h \in Handle :
    /\ net[h] \in {"unused", "connecting"} => server[h] = "none"
    /\ server[h] \in {"none", "waiting"} => wire[h] = <<>>
    /\ torn[h] => h \in lost

\* The window learns nothing of a connection that was not answered.
NothingYet ==
  network # None /\ server[network] \in {"none", "waiting"} =>
    ~shown /\ \A i \in 1..Len(events) : events[i] \notin Shows

WillKnow ==
  /\ userId = network \/ \E i \in 1..Len(OnTheWay) : OnTheWay[i] = "Welcome"
  /\ Showing(shown, OnTheWay) => remote

\* Of a connection that is served and lost no line, the Welcome was polled or is on
\* its way, and so is the last that was told of the share.
WillSettle ==
  network # None /\ network \notin lost /\ net[network] = "open"
    /\ server[network] = "serving" => WillKnow

Tidings == AnswersFirst /\ NothingYet /\ WillSettle

LEMMA InitTidings == Init => Tidings
  BY DEF Init, Tidings, AnswersFirst, NothingYet, WillSettle

LEMMA NextAnswers ==
  ASSUME IInv, AnswersFirst, [Next]_vars
  PROVE  AnswersFirst'
  <1> SUFFICES ASSUME NEW h \in Handle
               PROVE  /\ net'[h] \in {"unused", "connecting"} => server'[h] = "none"
                      /\ server'[h] \in {"none", "waiting"} => wire'[h] = <<>>
                      /\ torn'[h] => h \in lost'
    BY DEF AnswersFirst
  <1>1. /\ net[h] \in {"unused", "connecting"} => server[h] = "none"
        /\ server[h] \in {"none", "waiting"} => wire[h] = <<>>
        /\ torn[h] => h \in lost
    BY DEF AnswersFirst
  <1>2. TypeOK
    BY DEF IInv
  <1>3. ASSUME UNCHANGED <<server, wire, torn, lost>>,
               net'[h] \in {"unused", "connecting"} => net[h] \in {"unused", "connecting"}
        PROVE  /\ net'[h] \in {"unused", "connecting"} => server'[h] = "none"
               /\ server'[h] \in {"none", "waiting"} => wire'[h] = <<>>
               /\ torn'[h] => h \in lost'
    BY <1>1, <1>3
  <1>4. CASE Click \/ Poll \/ UNCHANGED vars
    <2>1. UNCHANGED <<server, wire, torn, lost>>
      BY <1>4 DEF Click, Connect, Disconnect, JoinVoice, LeaveVoice, Poll, PollConnected,
                  PollWelcome, PollShare, PollError, PollDisconnected, threads, remotes, history, vars
    <2>2. net' = net \/ \E g \in Handle : net[g] = "unused" /\ net' = [net EXCEPT ![g] = "connecting"]
      BY <1>4 DEF Click, Connect, Disconnect, JoinVoice, LeaveVoice, Poll, PollConnected,
                  PollWelcome, PollShare, PollError, PollDisconnected, threads, vars
    <2>3. net'[h] \in {"unused", "connecting"} => net[h] \in {"unused", "connecting"}
      BY <1>2, <2>2 DEF TypeOK
    <2> QED
      BY <1>3, <2>1, <2>3
  <1>5. ASSUME NEW g \in Handle, Answer(g) \/ ServerEnds(g)
        PROVE  /\ net'[h] \in {"unused", "connecting"} => server'[h] = "none"
               /\ server'[h] \in {"none", "waiting"} => wire'[h] = <<>>
               /\ torn'[h] => h \in lost'
    <2>1. server[g] \notin {"none"} /\ net' = net /\ torn' = torn /\ lost' = lost
      BY <1>5 DEF Answer, ServerEnds, threads, history
    <2>2. CASE g # h
      BY <1>1, <1>2, <1>5, <2>1, <2>2 DEF Answer, ServerEnds, threads, TypeOK
    <2>3. CASE g = h
      <3>1. server'[h] \in {"serving", "ended"}
        BY <1>2, <1>5, <2>3 DEF Answer, ServerEnds, TypeOK
      <3> QED
        BY <1>1, <2>1, <2>3, <3>1
    <2> QED
      BY <2>2, <2>3
  <1>6. ASSUME NEW line \in Line, RemoteShares(line)
        PROVE  /\ net'[h] \in {"unused", "connecting"} => server'[h] = "none"
               /\ server'[h] \in {"none", "waiting"} => wire'[h] = <<>>
               /\ torn'[h] => h \in lost'
    BY <1>1, <1>6 DEF RemoteShares, history
  <1>7. ASSUME NEW g \in Handle, Thread(g)
        PROVE  /\ net'[h] \in {"unused", "connecting"} => server'[h] = "none"
               /\ server'[h] \in {"none", "waiting"} => wire'[h] = <<>>
               /\ torn'[h] => h \in lost'
    <2>1. CASE g # h
      <3>1. net'[h] = net[h] /\ server'[h] = server[h] /\ wire'[h] = wire[h] /\ torn'[h] = torn[h]
        BY <1>2, <1>7, <2>1 DEF TypeOK, Thread, Open, OpenFails, Write, WriteFails, Read,
             TimeoutInLine, EndOfStream, Close, Handled, remotes
      <3>2. lost \subseteq lost'
        BY <1>7 DEF Thread, Open, OpenFails, Write, WriteFails, Read, TimeoutInLine,
                    EndOfStream, history
      <3> QED
        BY <1>1, <3>1, <3>2
    <2>2. CASE g = h
      <3>1. CASE Open(h)
        BY <1>1, <1>2, <3>1 DEF TypeOK, Open, history
      <3>2. CASE OpenFails(h) \/ WriteFails(h) \/ EndOfStream(h)
        BY <1>1, <1>2, <3>2 DEF TypeOK, OpenFails, WriteFails, EndOfStream, Close, remotes,
                                history
      <3>3. CASE Write(h)
        BY <1>1, <1>2, <3>3 DEF TypeOK, Write, Close, Handled, history
      <3>4. CASE Read(h) \/ TimeoutInLine(h)
        BY <1>1, <1>2, <3>4 DEF TypeOK, Read, TimeoutInLine, remotes, history
      <3> QED
        BY <1>7, <2>2, <3>1, <3>2, <3>3, <3>4 DEF Thread
    <2> QED
      BY <2>1, <2>2
  <1> QED
    BY <1>4, <1>5, <1>6, <1>7 DEF Next, Server

LEMMA NextNothing ==
  ASSUME IInv, AnswersFirst, NothingYet, [Next]_vars
  PROVE  NothingYet'
  <1> SUFFICES ASSUME network' # None, server'[network'] \in {"none", "waiting"}
               PROVE  ~shown' /\ \A i \in 1..Len(events') : events'[i] \notin Shows
    BY DEF NothingYet
  <1>1. TypeOK /\ OfflineIsQuiet /\ EventsOK
    BY DEF IInv
  <1>2. CASE UNCHANGED <<network, events, server, shown>>
    BY <1>2 DEF NothingYet
  <1>3. ASSUME NEW h \in Handle, Connect(h)
        PROVE  ~shown' /\ \A i \in 1..Len(events') : events'[i] \notin Shows
    <2>1. shown' = shown /\ ~connected /\ events' = <<>>
      BY <1>3 DEF Connect
    <2> QED
      BY <1>1, <2>1 DEF OfflineIsQuiet
  <1>4. CASE Disconnect
    BY <1>4, Zenon DEF Disconnect
  <1>5. CASE JoinVoice \/ LeaveVoice \/ UNCHANGED vars
    BY <1>2, <1>5 DEF JoinVoice, LeaveVoice, vars
  <1>6. CASE Poll
    <2>1. events # <<>> /\ events' = Tail(events) /\ network' = network /\ server' = server
      BY <1>6 DEF Poll, PollConnected, PollWelcome, PollShare, PollError, PollDisconnected,
                  Take,
                  window, remotes
    <2>2. ~shown /\ \A i \in 1..Len(events) : events[i] \notin Shows
      BY <2>1 DEF NothingYet
    <2>3. events \in Seq(Event)
      BY <1>1 DEF TypeOK
    <2>4. \A i \in 1..Len(events') : events'[i] \notin Shows
      BY <2>1, <2>2, <2>3
    <2>5. Head(events) \notin Shows
      BY <2>1, <2>2, <2>3
    <2>6. ~shown'
      <3>1. CASE PollConnected \/ PollWelcome \/ PollError
        BY <2>2, <3>1 DEF PollConnected, PollWelcome, PollError, window
      <3>2. CASE PollShare \/ PollDisconnected
        BY <2>5, <3>2 DEF PollShare, PollDisconnected, Take, Shows
      <3> QED
        BY <1>6, <3>1, <3>2 DEF Poll
    <2> QED
      BY <2>4, <2>6
  <1>7. CASE Server
    <2>1. UNCHANGED <<network, events, shown>>
      BY <1>7 DEF Server, Answer, ServerEnds, RemoteShares, window
    <2>2. server[network] \in {"none", "waiting"}
      BY <1>1, <1>7, <2>1 DEF TypeOK, Server, Answer, ServerEnds, RemoteShares
    <2> QED
      BY <2>1, <2>2 DEF NothingYet
  <1>8. ASSUME NEW h \in Handle, Thread(h)
        PROVE  ~shown' /\ \A i \in 1..Len(events') : events'[i] \notin Shows
    <2>1. UNCHANGED <<network, shown>>
      BY <1>8 DEF Thread, Open, OpenFails, Write, WriteFails, Read, TimeoutInLine, EndOfStream,
                  window
    <2>2. network \in Handle /\ events \in Seq(Event)
      BY <1>1, <2>1 DEF TypeOK
    <2>3. server[network] \in {"none", "waiting"}
      <3>1. CASE Open(h)
        <4>1. net[h] = "connecting" /\ server' = [server EXCEPT ![h] = "waiting"]
          BY <3>1 DEF Open
        <4>2. server[h] = "none"
          BY <4>1 DEF AnswersFirst
        <4> QED
          BY <1>1, <2>1, <2>2, <4>1, <4>2 DEF TypeOK
      <3>2. CASE ~Open(h)
        <4>1. \A g \in Handle : server'[g] = server[g] \/ server'[g] = "ended"
          BY <1>1, <1>8, <3>2 DEF TypeOK, Thread, OpenFails, Write, WriteFails, Read,
               TimeoutInLine, EndOfStream, Handled, remotes
        <4> QED
          BY <2>1, <2>2, <4>1
      <3> QED
        BY <3>1, <3>2
    <2>4. ~shown /\ \A i \in 1..Len(events) : events[i] \notin Shows
      BY <2>1, <2>3 DEF NothingYet
    <2>5. wire[network] = <<>>
      BY <2>2, <2>3 DEF AnswersFirst
    <2>6. \/ events' = events
          \/ \E e \in {"Connected", "Disconnected", "Error"} : events' = Append(events, e)
      BY <1>8, <2>5 DEF Thread, Open, OpenFails, Write, WriteFails, Read, TimeoutInLine,
                        EndOfStream, Tell
    <2>7. \A i \in 1..Len(events') : events'[i] \notin Shows
      BY <2>2, <2>4, <2>6 DEF Shows
    <2> QED
      BY <2>1, <2>4, <2>7
  <1> QED
    BY <1>3, <1>4, <1>5, <1>6, <1>7, <1>8 DEF Next, Click

LEMMA NextSettle ==
  ASSUME IInv, IInv', Tidings, [Next]_vars
  PROVE  WillSettle'
  <1> SUFFICES ASSUME network' # None, network' \notin lost', net'[network'] = "open",
                      server'[network'] = "serving"
               PROVE  WillKnow'
    BY DEF WillSettle
  <1>1. /\ TypeOK /\ EventsOK /\ WillSettle /\ AnswersFirst /\ NothingYet
        /\ network' \in Handle
    BY DEF IInv, Tidings, TypeOK
  <1>2. shown \in BOOLEAN /\ shown' \in BOOLEAN /\ remote \in BOOLEAN
    BY DEF IInv, TypeOK
  <1>3. lost \subseteq lost'
    BY DEF Next, Click, Connect, Disconnect, JoinVoice, LeaveVoice, Poll, PollConnected,
       PollWelcome,
           PollShare, PollError, PollDisconnected, Server, Answer, ServerEnds, RemoteShares, Thread,
           Open, OpenFails, Write, WriteFails, Read, TimeoutInLine, EndOfStream, history, vars
  <1>4. ASSUME UNCHANGED <<network, userId, shown, remote>>, net[network] = "open",
               server[network] = "serving", OnTheWay' = OnTheWay
        PROVE  WillKnow'
    <2>1. WillKnow
      BY <1>1, <1>3, <1>4 DEF WillSettle
    <2> QED
      BY <1>4, <2>1 DEF WillKnow
  <1>5. ASSUME NEW h \in Handle, Connect(h)
        PROVE  WillKnow'
    BY <1>1, <1>5 DEF Connect, TypeOK
  <1>6. CASE Disconnect
    BY <1>6, Zenon DEF Disconnect
  <1>7. CASE JoinVoice \/ LeaveVoice \/ UNCHANGED vars
    BY <1>4, <1>7 DEF JoinVoice, LeaveVoice, vars, OnTheWay
  <1>8. CASE Poll
    <2>1. /\ events # <<>> /\ events' = Tail(events) /\ network' = network
          /\ UNCHANGED <<server, remote, net, wire>>
      BY <1>8 DEF Poll, PollConnected, PollWelcome, PollShare, PollError, PollDisconnected,
                  Take,
                  window, remotes, threads
    <2>2. events \in Seq(Event) /\ wire[network] \in Seq(Line) /\ WillKnow
      BY <1>1, <1>3, <2>1 DEF TypeOK, WillSettle
    <2>3. /\ OnTheWay \in Seq(Event) /\ OnTheWay # <<>> /\ Head(OnTheWay) = Head(events)
          /\ OnTheWay' = Tail(OnTheWay)
      BY <2>1, <2>2, LinesJoin DEF OnTheWay
    <2>4. shown' => Head(events) \in Shows \/ (shown /\ Head(events) # "ScreenShareStopped")
      <3>1. CASE PollShare
        BY <3>1, Zenon DEF PollShare, Take, Shows
      <3>2. CASE PollConnected \/ PollWelcome \/ PollError
        BY <3>2 DEF PollConnected, PollWelcome, PollError, Take, window
      <3>3. CASE PollDisconnected
        BY <3>3 DEF PollDisconnected
      <3> QED
        BY <1>8, <3>1, <3>2, <3>3 DEF Poll
    <2>5. Showing(shown', OnTheWay') => remote'
      BY <1>2, <2>1, <2>2, <2>3, <2>4, ShowingTail DEF WillKnow
    <2>6. userId' = network' \/ \E i \in 1..Len(OnTheWay') : OnTheWay'[i] = "Welcome"
      <3>1. CASE Head(events) = "Welcome"
        <4>1. userId' = network
          BY <1>8, <3>1 DEF Poll, PollConnected, PollWelcome, PollShare, PollError,
                            PollDisconnected, Take
        <4> QED
          BY <2>1, <4>1
      <3>2. CASE Head(events) # "Welcome"
        <4>1. userId' = userId
          BY <1>8, <3>2 DEF Poll, PollConnected, PollWelcome, PollShare, PollError,
                            PollDisconnected, Take, window
        <4>2. CASE userId = network
          BY <2>1, <4>1, <4>2
        <4>3. ASSUME NEW i \in 1..Len(OnTheWay), OnTheWay[i] = "Welcome"
              PROVE  \E k \in 1..Len(OnTheWay') : OnTheWay'[k] = "Welcome"
          <5>1. i # 1
            BY <2>3, <3>2, <4>3
          <5>2. i - 1 \in 1..Len(OnTheWay') /\ OnTheWay'[i - 1] = OnTheWay[i]
            BY <2>3, <5>1
          <5> QED
            BY <4>3, <5>2
        <4> QED
          BY <2>2, <4>2, <4>3 DEF WillKnow
      <3> QED
        BY <3>1, <3>2
    <2> QED
      BY <2>5, <2>6 DEF WillKnow
  <1>9. ASSUME NEW h \in Handle, Answer(h)
        PROVE  WillKnow'
    <2>1. UNCHANGED <<network, userId, shown, remote, events, net>>
      BY <1>9 DEF Answer, window
    <2>2. CASE h # network
      <3>1. server[network] = "serving" /\ wire'[network] = wire[network]
        BY <1>1, <1>9, <2>1, <2>2 DEF Answer, TypeOK
      <3> QED
        BY <1>4, <2>1, <3>1 DEF OnTheWay
    <2>3. CASE h = network
      <3>1. server[h] = "waiting" /\ wire[h] = <<>> /\ wire'[h] = Append(wire[h], "Welcome")
        BY <1>1, <1>9, <2>1, <2>3 DEF Answer, TypeOK, AnswersFirst
      <3>2. /\ events \in Seq(Event) /\ "Welcome" \in Event /\ "Welcome" \notin Shows
            /\ wire'[h] = <<"Welcome">>
        BY <1>1, <3>1 DEF TypeOK, Event, Line, Shows
      <3>3. OnTheWay' = Append(events, "Welcome")
        BY <2>1, <2>3, <3>2 DEF OnTheWay
      <3>4. /\ Len(events) + 1 \in 1..Len(OnTheWay')
            /\ OnTheWay'[Len(events) + 1] = "Welcome"
        BY <3>2, <3>3
      <3>5. ~shown /\ \A i \in 1..Len(events) : events[i] \notin Shows
        BY <1>1, <2>1, <2>3, <3>1 DEF NothingYet
      <3>6. shown = FALSE /\ ~Showing(FALSE, events)
        BY <1>2, <3>2, <3>5, ShowingNone
      <3>7. ~Showing(shown', OnTheWay')
        BY <2>1, <3>2, <3>3, <3>6, ShowingAppend
      <3> QED
        BY <3>4, <3>7 DEF WillKnow
    <2> QED
      BY <2>2, <2>3
  <1>10. ASSUME NEW h \in Handle, ServerEnds(h)
         PROVE  WillKnow'
    <2>1. UNCHANGED <<network, userId, shown, remote, events, net, wire>>
      BY <1>10 DEF ServerEnds, window, threads
    <2>2. server[network] = "serving"
      BY <1>1, <1>10, <2>1 DEF ServerEnds, TypeOK
    <2> QED
      BY <1>4, <2>1, <2>2 DEF OnTheWay
  <1>11. ASSUME NEW line \in Line \ {"Welcome", "Error"}, RemoteShares(line)
         PROVE  WillKnow'
    <2>1. /\ UNCHANGED <<network, userId, shown, events, net, server>>
          /\ remote' = (line # "ScreenShareStopped")
      BY <1>11 DEF RemoteShares, window
    <2>2. wire'[network] = Append(wire[network], line)
      BY <1>1, <1>11, <2>1 DEF RemoteShares
    <2>3. /\ events \in Seq(Event) /\ wire[network] \in Seq(Line) /\ WillKnow
          /\ line \in Event /\ (line \in Shows => remote')
          /\ (line # "ScreenShareStopped" => line \in Shows)
      BY <1>1, <1>3, <2>1 DEF TypeOK, WillSettle, Event, Line, Shows
    <2>4. OnTheWay \in Seq(Event) /\ OnTheWay' = Append(OnTheWay, line)
      <3>1. /\ events \o wire[network] \in Seq(Event)
            /\ events \o Append(wire[network], line) = Append(events \o wire[network], line)
        BY <2>3, LinesJoin
      <3>2. OnTheWay' = events \o Append(wire[network], line)
        BY <2>1, <2>2 DEF OnTheWay
      <3> QED
        BY <3>1, <3>2 DEF OnTheWay
    <2>5. Showing(shown', OnTheWay') => remote'
      BY <1>2, <2>1, <2>3, <2>4, ShowingAppend
    <2>6. \A i \in 1..Len(OnTheWay) : i \in 1..Len(OnTheWay') /\ OnTheWay'[i] = OnTheWay[i]
      BY <2>4
    <2> QED
      BY <2>1, <2>3, <2>5, <2>6 DEF WillKnow
  <1>12. ASSUME NEW h \in Handle, Thread(h)
         PROVE  WillKnow'
    <2>1. UNCHANGED <<network, userId, shown, remote>>
      BY <1>12 DEF Thread, Open, OpenFails, Write, WriteFails, Read, TimeoutInLine, EndOfStream,
                   window, remotes
    <2>2. CASE h # network
      <3>1. /\ events' = events /\ wire'[network] = wire[network] /\ net'[network] = net[network]
            /\ server'[network] = server[network]
        BY <1>1, <1>12, <2>1, <2>2 DEF Thread, Open, OpenFails, Write, WriteFails, Read,
             TimeoutInLine, EndOfStream, Tell, Close, Handled, remotes, TypeOK
      <3> QED
        BY <1>4, <2>1, <3>1 DEF OnTheWay
    <2>3. CASE h = network
      <3>1. CASE Open(h)
        BY <1>1, <2>1, <2>3, <3>1 DEF Open, TypeOK
      <3>2. CASE OpenFails(h) \/ WriteFails(h) \/ EndOfStream(h)
        BY <1>1, <2>1, <2>3, <3>2 DEF OpenFails, WriteFails, EndOfStream, Close, TypeOK
      <3>3. CASE TimeoutInLine(h)
        BY <2>1, <2>3, <3>3 DEF TimeoutInLine
      <3>4. CASE Write(h)
        <4>1. net[h] = "open" /\ ~Close(h)
          BY <1>1, <2>1, <2>3, <3>4 DEF Write, Close, TypeOK
        <4>2. /\ events' = events /\ wire' = wire
              /\ server[h] = "serving"
          BY <1>1, <2>1, <2>3, <3>4, <4>1 DEF Write, Handled, TypeOK
        <4> QED
          BY <1>4, <2>1, <2>3, <4>1, <4>2 DEF OnTheWay
      <3>5. CASE Read(h)
        <4>1. /\ net[h] = "open" /\ server' = server /\ ~torn[h] /\ wire[h] # <<>>
              /\ wire' = [wire EXCEPT ![h] = Tail(@)]
          BY <1>1, <1>3, <2>1, <2>3, <3>5 DEF Read, remotes, AnswersFirst
        <4>2. events' = Append(events, Head(wire[h]))
          BY <2>3, <3>5, <4>1 DEF Read, Tell
        <4>3. events \in Seq(Event) /\ wire[h] \in Seq(Line) /\ wire'[h] = Tail(wire[h])
          BY <1>1, <2>1, <2>3, <4>1 DEF TypeOK
        <4>4. OnTheWay' = OnTheWay
          <5>1. Append(events, Head(wire[h])) \o Tail(wire[h]) = events \o wire[h]
            BY <4>1, <4>3, LinesJoin
          <5>2. OnTheWay' = Append(events, Head(wire[h])) \o Tail(wire[h])
            BY <2>1, <2>3, <4>2, <4>3 DEF OnTheWay
          <5> QED
            BY <2>3, <5>1, <5>2 DEF OnTheWay
        <4> QED
          BY <1>4, <2>1, <2>3, <4>1, <4>4
      <3> QED
        BY <1>12, <3>1, <3>2, <3>3, <3>4, <3>5 DEF Thread
    <2> QED
      BY <2>2, <2>3
  <1> QED
    BY <1>5, <1>6, <1>7, <1>8, <1>9, <1>10, <1>11, <1>12 DEF Next, Click, Server

\* The window of a connection that lost no line has its own user id, and shows no
\* share that is over, once everything sent to it was read and polled: whatever
\* connections it had before, and in whatever order they ended.
THEOREM Settles == Spec => []SettledWindow
  <1>1. Tidings /\ IInv => SettledWindow
    <2> SUFFICES ASSUME Tidings, IInv, connected, events = <<>>, network \notin lost,
                        net[network] = "open", server[network] = "serving", wire[network] = <<>>
                 PROVE  userId = network /\ (shown => remote)
      BY DEF SettledWindow
    <2>1. network # None /\ shown \in BOOLEAN
      BY DEF IInv, TypeOK
    <2>2. WillKnow
      BY <2>1 DEF Tidings, WillSettle
    <2>3. OnTheWay = <<>>
      BY DEF OnTheWay
    <2>4. userId = network
      BY <2>2, <2>3 DEF WillKnow
    <2>5. shown => remote
      BY <2>1, <2>2, <2>3, ShowingNothing DEF WillKnow
    <2> QED
      BY <2>4, <2>5
  <1>2. Tidings /\ IInv /\ IInv' /\ [Next]_vars => Tidings'
    <2> SUFFICES ASSUME Tidings, IInv, IInv', [Next]_vars
                 PROVE  Tidings'
      OBVIOUS
    <2>1. AnswersFirst /\ NothingYet
      BY DEF Tidings
    <2> QED
      BY <2>1, NextAnswers, NextNothing, NextSettle DEF Tidings
  <1>3. QED
    BY <1>1, <1>2, Invariance, InitTidings, PTL DEF Spec

-----------------------------------------------------------------------------
(* The client's own screen shares, ScreenShareSession, over variables of   *)
(* their own: any number of shares of one connection.                      *)

CONSTANT Worker
VARIABLES
  isConnected, share, event, link, queue, job, running, reported, serving, sharing,
  overlapped, refused

Share == INSTANCE ScreenShareSession
         WITH connected <- isConnected, net <- link, commands <- queue

Stages == {"unused", "starting", "capturing", "sending", "stopping", "ended"}

LEMMA ShareInitType ==
  ASSUME None \notin Worker
  PROVE  Share!Init => Share!TypeOK
  BY DEF Share!Init, Share!TypeOK, Share!Alive

\* The queue of the network thread.
LEMMA QueueType ==
  ASSUME NEW q \in Seq(Share!ShareFrame \cup {Share!Goodbye})
  PROVE  /\ \A c \in Share!ShareFrame \cup {Share!Goodbye} :
              Append(q, c) \in Seq(Share!ShareFrame \cup {Share!Goodbye})
         /\ q # <<>> => /\ Head(q) \in Share!ShareFrame \cup {Share!Goodbye}
                        /\ Tail(q) \in Seq(Share!ShareFrame \cup {Share!Goodbye})
  OBVIOUS

LEMMA FrameParts ==
  /\ \A kind \in {"StartScreenShare", "ScreenShareFrame", "StopScreenShare"}, w \in Worker :
       /\ Share!Frame(kind, w) \in Share!ShareFrame /\ Share!Frame(kind, w) # Share!Goodbye
       /\ Share!Frame(kind, w).kind = kind /\ Share!Frame(kind, w).worker = w
  /\ Share!Goodbye.kind = "Disconnect" /\ Share!Goodbye \notin Share!ShareFrame
  /\ \A c \in Share!ShareFrame : /\ c.worker \in Worker /\ c = Share!Frame(c.kind, c.worker)
                           /\ c.kind \in {"StartScreenShare", "ScreenShareFrame", "StopScreenShare"}
  BY DEF Share!Frame, Share!ShareFrame, Share!Goodbye

LEMMA ShareStepType ==
  ASSUME None \notin Worker, Share!TypeOK, [Share!Next]_(Share!vars)
  PROVE  Share!TypeOK'
  <1>1. queue' \in Seq(Share!ShareFrame \cup {Share!Goodbye})
    <2>1. \/ queue' = queue
          \/ queue' = <<>>
          \/ queue # <<>> /\ queue' = Tail(queue)
          \/ \E c \in Share!ShareFrame \cup {Share!Goodbye} : queue' = Append(queue, c)
      <3>1. CASE \E w \in Worker : Share!Announce(w) \/ Share!SendFrame(w) \/ Share!Finish(w)
        BY <3>1, FrameParts DEF Share!Announce, Share!SendFrame, Share!Finish, Share!Sent,
                                Share!Failed
      <3>2. CASE \E w \in Worker : Share!Capture(w) \/ Share!StartScreenShare(w)
        BY <3>2 DEF Share!Capture, Share!StartScreenShare
      <3>3. CASE Share!StopScreenShare \/ Share!Disconnect \/ Share!Poll
        BY <3>3 DEF Share!StopScreenShare, Share!Disconnect, Share!Poll,
                    Share!PollDisconnected, Share!PollError, Share!PollWorker, Share!Sent,
                    Share!Failed
      <3>4. CASE \/ Share!Write \/ Share!WriteFails \/ Share!EndOfStream \/ Share!ServerEnds
                 \/ UNCHANGED Share!vars
        BY <3>4 DEF Share!Write, Share!WriteFails, Share!EndOfStream, Share!ServerEnds,
                    Share!vars, Share!Close
      <3> QED
        BY <3>1, <3>2, <3>3, <3>4 DEF Share!Next, Share!Click, Share!Step
    <2>2. {queue, <<>>} \subseteq Seq(Share!ShareFrame \cup {Share!Goodbye})
      BY DEF Share!TypeOK
    <2> QED
      BY <2>1, <2>2, QueueType
  <1>2. isConnected' \in BOOLEAN
    BY DEF Share!TypeOK, Share!Next, Share!Click, Share!Poll, Share!Step,
       Share!StartScreenShare, Share!StopScreenShare, Share!Disconnect, Share!PollDisconnected,
       Share!PollError, Share!PollWorker, Share!Write, Share!WriteFails, Share!EndOfStream,
       Share!ServerEnds, Share!Announce, Share!Capture, Share!SendFrame,
       Share!Finish, Share!vars, Share!window, Share!Close
  <1>3. serving' \in BOOLEAN
    BY DEF Share!TypeOK, Share!Next, Share!Click, Share!Poll, Share!Step,
       Share!StartScreenShare, Share!StopScreenShare, Share!Disconnect, Share!PollDisconnected,
       Share!PollError, Share!PollWorker, Share!Write, Share!WriteFails, Share!EndOfStream,
       Share!ServerEnds, Share!Announce, Share!Capture, Share!SendFrame,
       Share!Finish, Share!vars, Share!remote, Share!Close, Share!Handled
  <1>4. /\ share' \in Worker \cup {None} /\ event' \in {"Disconnected", "Error", None}
        /\ link' \in {"open", "closed"}
    BY DEF Share!TypeOK, Share!Next, Share!Click, Share!Poll, Share!Step,
       Share!StartScreenShare, Share!StopScreenShare, Share!Disconnect, Share!PollDisconnected,
       Share!PollError, Share!PollWorker, Share!Write, Share!WriteFails, Share!EndOfStream,
       Share!ServerEnds, Share!Announce, Share!Capture, Share!SendFrame,
       Share!Finish, Share!vars, Share!window, Share!Close, Share!StopSession
  <1>5. sharing' \in Worker \cup {None} /\ refused' \subseteq Worker
    <2>1. CASE Share!Write
      <3>1. Head(queue) \in Share!ShareFrame \cup {Share!Goodbye}
        BY <2>1, QueueType DEF Share!TypeOK, Share!Write
      <3> QED
        BY <2>1, <3>1, FrameParts DEF Share!TypeOK, Share!Write, Share!Handled, Share!remote
    <2>2. CASE ~Share!Write
      BY <2>2 DEF Share!TypeOK, Share!Next, Share!Click, Share!Poll, Share!Step,
                  Share!StartScreenShare, Share!StopScreenShare, Share!Disconnect,
                  Share!PollDisconnected,
       Share!PollError, Share!PollWorker, Share!WriteFails, Share!EndOfStream,
       Share!ServerEnds, Share!Announce, Share!Capture, Share!SendFrame,
       Share!Finish, Share!vars, Share!remote, Share!history, Share!Close
    <2> QED
      BY <2>1, <2>2
  <1>6. overlapped' \subseteq Worker
    BY DEF Share!TypeOK, Share!Next, Share!Click, Share!Poll, Share!Step,
       Share!StartScreenShare, Share!StopScreenShare, Share!Disconnect, Share!PollDisconnected,
       Share!PollError, Share!PollWorker, Share!Write, Share!WriteFails, Share!EndOfStream,
       Share!ServerEnds, Share!Announce, Share!Capture, Share!SendFrame,
       Share!Finish, Share!vars, Share!history, Share!Close
  <1>7. /\ job' \in [Worker -> Stages]
        /\ running' \in [Worker -> BOOLEAN] /\ reported' \in [Worker -> BOOLEAN]
        /\ \A w \in Worker : running'[w] => job'[w] \notin {"unused", "ended"}
    <2>1. ASSUME NEW w \in Worker, Share!Step(w)
          PROVE  /\ job' \in [Worker -> Stages]
                 /\ running' \in [Worker -> BOOLEAN] /\ reported' \in [Worker -> BOOLEAN]
                 /\ \A v \in Worker : running'[v] => job'[v] \notin {"unused", "ended"}
      BY <2>1 DEF Stages, Share!TypeOK, Share!Alive, Share!Step, Share!Announce, Share!Capture,
                  Share!SendFrame, Share!Finish, Share!Goto, Share!Report
    <2>2. ASSUME NEW w \in Worker, Share!StartScreenShare(w)
          PROVE  /\ job' \in [Worker -> Stages]
                 /\ running' \in [Worker -> BOOLEAN] /\ reported' \in [Worker -> BOOLEAN]
                 /\ \A v \in Worker : running'[v] => job'[v] \notin {"unused", "ended"}
      BY <2>2 DEF Stages, Share!TypeOK, Share!Alive, Share!StartScreenShare
    <2>3. CASE Share!StopScreenShare \/ Share!Disconnect \/ Share!Poll
      BY <2>3 DEF Stages, Share!TypeOK, Share!Alive, Share!StopScreenShare, Share!Disconnect,
                  Share!Poll, Share!PollDisconnected, Share!PollError, Share!PollWorker,
                  Share!StopSession, Share!workers
    <2>4. CASE \/ Share!Write \/ Share!WriteFails \/ Share!EndOfStream \/ Share!ServerEnds
               \/ UNCHANGED Share!vars
      BY <2>4 DEF Stages, Share!TypeOK, Share!Alive, Share!Write, Share!WriteFails,
                  Share!EndOfStream,
                  Share!ServerEnds, Share!vars, Share!workers
    <2> QED
      BY <2>1, <2>2, <2>3, <2>4 DEF Share!Next, Share!Click
  <1> QED
    BY <1>1, <1>2, <1>3, <1>4, <1>5, <1>6, <1>7 DEF Share!TypeOK, Share!Alive, Stages

\* While a worker lives that was alone all its life, no other does.
Apart ==
  \A v, w \in Worker : v # w /\ Share!Alive(v) /\ Share!Alive(w) => {v, w} \subseteq overlapped

\* After the first n of the commands q the server's entry is that of w, if it is of s now.
Holds(q, s, w, n) ==
  \E k \in 0..n :
    /\ IF k = 0 THEN s = w ELSE q[k] = Share!Frame("StartScreenShare", w)
    /\ \A j \in 1..n : j > k => q[j].kind \notin {"StartScreenShare", "StopScreenShare"}

HasEntry(w) ==
  /\ job[w] \in {"capturing", "sending", "stopping"} => Holds(queue, sharing, w, Len(queue))
  /\ \A i \in 1..Len(queue) :
       queue[i] = Share!Frame("ScreenShareFrame", w) => Holds(queue, sharing, w, i)

\* A worker that was alone all its life has the entry when its frames are handled.
Served == link = "open" /\ serving => \A w \in Worker \ overlapped : HasEntry(w)

ShareInv == Share!TypeOK /\ Apart /\ Served /\ Share!FramesAreServed

\* A command that is added changes nothing for those before it.
LEMMA HoldsBefore ==
  ASSUME NEW q \in Seq(Share!ShareFrame \cup {Share!Goodbye}), NEW c, NEW s, NEW w,
         NEW n \in 0..Len(q)
  PROVE  Holds(q, s, w, n) => Holds(Append(q, c), s, w, n)
  <1> DEFINE r == Append(q, c)
  <1>1. \A i \in 1..n : r[i] = q[i]
    OBVIOUS
  <1> HIDE DEF r
  <1> SUFFICES Holds(q, s, w, n) => Holds(r, s, w, n)
    BY DEF r
  <1>2. 0..n \subseteq Nat /\ \A k \in 0..n : k # 0 => k \in 1..n
    OBVIOUS
  <1> QED
    BY <1>1, <1>2 DEF Holds

\* The entry stays through a frame or a Disconnect, and a StartScreenShare makes it.
LEMMA HoldsAfter ==
  ASSUME NEW q \in Seq(Share!ShareFrame \cup {Share!Goodbye}),
         NEW c \in Share!ShareFrame \cup {Share!Goodbye}, NEW s, NEW w \in Worker,
         \/ c = Share!Frame("StartScreenShare", w)
         \/ c.kind \notin {"StartScreenShare", "StopScreenShare"} /\ Holds(q, s, w, Len(q))
  PROVE  Holds(Append(q, c), s, w, Len(q) + 1)
  <1> DEFINE r == Append(q, c)
  <1>1. /\ Len(q) \in Nat /\ r[Len(q) + 1] = c /\ \A i \in 1..Len(q) : r[i] = q[i]
    OBVIOUS
  <1> HIDE DEF r
  <1> SUFFICES Holds(r, s, w, Len(q) + 1)
    BY DEF r
  <1>2. CASE c = Share!Frame("StartScreenShare", w)
    <2>1. Len(q) + 1 \in 0..Len(q) + 1 /\ Len(q) + 1 # 0
      BY <1>1
    <2> QED
      BY <1>1, <1>2, <2>1 DEF Holds
  <1>3. CASE c.kind \notin {"StartScreenShare", "StopScreenShare"} /\ Holds(q, s, w, Len(q))
    <2>1. PICK k \in 0..Len(q) :
            /\ IF k = 0 THEN s = w ELSE q[k] = Share!Frame("StartScreenShare", w)
            /\ \A j \in 1..Len(q) :
                 j > k => q[j].kind \notin {"StartScreenShare", "StopScreenShare"}
      BY <1>3 DEF Holds
    <2>2. k \in 0..Len(q) + 1 /\ (k # 0 => k \in 1..Len(q))
      BY <1>1
    <2>3. \A j \in 1..Len(q) + 1 : j > k => r[j].kind \notin {"StartScreenShare", "StopScreenShare"}
      BY <1>1, <1>3, <2>1
    <2> QED
      BY <1>1, <2>1, <2>2, <2>3 DEF Holds
  <1> QED
    BY <1>2, <1>3

\* The first command is handled, and what it says has become the entry.
LEMMA HoldsRest ==
  ASSUME NEW q \in Seq(Share!ShareFrame \cup {Share!Goodbye}), q # <<>>, NEW s, NEW t,
         NEW w \in Worker, NEW n \in 1..Len(q), Holds(q, s, w, n),
         Head(q).kind = "StartScreenShare" => t = Head(q).worker,
         Head(q).kind \notin {"StartScreenShare", "StopScreenShare"} => t = s
  PROVE  Holds(Tail(q), t, w, n - 1)
  <1> DEFINE r == Tail(q)
  <1>1. /\ Len(q) \in Nat /\ q[1] = Head(q) /\ Len(r) = Len(q) - 1
        /\ \A i \in 1..n - 1 : r[i] = q[i + 1]
    OBVIOUS
  <1> HIDE DEF r
  <1> SUFFICES Holds(r, t, w, n - 1)
    BY DEF r
  <1>2. PICK k \in 0..n :
          /\ IF k = 0 THEN s = w ELSE q[k] = Share!Frame("StartScreenShare", w)
          /\ \A j \in 1..n : j > k => q[j].kind \notin {"StartScreenShare", "StopScreenShare"}
    BY DEF Holds
  <1>3. \A i \in Nat : i + 1 >= k =>
          \A j \in 1..n - 1 : j > i => r[j].kind \notin {"StartScreenShare", "StopScreenShare"}
    <2> SUFFICES ASSUME NEW i \in Nat, NEW j \in 1..n - 1, i + 1 >= k, j > i
                 PROVE  r[j].kind \notin {"StartScreenShare", "StopScreenShare"}
      OBVIOUS
    <2>1. j + 1 \in 1..n /\ j + 1 > k
      OBVIOUS
    <2> QED
      BY <1>1, <1>2, <2>1
  <1>4. 0 \in 0..n - 1 /\ 1 \in 1..n
    OBVIOUS
  <1>5. CASE k = 0
    <2>1. Head(q).kind \notin {"StartScreenShare", "StopScreenShare"} /\ s = w
      BY <1>1, <1>2, <1>4, <1>5
    <2>2. t = w
      BY <2>1
    <2>3. \A j \in 1..n - 1 : j > 0 => r[j].kind \notin {"StartScreenShare", "StopScreenShare"}
      <3>1. 0 + 1 >= k
        BY <1>5
      <3> QED
        BY <1>3, <3>1
    <2> QED
      BY <1>4, <2>2, <2>3 DEF Holds
  <1>6. CASE k = 1
    <2>1. t = w
      BY <1>1, <1>2, <1>6, FrameParts
    <2>2. \A j \in 1..n - 1 : j > 0 => r[j].kind \notin {"StartScreenShare", "StopScreenShare"}
      <3>1. 0 + 1 >= k
        BY <1>6
      <3> QED
        BY <1>3, <3>1
    <2> QED
      BY <1>4, <2>1, <2>2 DEF Holds
  <1>7. CASE k > 1
    <2>1. k - 1 \in 0..n - 1 /\ k - 1 # 0 /\ k - 1 \in 1..n - 1 /\ k - 1 \in Nat
      BY <1>7
    <2>2. r[k - 1] = Share!Frame("StartScreenShare", w)
      BY <1>1, <1>2, <1>7, <2>1
    <2>3. \A j \in 1..n - 1 : j > k - 1 => r[j].kind \notin {"StartScreenShare", "StopScreenShare"}
      <3>1. (k - 1) + 1 >= k
        OBVIOUS
      <3> QED
        BY <1>3, <2>1, <3>1
    <2> QED
      BY <2>1, <2>2, <2>3 DEF Holds
  <1> QED
    BY <1>5, <1>6, <1>7

LEMMA InitServed == Share!Init => Apart /\ Served /\ Share!FramesAreServed
  BY DEF Share!Init, Apart, Served, HasEntry, Share!Alive, Share!FramesAreServed

LEMMA StepApart ==
  ASSUME None \notin Worker, ShareInv, [Share!Next]_(Share!vars)
  PROVE  Apart' /\ overlapped \subseteq overlapped'
  <1>1. Share!TypeOK /\ Apart
    BY DEF ShareInv
  <1>2. ASSUME \A w \in Worker : Share!Alive(w)' => Share!Alive(w), overlapped' = overlapped
        PROVE  Apart' /\ overlapped \subseteq overlapped'
    BY <1>1, <1>2 DEF Apart
  <1>3. ASSUME NEW w \in Worker, Share!StartScreenShare(w)
        PROVE  Apart' /\ overlapped \subseteq overlapped'
    <2> DEFINE others == {v \in Worker : Share!Alive(v)}
    <2>1. \A v \in Worker : Share!Alive(v)' => v = w \/ v \in others
      BY <1>1, <1>3 DEF Share!StartScreenShare, Share!Alive, Share!TypeOK
    <2>2. /\ overlapped \subseteq overlapped'
          /\ others # {} => others \cup {w} \subseteq overlapped'
      BY <1>3 DEF Share!StartScreenShare
    <2> HIDE DEF others
    <2>3. others # {} => Apart'
      BY <2>1, <2>2 DEF Apart
    <2>4. others = {} => Apart'
      BY <2>1 DEF Apart
    <2> QED
      BY <2>2, <2>3, <2>4
  <1>4. ASSUME NEW w \in Worker, Share!Step(w)
        PROVE  Apart' /\ overlapped \subseteq overlapped'
    <2>1. \A v \in Worker : Share!Alive(v)' => Share!Alive(v)
      BY <1>1, <1>4 DEF Share!Step, Share!Announce, Share!Capture, Share!SendFrame,
                        Share!Finish, Share!Goto, Share!Alive, Share!TypeOK
    <2>2. overlapped' = overlapped
      BY <1>4 DEF Share!Step, Share!Announce, Share!Capture, Share!SendFrame, Share!Finish,
                  Share!history
    <2> QED
      BY <1>2, <2>1, <2>2
  <1>5. CASE Share!StopScreenShare \/ Share!Disconnect \/ Share!Poll \/ UNCHANGED Share!vars
    BY <1>2, <1>5 DEF Share!StopScreenShare, Share!Disconnect, Share!Poll,
                      Share!PollDisconnected, Share!PollError, Share!PollWorker,
                      Share!workers, Share!history, Share!vars, Share!Alive
  <1>6. CASE Share!Write \/ Share!WriteFails \/ Share!EndOfStream \/ Share!ServerEnds
    BY <1>2, <1>6 DEF Share!Write, Share!WriteFails, Share!EndOfStream, Share!ServerEnds,
                      Share!workers, Share!history, Share!Alive
  <1> QED
    BY <1>3, <1>4, <1>5, <1>6 DEF Share!Next, Share!Click

\* Steps after which every worker has the entry that had it before.
LEMMA SameEntries ==
  ASSUME None \notin Worker, ShareInv, [Share!Next]_(Share!vars),
         UNCHANGED <<queue, sharing, refused>>,
         serving' => serving, link' = "open" => link = "open",
         \A w \in Worker : job'[w] \in {"capturing", "sending", "stopping"} =>
           job[w] \in {"capturing", "sending", "stopping"} \/ link' # "open"
  PROVE  Served' /\ Share!FramesAreServed'
  <1>1. Served /\ Share!FramesAreServed /\ overlapped \subseteq overlapped'
    BY StepApart DEF ShareInv
  <1> QED
    BY <1>1 DEF Served, HasEntry, Share!FramesAreServed

\* A worker that queues a command of its own.
LEMMA WorkerServed ==
  ASSUME None \notin Worker, ShareInv, [Share!Next]_(Share!vars), NEW w \in Worker,
         Share!Announce(w) \/ Share!SendFrame(w) \/ Share!Finish(w)
  PROVE  Served' /\ Share!FramesAreServed'
  <1>t. Share!TypeOK /\ Served /\ Share!FramesAreServed /\ Apart
    BY DEF ShareInv
  <1>1. /\ UNCHANGED <<link, serving, sharing, overlapped, refused>>
        /\ \A v \in Worker \ {w} : job'[v] = job[v]
    BY <1>t DEF Share!Announce, Share!SendFrame, Share!Finish, Share!Goto, Share!remote,
                Share!history, Share!TypeOK
  <1>2. CASE link # "open"
    BY <1>t, <1>1, <1>2 DEF Served, Share!FramesAreServed
  <1>3. CASE link = "open"
    <2>1. PICK kind \in {"StartScreenShare", "ScreenShareFrame", "StopScreenShare"} :
            /\ queue' = Append(queue, Share!Frame(kind, w))
            /\ kind = "ScreenShareFrame" => job[w] = "sending" /\ job'[w] = "capturing"
            /\ kind = "StopScreenShare" => job'[w] = "ended"
      BY <1>t, <1>3 DEF Share!Announce, Share!SendFrame, Share!Finish, Share!Sent,
                        Share!Failed, Share!Goto, Share!TypeOK
    <2> DEFINE c == Share!Frame(kind, w)
    <2>2. /\ c \in Share!ShareFrame \cup {Share!Goodbye} /\ c.kind = kind /\ c.worker = w
          /\ queue \in Seq(Share!ShareFrame \cup {Share!Goodbye}) /\ Len(queue) \in Nat
          /\ Len(queue') = Len(queue) + 1 /\ queue'[Len(queue) + 1] = c
          /\ \A i \in 1..Len(queue) : queue'[i] = queue[i]
      BY <1>t, <2>1, FrameParts DEF Share!TypeOK
    <2> HIDE DEF c
    <2> SUFFICES ASSUME serving, NEW v \in Worker \ overlapped
                 PROVE  HasEntry(v)'
      BY <1>t, <1>1 DEF Served, Share!FramesAreServed
    <2>3. HasEntry(v)
      BY <1>t, <1>3 DEF Served
    <2>4. \A i \in 1..Len(queue) :
            queue'[i] = Share!Frame("ScreenShareFrame", v) => Holds(queue', sharing', v, i)
      <3> SUFFICES ASSUME NEW i \in 1..Len(queue), queue[i] = Share!Frame("ScreenShareFrame", v)
                   PROVE  Holds(queue', sharing', v, i)
        BY <2>2
      <3>1. Holds(queue, sharing, v, i) /\ i \in 0..Len(queue)
        BY <2>3 DEF HasEntry
      <3> QED
        BY <1>1, <2>1, <2>2, <3>1, HoldsBefore
    <2>5. CASE v # w
      <3>1. ~Share!Alive(v) \/ ~Share!Alive(w)
        BY <1>t, <2>5 DEF Apart
      <3>2. Share!Alive(w) /\ job'[v] = job[v]
        BY <1>1, <2>5 DEF Share!Announce, Share!SendFrame, Share!Finish, Share!Alive
      <3>3. job'[v] \notin {"capturing", "sending", "stopping"}
        BY <3>1, <3>2 DEF Share!Alive
      <3>4. c # Share!Frame("ScreenShareFrame", v)
        BY <2>2, <2>5, FrameParts
      <3> QED
        BY <2>2, <2>4, <3>3, <3>4 DEF HasEntry
    <2>6. CASE v = w
      <3>1. CASE kind = "StopScreenShare"
        <4>1. c # Share!Frame("ScreenShareFrame", v) /\ job'[v] = "ended"
          BY <2>1, <2>2, <2>6, <3>1, FrameParts
        <4> QED
          BY <2>2, <2>4, <4>1 DEF HasEntry
      <3>2. CASE kind # "StopScreenShare"
        <4>1. \/ c = Share!Frame("StartScreenShare", w)
              \/ /\ c.kind \notin {"StartScreenShare", "StopScreenShare"}
                 /\ Holds(queue, sharing, w, Len(queue))
          BY <2>1, <2>2, <2>3, <2>6, <3>2 DEF HasEntry, c
        <4>2. Holds(Append(queue, c), sharing, w, Len(queue) + 1)
          BY <2>2, <4>1, HoldsAfter
        <4>3. Holds(queue', sharing', w, Len(queue'))
          BY <1>1, <2>1, <2>2, <4>2 DEF c
        <4> QED
          BY <2>2, <2>4, <2>6, <4>3 DEF HasEntry
      <3> QED
        BY <3>1, <3>2
    <2> QED
      BY <2>5, <2>6
  <1> QED
    BY <1>2, <1>3

\* A frame of a worker that was alone finds the entry.
LEMMA WriteServed ==
  ASSUME None \notin Worker, ShareInv, [Share!Next]_(Share!vars), Share!Write
  PROVE  Served' /\ Share!FramesAreServed'
  <1> DEFINE c == Head(queue)
  <1>t. /\ Share!TypeOK /\ Served /\ Share!FramesAreServed
        /\ queue \in Seq(Share!ShareFrame \cup {Share!Goodbye}) /\ queue # <<>> /\ link = "open"
    BY DEF ShareInv, Share!TypeOK, Share!Write
  <1>1. c \in Share!ShareFrame \cup {Share!Goodbye} /\ UNCHANGED <<job, overlapped>>
    BY <1>t DEF Share!Write, Share!workers
  <1>2. CASE ~serving
    BY <1>t, <1>1, <1>2 DEF Share!Write, Served, Share!FramesAreServed, Share!remote
  <1>3. CASE serving
    <2>1. /\ Share!Handled(c) /\ link \in {"open", "closed"}
          /\ c = Share!Goodbye \/ queue' = Tail(queue)
      BY <1>t, <1>3 DEF Share!Write, Share!TypeOK
    <2>2. /\ Len(queue) \in Nat /\ Len(queue) > 0 /\ queue[1] = c
          /\ Len(Tail(queue)) = Len(queue) - 1
          /\ \A i \in 1..Len(queue) - 1 : Tail(queue)[i] = queue[i + 1]
      BY <1>t
    <2> HIDE DEF c
    <2>3. Share!FramesAreServed'
      <3>1. CASE c.kind = "ScreenShareFrame" /\ sharing = None
        <4>1. c.worker \in Worker /\ c = Share!Frame("ScreenShareFrame", c.worker)
          BY <1>1, <3>1, FrameParts
        <4>2. c.worker \in overlapped
          <5> SUFFICES ASSUME c.worker \notin overlapped
                       PROVE  FALSE
            OBVIOUS
          <5>1. Holds(queue, sharing, c.worker, 1)
            <6>1. HasEntry(c.worker) /\ 1 \in 1..Len(queue)
              BY <1>t, <1>3, <2>2, <4>1 DEF Served
            <6> QED
              BY <2>2, <4>1, <6>1 DEF HasEntry
          <5>2. sharing = c.worker \/ queue[1] = Share!Frame("StartScreenShare", c.worker)
            BY <5>1 DEF Holds
          <5> QED
            BY <2>2, <3>1, <4>1, <5>2, FrameParts
        <4> QED
          BY <1>t, <1>1, <2>1, <4>2 DEF Share!Handled, Share!FramesAreServed
      <3>2. CASE ~(c.kind = "ScreenShareFrame" /\ sharing = None)
        BY <1>t, <1>1, <2>1, <3>2 DEF Share!Handled, Share!FramesAreServed
      <3> QED
        BY <3>1, <3>2
    <2>4. Served'
      <3> SUFFICES ASSUME serving', NEW w \in Worker \ overlapped
                   PROVE  HasEntry(w)'
        BY <1>1 DEF Served
      <3>1. c # Share!Goodbye /\ queue' = Tail(queue)
        BY <2>1 DEF Share!Handled
      <3>2. /\ c.kind = "StartScreenShare" => sharing' = c.worker
            /\ c.kind \notin {"StartScreenShare", "StopScreenShare"} => sharing' = sharing
        BY <2>1 DEF Share!Handled
      <3>3. HasEntry(w)
        BY <1>t, <1>3 DEF Served
      <3>4. \A n \in 1..Len(queue) :
              Holds(queue, sharing, w, n) => Holds(queue', sharing', w, n - 1)
        BY <1>t, <3>1, <3>2, HoldsRest DEF c
      <3>5. job'[w] \in {"capturing", "sending", "stopping"} =>
              Holds(queue', sharing', w, Len(queue'))
        BY <1>1, <2>2, <3>1, <3>3, <3>4 DEF HasEntry
      <3>6. ASSUME NEW i \in 1..Len(queue'), queue'[i] = Share!Frame("ScreenShareFrame", w)
            PROVE  Holds(queue', sharing', w, i)
        <4>1. i + 1 \in 1..Len(queue) /\ queue[i + 1] = Share!Frame("ScreenShareFrame", w)
          BY <2>2, <3>1, <3>6
        <4>2. Holds(queue, sharing, w, i + 1)
          BY <3>3, <4>1 DEF HasEntry
        <4>3. (i + 1) - 1 = i
          OBVIOUS
        <4> QED
          BY <3>4, <4>1, <4>2, <4>3
      <3> QED
        BY <3>5, <3>6 DEF HasEntry
    <2> QED
      BY <2>3, <2>4
  <1> QED
    BY <1>2, <1>3

LEMMA StepServed ==
  ASSUME None \notin Worker, ShareInv, [Share!Next]_(Share!vars)
  PROVE  Served' /\ Share!FramesAreServed'
  <1>t. Share!TypeOK
    BY DEF ShareInv
  <1>1. ASSUME NEW w \in Worker, Share!StartScreenShare(w)
        PROVE  Served' /\ Share!FramesAreServed'
    <2>1. /\ UNCHANGED <<queue, sharing, refused, serving, link>>
          /\ \A v \in Worker : job'[v] \in {"capturing", "sending", "stopping"} => job'[v] = job[v]
      BY <1>t, <1>1 DEF Share!StartScreenShare, Share!remote, Share!TypeOK
    <2> QED
      BY <2>1, SameEntries
  <1>2. ASSUME NEW w \in Worker, Share!Capture(w)
        PROVE  Served' /\ Share!FramesAreServed'
    <2>1. /\ UNCHANGED <<queue, sharing, refused, serving, link>>
          /\ \A v \in Worker : job'[v] \in {"capturing", "sending", "stopping"} =>
               job[v] \in {"capturing", "sending", "stopping"}
      BY <1>t, <1>2 DEF Share!Capture, Share!Goto, Share!remote, Share!history, Share!TypeOK
    <2> QED
      BY <2>1, SameEntries
  <1>3. CASE Share!StopScreenShare \/ Share!Poll \/ Share!ServerEnds \/ UNCHANGED Share!vars
    <2>1. UNCHANGED <<queue, sharing, refused, link, job>> /\ (serving' => serving)
      BY <1>3 DEF Share!StopScreenShare, Share!Poll, Share!PollDisconnected, Share!PollError,
                  Share!PollWorker, Share!ServerEnds, Share!vars,
                  Share!workers, Share!remote, Share!history
    <2> QED
      BY <2>1, SameEntries
  <1>4. CASE Share!WriteFails \/ Share!EndOfStream
    <2>1. link' = "closed" /\ refused' = refused /\ overlapped' = overlapped
      BY <1>4 DEF Share!WriteFails, Share!EndOfStream, Share!Close, Share!history
    <2> QED
      BY <2>1 DEF Served, Share!FramesAreServed, ShareInv
  <1>5. CASE Share!Disconnect
    <2>1. UNCHANGED <<sharing, refused, overlapped, serving, link, job>>
      BY <1>5 DEF Share!Disconnect, Share!remote, Share!history
    <2>2. CASE queue' = queue
      BY <2>1, <2>2, SameEntries
    <2>3. CASE queue' = Append(queue, Share!Goodbye) /\ link = "open"
      <3>1. /\ queue \in Seq(Share!ShareFrame \cup {Share!Goodbye}) /\ Len(queue) \in Nat
            /\ Len(queue') = Len(queue) + 1 /\ queue'[Len(queue) + 1] = Share!Goodbye
            /\ \A i \in 1..Len(queue) : queue'[i] = queue[i]
        BY <1>t, <2>3 DEF Share!TypeOK
      <3> SUFFICES ASSUME serving, NEW w \in Worker \ overlapped
                   PROVE  HasEntry(w)'
        BY <2>1 DEF Served, Share!FramesAreServed, ShareInv
      <3>2. HasEntry(w)
        BY <2>3 DEF Served, ShareInv
      <3>3. ASSUME Holds(queue, sharing, w, Len(queue))
            PROVE  Holds(queue', sharing', w, Len(queue'))
        <4>1. Share!Goodbye.kind \notin {"StartScreenShare", "StopScreenShare"}
          BY FrameParts
        <4>2. Holds(Append(queue, Share!Goodbye), sharing, w, Len(queue) + 1)
          BY <3>1, <3>3, <4>1, HoldsAfter
        <4> QED
          BY <2>1, <2>3, <3>1, <4>2
      <3>4. ASSUME NEW i \in 1..Len(queue), Holds(queue, sharing, w, i)
            PROVE  Holds(queue', sharing', w, i)
        <4>1. i \in 0..Len(queue)
          OBVIOUS
        <4> QED
          BY <2>1, <2>3, <3>1, <3>4, <4>1, HoldsBefore
      <3>5. Share!Goodbye # Share!Frame("ScreenShareFrame", w)
        BY FrameParts
      <3> QED
        BY <2>1, <3>1, <3>2, <3>3, <3>4, <3>5 DEF HasEntry
    <2> QED
      BY <1>5, <2>2, <2>3 DEF Share!Disconnect, Share!Sent, Share!Failed
  <1> QED
    BY <1>1, <1>2, <1>3, <1>4, <1>5, WorkerServed, WriteServed DEF Share!Next, Share!Click,
       Share!Step

\* Every variable of ScreenShareSession keeps its type, and only a worker whose job has
\* begun and not ended holds its running flag.
THEOREM SharesTyped ==
  ASSUME None \notin Worker
  PROVE  Share!Spec => []Share!TypeOK
  <1>1. Share!Init => Share!TypeOK
    BY ShareInitType
  <1>2. Share!TypeOK /\ [Share!Next]_(Share!vars) => Share!TypeOK'
    BY ShareStepType
  <1> QED
    BY <1>1, <1>2, PTL DEF Share!Spec

\* The server never answers `start sharing before sending frames' to a frame of a share
\* whose worker was the only one alive all its life (screen_share_worker queues
\* StartScreenShare before its first frame and StopScreenShare after its last, and the
\* network thread writes the queue in order), for any number of shares of a connection.
THEOREM AloneIsServed ==
  ASSUME None \notin Worker
  PROVE  Share!Spec => []Share!FramesAreServed
  <1>1. Share!Init => ShareInv
    BY ShareInitType, InitServed DEF ShareInv
  <1>2. ShareInv /\ [Share!Next]_(Share!vars) => ShareInv'
    BY ShareStepType, StepApart, StepServed DEF ShareInv
  <1>3. ShareInv => Share!FramesAreServed
    BY DEF ShareInv
  <1> QED
    BY <1>1, <1>2, <1>3, PTL DEF Share!Spec

=============================================================================
