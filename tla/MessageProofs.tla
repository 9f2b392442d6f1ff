------------------------------- MODULE MessageProofs ------------------------------
(***************************************************************************)
(* A message on its way out, and one that a line of an application's log   *)
(* becomes: Transport, and ApplicationSettings with ApplicationLine. Their *)
(* variables are apart, and so are the three parts of this module.         *)
(*                                                                         *)
(* Transport implements Courier, and Winsock is started whenever a socket  *)
(* is used: for every mode, with and without a mirror, any number of       *)
(* messages and of network failures.                                       *)
(*                                                                         *)
(* Of the fields that it reads and has room for parseMessage loses none,   *)
(* its priority and its letter agree, and it finds with the suggested      *)
(* flags what it finds with all: for lines of any length, whatever limits  *)
(* it sets to them. These are inductions over the fields of a line.        *)
(*                                                                         *)
(* The agent follows the source of a log that was chosen last              *)
(* (SettingsInv): for any texts and number of visits and starts.           *)
(***************************************************************************)
EXTENDS Transport, ApplicationSettings, SequenceTheorems, WellFoundedInduction, TLAPS
-----------------------------------------------------------------------------
(* The output thread.                                                      *)

\* A session of Winsock is open at these places.
Open == {"idle", "check", "connect", "mirror", "send", "sendmirror", "sent"}

\* The places where the first message may not yet have been handed over.
Before == {"idle", "startup", "check", "connect", "mirror", "send", "down"}

Small ==
  /\ mirror \in BOOLEAN
  /\ pc \in Places
  /\ lastOK \in BOOLEAN /\ repeated \in BOOLEAN /\ halting \in BOOLEAN
  /\ winsock \in Nat /\ removed \in Nat /\ handed \in Nat

Session ==
  /\ pc \in Open => winsock > 0
  /\ pc = "startup" /\ lastOK => winsock > 0

\* Without a mirror there is no second socket and no second send.
Single ==
  ~mirror => /\ backupsock = "none"
             /\ pc # "mirror" /\ pc # "sendmirror"
             /\ pc \in Before => handed = removed
             /\ ~repeated

Counted ==
  /\ pc \in {"sendmirror", "sent"} => handed = removed + 1
  /\ pc = "idle" => handed = removed
  /\ handed = removed \/ handed = removed + 1

Inv == Small /\ Session /\ Single /\ Counted

-----------------------------------------------------------------------------
\* The initial states of the output thread satisfy Inv.
LEMMA InitInv == Init => Inv
  <1> SUFFICES ASSUME Init PROVE Inv
    OBVIOUS
  <1>1. pc = "idle" /\ winsock = 1 /\ removed = 0 /\ handed = 0 /\ backupsock = "none"
    BY DEF Init
  <1>2. lastOK = TRUE /\ repeated = FALSE /\ halting = FALSE /\ mirror \in BOOLEAN
    BY DEF Init
  <1>3. Small
    BY <1>1, <1>2 DEF Small, Places
  <1>4. Session
    BY <1>1 DEF Session
  <1>5. Single
    BY <1>1, <1>2 DEF Single
  <1>6. Counted
    BY <1>1 DEF Counted
  <1> QED BY <1>3, <1>4, <1>5, <1>6 DEF Inv

\* What runs beside the output thread leaves its variables alone.
LEMMA EnvironmentInv == Inv /\ Environment => Inv'
  <1>1. ASSUME Inv, Tick PROVE Inv'
    BY <1>1 DEF Tick, Inv, Small, Session, Single, Counted, settings, network, sockets, messages
  <1>2. ASSUME Inv, Outage PROVE Inv'
    BY <1>2 DEF Outage, Inv, Small, Session, Single, Counted, settings, sockets, messages
  <1>3. ASSUME Inv, Repair PROVE Inv'
    BY <1>3 DEF Repair, Inv, Small, Session, Single, Counted, settings, sockets, messages
  <1>4. ASSUME Inv, RequestStop PROVE Inv'
    BY <1>4 DEF RequestStop, Inv, Small, Session, Single, Counted, settings, network, sockets, messages
  <1> QED BY <1>1, <1>2, <1>3, <1>4 DEF Environment

\* ReadyToSendMessage and initNetworkSettings, step by step.
LEMMA ReadyInv == Inv /\ ReadyToSendMessage => Inv'
  <1> USE DEF Inv, Small, Session, Single, Counted, Places, Open, Before,
              settings, network, sockets, messages
  <1>1. ASSUME Inv, Take PROVE Inv'
    BY <1>1 DEF Take
  <1>2. ASSUME Inv, Startup PROVE Inv'
    BY <1>2 DEF Startup
  <1>3. ASSUME Inv, CheckSocket PROVE Inv'
    BY <1>3 DEF CheckSocket, Connected
  <1>4. ASSUME Inv, CheckPing PROVE Inv'
    BY <1>4 DEF CheckPing, Connected
  <1>5. ASSUME Inv, SkipPing PROVE Inv'
    BY <1>5 DEF SkipPing
  <1>6. ASSUME Inv, ConnectPrimary PROVE Inv'
    BY <1>6 DEF ConnectPrimary
  <1>7. ASSUME Inv, ConnectFails PROVE Inv'
    BY <1>7 DEF ConnectFails, CloseAndCleanup
  <1>8. ASSUME Inv, ConnectMirror PROVE Inv'
    BY <1>8 DEF ConnectMirror
  <1>9. ASSUME Inv, HaltAtMirror PROVE Inv'
    BY <1>9 DEF HaltAtMirror
  <1> QED
    BY <1>1, <1>2, <1>3, <1>4, <1>5, <1>6, <1>7, <1>8, <1>9 DEF ReadyToSendMessage

\* TransmitMessage, step by step.
LEMMA TransmitInv == Inv /\ TransmitMessage => Inv'
  <1> USE DEF Inv, Small, Session, Single, Counted, Places, Open, Before,
              settings, network, sockets, messages
  <1>1. ASSUME Inv, SendPrimary PROVE Inv'
    BY <1>1 DEF SendPrimary
  <1>2. ASSUME Inv, SendTimesOut PROVE Inv'
    BY <1>2 DEF SendTimesOut, closeTCPconnection
  <1>3. ASSUME Inv, SendFails PROVE Inv'
    <2>1. UNCHANGED <<mirror, removed, handed, repeated, halting>>
      BY <1>3 DEF SendFails
    <2>9. lastOK' = FALSE /\ lastOK' \in BOOLEAN /\ ~lastOK'
      BY <1>3 DEF SendFails
    <2>2. pc = "send" /\ pc' = "startup" /\ backupsock' = "none"
      BY <1>3 DEF SendFails, CloseAndCleanup
    <2>3. winsock' \in Nat
      BY <1>3 DEF SendFails, CloseAndCleanup
    <2>4. Small'
      BY <1>3, <2>1, <2>2, <2>3, <2>9
    <2>5. Session'
      BY <2>2, <2>9
    <2>6. Single'
      BY <1>3, <2>1, <2>2
    <2>7. Counted'
      BY <1>3, <2>1, <2>2
    <2> QED BY <2>4, <2>5, <2>6, <2>7
  <1>4. ASSUME Inv, SendMirror PROVE Inv'
    BY <1>4 DEF SendMirror
  <1>5. ASSUME Inv, SendMirrorFails PROVE Inv'
    BY <1>5 DEF SendMirrorFails, closeTCPconnection
  <1> QED BY <1>1, <1>2, <1>3, <1>4, <1>5 DEF TransmitMessage

\* The whole of outputMain.
LEMMA OutputInv == Inv /\ OutputThread => Inv'
  <1> USE DEF Inv, Small, Session, Single, Counted, Places, Open, Before,
              settings, network, sockets, messages
  <1>1. ASSUME Inv, Remove PROVE Inv'
    BY <1>1 DEF Remove
  <1>2. ASSUME Inv, Slumber PROVE Inv'
    <2>1. UNCHANGED <<mirror, removed, handed, repeated, halting>>
      BY <1>2 DEF Slumber
    <2>9. lastOK' = FALSE /\ lastOK' \in BOOLEAN /\ ~lastOK'
      BY <1>2 DEF Slumber
    <2>2. pc = "down" /\ pc' \in {"gone", "startup"}
      BY <1>2 DEF Slumber
    <2>3. winsock' \in Nat
      BY <1>2 DEF Slumber, WSACleanup
    <2>4. backupsock = "none" => backupsock' = "none"
      BY <1>2 DEF Slumber, WSACleanup, AfterCleanup
    <2>5. Small'
      BY <1>2, <2>1, <2>2, <2>3, <2>9
    <2>6. Session'
      BY <2>2, <2>9
    <2>7. Single'
      BY <1>2, <2>1, <2>2, <2>4
    <2>8. Counted'
      BY <1>2, <2>1, <2>2
    <2> QED BY <2>5, <2>6, <2>7, <2>8
  <1>3. ASSUME Inv, CloseIdle PROVE Inv'
    <2>1. UNCHANGED <<mirror, halting, winsock, lastOK, pc, removed, handed, repeated>>
      BY <1>3 DEF CloseIdle, closeTCPconnection
    <2>2. pc = "idle" /\ backupsock' = "none"
      BY <1>3 DEF CloseIdle, closeTCPconnection
    <2> QED BY <1>3, <2>1, <2>2
  <1>4. ASSUME Inv, Quit PROVE Inv'
    BY <1>4 DEF Quit
  <1> QED BY <1>1, <1>2, <1>3, <1>4, ReadyInv, TransmitInv DEF OutputThread

\* The output thread keeps Inv.
THEOREM TransportInvariance == Spec => []Inv
  <1>1. Inv /\ [Next]_vars => Inv'
    <2>1. ASSUME Inv, UNCHANGED vars PROVE Inv'
      BY <2>1 DEF vars, settings, network, sockets, messages, Inv, Small, Session, Single, Counted
    <2> QED BY <2>1, EnvironmentInv, OutputInv DEF Next
  <1> QED BY InitInv, <1>1, PTL DEF Spec

\* Whatever fails in whatever order, WSAStartup has been called more often than
\* WSACleanup when a socket is made or used.
THEOREM WinsockIsUp == Spec => []WinsockUp
  <1>1. Inv => WinsockUp
    BY DEF Inv, Session, WinsockUp, Open
  <1> QED BY <1>1, TransportInvariance, PTL

-----------------------------------------------------------------------------
(* Without pings.                                                          *)

\* The thread gives up with a socket only when the service stops.
SocketsKept ==
  mode # "ping" =>
    /\ pc \notin {"down", "gone"} => sock # "stale" /\ backupsock # "stale"
    /\ pc \in {"mirror", "send"} => sock = "open"
    /\ pc = "down" => halting \/ (sock = "none" /\ backupsock = "none")
    /\ sock \in {"none", "open", "stale"}

\* The socket that is looked at is there when it is used.
LEMMA SocketsKeptStep == SocketsKept /\ [Next]_vars => SocketsKept'
  <1> SUFFICES ASSUME SocketsKept, [Next]_vars PROVE SocketsKept'
    OBVIOUS
  <1> USE DEF SocketsKept, settings, network, sockets, messages
  <1>1. ASSUME Environment PROVE SocketsKept'
    BY <1>1 DEF Environment, Tick, Outage, Repair, RequestStop
  <1>2. ASSUME Take \/ Startup PROVE SocketsKept'
    BY <1>2 DEF Take, Startup
  <1>3. ASSUME CheckSocket \/ CheckPing \/ SkipPing PROVE SocketsKept'
    BY <1>3 DEF CheckSocket, CheckPing, SkipPing, Connected
  <1>4. ASSUME ConnectPrimary PROVE SocketsKept'
    BY <1>4 DEF ConnectPrimary
  <1>5. ASSUME ConnectFails PROVE SocketsKept'
    BY <1>5 DEF ConnectFails, CloseAndCleanup
  <1>6. ASSUME ConnectMirror \/ HaltAtMirror PROVE SocketsKept'
    BY <1>6 DEF ConnectMirror, HaltAtMirror
  <1>7. ASSUME SendPrimary \/ SendMirror PROVE SocketsKept'
    BY <1>7 DEF SendPrimary, SendMirror
  <1>8. ASSUME SendTimesOut \/ SendFails \/ SendMirrorFails PROVE SocketsKept'
    BY <1>8 DEF SendTimesOut, SendFails, SendMirrorFails, closeTCPconnection, CloseAndCleanup
  <1>9. ASSUME Slumber PROVE SocketsKept'
    BY <1>9 DEF Slumber, WSACleanup, AfterCleanup
  <1>10. ASSUME Remove \/ CloseIdle \/ Quit PROVE SocketsKept'
    BY <1>10 DEF Remove, CloseIdle, Quit, closeTCPconnection
  <1>11. ASSUME UNCHANGED vars PROVE SocketsKept'
    BY <1>11 DEF vars
  <1> QED
    BY <1>1, <1>2, <1>3, <1>4, <1>5, <1>6, <1>7, <1>8, <1>9, <1>10, <1>11
    DEF Next, OutputThread, ReadyToSendMessage, TransmitMessage

\* ReadyToSendMessage answers "ready" with a connected socket, whatever failed
\* before, when messages are delivered by tcp or by udp without a ping.
THEOREM SendsOnAConnection == Spec => []SendsConnected
  <1>1. Init => SocketsKept
    BY DEF Init, SocketsKept
  <1>2. SocketsKept => SendsConnected
    BY DEF SocketsKept, SendsConnected
  <1> QED BY <1>1, <1>2, SocketsKeptStep, PTL DEF Spec

\* No handle of a socket that the last WSACleanup closed is kept.
THEOREM HandlesAreFresh == Spec => []NoStaleSocket
  <1>1. Init => SocketsKept
    BY DEF Init, SocketsKept
  <1>2. SocketsKept => NoStaleSocket
    BY DEF SocketsKept, NoStaleSocket
  <1> QED BY <1>1, <1>2, SocketsKeptStep, PTL DEF Spec

-----------------------------------------------------------------------------
(* What Winsock's count can leak.                                          *)

\* With tcp, a connection made in a session that began after a failure was made while its
\* server could be reached: if that is over, an outage came since.
Fresh ==
  mode = "tcp" /\ ~lastOK =>
    /\ pc \in {"startup", "check", "connect"} => sock = "none" /\ backupsock = "none"
    /\ pc = "mirror" => backupsock = "none"
    /\ pc \in {"mirror", "send"} /\ ~up => winsock <= outages
    /\ pc \in {"send", "sendmirror"} /\ backupsock # "none" =>
         backupsock = "open" /\ (mirrorUp \/ winsock <= outages)
    /\ pc = "sendmirror" => backupsock # "none"

\* Before WSAStartup is called again one of the calls has been undone.
Leak ==
  /\ winsock \in Nat /\ outages \in Nat
  /\ lastOK \in BOOLEAN /\ mirror \in BOOLEAN /\ up \in BOOLEAN /\ mirrorUp \in BOOLEAN
  /\ pc = "idle" => lastOK
  /\ ~mirror => backupsock = "none" /\ pc \notin {"mirror", "sendmirror"}
  /\ mode = "tcp" \/ ~mirror =>
       /\ winsock <= 1 + outages
       /\ pc = "startup" /\ ~lastOK => winsock <= outages
       /\ Fresh

\* Every step keeps the count within the outages.
LEMMA LeakStep == SocketsKept /\ Leak /\ [Next]_vars => Leak'
  <1> SUFFICES ASSUME SocketsKept, Leak, [Next]_vars PROVE Leak'
    OBVIOUS
  <1> USE DEF Leak, Fresh, settings, network, sockets, messages
  <1>1. ASSUME Tick \/ Repair \/ RequestStop PROVE Leak'
    BY <1>1 DEF Tick, Repair, RequestStop
  <1>2. ASSUME Outage PROVE Leak'
    <2>1. outages' = outages + 1 /\ UNCHANGED <<mode, mirror, winsock, sock, backupsock, lastOK, pc>>
      BY <1>2 DEF Outage
    <2>2. up' \in BOOLEAN /\ mirrorUp' \in BOOLEAN
      BY <1>2 DEF Outage
    <2>3. (mode = "tcp" \/ ~mirror)' => winsock' <= outages'
      BY <2>1
    <2>4. (mode = "tcp" \/ ~mirror)' => Fresh'
      BY <2>1, <2>3
    <2> HIDE DEF Fresh
    <2> QED BY <2>1, <2>2, <2>3, <2>4
  <1>3. ASSUME Take PROVE Leak'
    BY <1>3 DEF Take
  <1>4. ASSUME Startup PROVE Leak'
    BY <1>4 DEF Startup
  <1>5. ASSUME CheckSocket \/ CheckPing \/ SkipPing PROVE Leak'
    BY <1>5 DEF CheckSocket, CheckPing, SkipPing, Connected
  <1>6. ASSUME ConnectPrimary PROVE Leak'
    BY <1>6 DEF ConnectPrimary
  <1>7. ASSUME ConnectFails PROVE Leak'
    BY <1>7 DEF ConnectFails, CloseAndCleanup
  <1>8. ASSUME ConnectMirror PROVE Leak'
    BY <1>8 DEF ConnectMirror
  <1>9. ASSUME HaltAtMirror PROVE Leak'
    BY <1>9 DEF HaltAtMirror
  <1>10. ASSUME SendPrimary PROVE Leak'
    BY <1>10 DEF SendPrimary
  <1>11. ASSUME SendTimesOut PROVE Leak'
    BY <1>11 DEF SendTimesOut, closeTCPconnection
  <1>12. ASSUME SendFails PROVE Leak'
    <2>1. ~lastOK' /\ lastOK' \in BOOLEAN
      BY <1>12 DEF SendFails
    <2>2. /\ pc' = "startup" /\ sock' = "none" /\ backupsock' = "none"
          /\ winsock' = IF winsock > 0 THEN winsock - 1 ELSE 0
          /\ UNCHANGED <<mode, mirror, up, mirrorUp, outages>>
      BY <1>12 DEF SendFails, CloseAndCleanup
    <2>3. Fresh'
      BY <2>2
    <2> HIDE DEF Fresh
    <2>4. winsock' \in Nat /\ ((mode = "tcp" \/ ~mirror) => winsock' <= outages)
      BY <2>2
    <2> QED BY <2>1, <2>2, <2>3, <2>4
  <1>13. ASSUME SendMirror PROVE Leak'
    BY <1>13 DEF SendMirror
  <1>14. ASSUME SendMirrorFails PROVE Leak'
    BY <1>14 DEF SendMirrorFails, closeTCPconnection
  <1>15. ASSUME Remove PROVE Leak'
    BY <1>15 DEF Remove
  <1>16. ASSUME Slumber PROVE Leak'
    <2>1. ~lastOK' /\ lastOK' \in BOOLEAN
      BY <1>16 DEF Slumber
    <2>2. /\ pc = "down" /\ pc' = IF halting THEN "gone" ELSE "startup"
          /\ sock' = AfterCleanup(sock) /\ backupsock' = AfterCleanup(backupsock)
          /\ winsock' = IF winsock > 0 THEN winsock - 1 ELSE 0
          /\ UNCHANGED <<mode, mirror, up, mirrorUp, outages>>
      BY <1>16 DEF Slumber, WSACleanup
    <2>3. Fresh'
      BY <2>2 DEF SocketsKept, AfterCleanup
    <2>4. ~mirror => backupsock' = "none"
      BY <2>2 DEF AfterCleanup
    <2> HIDE DEF Fresh
    <2>5. winsock' \in Nat /\ ((mode = "tcp" \/ ~mirror) => winsock' <= outages)
      BY <2>2
    <2> QED BY <2>1, <2>2, <2>3, <2>4, <2>5
  <1>17. ASSUME CloseIdle \/ Quit PROVE Leak'
    BY <1>17 DEF CloseIdle, Quit, closeTCPconnection
  <1>18. ASSUME UNCHANGED vars PROVE Leak'
    BY <1>18 DEF vars
  <1> QED
    BY <1>1, <1>2, <1>3, <1>4, <1>5, <1>6, <1>7, <1>8, <1>9, <1>10, <1>11, <1>12, <1>13, <1>14,
       <1>15, <1>16, <1>17, <1>18
    DEF Next, Environment, OutputThread, ReadyToSendMessage, TransmitMessage

\* With tcp or without a mirror every call of WSAStartup that is not undone is due to a
\* failure of the network, whatever the modes and however many messages there are.
THEOREM LeaksNeedOutages == Spec => []LeakNeedsOutage
  <1>1. Init => SocketsKept /\ Leak
    BY DEF Init, SocketsKept, Leak, Fresh
  <1>2. SocketsKept /\ Leak /\ [Next]_vars => (SocketsKept /\ Leak)'
    BY SocketsKeptStep, LeakStep
  <1>3. Leak => LeakNeedsOutage
    BY DEF Leak, LeakNeedsOutage
  <1> QED BY <1>1, <1>2, <1>3, PTL DEF Spec

-----------------------------------------------------------------------------
\* A step that leaves the three variables of Courier is a stutter of it.
Stutter == UNCHANGED <<messages, mirror>>

\* Courier may stutter.
LEMMA StutterIsAllowed == Stutter => [Promise!Next]_(Promise!vars)
  BY DEF Stutter, messages, Promise!vars

\* The settings are read once.
LEMMA SettingsStay == [Next]_vars => mirror' = mirror
  <1>1. Environment => mirror' = mirror
    BY DEF Environment, Tick, Outage, Repair, RequestStop, settings, network
  <1>2. ReadyToSendMessage => mirror' = mirror
    BY DEF ReadyToSendMessage, Take, Startup, CheckSocket, CheckPing, SkipPing,
           ConnectPrimary, ConnectFails, ConnectMirror, HaltAtMirror, settings, network
  <1>3. TransmitMessage => mirror' = mirror
    BY DEF TransmitMessage, SendPrimary, SendTimesOut, SendFails, SendMirror,
           SendMirrorFails, settings, network
  <1>4. Remove \/ Slumber \/ CloseIdle \/ Quit => mirror' = mirror
    BY DEF Remove, Slumber, CloseIdle, Quit, settings, network
  <1>5. UNCHANGED vars => mirror' = mirror
    BY DEF vars, settings, network
  <1> QED BY <1>1, <1>2, <1>3, <1>4, <1>5 DEF Next, OutputThread

\* Every step of the output thread is a step of Courier or a stutter.
LEMMA StepRefines == Inv /\ [Next]_vars => [Promise!Next]_(Promise!vars)
  <1> SUFFICES ASSUME Inv, [Next]_vars PROVE [Promise!Next]_(Promise!vars)
    OBVIOUS
  <1>5. mirror' = mirror
    BY SettingsStay
  <1>4. (~mirror)' = ~mirror
    BY <1>5, Zenon
  <1>1. CASE SendPrimary
    <2>1. handed = removed \/ handed = removed + 1
      BY DEF Inv, Counted
    <2>2. CASE handed = removed
      <3>1. handed' = handed + 1 /\ repeated' = repeated /\ removed' = removed
        BY <1>1, <2>2 DEF SendPrimary, Inv, Small
      <3> QED BY <3>1, <2>2, <1>4, Zenon DEF Promise!Next, Promise!Hand
    <2>3. CASE handed = removed + 1
      <3>1. mirror
        BY <1>1, <2>3 DEF SendPrimary, Inv, Small, Single, Before
      <3>2. handed' = handed /\ removed' = removed
        BY <1>1, <2>3 DEF SendPrimary, Inv, Small
      <3>3. handed > removed
        BY <2>3 DEF Inv, Small
      <3>4. repeated' = TRUE
        BY <1>1, <3>3, Zenon DEF SendPrimary
      <3> QED BY <3>1, <3>2, <3>4, <2>3, <1>4, Zenon DEF Promise!Next, Promise!HandAgain
    <2> QED BY <2>1, <2>2, <2>3
  <1>2. CASE Remove
    <2>1. handed = removed + 1 /\ removed' = removed + 1 /\ UNCHANGED <<handed, repeated>>
      BY <1>2 DEF Remove, Inv, Counted
    <2> QED BY <2>1, <1>4, Zenon DEF Promise!Next, Promise!Remove
  <1>3. CASE ~SendPrimary /\ ~Remove
    <2>1. ASSUME Environment PROVE Stutter
      BY <2>1 DEF Environment, Tick, Outage, Repair, RequestStop, Stutter,
                  settings, network, messages
    <2>2. ASSUME ReadyToSendMessage PROVE Stutter
      BY <2>2 DEF ReadyToSendMessage, Take, Startup, CheckSocket, CheckPing, SkipPing,
                  ConnectPrimary, ConnectFails, ConnectMirror, HaltAtMirror, Stutter,
                  settings, network, messages
    <2>3. ASSUME TransmitMessage PROVE Stutter
      BY <2>3, <1>3 DEF TransmitMessage, SendTimesOut, SendFails, SendMirror,
                        SendMirrorFails, Stutter, settings, network, messages
    <2>4. ASSUME Slumber \/ CloseIdle \/ Quit PROVE Stutter
      BY <2>4 DEF Slumber, CloseIdle, Quit, Stutter, settings, network, messages
    <2>5. ASSUME UNCHANGED vars PROVE Stutter
      BY <2>5 DEF vars, Stutter, settings, network, messages
    <2>6. Stutter
      BY <1>3, <2>1, <2>2, <2>3, <2>4, <2>5 DEF Next, OutputThread
    <2> QED BY <2>6, StutterIsAllowed
  <1> QED BY <1>1, <1>2, <1>3

\* The output thread hands every message to the primary, in the order of the
\* queue, before it removes it; without a mirror it does so exactly once.
THEOREM TransportImplements == Spec => KeepsPromise
  <1>1. Init => Promise!Init
    BY DEF Init, Promise!Init
  <1> QED BY <1>1, StepRefines, TransportInvariance, PTL DEF Spec, KeepsPromise, Promise!Spec
-----------------------------------------------------------------------------
(* A line of an application's log.                                         *)

\* Induction over the natural numbers, from the least element that WFMin gives of those that
\* are not in S.
LEMMA Induction ==
  ASSUME NEW S \in SUBSET Nat, 0 \in S, \A n \in S : n + 1 \in S
  PROVE  S = Nat
<1> SUFFICES ASSUME Nat \ S # {} PROVE FALSE
  OBVIOUS
<1>1. IsWellFoundedOn(OpToRel(<, Nat), Nat)
  BY NatLessThanWellFounded
<1> DEFINE T == Nat \ S
<1>2. PICK m \in T : \A y \in T : <<y, m>> \notin OpToRel(<, Nat)
  <2>1. T \subseteq Nat /\ T # {}
    OBVIOUS
  <2> HIDE DEF T
  <2>2. QED BY <1>1, <2>1, WFMin
<1>3. \A y \in T : ~(y < m)
  BY <1>2 DEF OpToRel
<1>4. m \in Nat /\ m # 0 /\ m \notin S
  OBVIOUS
<1>5. m - 1 \in Nat /\ m - 1 < m /\ (m - 1) + 1 = m
  BY <1>4
<1>6. m - 1 \in S
  BY <1>3, <1>5
<1>7. QED BY <1>4, <1>5, <1>6

\* The recursive function in parseMessage exists, up to each number of fields, so the message
\* after n fields is what Field makes of the one before.
LEMMA ParsedUnfolds ==
  ASSUME NEW line, NEW codes, NEW s, Len(line) \in Nat
  PROVE  /\ Parsed(line, codes, s)[0] = Start(s)
         /\ \A n \in 1..Len(line) :
              Parsed(line, codes, s)[n]
                = Field(Parsed(line, codes, s)[n - 1], n, line[n], codes[n], s)
<1> DEFINE Step(g, n) == IF n = 0 THEN Start(s) ELSE Field(g[n - 1], n, line[n], codes[n], s)
           Is(g, k) == g = [n \in 0..k |-> Step(g, n)]
           S == {k \in Nat : \E g : Is(g, k)}
<1>1. 0 \in S
  <2> DEFINE g == [n \in 0..0 |-> Start(s)]
  <2>1. Is(g, 0)
    OBVIOUS
  <2>2. QED BY <2>1
<1>2. ASSUME NEW k \in S PROVE k + 1 \in S
  <2>1. PICK g : Is(g, k)
    OBVIOUS
  <2> DEFINE h == [n \in 0..(k + 1) |-> IF n = k + 1 THEN Step(g, k + 1) ELSE g[n]]
  <2>2. k \in Nat /\ (k + 1) - 1 = k /\ h[k] = g[k]
    OBVIOUS
  <2>3. \A n \in 0..k : g[n] = Step(g, n)
    <3> HIDE DEF Step
    <3> QED BY <2>1
  <2>4. ASSUME NEW n \in 0..(k + 1) PROVE h[n] = Step(h, n)
    <3>1. CASE n = k + 1
      BY <2>2, <3>1
    <3>2. CASE n \in 0..k /\ n # 0
      <4>1. n - 1 \in 0..(k + 1) /\ n - 1 # k + 1
        BY <2>2, <3>2
      <4>2. h[n - 1] = g[n - 1] /\ h[n] = g[n]
        BY <2>2, <3>2, <4>1
      <4>3. QED BY <2>3, <3>2, <4>2
    <3>3. CASE n = 0
      BY <2>2, <2>3, <3>3
    <3>4. QED BY <2>2, <3>1, <3>2, <3>3
  <2>5. Is(h, k + 1)
    <3>1. h = [n \in 0..(k + 1) |-> h[n]]
      OBVIOUS
    <3> HIDE DEF h, Step
    <3>2. QED BY <2>4, <3>1
  <2>6. \E a : Is(a, k + 1)
    <3> HIDE DEF Is, h
    <3> QED BY <2>5
  <2>7. QED BY <2>2, <2>6
<1>3. S = Nat
  <2>1. S \in SUBSET Nat /\ 0 \in S /\ \A n \in S : n + 1 \in S
    BY <1>1, <1>2
  <2> HIDE DEF S
  <2>2. QED BY <2>1, Induction
<1>4. PICK g : Is(g, Len(line))
  BY <1>3
<1>5. Is(Parsed(line, codes, s), Len(line))
  <2>1. Parsed(line, codes, s) = CHOOSE a : Is(a, Len(line))
    BY DEF Parsed
  <2> HIDE DEF Is
  <2>2. QED BY <1>4, <2>1
<1>6. \A n \in 0..Len(line) : Parsed(line, codes, s)[n] = Step(Parsed(line, codes, s), n)
  <2> HIDE DEF Step
  <2> QED BY <1>5
<1>7. QED BY <1>6

\* What a message may have found, and its type.
Marks == {"date", "time", "host", "server name", "server ip", "process", "severity", "win32"}
Message == [date : Int, time : Int, host : Int, process : Int, severity : {3, 5, 6},
            letter : {"E", "W", "I"}, text : Seq(Nat), found : SUBSET Marks]

\* A part of a message is kept by a field or is the field; what was found remains found.
LEMMA FieldTakes ==
  ASSUME NEW m \in Message, NEW i, NEW f, NEW code, NEW s
  PROVE  LET r == Field(m, i, f, code, s)
         IN  /\ r.date \in {m.date, i} /\ r.time \in {m.time, i}
             /\ r.host \in {m.host, i} /\ r.process \in {m.process, i}
             /\ r.severity \in {m.severity, 3} /\ r.letter \in {m.letter, "E"}
             /\ r.text \in {m.text, Append(m.text, i)}
             /\ m.found \subseteq r.found /\ r.found \subseteq Marks
BY DEF Field, Message, Marks

\* A field makes a message of a message.
LEMMA FieldType ==
  ASSUME NEW m \in Message, NEW i \in Nat, NEW f, NEW code, NEW s
  PROVE  Field(m, i, f, code, s) \in Message
<1> DEFINE r == Field(m, i, f, code, s)
<1>1. r = [date |-> r.date, time |-> r.time, host |-> r.host, process |-> r.process,
           severity |-> r.severity, letter |-> r.letter, text |-> r.text, found |-> r.found]
  BY DEF Field, Message
<1>2. /\ r.date \in {m.date, i} /\ r.time \in {m.time, i}
      /\ r.host \in {m.host, i} /\ r.process \in {m.process, i}
      /\ r.severity \in {m.severity, 3} /\ r.letter \in {m.letter, "E"}
      /\ r.text \in {m.text, Append(m.text, i)}
      /\ r.found \subseteq Marks
  BY FieldTakes
<1> HIDE DEF r
<1>3. r.text \in Seq(Nat)
  <2>1. m.text \in Seq(Nat) /\ \A t \in Seq(Nat) : Append(t, i) \in Seq(Nat)
    BY DEF Message
  <2>2. QED BY <1>2, <2>1
<1>4. /\ r.date \in Int /\ r.time \in Int /\ r.host \in Int /\ r.process \in Int
      /\ r.severity \in {3, 5, 6} /\ r.letter \in {"E", "W", "I"}
  BY <1>2 DEF Message
<1>5. r \in Message
  BY <1>1, <1>2, <1>3, <1>4 DEF Message
<1>6. QED BY <1>5 DEF r
\* ... as far as a line reaches.
LEMMA LineInduction ==
  ASSUME NEW N \in Nat, NEW S, 0 \in S, \A n \in 1..N : n - 1 \in S => n \in S
  PROVE  0..N \subseteq S
<1> DEFINE T == {n \in Nat : n <= N => n \in S}
<1>1. T \in SUBSET Nat /\ 0 \in T
  OBVIOUS
<1>2. ASSUME NEW n \in T PROVE n + 1 \in T
  <2>1. n + 1 \in Nat /\ (n + 1) - 1 = n
    OBVIOUS
  <2>2. ASSUME n + 1 <= N PROVE n + 1 \in S
    BY <2>1, <2>2
  <2>3. QED BY <2>1, <2>2
<1>3. T = Nat
  <2> HIDE DEF T
  <2> QED BY <1>1, <1>2, Induction
<1>4. QED BY <1>3

\* What Start and Field make is a message, after any number of fields.
LEMMA ParsedType ==
  ASSUME NEW line, NEW codes, NEW s \in Flags, Len(line) \in Nat
  PROVE  \A n \in 0..Len(line) : Parsed(line, codes, s)[n] \in Message
<1> DEFINE M == Parsed(line, codes, s)
           S == {n \in 0..Len(line) : M[n] \in Message}
<1>1. 0 \in S
  <2>1. << >> \in Seq(Nat)
    OBVIOUS
  <2>2. /\ Start(s).severity \in {3, 5, 6} /\ Start(s).letter \in {"E", "W", "I"}
        /\ Start(s).found \in SUBSET Marks
    BY DEF Start, Flags, Letter, Marks
  <2>3. /\ Start(s).date \in Int /\ Start(s).time \in Int
        /\ Start(s).host \in Int /\ Start(s).process \in Int
    BY DEF Start, Blank, Now, Own, Given
  <2>4. Start(s) \in Message
    BY <2>1, <2>2, <2>3 DEF Start, Message
  <2>5. QED BY <2>4, ParsedUnfolds
<1>2. ASSUME NEW n \in 1..Len(line), n - 1 \in S PROVE n \in S
  <2>1. M[n] = Field(M[n - 1], n, line[n], codes[n], s)
    BY ParsedUnfolds
  <2>2. M[n - 1] \in Message /\ n \in Nat
    BY <1>2
  <2> HIDE DEF M
  <2>3. QED BY <2>1, <2>2, FieldType
<1>3. 0..Len(line) \subseteq S
  <2> HIDE DEF S
  <2> QED BY <1>1, <1>2, LineInduction
<1>4. QED BY <1>3

\* The severity goes with its letter all along. While none is found there was no sc-status,
\* and an error is due to a Win32 status.
Severity(line, codes, s, n, m) ==
  IF s.ParseSeverity
    THEN /\ \/ m.severity = 6 /\ m.letter = "I"
            \/ m.severity = 3 /\ m.letter = "E"
         /\ "severity" \notin m.found =>
              /\ \A i \in 1..n : codes[i] # "sc-status"
              /\ m.letter = "E" => \E i \in 1..n : codes[i] = "sc-win32-status"
    ELSE /\ m.severity = s.SeverityLevel /\ m.letter = Letter(s.SeverityLevel)
         /\ "severity" \in m.found

\* Each field keeps this.
LEMMA FieldSeverity ==
  ASSUME NEW line, NEW codes, NEW s \in Flags, NEW n \in Nat \ {0}, NEW m \in Message,
         Severity(line, codes, s, n - 1, m)
  PROVE  Severity(line, codes, s, n, Field(m, n, line[n], codes[n], s))
<1> DEFINE r == Field(m, n, line[n], codes[n], s)
<1>1. CASE ~s.ParseSeverity
  <2>1. r.severity = m.severity /\ r.letter = m.letter
    BY <1>1 DEF Field, Message
  <2>2. m.found \subseteq r.found
    BY FieldTakes
  <2> HIDE DEF r
  <2>3. Severity(line, codes, s, n, r)
    BY <1>1, <2>1, <2>2 DEF Severity
  <2>4. QED BY <2>3 DEF r
<1>2. CASE s.ParseSeverity
  <2>1. \/ r.severity = 3 /\ r.letter = "E"
        \/ r.severity = m.severity /\ r.letter = m.letter
    BY <1>2 DEF Field, Message
  <2>2. "severity" \notin r.found => /\ codes[n] # "sc-status"
                                     /\ codes[n] = "sc-win32-status" \/ r.letter = m.letter
    BY <1>2 DEF Field, Message
  <2>3. m.found \subseteq r.found
    BY FieldTakes
  <2>4. \A i \in 1..n : i = n \/ i \in 1..(n - 1)
    OBVIOUS
  <2>5. n \in 1..n /\ 1..(n - 1) \subseteq 1..n
    OBVIOUS
  <2> HIDE DEF r
  <2>6. Severity(line, codes, s, n, r)
    BY <1>2, <2>1, <2>2, <2>3, <2>4, <2>5 DEF Severity
  <2>7. QED BY <2>6 DEF r
<1>3. QED BY <1>1, <1>2

\* So it holds after any number of fields.
LEMMA ParsedSeverity ==
  ASSUME NEW line, NEW codes, NEW s \in Flags, Len(line) \in Nat
  PROVE  \A n \in 0..Len(line) : Severity(line, codes, s, n, Parsed(line, codes, s)[n])
<1> DEFINE M == Parsed(line, codes, s)
           S == {n \in 0..Len(line) : Severity(line, codes, s, n, M[n])}
<1>1. 0 \in S
  <2>1. Severity(line, codes, s, 0, Start(s))
    BY DEF Start, Severity
  <2>2. QED BY <2>1, ParsedUnfolds
<1>2. ASSUME NEW n \in 1..Len(line), n - 1 \in S PROVE n \in S
  <2>1. M[n] = Field(M[n - 1], n, line[n], codes[n], s)
    BY ParsedUnfolds
  <2>2. M[n - 1] \in Message /\ n \in Nat \ {0}
    BY ParsedType
  <2>3. Severity(line, codes, s, n - 1, M[n - 1])
    BY <1>2
  <2> HIDE DEF M
  <2>4. QED BY <2>1, <2>2, <2>3, FieldSeverity
<1>3. 0..Len(line) \subseteq S
  <2> HIDE DEF S
  <2> QED BY <1>1, <1>2, LineInduction
<1>4. QED BY <1>3

\* Priority and letter agree at the end, where the priority is set back if none is found and
\* the letter is not.
LEMMA LineSeverity ==
  ASSUME NEW line, NEW codes, NEW s \in Flags, Len(line) \in Nat
  PROVE  LET m == Cut(Finish(Parsed(line, codes, s)[Len(line)]))
         IN  Agree(m.severity, m.letter) \/ (s.ParseSeverity /\ Win32Alone(line, codes))
<1> DEFINE m == Parsed(line, codes, s)[Len(line)]
           r == Cut(Finish(m))
<1>1. m \in Message /\ Severity(line, codes, s, Len(line), m)
  BY ParsedType, ParsedSeverity
<1>2. r = Cut(Finish(m))
  OBVIOUS
<1> HIDE DEF m
<1>3. /\ r.severity = (IF "severity" \in m.found THEN m.severity ELSE 6)
      /\ r.letter = m.letter
  BY <1>1, <1>2 DEF Finish, Cut, Message
<1> HIDE DEF r
<1>4. Agree(r.severity, r.letter) \/ (s.ParseSeverity /\ Win32Alone(line, codes))
  BY <1>1, <1>3 DEF Severity, Agree, Win32Alone, Letter, Flags
<1>5. QED BY <1>4 DEF r, m
\* The field looks like this computer's name or has a code of it.
Names(line, codes, h) == line[h] = "host" \/ codes[h] \in {"s-computername", "s-ip"}

\* Each field up to the n-th is accounted for. What is not found yet is no field, so nothing
\* is lost when it is; a host that may still be replaced is one that its code, or that of the
\* field that replaces it, accounts for.
Accounted(line, codes, n, m) ==
  /\ \A i \in 1..n : Kept(i, line, codes, m)
  /\ "date" \notin m.found => m.date <= 0
  /\ "time" \notin m.found => m.time <= 0
  /\ "process" \notin m.found => m.process <= 0
  /\ "host" \notin m.found => m.host <= 0
  /\ m.host > 0 => m.host <= n /\ Names(line, codes, m.host)

\* Each field keeps this: it takes a place, goes into the text or has one of the codes.
LEMMA FieldKept ==
  ASSUME NEW line, NEW codes, NEW s \in Flags, Len(line) \in Nat, NEW n \in 1..Len(line),
         NEW m \in Message, Accounted(line, codes, n - 1, m)
  PROVE  Accounted(line, codes, n, Field(m, n, line[n], codes[n], s))
<1> DEFINE r == Field(m, n, line[n], codes[n], s)
<1>1. r \in Message
  BY FieldType
<1>2. /\ r.date = m.date \/ (r.date = n /\ "date" \notin m.found /\ "date" \in r.found)
      /\ r.time = m.time \/ (r.time = n /\ "time" \notin m.found /\ "time" \in r.found)
      /\ r.process = m.process
           \/ (r.process = n /\ "process" \notin m.found /\ "process" \in r.found)
  BY DEF Field, Message
<1>3. \/ r.host = m.host
      \/ /\ r.host = n /\ "host" \in r.found /\ Names(line, codes, n)
         /\ "host" \notin m.found \/ codes[n] = "s-computername"
  BY DEF Field, Message, Names, identifyHost
<1>4. r.text = m.text \/ r.text = Append(m.text, n)
  BY FieldTakes
<1>5. \/ n \in {r.date, r.time, r.host, r.process}
      \/ r.text = Append(m.text, n)
      \/ codes[n] \in {"date", "time", "s-computername", "s-ip"}
  BY DEF Field, Message
<1>6. m.found \subseteq r.found
  BY FieldTakes
<1> HIDE DEF r
<1>7. /\ Seqs!ToSet(m.text) \subseteq Seqs!ToSet(r.text)
      /\ r.text = Append(m.text, n) => n \in Seqs!ToSet(r.text)
  <2>1. /\ \A j \in 1..Len(m.text) : Append(m.text, n)[j] = m.text[j]
        /\ Append(m.text, n)[Len(m.text) + 1] = n
        /\ Len(Append(m.text, n)) = Len(m.text) + 1
        /\ Len(m.text) \in Nat
        /\ DOMAIN m.text = 1..Len(m.text)
        /\ DOMAIN Append(m.text, n) = 1..Len(Append(m.text, n))
    BY DEF Message
  <2>2. \A j \in DOMAIN m.text : j \in DOMAIN Append(m.text, n)
                                  /\ Append(m.text, n)[j] = m.text[j]
    BY <2>1
  <2>3. Len(m.text) + 1 \in DOMAIN Append(m.text, n)
    BY <2>1
  <2>4. QED BY <1>4, <2>1, <2>2, <2>3 DEF Seqs!ToSet
<1>8. /\ "date" \notin r.found => r.date <= 0
      /\ "time" \notin r.found => r.time <= 0
      /\ "process" \notin r.found => r.process <= 0
      /\ "host" \notin r.found => r.host <= 0
  BY <1>2, <1>3, <1>6 DEF Accounted
<1>9. r.host > 0 => r.host <= n /\ Names(line, codes, r.host)
  BY <1>3 DEF Accounted, Message
<1>10. Kept(n, line, codes, r)
  BY <1>5, <1>7 DEF Kept
<1>11. ASSUME NEW i \in 1..(n - 1) PROVE Kept(i, line, codes, r)
  <2>1. Kept(i, line, codes, m) /\ i > 0
    BY DEF Accounted
  <2>2. CASE i \in {m.date, m.time, m.process}
    <3>1. i = m.date => r.date = i
      BY <1>2, <2>1 DEF Accounted
    <3>2. i = m.time => r.time = i
      BY <1>2, <2>1 DEF Accounted
    <3>3. i = m.process => r.process = i
      BY <1>2, <2>1 DEF Accounted
    <3>4. QED BY <2>2, <3>1, <3>2, <3>3 DEF Kept
  <2>3. CASE i = m.host /\ r.host # m.host
    <3>1. codes[n] = "s-computername"
      BY <1>3, <2>1, <2>3 DEF Accounted
    <3>2. Names(line, codes, i)
      BY <2>1, <2>3 DEF Accounted
    <3>3. QED BY <3>1, <3>2 DEF Kept, Names
  <2>4. CASE i = m.host /\ r.host = m.host
    BY <2>4 DEF Kept
  <2>5. CASE i \in Seqs!ToSet(m.text)
    BY <1>7, <2>5 DEF Kept
  <2>6. QED BY <2>1, <2>2, <2>3, <2>4, <2>5 DEF Kept
<1>12. Accounted(line, codes, n, r)
  <2>1. \A i \in 1..n : i = n \/ i \in 1..(n - 1)
    OBVIOUS
  <2>2. \A i \in 1..n : Kept(i, line, codes, r)
    BY <1>10, <1>11, <2>1
  <2>3. QED BY <1>8, <1>9, <2>2 DEF Accounted
<1>13. QED BY <1>12 DEF r

\* So it holds after any number of fields.
LEMMA ParsedKept ==
  ASSUME NEW line, NEW codes, NEW s \in Flags, Len(line) \in Nat
  PROVE  \A n \in 0..Len(line) : Accounted(line, codes, n, Parsed(line, codes, s)[n])
<1> DEFINE M == Parsed(line, codes, s)
           S == {n \in 0..Len(line) : Accounted(line, codes, n, M[n])}
<1>1. 0 \in S
  <2>1. Accounted(line, codes, 0, Start(s))
    BY DEF Start, Accounted, Blank, Now, Own, Given
  <2>2. QED BY <2>1, ParsedUnfolds
<1>2. ASSUME NEW n \in 1..Len(line), n - 1 \in S PROVE n \in S
  <2>1. M[n] = Field(M[n - 1], n, line[n], codes[n], s)
    BY ParsedUnfolds
  <2>2. M[n - 1] \in Message
    BY ParsedType
  <2>3. Accounted(line, codes, n - 1, M[n - 1])
    BY <1>2
  <2> HIDE DEF M
  <2>4. QED BY <2>1, <2>2, <2>3, FieldKept
<1>3. 0..Len(line) \subseteq S
  <2> HIDE DEF S
  <2> QED BY <1>1, <1>2, LineInduction
<1>4. QED BY <1>3

\* The fields in the text are in the order of the line.
Ordered(n, text) ==
  /\ \A j \in DOMAIN text : text[j] <= n
  /\ \A j, k \in DOMAIN text : j < k => text[j] < text[k]

\* The next field goes to the end of the text.
LEMMA ParsedOrdered ==
  ASSUME NEW line, NEW codes, NEW s \in Flags, Len(line) \in Nat
  PROVE  \A n \in 0..Len(line) : Ordered(n, Parsed(line, codes, s)[n].text)
<1> DEFINE M == Parsed(line, codes, s)
           S == {n \in 0..Len(line) : Ordered(n, M[n].text)}
<1>1. 0 \in S
  <2>1. Ordered(0, Start(s).text)
    BY DEF Start, Ordered
  <2>2. QED BY <2>1, ParsedUnfolds
<1>2. ASSUME NEW n \in 1..Len(line), n - 1 \in S PROVE n \in S
  <2>1. M[n] = Field(M[n - 1], n, line[n], codes[n], s)
    BY ParsedUnfolds
  <2>2. M[n - 1] \in Message /\ n \in Nat
    BY ParsedType
  <2>3. Ordered(n - 1, M[n - 1].text)
    BY <1>2
  <2> HIDE DEF M
  <2>4. M[n].text \in {M[n - 1].text, Append(M[n - 1].text, n)}
    BY <2>1, <2>2, FieldTakes
  <2>5. M[n - 1].text \in Seq(Nat)
    BY <2>2 DEF Message
  <2> DEFINE t == M[n - 1].text
  <2> HIDE DEF t
  <2>6. t \in Seq(Nat) /\ Ordered(n - 1, t)
    BY <2>3, <2>5 DEF t
  <2>7. Ordered(n, t)
    BY <2>6 DEF Ordered
  <2>8. Ordered(n, Append(t, n))
    BY <2>6, SMTT(30) DEF Ordered
  <2>9. Ordered(n, M[n].text)
    BY <2>4, <2>7, <2>8 DEF t
  <2>10. QED BY <2>9
<1>3. 0..Len(line) \subseteq S
  <2> HIDE DEF S
  <2> QED BY <1>1, <1>2, LineInduction
<1>4. QED BY <1>3

\* A field of an ordered text that is cut is there, or the text is full and ends before it.
LEMMA TextCut ==
  ASSUME NEW m \in Message, NEW n, Ordered(n, m.text), NEW i \in Seqs!ToSet(m.text)
  PROVE  i \in Seqs!ToSet(Cut(m).text) \/ CutOff(i, Cut(m))
<1> DEFINE t == m.text
           c == IF Len(t) > Room THEN SubSeq(t, 1, Room) ELSE t
<1>0. Room \in Nat
  BY ApplicationLineAssumption, Zenon
<1>1. Cut(m).text = c /\ t \in Seq(Nat)
  BY DEF Cut, Message
<1>2. PICK j \in DOMAIN t : t[j] = i
  BY DEF Seqs!ToSet
<1>3. CASE Len(t) <= Room
  <2>1. c = t
    BY <1>0, <1>1, <1>3
  <2>2. QED BY <1>1, <2>1
<1>4. CASE Len(t) > Room
  <2>1. /\ Len(c) = Room /\ DOMAIN c = 1..Room
        /\ \A k \in 1..Room : c[k] = t[k]
    BY <1>0, <1>1, <1>4
  <2>2. CASE j <= Room
    <3>1. j \in DOMAIN c /\ c[j] = i
      BY <1>0, <1>1, <1>2, <2>1, <2>2
    <3>2. QED BY <1>1, <3>1 DEF Seqs!ToSet
  <2>3. CASE j > Room
    <3>1. \A k \in 1..Room : k \in DOMAIN t /\ k < j
      BY <1>0, <1>1, <1>2, <1>4, <2>3
    <3>2. \A k \in DOMAIN c : c[k] < i
      BY <1>2, <2>1, <3>1 DEF Ordered
    <3>3. QED BY <1>1, <2>1, <3>2 DEF CutOff
  <2>4. QED BY <1>0, <1>1, <1>2, <2>2, <2>3
<1>5. QED BY <1>0, <1>1, <1>3, <1>4

\* Finish replaces only what is no field, and what is cut off is the end of the text.
LEMMA LineKept ==
  ASSUME NEW line, NEW codes, NEW s \in Flags, Len(line) \in Nat
  PROVE  LET m == Cut(Finish(Parsed(line, codes, s)[Len(line)]))
         IN  \A i \in 1..Len(line) : CutOff(i, m) \/ Kept(i, line, codes, m)
<1> DEFINE m == Parsed(line, codes, s)[Len(line)]
           r == Cut(Finish(m))
<1>1. m \in Message /\ Accounted(line, codes, Len(line), m) /\ Ordered(Len(line), m.text)
  BY ParsedType, ParsedKept, ParsedOrdered
<1>2. r = Cut(Finish(m))
  OBVIOUS
<1> HIDE DEF m
<1>3. /\ r.date = m.date \/ "date" \notin m.found
      /\ r.time = m.time \/ "time" \notin m.found
      /\ r.process = m.process \/ "process" \notin m.found
      /\ r.host = m.host \/ m.host = 0
  BY <1>1, <1>2 DEF Finish, Cut, Message, Blank
<1>4. r.text = Cut(m).text
  BY <1>1, <1>2 DEF Finish, Cut, Message
<1> HIDE DEF r
<1>5. ASSUME NEW i \in 1..Len(line) PROVE CutOff(i, r) \/ Kept(i, line, codes, r)
  <2>1. Kept(i, line, codes, m) /\ i > 0
    BY <1>1 DEF Accounted
  <2>2. i \in {m.date, m.time, m.host, m.process}
          => i \in {r.date, r.time, r.host, r.process}
    BY <1>1, <1>3, <2>1 DEF Accounted
  <2>3. i \in Seqs!ToSet(m.text) => i \in Seqs!ToSet(r.text) \/ CutOff(i, r)
    BY <1>1, <1>4, TextCut DEF CutOff
  <2>4. QED BY <2>1, <2>2, <2>3 DEF Kept
<1>6. QED BY <1>5 DEF r, m
\* What is found after n fields is found at the end.
LEMMA ParsedGrows ==
  ASSUME NEW line, NEW codes, NEW s \in Flags, Len(line) \in Nat
  PROVE  \A n \in 0..Len(line) :
           Parsed(line, codes, s)[n].found \subseteq Parsed(line, codes, s)[Len(line)].found
<1> DEFINE M == Parsed(line, codes, s)
           S == {n \in 0..Len(line) : \A k \in 0..n : M[k].found \subseteq M[n].found}
<1>1. 0 \in S
  OBVIOUS
<1>2. ASSUME NEW n \in 1..Len(line), n - 1 \in S PROVE n \in S
  <2>1. M[n] = Field(M[n - 1], n, line[n], codes[n], s)
    BY ParsedUnfolds
  <2>2. M[n - 1] \in Message
    BY ParsedType
  <2>3. \A k \in 0..(n - 1) : M[k].found \subseteq M[n - 1].found
    BY <1>2
  <2>4. \A k \in 0..n : k = n \/ k \in 0..(n - 1)
    OBVIOUS
  <2> HIDE DEF M
  <2>5. M[n - 1].found \subseteq M[n].found
    BY <2>1, <2>2, FieldTakes
  <2>6. QED BY <2>3, <2>4, <2>5
<1>3. 0..Len(line) \subseteq S
  <2> HIDE DEF S
  <2> QED BY <1>1, <1>2, LineInduction
<1>4. QED BY <1>3

\* With all flags set, a host or a process that is found is a field.
Placed(m) ==
  /\ IF "host" \in m.found THEN m.host > 0 ELSE m.host = Blank
  /\ "server name" \in m.found \/ "server ip" \in m.found => "host" \in m.found
  /\ "process" \in m.found => m.process > 0

\* Each field keeps this.
LEMMA FieldPlaced ==
  ASSUME NEW m \in Message, NEW n \in Nat \ {0}, NEW f, NEW code, NEW s, Placed(m)
  PROVE  Placed(Field(m, n, f, code, s))
<1> DEFINE r == Field(m, n, f, code, s)
<1>1. r.host = m.host \/ (r.host = n /\ "host" \in r.found)
  BY DEF Field, Message
<1>2. "host" \in r.found => "host" \in m.found \/ r.host = n
  BY DEF Field, Message
<1>3. "server name" \in r.found \/ "server ip" \in r.found => "host" \in r.found
  BY DEF Field, Message, Placed
<1>4. "process" \in r.found => r.process = n \/ (r.process = m.process /\ "process" \in m.found)
  BY DEF Field, Message
<1>5. m.found \subseteq r.found
  BY FieldTakes
<1> HIDE DEF r
<1>6. n > 0
  OBVIOUS
<1>7. "host" \in r.found => r.host > 0
  BY <1>1, <1>2, <1>6 DEF Placed
<1>8. "host" \notin r.found => r.host = Blank
  BY <1>1, <1>5 DEF Placed
<1>9. "process" \in r.found => r.process > 0
  BY <1>4, <1>6 DEF Placed
<1>10. Placed(r)
  BY <1>3, <1>7, <1>8, <1>9 DEF Placed
<1>11. QED BY <1>10 DEF r

\* The dialog's flags are flags.
LEMMA AllAreFlags ==
  ASSUME NEW present \in BOOLEAN
  PROVE  AllFlags(present) \in Flags
BY DEF AllFlags, Flags

\* So it holds after any number of fields.
LEMMA ParsedPlaced ==
  ASSUME NEW line, NEW codes, NEW present \in BOOLEAN, Len(line) \in Nat
  PROVE  \A n \in 0..Len(line) : Placed(Parsed(line, codes, AllFlags(present))[n])
<1> DEFINE s == AllFlags(present)
           M == Parsed(line, codes, s)
           S == {n \in 0..Len(line) : Placed(M[n])}
<1>0. s \in Flags
  BY AllAreFlags
<1>1. 0 \in S
  <2>1. Placed(Start(s))
    BY DEF Start, Placed, AllFlags, Blank
  <2>2. QED BY <2>1, ParsedUnfolds
<1> HIDE DEF s
<1>2. ASSUME NEW n \in 1..Len(line), n - 1 \in S PROVE n \in S
  <2>1. M[n] = Field(M[n - 1], n, line[n], codes[n], s)
    BY ParsedUnfolds
  <2>2. M[n - 1] \in Message /\ n \in Nat \ {0}
    BY <1>0, ParsedType
  <2>3. Placed(M[n - 1])
    BY <1>2
  <2> HIDE DEF M
  <2>4. QED BY <2>1, <2>2, <2>3, FieldPlaced
<1>3. 0..Len(line) \subseteq S
  <2> HIDE DEF S
  <2> QED BY <1>1, <1>2, LineInduction
<1>4. QED BY <1>3 DEF s

\* The branch of Field that is taken, and what each of them finds.
Way(m, f, code, s) ==
  LET had(x) == x \in m.found
  IN  IF code = "date" /\ ~had("date") THEN "date code"
      ELSE IF code = "time" /\ ~had("time") THEN "time code"
      ELSE IF code = "s-computername" /\ ~had("server name") THEN "name code"
      ELSE IF code = "s-ip" /\ ~had("server ip") THEN "ip code"
      ELSE IF code = "s-sitename" /\ ~had("process") THEN "site code"
      ELSE IF code = "sc-win32-status" /\ ~had("win32") /\ s.ParseSeverity THEN "win32 code"
      ELSE IF code = "sc-status" THEN "status code"
      ELSE IF ~had("date") /\ identifyDate(f) THEN "date"
      ELSE IF ~had("time") /\ identifyTime(f) THEN "time"
      ELSE IF ~had("host") /\ identifyHost(f) THEN "host"
      ELSE IF ~had("process") /\ ~s.fieldCodeProcessIsPresent /\ identifyProcess(f)
        THEN "process"
      ELSE "text"

Finds(way) ==
  CASE way \in {"date code", "date"}    -> {"date"}
    [] way \in {"time code", "time"}    -> {"time"}
    [] way = "name code"                -> {"server name", "host"}
    [] way = "ip code"                  -> {"server ip", "host"}
    [] way \in {"site code", "process"} -> {"process"}
    [] way = "win32 code"               -> {"win32"}
    [] way = "status code"              -> {"severity"}
    [] way = "host"                     -> {"host"}
    [] OTHER                            -> {}

\* What a branch does to a message.
Took(r, m, n, f, code, s, w) ==
  /\ r.found = m.found \cup Finds(w)
  /\ r.date = IF w = "date" \/ (w = "date code" /\ identifyDate(f)) THEN n ELSE m.date
  /\ r.time = IF w = "time" \/ (w = "time code" /\ identifyTime(f)) THEN n ELSE m.time
  /\ r.host = IF w \in {"host", "name code"} \/ (w = "ip code" /\ "host" \notin m.found)
                THEN n ELSE m.host
  /\ r.process = IF w \in {"process", "site code"} THEN n ELSE m.process
  /\ r.severity = IF \/ w = "win32 code" /\ IsWin32Error(f)
                     \/ /\ w = "status code" /\ IsHttpError(f) /\ s.ParseSeverity
                        /\ "severity" \notin m.found
                    THEN 3 ELSE m.severity

\* Field does what its branch does.
LEMMA FieldByWay ==
  ASSUME NEW m \in Message, NEW n, NEW f, NEW code, NEW s
  PROVE  Took(Field(m, n, f, code, s), m, n, f, code, s, Way(m, f, code, s))
BY DEF Field, Message, Way, Finds, Took

\* What is looked for under s is in b, made with s, where it is in a, made with all flags.
Alike(a, b, s) ==
  /\ b.found = a.found \cup Start(s).found
  /\ s.ParseDate => b.date = a.date /\ b.time = a.time
  /\ s.ParseHost => b.host = a.host
  /\ s.ParseSeverity => b.severity = a.severity
  /\ s.ParseProcess => b.process = a.process

\* What was found needs no flag that is not set.
Fits(found, s) ==
  /\ ~s.ParseDate => found \cap {"date", "time"} = {}
  /\ ~s.ParseHost => found \cap {"host", "server name", "server ip"} = {}
  /\ ~s.ParseProcess => "process" \notin found

\* A field goes the same way with all flags and with those that fit: a flag that is missing
\* closes only branches that are not taken.
LEMMA SameWay ==
  ASSUME NEW s \in Flags, NEW a \in Message, NEW b \in Message, NEW n, NEW f, NEW code,
         Alike(a, b, s),
         Fits(Field(a, n, f, code, AllFlags(s.fieldCodeProcessIsPresent)).found, s),
         ~s.ParseSeverity => code \notin {"sc-status", "sc-win32-status"}
  PROVE  Way(b, f, code, s) = Way(a, f, code, AllFlags(s.fieldCodeProcessIsPresent))
<1> DEFINE all == AllFlags(s.fieldCodeProcessIsPresent)
           way == Way(a, f, code, all)
<1>1. Fits(a.found \cup Finds(way), s)
  <2>1. Took(Field(a, n, f, code, all), a, n, f, code, all, way)
    BY FieldByWay
  <2>2. QED BY <2>1 DEF Took
<1>2. all.ParseSeverity = TRUE /\ all.fieldCodeProcessIsPresent = s.fieldCodeProcessIsPresent
  BY DEF AllFlags
<1>3. /\ ~s.ParseDate => way \notin {"date code", "date", "time code", "time"}
      /\ ~s.ParseHost => way \notin {"name code", "ip code", "host"}
      /\ ~s.ParseProcess => way \notin {"site code", "process"}
  BY <1>1 DEF Fits, Finds
<1>4. /\ ~s.ParseDate => {"date", "time"} \cap a.found = {}
      /\ ~s.ParseHost => {"host", "server name", "server ip"} \cap a.found = {}
      /\ ~s.ParseProcess => "process" \notin a.found
  BY <1>1 DEF Fits
<1>5. /\ "date" \in b.found <=> "date" \in a.found \/ ~s.ParseDate
      /\ "time" \in b.found <=> "time" \in a.found \/ ~s.ParseDate
      /\ "host" \in b.found <=> "host" \in a.found \/ ~s.ParseHost
      /\ "server name" \in b.found <=> "server name" \in a.found \/ ~s.ParseHost
      /\ "server ip" \in b.found <=> "server ip" \in a.found \/ ~s.ParseHost
      /\ "process" \in b.found <=> "process" \in a.found \/ ~s.ParseProcess
      /\ "win32" \in b.found <=> "win32" \in a.found
  BY DEF Alike, Start
<1>6. CASE code \in {"date", "time"}
  BY <1>2, <1>3, <1>4, <1>5, <1>6 DEF Way
<1>7. CASE code \in {"s-computername", "s-ip"}
  BY <1>2, <1>3, <1>4, <1>5, <1>7, ZenonT(30) DEF Way
<1>8. CASE code \in {"s-sitename", "sc-win32-status", "sc-status"}
  BY <1>2, <1>3, <1>4, <1>5, <1>8 DEF Way
<1>9. CASE code \notin {"date", "time", "s-computername", "s-ip", "s-sitename",
                       "sc-win32-status", "sc-status"}
  BY <1>2, <1>3, <1>4, <1>5, <1>9 DEF Way
<1>10. QED BY <1>6, <1>7, <1>8, <1>9

\* So the messages stay alike.
LEMMA FieldAlike ==
  ASSUME NEW s \in Flags, NEW a \in Message, NEW b \in Message, NEW n, NEW f, NEW code,
         Alike(a, b, s),
         Fits(Field(a, n, f, code, AllFlags(s.fieldCodeProcessIsPresent)).found, s),
         ~s.ParseSeverity => code \notin {"sc-status", "sc-win32-status"}
  PROVE  Alike(Field(a, n, f, code, AllFlags(s.fieldCodeProcessIsPresent)),
               Field(b, n, f, code, s), s)
<1> DEFINE all == AllFlags(s.fieldCodeProcessIsPresent)
           a2 == Field(a, n, f, code, all)
           b2 == Field(b, n, f, code, s)
           way == Way(a, f, code, all)
<1>1. Took(a2, a, n, f, code, all, way)
  BY FieldByWay
<1>2. Took(b2, b, n, f, code, s, way)
  BY FieldByWay, SameWay
<1>3. /\ s.ParseHost => ("host" \in b.found <=> "host" \in a.found)
      /\ s.ParseSeverity => ("severity" \in b.found <=> "severity" \in a.found)
  BY DEF Alike, Start
<1>4. all.ParseSeverity = TRUE
  BY DEF AllFlags
<1> HIDE DEF all, a2, b2, way
<1>5. b2.found = a2.found \cup Start(s).found
  BY <1>1, <1>2 DEF Alike, Took
<1>6. s.ParseDate => b2.date = a2.date /\ b2.time = a2.time
  BY <1>1, <1>2 DEF Alike, Took
<1>7. s.ParseHost => b2.host = a2.host
  BY <1>1, <1>2, <1>3 DEF Alike, Took
<1>8. s.ParseProcess => b2.process = a2.process
  BY <1>1, <1>2 DEF Alike, Took
<1>9. s.ParseSeverity => b2.severity = a2.severity
  BY <1>1, <1>2, <1>3, <1>4 DEF Alike, Took
<1>10. Alike(a2, b2, s)
  BY <1>5, <1>6, <1>7, <1>8, <1>9 DEF Alike
<1>11. QED BY <1>10 DEF a2, b2, all

\* ... after any number of fields, if the flags fit what is found at the end.
LEMMA ParsedAlike ==
  ASSUME NEW line, NEW codes, NEW s \in Flags, Len(line) \in Nat,
         Fits(Parsed(line, codes, AllFlags(s.fieldCodeProcessIsPresent))[Len(line)].found, s),
         ~s.ParseSeverity =>
           \A i \in 1..Len(line) : codes[i] \notin {"sc-status", "sc-win32-status"}
  PROVE  \A n \in 0..Len(line) :
           Alike(Parsed(line, codes, AllFlags(s.fieldCodeProcessIsPresent))[n],
                 Parsed(line, codes, s)[n], s)
<1> DEFINE all == AllFlags(s.fieldCodeProcessIsPresent)
           A == Parsed(line, codes, all)
           B == Parsed(line, codes, s)
           S == {n \in 0..Len(line) : Alike(A[n], B[n], s)}
<1>0. all \in Flags
  BY AllAreFlags DEF Flags
<1>1. 0 \in S
  <2>1. Alike(Start(all), Start(s), s)
    BY DEF Alike, Start, AllFlags
  <2>2. QED BY <2>1, ParsedUnfolds
<1>2. ASSUME NEW n \in 1..Len(line), n - 1 \in S PROVE n \in S
  <2>1. /\ A[n] = Field(A[n - 1], n, line[n], codes[n], all)
        /\ B[n] = Field(B[n - 1], n, line[n], codes[n], s)
    BY ParsedUnfolds
  <2>2. A[n - 1] \in Message /\ B[n - 1] \in Message
    BY <1>0, ParsedType
  <2>3. Alike(A[n - 1], B[n - 1], s)
    BY <1>2
  <2>4. Fits(A[n].found, s)
    <3>1. A[n].found \subseteq A[Len(line)].found
      BY <1>0, ParsedGrows
    <3>2. QED BY <3>1 DEF Fits
  <2> HIDE DEF A, B
  <2>5. Alike(A[n], B[n], s)
    BY <2>1, <2>2, <2>3, <2>4, FieldAlike
  <2>6. QED BY <2>5
<1>3. 0..Len(line) \subseteq S
  <2> HIDE DEF S
  <2> QED BY <1>1, <1>2, LineInduction
<1>4. QED BY <1>3

\* The flags that are suggested fit.
LEMMA LineSuggestion ==
  ASSUME NEW line, NEW codes, NEW present \in BOOLEAN, Len(FieldsOf(line)) \in Nat
  PROVE  LET s == OnBnClickedSuggestsettings(line, codes, present)
             m == parseMessage(line, codes, s)
             all == parseMessage(line, codes, AllFlags(present))
         IN  FoundAgain(s, m, all) \/ Win32Alone(FieldsOf(line), codes)
<1> SUFFICES ASSUME ~Win32Alone(FieldsOf(line), codes)
             PROVE  LET s == OnBnClickedSuggestsettings(line, codes, present)
                    IN  FoundAgain(s, parseMessage(line, codes, s),
                                   parseMessage(line, codes, AllFlags(present)))
  OBVIOUS
<1> DEFINE read == FieldsOf(line)
           N == Len(read)
           a == Parsed(read, codes, AllFlags(present))[N]
           s == OnBnClickedSuggestsettings(line, codes, present)
           b == Parsed(read, codes, s)[N]
           all == parseMessage(line, codes, AllFlags(present))
           m == parseMessage(line, codes, s)
<1>1. /\ a \in Message /\ Placed(a)
      /\ Severity(read, codes, AllFlags(present), N, a)
  BY AllAreFlags, ParsedType, ParsedPlaced, ParsedSeverity
<1>2. all = Cut(Finish(a)) /\ m = Cut(Finish(b))
  BY DEF parseMessage
<1>3. all.found = a.found /\ all.host = IF a.host = Blank THEN Own ELSE a.host
  <2> HIDE DEF a
  <2> QED BY <1>1, <1>2 DEF Finish, Cut, Message
<1>4. /\ s \in Flags /\ s.fieldCodeProcessIsPresent = present
      /\ s.ParseDate <=> all.found \cap {"date", "time"} # {}
      /\ s.ParseHost <=> all.host # Own
      /\ s.ParseSeverity <=> "severity" \in all.found
      /\ s.ParseProcess <=> "process" \in all.found
  <2>1. s = [AllFlags(present) EXCEPT
               !.ParseDate     = all.found \cap {"date", "time"} # {},
               !.ParseHost     = all.host # Own,
               !.ParseSeverity = "severity" \in all.found,
               !.ParseProcess  = "process" \in all.found]
    BY DEF OnBnClickedSuggestsettings
  <2> HIDE DEF s, all
  <2>2. s = [ParseDate |-> all.found \cap {"date", "time"} # {},
             ParseHost |-> all.host # Own, ParseSeverity |-> "severity" \in all.found,
             ParseProcess |-> "process" \in all.found, SeverityLevel |-> 6,
             fieldCodeProcessIsPresent |-> present]
    BY <2>1 DEF AllFlags
  <2>3. /\ s.ParseDate <=> all.found \cap {"date", "time"} # {}
        /\ s.ParseHost <=> all.host # Own
        /\ s.ParseSeverity <=> "severity" \in all.found
        /\ s.ParseProcess <=> "process" \in all.found
    BY <2>1 DEF AllFlags
  <2>4. s \in Flags /\ s.fieldCodeProcessIsPresent = present
    BY <2>2 DEF Flags
  <2>5. QED BY <2>3, <2>4
<1> HIDE DEF s
<1>5. Fits(a.found, s)
  <2>1. ~s.ParseHost => a.host = Blank
    <3>1. a.host = Blank \/ a.host > 0
      BY <1>1 DEF Placed
    <3>2. ~s.ParseHost => a.host = Blank \/ a.host = Own
      BY <1>3, <1>4
    <3>3. QED BY <3>1, <3>2 DEF Own
  <2> HIDE DEF a, all
  <2>2. ~s.ParseHost => a.found \cap {"host", "server name", "server ip"} = {}
    <3>1. ~(0 > 0)
      OBVIOUS
    <3>2. a.host = 0 => "host" \notin a.found
      BY <1>1, <3>1 DEF Placed
    <3>3. QED BY <1>1, <2>1, <3>2 DEF Placed, Blank
  <2>3. QED BY <1>3, <1>4, <2>2 DEF Fits
<1>6. ~s.ParseSeverity => \A i \in 1..N : codes[i] \notin {"sc-status", "sc-win32-status"}
  <2>1. ~s.ParseSeverity => \A i \in 1..N : codes[i] # "sc-status"
    BY <1>1, <1>3, <1>4 DEF Severity, AllFlags
  <2>2. QED BY <2>1 DEF Win32Alone
<1>7. Alike(a, b, s)
  BY <1>4, <1>5, <1>6, ParsedAlike
<1>8. b \in Message
  BY <1>4, ParsedType
<1> HIDE DEF a, b, all, m
<1>9. /\ s.ParseDate => m.date = all.date /\ m.time = all.time
      /\ s.ParseHost => m.host = all.host
      /\ s.ParseSeverity => m.severity = all.severity
  <2>1. \A x \in Message :
          LET c == Cut(Finish(x))
          IN  /\ c.date = IF "date" \in x.found THEN x.date ELSE Now
              /\ c.time = IF "time" \in x.found THEN x.time ELSE Now
              /\ c.host = IF x.host = Blank THEN Own ELSE x.host
              /\ c.severity = IF "severity" \in x.found THEN x.severity ELSE 6
    BY DEF Finish, Cut, Message
  <2>2. QED BY <1>1, <1>2, <1>7, <1>8, <2>1, ZenonT(30) DEF Alike, Start
<1>10. s.ParseProcess => m.process = all.process /\ m.process # Unknown
  <2>1. s.ParseProcess => "process" \in a.found /\ a.process > 0
    BY <1>1, <1>3, <1>4 DEF Placed
  <2>2. s.ParseProcess => "process" \in b.found /\ b.process = a.process
    BY <1>7, <2>1 DEF Alike
  <2>3. s.ParseProcess => m.process = b.process /\ all.process = a.process
    BY <1>1, <1>2, <1>8, <2>1, <2>2 DEF Finish, Cut, Message
  <2>4. QED BY <2>1, <2>2, <2>3 DEF Unknown
<1>11. FoundAgain(s, m, all)
  BY <1>9, <1>10 DEF FoundAgain
<1>12. QED BY <1>11 DEF m, s, all

\* The fields of a line that are read have a number, and those of its fields that are not
\* read come after the last that can be.
LEMMA LineLength ==
  \A line \in Lines :
    /\ Len(FieldsOf(line)) \in Nat
    /\ \A i \in 1..Len(line) : i > FieldLimit \/ i \in 1..Len(FieldsOf(line))
<1> SUFFICES ASSUME NEW line \in Lines
             PROVE  /\ Len(FieldsOf(line)) \in Nat
                    /\ \A i \in 1..Len(line) : i > FieldLimit \/ i \in 1..Len(FieldsOf(line))
  OBVIOUS
<1>1. MaxFields \in Nat \ {0} /\ FieldLimit \in Nat \ {0}
  BY ApplicationLineAssumption, Zenon
<1>2. PICK n \in 1..MaxFields : line \in [1..n -> Kinds]
  BY DEF Lines
<1>3. n \in Nat /\ line \in Seq(Kinds)
  BY <1>1, <1>2
<1>4. CASE Len(line) > FieldLimit
  BY <1>1, <1>3, <1>4 DEF FieldsOf
<1>5. CASE Len(line) <= FieldLimit
  BY <1>1, <1>3, <1>5 DEF FieldsOf
<1>6. QED BY <1>1, <1>3, <1>4, <1>5

\* Whatever the codes and the flags, and however many fields are read and fit: each field of a
\* line is in the message, or its code says what it is, or it is a name of this computer that
\* gave way to the field with that code; or it comes after the fields that are read, or after
\* those that filled the message.
THEOREM FieldsAreKept == SettingsSpec => []NothingLost
<1>1. NothingLost
  BY LineLength, LineKept DEF NothingLost, parseMessage
<1>2. NothingLost'
  BY LineLength, LineKept DEF NothingLost, parseMessage
<1>3. QED BY <1>1, <1>2, PTL DEF SettingsSpec

\* Whatever the line, the codes and the flags, the priority of a message and the letter in its
\* brackets agree, unless the only status is a Win32 status.
THEOREM PriorityIsLetter == SettingsSpec => []SeverityAgrees
<1>1. SeverityAgrees
  BY LineLength, LineSeverity DEF SeverityAgrees, parseMessage
<1>2. SeverityAgrees'
  BY LineLength, LineSeverity DEF SeverityAgrees, parseMessage
<1>3. QED BY <1>1, <1>2, PTL DEF SettingsSpec

\* Whatever the line and the codes, the flags that the dialog suggests find in this line all
\* that is found with every flag set, unless the only status is a Win32 status.
THEOREM SuggestedFlagsFind == SettingsSpec => []SuggestionFits
<1>1. SuggestionFits
  BY LineLength, LineSuggestion DEF SuggestionFits
<1>2. SuggestionFits'
  BY LineLength, LineSuggestion DEF SuggestionFits
<1>3. QED BY <1>1, <1>2, PTL DEF SettingsSpec
-----------------------------------------------------------------------------
(* The settings of an application's log, written and read value by value.  *)

\* What a control or a value may hold. A new application has the extension "log".
AnyText == Texts \cup {Unset, "log"}

\* What OK writes of what was chosen.
Want(v) ==
  IF v = "format" \/ v \in Enabled(chosen.radio) THEN chosen.fields[v] ELSE Unset

Todo == Seq([value : Values, text : AnyText])

\* The agent reads.
Active == agent \notin {"off", "started"}

SettingsTypes ==
  /\ key \in [exists : BOOLEAN, values : [Values -> AnyText]]
  /\ stage \in {"closed", "open", "writing"}
  /\ radio \in 0..3 /\ fields \in [Values -> AnyText] /\ todo \in Todo
  /\ agent \in {"off", "found", "started"} \cup Values
  /\ got \in [Values -> AnyText]
  /\ chosen \in [radio : 0..3, fields : [Values -> AnyText]]
  /\ disturbed \in BOOLEAN
  /\ stage # "writing" => todo = << >>

\* The texts that were chosen are complete.
ChoiceComplete == \A v \in Required(chosen.radio) : chosen.fields[v] # Unset

\* What the administrator chose is in the key, or still to be written.
KeyFollows ==
  /\ \A i \in 1..Len(todo) : todo[i].text = Want(todo[i].value)
  /\ \A v \in Values :
       key.values[v] = Want(v) \/ \E i \in 1..Len(todo) : todo[i].value = v

\* What the agent has read of the source when it reads a value.
ReadBefore(v) ==
  CASE v = "ext"      -> {"path"}
    [] v = "rotate"   -> {"path", "ext"}
    [] v = "rotated"  -> {"path", "ext", "rotate"}
    [] v = "filename" -> {"path", "ext", "rotate"}
    [] OTHER          -> {}

\* What was read is what was chosen, and it was asked for by name: the rotated file if there
\* is one that rotates, else the single file.
AgentFollows ==
  /\ stage # "writing"
  /\ agent \in {"ext", "rotate", "rotated", "filename"} =>
       \A v \in ReadBefore(agent) : got[v] = Want(v)
  /\ agent = "rotated" => Want("rotate") # Unset
  /\ agent = "filename" => Want("rotate") = Unset
  /\ agent = "format" => SourceOf(got) = Choice

SettingsInv ==
  /\ SettingsTypes
  /\ chosen.radio # 0 => ChoiceComplete
  /\ chosen.radio # 0 /\ ~disturbed => KeyFollows /\ (Active => AgentFollows)

\* The types are kept.
LEMMA TypesStep == SettingsTypes /\ [SettingsNext]_settingsVars => SettingsTypes'
<1> SUFFICES ASSUME SettingsTypes, [SettingsNext]_settingsVars PROVE SettingsTypes'
  OBVIOUS
<1> USE DEF SettingsTypes, AnyText, Todo
<1>1. CASE OpenNew
  <2>1. fields' \in [Values -> AnyText]
    BY <1>1 DEF OpenNew, NoText
  <2>2. QED BY <1>1, <2>1 DEF OpenNew, reader
<1>2. CASE OpenEdit
  <2>1. fields' \in [Values -> AnyText] /\ radio' \in 0..3
    BY <1>2 DEF OpenEdit, Empty
  <2>2. QED BY <1>2, <2>1 DEF OpenEdit, reader
<1>3. CASE OnBnClickedOk
  <2> DEFINE order == Order(radio)
  <2>1. \A r \in 0..3 : DOMAIN Order(r) = 1..6
                       /\ \A i \in 1..6 : Order(r)[i] \in Values
    BY DEF Order, Values, Source
  <2>2. \A v \in Values : Written(radio, v) \in AnyText
    BY DEF Written
  <2>3. \A i \in 1..6 : order[i] \in Values /\ Written(radio, order[i]) \in AnyText
    BY <2>1, <2>2
  <2>4. todo' = [i \in 1..6 |-> [value |-> order[i], text |-> Written(radio, order[i])]]
    BY <1>3, <2>1 DEF OnBnClickedOk
  <2> HIDE DEF order
  <2>5. todo' \in Todo
    BY <2>3, <2>4
  <2>6. QED BY <1>3, <2>5 DEF OnBnClickedOk, reader
<1>4. CASE Write
  <2>1. /\ Head(todo) \in [value : Values, text : AnyText]
        /\ Tail(todo) \in Todo
    BY <1>4, HeadTailProperties DEF Write
  <2>2. key' \in [exists : BOOLEAN, values : [Values -> AnyText]]
    BY <1>4, <2>1 DEF Write
  <2>3. QED BY <1>4, <2>1, <2>2 DEF Write, reader
<1>5. CASE Close
  BY <1>5 DEF Close, NoText, reader
<1>6. CASE RemoveAppl
  BY <1>6 DEF RemoveAppl, NoText, Nothing, dialog, reader
<1>7. ASSUME NEW r \in 1..3, ClickRadio(r) PROVE SettingsTypes'
  BY <1>7 DEF ClickRadio, Empty, reader
<1>8. ASSUME NEW v \in Values, NEW t \in Texts, Enter(v, t) PROVE SettingsTypes'
  BY <1>8 DEF Enter, reader
<1>9. CASE StartAgent
  BY <1>9 DEF StartAgent, NoText, dialog
<1>10. CASE GoTo
  BY <1>10 DEF GoTo, Values, Source, dialog
<1>11. CASE Read
  <2>1. Following(agent, key.values[agent]) \in {"started"} \cup Values
    BY <1>11 DEF Read, Following, Values, Source
  <2>2. QED BY <1>11, <2>1 DEF Read, dialog
<1>12. CASE Stop
  BY <1>12 DEF Stop, NoText, dialog
<1>13. CASE UNCHANGED settingsVars
  BY <1>13 DEF settingsVars, dialog, reader
<1>14. QED
  BY <1>1, <1>2, <1>3, <1>4, <1>5, <1>6, <1>7, <1>8, <1>9, <1>10, <1>11, <1>12, <1>13
     DEF SettingsNext

\* OK leaves everything to be written.
LEMMA OkFollows ==
  ASSUME SettingsTypes, OnBnClickedOk
  PROVE  (chosen.radio # 0 => ChoiceComplete /\ KeyFollows)'
<1> SUFFICES ASSUME radio # 0 PROVE ChoiceComplete' /\ KeyFollows'
  BY DEF OnBnClickedOk
<1> DEFINE order == Order(radio)
<1>1. radio \in 1..3 /\ chosen' = [radio |-> radio, fields |-> fields]
  BY DEF OnBnClickedOk, SettingsTypes
<1>2. ChoiceComplete'
  BY <1>1 DEF OnBnClickedOk, ChoiceComplete
<1>3. DOMAIN order = 1..6 /\ \A v \in Values : \E i \in 1..6 : order[i] = v
  BY <1>1 DEF Order, Values, Source
<1>4. \A v : Written(radio, v) = Want(v)'
  BY <1>1 DEF Written, Want
<1>5. todo' = [i \in 1..6 |-> [value |-> order[i], text |-> Written(radio, order[i])]]
  BY <1>3 DEF OnBnClickedOk
<1> HIDE DEF order
<1>6. Len(todo') = 6
  BY <1>5
<1>7. \A i \in 1..6 : /\ todo'[i].value = order[i]
                     /\ todo'[i].text = Written(radio, todo'[i].value)
  BY <1>5
<1>8. KeyFollows'
  BY <1>3, <1>4, <1>6, <1>7 DEF KeyFollows
<1>9. QED BY <1>2, <1>8

\* A write that succeeds brings a value of the key up to date.
LEMMA WriteFollows ==
  ASSUME SettingsTypes, KeyFollows, Write, ~disturbed'
  PROVE  KeyFollows'
<1> DEFINE v == Head(todo).value
<1>1. /\ todo # << >> /\ todo' = Tail(todo) /\ UNCHANGED chosen
      /\ key' = [key EXCEPT !.values[v] = Head(todo).text]
  BY DEF Write
<1>2. /\ Len(todo) > 0 /\ Head(todo) = todo[1]
      /\ Len(todo') = Len(todo) - 1
      /\ \A i \in 1..Len(todo') : todo'[i] = todo[i + 1]
  BY <1>1, HeadTailProperties DEF SettingsTypes, Todo
<1>3. v \in Values /\ Head(todo).text = Want(v)
  <2>1. Head(todo) \in [value : Values, text : AnyText]
    BY <1>1, HeadTailProperties DEF SettingsTypes, Todo
  <2>2. 1 \in 1..Len(todo)
    BY <1>2 DEF SettingsTypes, Todo
  <2>3. todo[1].text = Want(todo[1].value)
    BY <2>2 DEF KeyFollows
  <2>4. QED BY <1>2, <2>1, <2>3
<1>4. \A w \in Values : key'.values[w] = IF w = v THEN Want(v) ELSE key.values[w]
  BY <1>1, <1>3 DEF SettingsTypes
<1>5. \A w : Want(w)' = Want(w)
  BY <1>1 DEF Want
<1>6. \A i \in 1..Len(todo') : todo'[i].text = Want(todo'[i].value)
  BY <1>2 DEF KeyFollows, SettingsTypes
<1>7. ASSUME NEW w \in Values, w # v, key.values[w] # Want(w)
      PROVE  \E i \in 1..Len(todo') : todo'[i].value = w
  <2>1. PICK j \in 1..Len(todo) : todo[j].value = w
    BY <1>7 DEF KeyFollows
  <2>2. j # 1 /\ j - 1 \in 1..Len(todo') /\ todo'[j - 1] = todo[j]
    BY <1>2, <1>7, <2>1
  <2>3. QED BY <2>1, <2>2
<1>8. QED BY <1>4, <1>5, <1>6, <1>7 DEF KeyFollows

\* Nothing else changes what is to be written.
LEMMA KeyKept ==
  ASSUME KeyFollows, UNCHANGED <<todo, chosen>>, key'.values = key.values
  PROVE  KeyFollows'
BY DEF KeyFollows, Want

\* Once all is written the key holds what was chosen, and that leaves one source.
LEMMA KeyIsRight ==
  ASSUME SettingsTypes, KeyFollows, stage # "writing"
  PROVE  \A v \in Values : key.values[v] = Want(v)
BY DEF SettingsTypes, KeyFollows

\* ... which is the one that AppWatch takes.
LEMMA SourceIsChoice ==
  ASSUME SettingsTypes, ChoiceComplete, chosen.radio # 0,
         NEW g \in [Values -> AnyText],
         \A v \in {"path", "ext", "rotate"} : g[v] = Want(v),
         IF Want("rotate") # Unset THEN g["rotated"] = Want("rotated")
                                ELSE g["filename"] = Want("filename")
  PROVE  SourceOf(g) = Choice
<1>1. CASE chosen.radio = 1
  <2>1. Want("rotate") = Unset /\ Want("filename") = Unset
    BY <1>1 DEF Want, Enabled
  <2>2. Want("path") = chosen.fields["path"] /\ Want("ext") = chosen.fields["ext"]
    BY <1>1 DEF Want, Enabled
  <2>3. QED BY <1>1, <2>1, <2>2 DEF SourceOf, Choice
<1>2. CASE chosen.radio = 2
  <2>1. Want("rotate") = Unset /\ Want("filename") = chosen.fields["filename"]
    BY <1>2 DEF Want, Enabled
  <2>2. chosen.fields["filename"] # Unset
    BY <1>2 DEF ChoiceComplete, Required
  <2>3. QED BY <1>2, <2>1, <2>2 DEF SourceOf, Choice
<1>3. CASE chosen.radio = 3
  <2>1. /\ Want("rotate") = chosen.fields["rotate"]
        /\ Want("rotated") = chosen.fields["rotated"]
    BY <1>3 DEF Want, Enabled
  <2>2. chosen.fields["rotate"] # Unset
    BY <1>3 DEF ChoiceComplete, Required
  <2>3. QED BY <1>3, <2>1, <2>2 DEF SourceOf, Choice
<1>4. QED BY <1>1, <1>2, <1>3 DEF SettingsTypes

\* Each read takes what was chosen.
LEMMA ReadFollows ==
  ASSUME SettingsTypes, ChoiceComplete, chosen.radio # 0, KeyFollows, AgentFollows, Read
  PROVE  (Active => AgentFollows)'
<1> DEFINE v == agent
<1>1. /\ v \in Values /\ got' = [got EXCEPT ![v] = key.values[v]]
      /\ agent' = Following(v, key.values[v]) /\ UNCHANGED <<stage, chosen>>
  BY DEF Read, dialog
<1>2. key.values[v] = Want(v)
  BY <1>1, KeyIsRight DEF AgentFollows
<1>3. \A w \in Values : got'[w] = IF w = v THEN Want(w) ELSE got[w]
  BY <1>1, <1>2 DEF SettingsTypes
<1>4. /\ \A w : Want(w)' = Want(w)
      /\ Choice' = Choice
  BY <1>1 DEF Want, Choice
<1>5. got' \in [Values -> AnyText]
  BY TypesStep DEF SettingsTypes, SettingsNext
<1> USE DEF Values, Source
<1>6. CASE v = "path"
  BY <1>1, <1>3, <1>4, <1>6 DEF Following, AgentFollows, ReadBefore
<1>7. CASE v = "ext"
  BY <1>1, <1>3, <1>4, <1>7 DEF Following, AgentFollows, ReadBefore
<1>8. CASE v = "rotate"
  BY <1>1, <1>2, <1>3, <1>4, <1>8 DEF Following, AgentFollows, ReadBefore
<1>9. CASE v \in {"rotated", "filename"}
  <2>1. agent' = "format"
    BY <1>1, <1>9 DEF Following
  <2>2. \A w \in {"path", "ext", "rotate"} : got'[w] = Want(w)
    BY <1>3, <1>9 DEF AgentFollows, ReadBefore
  <2>3. IF Want("rotate") # Unset THEN got'["rotated"] = Want("rotated")
                               ELSE got'["filename"] = Want("filename")
    BY <1>3, <1>9 DEF AgentFollows
  <2>4. SourceOf(got') = Choice
    BY <1>5, <2>2, <2>3, SourceIsChoice
  <2>5. QED BY <1>1, <1>4, <2>1, <2>4 DEF AgentFollows, SourceOf
<1>10. CASE v = "format"
  BY <1>1, <1>10 DEF Following, Active
<1>11. QED BY <1>1, <1>6, <1>7, <1>8, <1>9, <1>10

\* Every step keeps the invariant.
LEMMA SettingsStep == SettingsInv /\ [SettingsNext]_settingsVars => SettingsInv'
<1> SUFFICES ASSUME SettingsInv, [SettingsNext]_settingsVars PROVE SettingsInv'
  OBVIOUS
<1>t. SettingsTypes /\ SettingsTypes'
  BY TypesStep DEF SettingsInv
<1> DEFINE Follow == KeyFollows /\ (Active => AgentFollows)
           Goal   == /\ chosen.radio # 0 => ChoiceComplete
                     /\ chosen.radio # 0 /\ ~disturbed => Follow
<1>g. Goal
  BY DEF SettingsInv
<1>s. SUFFICES Goal'
  BY <1>t DEF SettingsInv
\* The steps that change neither the key nor what the agent has read.
<1>k. ASSUME UNCHANGED <<todo, chosen>>, key'.values = key.values,
             ~disturbed' => ~disturbed /\ ((Active => AgentFollows) => (Active => AgentFollows)')
      PROVE  Goal'
  <2>1. chosen'.radio = chosen.radio /\ (ChoiceComplete => ChoiceComplete')
    BY <1>k DEF ChoiceComplete
  <2>2. ASSUME chosen'.radio # 0, ~disturbed' PROVE Follow'
    BY <1>g, <1>k, <2>1, <2>2, KeyKept
  <2>3. QED BY <1>g, <2>1, <2>2
<1>a. ASSUME UNCHANGED <<agent, got, chosen>>, stage' # "writing"
      PROVE  (Active => AgentFollows) => (Active => AgentFollows)'
  BY <1>a DEF Active, AgentFollows, Want, SourceOf, Choice
<1>1. CASE OpenNew
  BY <1>1, <1>k, <1>a DEF OpenNew, reader
<1>2. CASE OpenEdit
  BY <1>2, <1>k, <1>a DEF OpenEdit, reader
<1>3. CASE OnBnClickedOk
  <2>1. (chosen.radio # 0 => ChoiceComplete /\ KeyFollows)'
    BY <1>t, <1>3, OkFollows
  <2>2. ~disturbed' => ~Active'
    BY <1>3 DEF OnBnClickedOk, reader, Active
  <2>3. QED BY <2>1, <2>2
<1>4. CASE Write
  <2>1. /\ UNCHANGED <<chosen, agent, got>>
        /\ ~disturbed' => ~disturbed /\ ~Active
    BY <1>4 DEF Write, reader, Active
  <2>2. chosen'.radio = chosen.radio /\ (ChoiceComplete => ChoiceComplete')
    BY <2>1 DEF ChoiceComplete
  <2>3. ASSUME chosen'.radio # 0, ~disturbed' PROVE Follow'
    <3>1. KeyFollows'
      BY <1>g, <1>t, <1>4, <2>1, <2>3, WriteFollows
    <3>2. ~Active'
      BY <2>1, <2>3 DEF Active
    <3>3. QED BY <3>1, <3>2
  <2>4. QED BY <1>g, <2>2, <2>3
<1>5. CASE Close
  BY <1>5, <1>k, <1>a DEF Close, reader
<1>6. CASE RemoveAppl
  BY <1>6 DEF RemoveAppl, Nothing
<1>7. ASSUME NEW r \in 1..3, ClickRadio(r) PROVE Goal'
  BY <1>7, <1>k, <1>a DEF ClickRadio, reader
<1>8. ASSUME NEW v \in Values, NEW t \in Texts, Enter(v, t) PROVE Goal'
  BY <1>8, <1>k, <1>a DEF Enter, reader
<1>9. CASE StartAgent
  <2>1. ~disturbed' => stage' # "writing" /\ agent' = "found"
    BY <1>9 DEF StartAgent, dialog
  <2>2. ~disturbed' => AgentFollows'
    BY <2>1 DEF AgentFollows
  <2>3. /\ UNCHANGED <<todo, chosen>> /\ key'.values = key.values
        /\ ~disturbed' => ~disturbed
    BY <1>9, <1>t DEF StartAgent, dialog, SettingsTypes
  <2>4. QED BY <1>k, <2>2, <2>3
<1>10. CASE GoTo
  <2>1. agent = "found" /\ agent' = "path" /\ stage' = stage
    BY <1>10 DEF GoTo, dialog
  <2>2. (Active => AgentFollows) => AgentFollows'
    BY <2>1 DEF AgentFollows, Active
  <2>3. key'.values = key.values
    BY <1>10, <1>t DEF GoTo, SettingsTypes
  <2>4. QED BY <1>10, <1>k, <2>2, <2>3 DEF GoTo, dialog
<1>11. CASE Read
  <2>1. Active /\ UNCHANGED <<chosen, key, todo, disturbed>>
    BY <1>11 DEF Read, dialog, Active, Values, Source
  <2>2. chosen'.radio = chosen.radio /\ (ChoiceComplete => ChoiceComplete')
    BY <2>1 DEF ChoiceComplete
  <2>3. ASSUME chosen'.radio # 0, ~disturbed' PROVE Follow'
    BY <1>g, <1>t, <1>11, <2>1, <2>3, KeyKept, ReadFollows
  <2>4. QED BY <1>g, <2>2, <2>3
<1>12. CASE Stop
  <2>1. ~Active'
    BY <1>12 DEF Stop, Active
  <2>2. QED BY <1>12, <1>k, <2>1 DEF Stop, dialog
<1>13. CASE UNCHANGED settingsVars
  <2>1. (Active => AgentFollows) => (Active => AgentFollows)'
    BY <1>13 DEF settingsVars, dialog, reader, Active, AgentFollows, Want, SourceOf,
                 Choice
  <2>2. QED BY <1>13, <1>k, <2>1 DEF settingsVars, dialog, reader
<1>14. QED
  BY <1>1, <1>2, <1>3, <1>4, <1>5, <1>6, <1>7, <1>8, <1>9, <1>10, <1>11, <1>12, <1>13
     DEF SettingsNext

\* Whatever way to find the log was set before, and in whatever order its values were
\* written over the old ones, the agent that starts follows the source chosen last, unless a
\* write failed or came between its reads: each OK writes all six values.
THEOREM LastChoiceFollowed == SettingsSpec => SourceAgrees
<1>1. SettingsInit => SettingsInv
  <2> SUFFICES ASSUME SettingsInit PROVE SettingsInv
    OBVIOUS
  <2>1. chosen.radio = 0
    BY DEF SettingsInit, Nothing
  <2>2. << >> \in Todo
    BY DEF Todo
  <2>3. NoText \in [Values -> AnyText]
    BY DEF NoText, AnyText
  <2>4. /\ key \in [exists : BOOLEAN, values : [Values -> AnyText]]
        /\ chosen \in [radio : 0..3, fields : [Values -> AnyText]]
        /\ fields \in [Values -> AnyText] /\ got \in [Values -> AnyText]
        /\ todo \in Todo
    BY <2>2, <2>3 DEF SettingsInit, Nothing
  <2>5. /\ stage = "closed" /\ radio = 0 /\ todo = << >> /\ agent = "off"
        /\ disturbed \in BOOLEAN
    BY DEF SettingsInit
  <2>6. SettingsTypes
    BY <2>4, <2>5 DEF SettingsTypes
  <2>7. QED BY <2>1, <2>6 DEF SettingsInv
<1>2. ASSUME SettingsInv, [SettingsNext]_settingsVars, agent = "format", agent' = "started",
             ~disturbed, chosen.radio # 0
      PROVE  SourceOf(got') = Choice /\ got'["format"] = chosen.fields["format"]
  <2>1. Read
    BY <1>2 DEF SettingsNext, settingsVars, dialog, reader, OpenNew, OpenEdit,
                OnBnClickedOk, Write, Close,
                RemoveAppl, ClickRadio, Enter, StartAgent, GoTo, Stop
  <2>2. /\ SettingsTypes /\ KeyFollows
        /\ stage # "writing" /\ SourceOf(got) = Choice
    BY <1>2 DEF SettingsInv, Active, AgentFollows
  <2>3. \A v \in Values : got'[v] = IF v = "format" THEN key.values[v] ELSE got[v]
    BY <1>2, <2>1, <2>2 DEF Read, SettingsTypes
  <2>4. key.values["format"] = chosen.fields["format"]
    BY <2>2, KeyIsRight DEF Want, Values
  <2>5. SourceOf(got') = SourceOf(got)
    BY <2>3 DEF SourceOf, Values, Source
  <2>6. QED BY <2>2, <2>3, <2>4, <2>5 DEF Values
<1>3. QED BY <1>1, <1>2, SettingsStep, PTL DEF SettingsSpec, SourceAgrees
=============================================================================
