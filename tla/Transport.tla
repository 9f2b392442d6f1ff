------------------------------- MODULE Transport -------------------------------
(***************************************************************************)
(* The output thread on its way to the network (output.cpp): for each      *)
(* message ReadyToSendMessage makes a connection if it thinks there is     *)
(* none, TransmitMessage gives the message to the primary server's socket  *)
(* and to the mirror's, and a failure of either sends it round again.      *)
(*                                                                         *)
(* Winsock counts WSAStartup and WSACleanup; when the count reaches zero   *)
(* every open socket is gone, but the variables still hold its handle.     *)
(***************************************************************************)
EXTENDS Naturals

CONSTANTS
  Modes,         \* the deliveries looked at: "udp", "ping" (udp after a ping), "tcp"
  Messages,      \* bound on the number of messages
  Outages,       \* bound on the number of network failures
  PingInterval,  \* how long a successful ping counts (20 s in the code)
  Minute,        \* where CTimeSpan::GetSeconds wraps (60 s)
  Startups       \* bound on Winsock's count, which a failing mirror raises for ever

ASSUME TransportAssumption ==
  /\ Modes \subseteq {"udp", "ping", "tcp"}
  /\ Messages \in Nat /\ Outages \in Nat
  /\ PingInterval \in Nat /\ Minute \in Nat /\ PingInterval < Minute
  /\ Startups \in Nat \ {0}

VARIABLES
  mode,         \* how messages are delivered, read from the registry once
  mirror,       \* whether a mirror server is configured, likewise
  up,           \* the network and the primary server can be reached
  mirrorUp,     \* the mirror server can be reached
  outages,      \* how often one of them failed
  halting,      \* service_halting()
  age,          \* seconds since LastSuccPing
  winsock,      \* WSAStartup calls less WSACleanup calls
  sock,         \* socket of the primary: "none" (0), "open" or "stale"
  backupsock,   \* socket of the mirror
  lastOK,       \* LastTransmitOK
  pc,           \* where the output thread is
  removed,      \* how many messages left the queue
  handed,       \* history: how many were given to the primary's socket
  repeated      \* history: one of them was given to it twice

settings == <<mode, mirror>>
network  == <<settings, up, mirrorUp, outages>>
sockets  == <<winsock, sock, backupsock>>
messages == <<removed, handed, repeated>>
vars     == <<network, halting, age, sockets, lastOK, pc, messages>>

\* At first LastSuccPing is 1970 and the age is any old one.
Init ==
  /\ mode \in Modes /\ mirror \in BOOLEAN
  /\ up \in BOOLEAN /\ mirrorUp \in BOOLEAN
  /\ outages = 0
  /\ halting = FALSE
  /\ age \in Minute..(2 * Minute - 1)
  /\ winsock = 1
  /\ sock = "none" /\ backupsock = "none"
  /\ lastOK = TRUE
  /\ pc = "idle"
  /\ removed = 0 /\ handed = 0 /\ repeated = FALSE
-----------------------------------------------------------------------------
(* The environment.                                                        *)

\* Ages of more than a minute that show the same seconds are one age. Without
\* pings nobody asks for it.
Tick ==
  /\ mode = "ping"
  /\ age' = IF age = 2 * Minute - 1 THEN Minute ELSE age + 1
  /\ UNCHANGED <<network, halting, sockets, lastOK, pc, messages>>

Outage ==
  /\ outages < Outages
  /\ outages' = outages + 1
  /\ \/ up /\ up' = FALSE /\ UNCHANGED mirrorUp
     \/ mirrorUp /\ mirrorUp' = FALSE /\ UNCHANGED up
  /\ UNCHANGED <<settings, halting, age, sockets, lastOK, pc, messages>>

Repair ==
  /\ ~(up /\ mirrorUp)
  /\ up' = TRUE /\ mirrorUp' = TRUE
  /\ UNCHANGED <<settings, outages, halting, age, sockets, lastOK, pc, messages>>

RequestStop ==
  /\ ~halting
  /\ halting' = TRUE
  /\ UNCHANGED <<network, age, sockets, lastOK, pc, messages>>
-----------------------------------------------------------------------------
(* Winsock                                                                 *)

AfterCleanup(s) == IF s = "none" \/ winsock > 1 THEN s ELSE "stale"

\* WSACleanup; one too many fails, which is not noticed.
WSACleanup ==
  /\ winsock' = IF winsock > 0 THEN winsock - 1 ELSE 0
  /\ sock' = AfterCleanup(sock)
  /\ backupsock' = AfterCleanup(backupsock)

\* Mutant of CloseAndCleanup: the handles are kept.
CleanupOnly == WSACleanup

\* closeTCPconnection and WSACleanup.
CloseAndCleanup ==
  /\ winsock' = IF winsock > 0 THEN winsock - 1 ELSE 0
  /\ sock' = "none" /\ backupsock' = "none"

closeTCPconnection ==
  sock' = "none" /\ backupsock' = "none" /\ UNCHANGED winsock
-----------------------------------------------------------------------------
(* ReadyToSendMessage                                                      *)

\* The first message of the queue is taken, but not removed.
Take ==
  /\ pc = "idle"
  /\ removed < Messages
  /\ pc' = "startup"
  /\ UNCHANGED <<network, halting, age, sockets, lastOK, messages>>

\* Mutant of Startup: LastTransmitOK is not looked at.
StartupAlways ==
  /\ pc = "startup"
  /\ lastOK \/ winsock < Startups
  /\ winsock' = winsock + 1
  /\ pc' = "check"
  /\ UNCHANGED <<network, halting, age, sock, backupsock, lastOK, messages>>

Startup ==
  /\ pc = "startup"
  /\ lastOK \/ winsock < Startups
  /\ winsock' = IF lastOK THEN winsock ELSE winsock + 1
  /\ pc' = "check"
  /\ UNCHANGED <<network, halting, age, sock, backupsock, lastOK, messages>>

Connected == IF sock = "none" THEN "connect" ELSE "send"

\* foo.GetSeconds() is the seconds of the time span's minutes and seconds.
PingRecent == age % Minute <= PingInterval

\* Mutant of CheckSocket: the socket is not looked at.
CheckNothing ==
  /\ pc = "check"
  /\ mode \in {"udp", "tcp"}
  /\ pc' = "send"
  /\ UNCHANGED <<network, halting, age, sockets, lastOK, messages>>

CheckSocket ==
  /\ pc = "check"
  /\ mode \in {"udp", "tcp"}
  /\ pc' = Connected
  /\ UNCHANGED <<network, halting, age, sockets, lastOK, messages>>

CheckPing ==
  /\ pc = "check"
  /\ mode = "ping"
  /\ ~PingRecent
  /\ IF up THEN age' = 0 /\ pc' = Connected
           ELSE UNCHANGED age /\ pc' = "down"
  /\ UNCHANGED <<network, halting, sockets, lastOK, messages>>

\* With a recent ping the socket is not looked at.
SkipPing ==
  /\ pc = "check"
  /\ mode = "ping"
  /\ PingRecent
  /\ pc' = "send"
  /\ UNCHANGED <<network, halting, age, sockets, lastOK, messages>>
-----------------------------------------------------------------------------
(* initNetworkSettings                                                     *)

\* Connecting a datagram socket always succeeds; a stream socket needs an
\* answer within NetworkTimeout.
ConnectPrimary ==
  /\ pc = "connect"
  /\ mode = "tcp" => up
  /\ sock' = "open"
  /\ pc' = IF mirror THEN "mirror" ELSE "send"
  /\ UNCHANGED <<network, halting, age, winsock, backupsock, lastOK, messages>>

ConnectFails ==
  /\ pc = "connect"
  /\ mode = "tcp" /\ ~up
  /\ CloseAndCleanup
  /\ pc' = "down"
  /\ UNCHANGED <<network, halting, age, lastOK, messages>>

\* A mirror that cannot be reached is done without.
ConnectMirror ==
  /\ pc = "mirror"
  /\ ~halting
  /\ backupsock' = IF mode = "tcp" /\ ~mirrorUp THEN "none" ELSE "open"
  /\ pc' = "send"
  /\ UNCHANGED <<network, halting, age, winsock, sock, lastOK, messages>>

HaltAtMirror ==
  /\ pc = "mirror"
  /\ halting
  /\ pc' = "down"
  /\ UNCHANGED <<network, halting, age, sockets, lastOK, messages>>
-----------------------------------------------------------------------------
(* TransmitMessage                                                         *)

\* A datagram is gone whether or not somebody listens. WSAEWOULDBLOCK is a
\* step that does not happen yet.
SendPrimary ==
  /\ pc = "send"
  /\ sock = "open"
  /\ handed' = removed + 1
  /\ repeated' = (repeated \/ handed > removed)
  /\ pc' = IF backupsock = "none" THEN "sent" ELSE "sendmirror"
  /\ UNCHANGED <<network, halting, age, sockets, lastOK, removed>>

\* Mutant of SendTimesOut: the message is taken for sent.
TimeoutIsSent ==
  /\ pc = "send"
  /\ sock = "open" /\ ~up /\ mode = "tcp"
  /\ closeTCPconnection
  /\ pc' = "sent"
  /\ UNCHANGED <<network, halting, age, lastOK, messages>>

\* WSAETIMEDOUT: the connection is closed and the message tried again.
SendTimesOut ==
  /\ pc = "send"
  /\ sock = "open" /\ ~up /\ mode = "tcp"
  /\ closeTCPconnection
  /\ pc' = "startup"
  /\ UNCHANGED <<network, halting, age, lastOK, messages>>

SendFails ==
  /\ pc = "send"
  /\ sock # "open" \/ ~up
  /\ CloseAndCleanup
  /\ lastOK' = FALSE
  /\ pc' = "startup"
  /\ UNCHANGED <<network, halting, age, messages>>

SendMirror ==
  /\ pc = "sendmirror"
  /\ backupsock = "open"
  /\ pc' = "sent"
  /\ UNCHANGED <<network, halting, age, sockets, lastOK, messages>>

\* Both connections are closed, and the message goes to the primary once more.
SendMirrorFails ==
  /\ pc = "sendmirror"
  /\ backupsock # "open" \/ ~mirrorUp
  /\ closeTCPconnection
  /\ pc' = "startup"
  /\ UNCHANGED <<network, halting, age, lastOK, messages>>
-----------------------------------------------------------------------------
(* outputMain                                                              *)

Remove ==
  /\ pc = "sent"
  /\ lastOK' = TRUE
  /\ removed' = removed + 1
  /\ pc' = "idle"
  /\ UNCHANGED <<network, halting, age, sockets, handed, repeated>>

\* Not ready: Winsock is cleaned up and the thread slumbers.
Slumber ==
  /\ pc = "down"
  /\ lastOK' = FALSE
  /\ WSACleanup
  /\ pc' = IF halting THEN "gone" ELSE "startup"
  /\ UNCHANGED <<network, halting, age, messages>>

\* Nothing was sent for TCPResetPeriod; how long that is does not matter here.
CloseIdle ==
  /\ pc = "idle"
  /\ mode = "tcp" /\ sock # "none"
  /\ closeTCPconnection
  /\ UNCHANGED <<network, halting, age, lastOK, pc, messages>>

Quit ==
  /\ pc = "idle"
  /\ halting
  /\ removed = Messages
  /\ pc' = "gone"
  /\ UNCHANGED <<network, halting, age, sockets, lastOK, messages>>
-----------------------------------------------------------------------------
Environment == Tick \/ Outage \/ Repair \/ RequestStop

ReadyToSendMessage == \/ Take \/ Startup \/ CheckSocket \/ CheckPing \/ SkipPing
                      \/ ConnectPrimary \/ ConnectFails
                      \/ ConnectMirror \/ HaltAtMirror

TransmitMessage == \/ SendPrimary \/ SendTimesOut \/ SendFails
                   \/ SendMirror \/ SendMirrorFails

OutputThread == \/ ReadyToSendMessage \/ TransmitMessage
                \/ Remove \/ Slumber \/ CloseIdle \/ Quit

Next == Environment \/ OutputThread

Spec == Init /\ [][Next]_vars

\* The thread runs, and what failed is repaired in the end.
Fairness == WF_vars(Repair) /\ WF_vars(OutputThread)

FairSpec == Spec /\ Fairness
-----------------------------------------------------------------------------
Places == {"idle", "startup", "check", "connect", "mirror", "send", "sendmirror",
           "sent", "down", "gone"}

\* Every variable has its type.
TypeOK ==
  /\ mode \in Modes /\ mirror \in BOOLEAN
  /\ up \in BOOLEAN /\ mirrorUp \in BOOLEAN /\ outages \in 0..Outages
  /\ halting \in BOOLEAN
  /\ age \in 0..(2 * Minute - 1)
  /\ winsock \in Nat
  /\ sock \in {"none", "open", "stale"} /\ backupsock \in {"none", "open", "stale"}
  /\ lastOK \in BOOLEAN
  /\ pc \in Places
  /\ removed \in Nat /\ handed \in Nat /\ repeated \in BOOLEAN

\* Winsock is started whenever a socket is made or used, whatever sequence of
\* failures came before (initNetworkSettings, TransmitMessage and outputMain
\* each call WSACleanup, only ReadyToSendMessage calls WSAStartup).
WinsockUp ==
  pc \in {"check", "connect", "mirror", "send", "sendmirror", "sent"} => winsock > 0

\* Winsock's count leaks at most one for each network failure, with tcp or
\* without a mirror (SendTimesOut and SendMirrorFails go back to WSAStartup
\* without a WSACleanup while LastTransmitOK is FALSE).
LeakNeedsOutage == mode = "tcp" \/ ~mirror => winsock <= 1 + outages

\* No handle is kept of a socket that Winsock has closed, unless a ping is all
\* that ReadyToSendMessage looks at.
NoStaleSocket ==
  mode # "ping" /\ pc \notin {"down", "gone"} => sock # "stale" /\ backupsock # "stale"

\* Without pings there is a connection to send on whenever a message is sent.
SendsConnected == mode # "ping" /\ pc = "send" => sock = "open"

\* "true - ready" (ReadyToSendMessage): there is a connection to send on. The code
\* does not keep this: with pings, handle 0 is used after a failure.
ReadyIsConnected == pc = "send" => sock = "open"

\* "If succ ping recent - ready" (ReadyToSendMessage). The code does not keep this.
ReadyIsPinged ==
  [][pc = "check" /\ pc' = "send" /\ mode = "ping" => age' <= PingInterval]_vars

\* Every message gets through in the end, unless the service stops: with tcp,
\* and with udp to one server (with a second one the bound on Winsock's count,
\* and with pings the bound on the age, would stop the model).
EveryMessageSent ==
  \A n \in 1..Messages :
    (mode \in {"tcp", "udp"} /\ (mode = "udp" => ~mirror) /\ removed < n)
      ~> (removed >= n \/ halting)
-----------------------------------------------------------------------------
\* The promise: in order, at least once; without a mirror, exactly once.
Promise == INSTANCE Courier WITH once <- ~mirror
KeepsPromise == Promise!Spec
=============================================================================
