---------------------------- MODULE EventDelivery ----------------------------
(***************************************************************************)
(* What SyslogAgent promises about the Windows event log, without saying   *)
(* how: every record the administrator asked for is handed to the syslog   *)
(* server before the time up to which the registry claims to be done moves *)
(* past it, and a record below that time is never handed over again.       *)
(*                                                                         *)
(* A record that the agent knows it walked away from (see Forwarding) is   *)
(* forfeited: the promise is about the others.                             *)
(***************************************************************************)
EXTENDS Naturals, Sequences, FiniteSets

CONSTANTS
  Logs,       \* the event logs, by position in the agent's list
  Captured,   \* the logs whose captureFlags are not EVENTLOG_NO_FLAGS
  Times,      \* the seconds the clock can show
  Install     \* the registry's LastRun when the agent is first started

VARIABLES
  evlog,      \* [Logs -> Seq(Record)]: what Windows has written
  committed,  \* registry value LastRun: every second before it is done
  since,      \* the first non-zero LastRun: older records were never asked for
  delivered,  \* the records handed to the syslog server
  forfeited   \* the records the agent walked away from

vars == <<evlog, committed, since, delivered, forfeited>>

Record == [time : Times, ok : BOOLEAN]

\* A record is named by its log and its record number.
At(e) == evlog[e[1]][e[2]]

\* The records that the agent's settings select and that are not older than
\* the agent itself.
Promised(e) == e[1] \in Captured /\ At(e).ok /\ At(e).time >= since

Written == UNION {{<<l, i>> : i \in 1..Len(evlog[l])} : l \in Logs}

Init ==
  /\ evlog \in [Logs -> Seq(Record)]
  /\ committed = Install
  /\ since = Install
  /\ delivered = {}
  /\ forfeited = {}

\* Windows appends a record; its time is never one that is already done.
Write ==
  \E l \in Logs, r \in Record :
    /\ r.time >= committed
    /\ evlog' = [evlog EXCEPT ![l] = Append(@, r)]
    /\ UNCHANGED <<committed, since, delivered, forfeited>>

\* A record is handed over, for the first time or again after a restart, but
\* only while its second is not done.
Deliver ==
  \E e \in Written :
    /\ Promised(e)
    /\ At(e).time >= committed
    /\ delivered' = delivered \cup {e}
    /\ UNCHANGED <<evlog, committed, since, forfeited>>

Forfeit ==
  \E S \in SUBSET Written :
    /\ forfeited' = forfeited \cup S
    /\ UNCHANGED <<evlog, committed, since, delivered>>

\* LastRun moves forward over records that are all handed over. The first
\* commit of a new installation starts the promise instead.
Commit ==
  \E t \in Times :
    /\ t >= committed
    /\ \/ /\ committed = 0
          /\ since' = t
       \/ /\ committed > 0
          /\ \A e \in Written :
               Promised(e) /\ At(e).time < t => e \in delivered \cup forfeited
          /\ UNCHANGED since
    /\ committed' = t
    /\ UNCHANGED <<evlog, delivered, forfeited>>

Next == Write \/ Deliver \/ Forfeit \/ Commit

Spec == Init /\ [][Next]_vars
=============================================================================
