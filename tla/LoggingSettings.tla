----------------------------- MODULE LoggingSettings -----------------------------
(***************************************************************************)
(* The registry key of one event log: a flag and a priority for each type  *)
(* of event. initEventLogTypeEntry (RegistrySettings.cpp) creates it,      *)
(* CConfigLogging (ConfigLogging.cpp) shows and writes it, and             *)
(* eventlog_read_reg (eventlog.cpp) reads it for the agent. The values are *)
(* written one by one, any of the writes may fail, and nothing is undone.  *)
(***************************************************************************)
EXTENDS Integers, Sequences

TypeOrder == <<"Information", "Success", "Warning", "Error",
               "Audit Success", "Audit Failure">>

CONSTANTS
  Logs,    \* the event logs of the computer
  Types    \* the types of event the run tells apart

ASSUME LoggingSettingsAssumption ==
  Types \subseteq {TypeOrder[i] : i \in 1..6}

\* The values of a key, in the order in which they are written.
EntryOrder ==
  [i \in 1..12 |-> <<TypeOrder[(i + 1) \div 2], IF i % 2 = 1 THEN "flag" ELSE "priority">>]

\* Those that the run tells apart, and those of them that the first n writes are for.
Entries == Types \X {"flag", "priority"}

FirstEntries(n) == {e \in Entries : \E i \in 1..n : EntryOrder[i] = e}

None == -1       \* a value that is not in the key
Default == 9     \* DEFAULT_PRIORITY and EVENTLOG_DEFAULT_PRIORITY

NoKey == [key |-> FALSE, values |-> [e \in Entries |-> None]]

Keys == [key : BOOLEAN, values : [Entries -> None..191]]

\* The key after the given entries were written with the given values.
Written(key, values, entries) ==
  [key |-> TRUE,
   values |-> [e \in Entries |-> IF e \in entries THEN values[e] ELSE key.values[e]]]
-----------------------------------------------------------------------------
Facility(log) ==
  CASE log = "Application" -> 23
    [] log = "Security"    -> 4
    [] OTHER               -> 3

Severity ==
  [t \in Types |-> CASE t = "Warning"       -> 4
                     [] t = "Error"         -> 3
                     [] t = "Audit Failure" -> 5
                     [] OTHER               -> 6]

\* CConfigLogging::OnDefaults.
OnDefaults(log) ==
  [e \in Entries |-> IF e[2] = "flag" THEN 1
                     ELSE Facility(log) * 8 + Severity[e[1]]]

\* What initEventLogTypeEntry may leave of the key of a log. It writes nothing for
\* Success, a type that was added later.
initEventLogTypeEntry(log, mayFail) ==
  LET upTo(n) == Written(NoKey, OnDefaults(log),
                         {e \in FirstEntries(n) : e[1] # "Success"})
  IN  IF mayFail THEN {NoKey} \cup {upTo(n) : n \in 0..12} ELSE {upTo(12)}

\* initRegistry: a key that exists is left alone, whatever is in it.
initRegistry(keys, mayFail) ==
  {new \in [Logs -> UNION {{keys[l]} \cup initEventLogTypeEntry(l, mayFail) : l \in Logs}] :
     \A l \in Logs : IF keys[l].key THEN new[l] = keys[l]
                     ELSE new[l] \in initEventLogTypeEntry(l, mayFail)}
-----------------------------------------------------------------------------
(* The two readers.                                                        *)

\* CConfigLogging::OnInitDialog: what the dialog shows of a key.
OnInitDialog(key) ==
  LET missing(e) == e[1] = "Success" /\ key.key /\ key.values[e] = None
      flag(e) == IF ~key.key THEN e[1] \in {"Warning", "Error", "Audit Failure"}
                 ELSE missing(e) \/ key.values[e] = 1
      priority(e) == IF missing(e) THEN 30
                     ELSE IF key.values[e] = None THEN Default ELSE key.values[e]
  IN  [e \in Entries |-> IF e[2] = "priority" THEN priority(e)
                         ELSE IF flag(e) THEN 1 ELSE 0]

\* Mutant of eventlog_read_reg: Success is treated as any other type.
ReadAlike(key) ==
  [e \in Entries |-> IF e[2] = "priority"
                       THEN IF key.values[e] > 0 THEN key.values[e] ELSE Default
                       ELSE IF key.values[e] \notin {None, 0} THEN 1 ELSE 0]

\* eventlog_read_reg: what the agent goes by.
eventlog_read_reg(key) ==
  LET missing(e) == e[1] = "Success" /\ key.values[e] = None
      priority(e) == IF missing(e) THEN 190
                     ELSE IF key.values[e] > 0 THEN key.values[e] ELSE Default
  IN  [e \in Entries |-> IF e[2] = "priority" THEN priority(e)
                         ELSE IF missing(e) \/ key.values[e] \notin {None, 0} THEN 1
                         ELSE 0]
=============================================================================
