------------------------------- MODULE Courier -------------------------------
(***************************************************************************)
(* What the output thread promises about the messages of its queue: each   *)
(* is handed to the socket of the primary syslog server, in the order of   *)
(* the queue, and removed only after that. The first of the queue may be   *)
(* handed over again, unless once is TRUE.                                 *)
(***************************************************************************)
EXTENDS Naturals

VARIABLES
  once,       \* there is no mirror whose failure repeats a message
  handed,     \* how many messages were handed over
  removed,    \* how many messages left the queue
  repeated    \* a message was handed over twice

vars == <<once, handed, removed, repeated>>

Init == once \in BOOLEAN /\ handed = 0 /\ removed = 0 /\ repeated = FALSE

\* The first message of the queue for the first time.
Hand ==
  /\ handed = removed
  /\ handed' = handed + 1
  /\ UNCHANGED <<once, removed, repeated>>

HandAgain ==
  /\ ~once
  /\ handed = removed + 1
  /\ repeated' = TRUE
  /\ UNCHANGED <<once, handed, removed>>

Remove ==
  /\ handed = removed + 1
  /\ removed' = removed + 1
  /\ UNCHANGED <<once, handed, repeated>>

Next == Hand \/ HandAgain \/ Remove

Spec == Init /\ [][Next]_vars
=============================================================================
