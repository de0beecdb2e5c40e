------------------------------ MODULE LineFlow ------------------------------
(***************************************************************************)
(* What Pipeline.Run promises about log lines, with no goroutine, channel  *)
(* or worker in sight: lines are read one at a time; each line read is     *)
(* settled at most once, by the parser rejecting it or by the counter      *)
(* adding its event to a bucket; and once Run has returned nothing moves   *)
(* any more.  The contract does not promise that every line is settled:    *)
(* the code does not keep that promise (see Pipeline.NoEventLost).         *)
(***************************************************************************)
EXTENDS Naturals

VARIABLES
  read,      \* lines the tailer has handed to the pipeline
  rejected,  \* lines no parser recognised, dropped by design
  counted,   \* events added to a bucket
  ended      \* Run has returned

flowVars == <<read, rejected, counted, ended>>

FlowInit ==
  /\ read = 0
  /\ rejected = 0
  /\ counted = 0
  /\ ended = FALSE

Unsettled == rejected + counted < read

Read ==
  /\ ~ended
  /\ read' = read + 1
  /\ UNCHANGED <<rejected, counted, ended>>

Reject ==
  /\ ~ended
  /\ Unsettled
  /\ rejected' = rejected + 1
  /\ UNCHANGED <<read, counted, ended>>

Count ==
  /\ ~ended
  /\ Unsettled
  /\ counted' = counted + 1
  /\ UNCHANGED <<read, rejected, ended>>

End ==
  /\ ~ended
  /\ ended' = TRUE
  /\ UNCHANGED <<read, rejected, counted>>

FlowNext == Read \/ Reject \/ Count \/ End

FlowSpec == FlowInit /\ [][FlowNext]_flowVars
=============================================================================
