----------------------------- MODULE ProgressRow ----------------------------
(***************************************************************************)
(* The row of learning_progress and the devices that share it: what        *)
(* Progress, which has the statements of a request apart, and              *)
(* MergedProgress, which has the merge of documents, have in common.       *)
(***************************************************************************)
CONSTANTS Devices,    \* the devices of one user
          MaxFaults   \* bound: timeouts, lost answers and failed statements

VARIABLES
  version,  \* learning_progress.version; 0 while the user has no row
  payload,  \* learning_progress.payload
  known,    \* [Devices -> version] the version the device merged or stored last
  local,    \* [Devices -> ...] the device's own copy
  faults    \* faults so far

row == <<version, payload>>
=============================================================================
