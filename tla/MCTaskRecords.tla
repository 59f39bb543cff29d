---------------------------- MODULE MCTaskRecords ----------------------------
(* Three executions are a run that waits or pauses, one that resumes it and *)
(* one more; two restarts let the second come after requests to the first.  *)
EXTENDS TaskRecords
=============================================================================
