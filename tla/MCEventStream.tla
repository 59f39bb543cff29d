---------------------------- MODULE MCEventStream ----------------------------
(* One worker, one endpoint that publishes events of its own and changes  *)
(* the status, and one console that connects at any moment.               *)
EXTENDS EventStream

CONSTANTS w, h, c

MCWorkers == {w}
MCEndpoints == {h}
MCStreams == {c}
=============================================================================
