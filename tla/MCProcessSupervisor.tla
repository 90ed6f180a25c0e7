------------------------ MODULE MCProcessSupervisor ------------------------
(* A worker with an AEDT process and a heartbeat companion, for TLC.       *)
EXTENDS ProcessSupervisor

CONSTANTS aedt, companion
=============================================================================
