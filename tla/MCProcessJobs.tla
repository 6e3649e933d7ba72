---------------------------- MODULE MCProcessJobs ----------------------------
(***************************************************************************)
(* An instance of ProcessJobs for TLC.  All processes were started with the *)
(* same WORKER_ID: the owner column cannot tell them apart, only the token  *)
(* can.                                                                     *)
(***************************************************************************)
EXTENDS ProcessJobs

CONSTANTS w1

MCWorkerIdOf == [p \in Processes |-> w1]
=============================================================================
