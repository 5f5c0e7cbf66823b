---------------------------- MODULE MCWorkerHost ----------------------------
(* Instances of WorkerHost.                                                *)
EXTENDS WorkerHost
=============================================================================
