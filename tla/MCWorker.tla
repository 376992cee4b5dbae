------------------------------ MODULE MCWorker ------------------------------
(* Instances of Worker for TLC: one owner and a stopper, and two owners.   *)
EXTENDS Worker
=============================================================================
