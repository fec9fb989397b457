------------------------------ MODULE MCWorker ------------------------------
(* Worker on a small instance: an array of three slots, four addresses that *)
(* malloc may hand out (and hand out again once freed), counters that wrap  *)
(* after two values.                                                        *)
EXTENDS Worker
=============================================================================
