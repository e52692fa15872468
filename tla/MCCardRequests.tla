--------------------------- MODULE MCCardRequests ---------------------------
(* Instances of CardRequests for TLC: a client that answers, takes back and  *)
(* adds; one that answers, hints and deletes; the scheduler opens the pool.  *)
EXTENDS CardRequests

CONSTANTS w1, w2, k1, k2, cron, a, b

MCMixes == {{"open", "review", "undo", "add"}, {"review", "hint", "delete"}}
===========================================================================
