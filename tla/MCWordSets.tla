---------------------------- MODULE MCWordSets ----------------------------
(* Instances of WordSets for TLC: requests that move words, requests that   *)
(* change the modes of sets, each overlapping with the other and with the   *)
(* scheduler.                                                               *)
EXTENDS WordSets

CONSTANTS w1, cron, a, b

MCMixes == {{"create", "delete", "activate", "answer", "add", "move"},
            {"ensure", "create", "update", "prefer", "delete"}}
===========================================================================
