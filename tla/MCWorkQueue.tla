---------------------------- MODULE MCWorkQueue ----------------------------
(* Small instances of WorkQueue.                                           *)
EXTENDS WorkQueue

(* Of the items r is removed now and then, if the user removes any.        *)
CONSTANTS w1, r

OneWorker == [workers |-> {w1}, removes |-> {}]
ManyWorkers == [workers |-> Workers, removes |-> {r}]
OneOrMany == {OneWorker, ManyWorkers}
=============================================================================
