---------------------------- MODULE MCWorkerBus ----------------------------
(* Two tabs on one worker, with a short request each and one that streams.   *)
EXTENDS WorkerBus, TLC

CONSTANTS p1, p2, q1, q2

MCPages == {p1, p2}
MCRequests == {q1, q2}
MCPageOf == (q1 :> p1) @@ (q2 :> p2)
MCFaultSets == {{"kill", "build"}, {"kill", "slow"}, {"kill", "init"}}
=============================================================================
