------------------------ MODULE MCOperationScheduler ------------------------
(* Three jobs of one server and one of another, on a pool of one thread (the *)
(* head of the second server waits in the pool, where tryTake finds it).     *)
EXTENDS OperationScheduler

CONSTANTS j1, j2, j3, k1, s1, s2

MCJobs     == {j1, j2, j3, k1}
MCServers  == {s1, s2}
MCServerOf == [j \in MCJobs |-> IF j = k1 THEN s2 ELSE s1]
=============================================================================
