--------------------------- MODULE SerialExecutor ---------------------------
(***************************************************************************)
(* What OperationScheduler promises its callers, without threads, locks,   *)
(* pools or queued signals: "Run one FIFO operation at a time per server"  *)
(* (scheduler.py:95), tell every submitter a truthful life cycle that ends *)
(* in exactly one "finished", and never interrupt work that has started.   *)
(***************************************************************************)
EXTENDS Naturals, Sequences

CONSTANTS
    Jobs,       \* every operation that may ever be submitted
    Servers,    \* server ids, the keys of the executor
    ServerOf    \* the server each job is submitted for

VARIABLES
    line,       \* line[s]: the unfinished jobs of server s, oldest first
    stage,      \* stage[j]: how far job j has come
    told        \* told[j]: the signals j's submitter has received, in order

vars == <<line, stage, told>>

Outcomes == {"succeeded", "failed"}
Stages   == {"new", "waiting", "running", "dropped"} \cup Outcomes

Init ==
    /\ line  = [s \in Servers |-> <<>>]
    /\ stage = [j \in Jobs |-> "new"]
    /\ told  = [j \in Jobs |-> <<>>]

Submit(j) ==
    /\ stage[j] = "new"
    /\ stage' = [stage EXCEPT ![j] = "waiting"]
    /\ line'  = [line EXCEPT ![ServerOf[j]] = Append(@, j)]
    /\ UNCHANGED told

Start(j) ==
    /\ stage[j] = "waiting"
    /\ line[ServerOf[j]] # <<>> /\ Head(line[ServerOf[j]]) = j
    /\ stage' = [stage EXCEPT ![j] = "running"]
    /\ UNCHANGED <<line, told>>

End(j, outcome) ==
    /\ stage[j] = "running"
    /\ stage' = [stage EXCEPT ![j] = outcome]
    /\ UNCHANGED <<line, told>>

\* The server is handed to the next job in line.
Leave(j) ==
    /\ stage[j] \in Outcomes
    /\ line[ServerOf[j]] # <<>> /\ Head(line[ServerOf[j]]) = j
    /\ line' = [line EXCEPT ![ServerOf[j]] = Tail(@)]
    /\ UNCHANGED <<stage, told>>

\* Everything behind the first keep jobs is dropped.  Keeping none is allowed
\* only while none of them has started.
Drop(s, keep) ==
    /\ keep < Len(line[s])
    /\ \A i \in keep + 1 .. Len(line[s]) : stage[line[s][i]] = "waiting"
    /\ stage' = [j \in Jobs |->
                   IF \E i \in keep + 1 .. Len(line[s]) : line[s][i] = j
                   THEN "dropped" ELSE stage[j]]
    /\ line' = [line EXCEPT ![s] = SubSeq(@, 1, keep)]
    /\ UNCHANGED told

\* A signal is told in life-cycle order, at most once, and only when true.
Tellable(j, signal) ==
    CASE signal = "started"  -> told[j] = <<>> /\ stage[j] \in {"running"} \cup Outcomes
      [] signal \in Outcomes -> told[j] = <<"started">> /\ stage[j] = signal
      [] signal = "finished" -> \/ told[j] = <<>> /\ stage[j] = "dropped"
                                \/ \E o \in Outcomes : told[j] = <<"started", o>>

Tell(j, signal) ==
    /\ Tellable(j, signal)
    /\ told' = [told EXCEPT ![j] = Append(@, signal)]
    /\ UNCHANGED <<line, stage>>

Next ==
    \/ \E j \in Jobs :
         \/ Submit(j)
         \/ Start(j)
         \/ \E o \in Outcomes : End(j, o)
         \/ Leave(j)
         \/ \E signal \in Outcomes \cup {"started", "finished"} : Tell(j, signal)
    \/ \E s \in Servers, keep \in 0 .. 1 : Drop(s, keep)

Spec == Init /\ [][Next]_vars
=============================================================================
