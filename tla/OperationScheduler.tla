------------------------- MODULE OperationScheduler -------------------------
(***************************************************************************)
(* app/workers/scheduler.py: a FIFO of jobs per server, a shared Qt thread *)
(* pool that runs the head of each FIFO, and a signal handle per job whose *)
(* private signals are queued to the Qt thread, which publishes them.      *)
(*                                                                         *)
(* Each critical section under OperationScheduler._lock is one action;     *)
(* everything a worker or the Qt thread does between two of them is an     *)
(* action of its own.  The pool (QThreadPool) is external: it starts any   *)
(* pooled runnable while fewer than MaxThreads runnables are on a thread.  *)
(***************************************************************************)
EXTENDS Naturals, Sequences, FiniteSets

CONSTANTS
    Jobs,        \* the _QueuedJob objects (each with its handle) ever submitted
    Servers,     \* server ids
    ServerOf,    \* the server id each job is submitted under
    MaxThreads   \* OperationScheduler(max_threads)

ASSUME ServerOfAssumption   == ServerOf \in [Jobs -> Servers]
ASSUME MaxThreadsAssumption == MaxThreads \in Nat \ {0}

VARIABLES
    queues,      \* _queues: an absent deque is the empty sequence
    phase,       \* where the job's runnable is
    started,     \* _QueuedJob.started
    outcome,     \* what work() did, once it returned or raised
    holds,       \* _delivery_holds
    events,      \* the Qt thread's event queue of private handle signals
    published,   \* the public signals each handle has emitted
    cancelling   \* jobs cancel_pending still has to emit _finish_requested for

vars == <<queues, phase, started, outcome, holds, events, published, cancelling>>

Outcomes == {"succeeded", "failed"}
Signals  == Outcomes \cup {"started", "finished"}

(***************************************************************************)
(* "unborn": not submitted; "waiting": in a deque with no runnable;        *)
(* "pooled": given to the pool; "popped": on a thread, before              *)
(* _mark_started; "marked" to "completing": the statements of              *)
(* _OperationRunnable.run; "returned": run returned; "dropped": cancelled. *)
(***************************************************************************)
Executing == {"marked", "working", "reporting", "completing"}
OnThread  == {"popped"} \cup Executing
Scheduled == {"pooled"} \cup OnThread
Phases    == {"unborn", "waiting", "returned", "dropped"} \cup Scheduled

IsHead(j) == queues[ServerOf[j]] # <<>> /\ Head(queues[ServerOf[j]]) = j

Emit(j, signal) == events' = Append(events, [job |-> j, signal |-> signal])

Init ==
    /\ queues     = [s \in Servers |-> <<>>]
    /\ phase      = [j \in Jobs |-> "unborn"]
    /\ started    = [j \in Jobs |-> FALSE]
    /\ outcome    = [j \in Jobs |-> "none"]
    /\ holds      = {}
    /\ events     = <<>>
    /\ published  = [j \in Jobs |-> <<>>]
    /\ cancelling = <<>>

-----------------------------------------------------------------------------
(* The Qt thread.  It runs one call at a time: while cancel_pending still   *)
(* has signals to emit it does nothing else.                                *)

LineUp(line, j) == Append(line, j)

\* Only the first job of a deque is given to the pool.
Admit(line) == IF line = <<>> THEN "pooled" ELSE "waiting"

Submit(j) ==
    /\ cancelling = <<>>
    /\ phase[j] = "unborn"
    /\ queues' = [queues EXCEPT ![ServerOf[j]] = LineUp(@, j)]
    /\ holds' = holds \cup {j}
    /\ phase' = [phase EXCEPT ![j] = Admit(queues[ServerOf[j]])]
    /\ UNCHANGED <<started, outcome, events, published, cancelling>>

\* Mutant: the head is dropped even if it runs.
KeptNever(s) == 0

\* How many jobs cancel_pending leaves in the deque: the head stays unless
\* it has not started and tryTake still finds its runnable in the pool.
Kept(s) ==
    LET head == Head(queues[s])
    IN  IF ~started[head] /\ phase[head] = "pooled" THEN 0 ELSE 1

\* Mutant: a head taken back from the pool is not told.
NoticesToTail(s) == SubSeq(queues[s], 2, Len(queues[s]))

\* The jobs to emit _finish_requested for.
Notices(s) == SubSeq(queues[s], Kept(s) + 1, Len(queues[s]))

CancelPending(s) ==
    /\ cancelling = <<>>
    /\ queues[s] # <<>>
    /\ cancelling' = Notices(s)
    /\ queues' = [queues EXCEPT ![s] = SubSeq(@, 1, Kept(s))]
    /\ phase' = [j \in Jobs |->
                   IF \E i \in Kept(s) + 1 .. Len(queues[s]) : queues[s][i] = j
                   THEN "dropped" ELSE phase[j]]
    /\ UNCHANGED <<started, outcome, holds, events, published>>

\* The loop after the lock is released.
FinishCancelled ==
    /\ cancelling # <<>>
    /\ Emit(Head(cancelling), "finished")
    /\ cancelling' = Tail(cancelling)
    /\ UNCHANGED <<queues, phase, started, outcome, holds, published>>

\* Mutant: the hold ends with the outcome.
ReleasesEarly(signal) == signal # "started"

Releases(signal) == signal = "finished"

\* The event loop runs the slot _publish_<signal> of the oldest event's handle.
\* The slots of a handle nobody holds do not run: Qt drops the events of a
\* destroyed object.
Publish ==
    /\ cancelling = <<>>
    /\ events # <<>>
    /\ LET e == Head(events) IN
         /\ published' = IF e.job \in holds
                         THEN [published EXCEPT ![e.job] = Append(@, e.signal)]
                         ELSE published
         /\ holds' = IF Releases(e.signal) THEN holds \ {e.job} ELSE holds
    /\ events' = Tail(events)
    /\ UNCHANGED <<queues, phase, started, outcome, cancelling>>

-----------------------------------------------------------------------------
(* The pool and its threads.                                                *)

Pop(j) ==
    /\ phase[j] = "pooled"
    /\ Cardinality({k \in Jobs : phase[k] \in OnThread}) < MaxThreads
    /\ phase' = [phase EXCEPT ![j] = "popped"]
    /\ UNCHANGED <<queues, started, outcome, holds, events, published, cancelling>>

MarkStarted(j) ==
    /\ phase[j] = "popped"
    /\ phase' = [phase EXCEPT ![j] = IF IsHead(j) THEN "marked" ELSE "returned"]
    /\ started' = [started EXCEPT ![j] = IsHead(j)]
    /\ UNCHANGED <<queues, outcome, holds, events, published, cancelling>>

EmitStart(j) ==
    /\ phase[j] = "marked"
    /\ Emit(j, "started")
    /\ phase' = [phase EXCEPT ![j] = "working"]
    /\ UNCHANGED <<queues, started, outcome, holds, published, cancelling>>

\* Mutant: the outcome is emitted before it is known.
EmitOutcomeEarly(j, result) ==
    /\ phase[j] = "working"
    /\ Emit(j, outcome[j])
    /\ outcome' = [outcome EXCEPT ![j] = result]
    /\ phase' = [phase EXCEPT ![j] = "reporting"]
    /\ UNCHANGED <<queues, started, holds, published, cancelling>>

\* work() returns a value or raises.
EmitOutcome(j, result) ==
    /\ phase[j] = "working"
    /\ Emit(j, result)
    /\ outcome' = [outcome EXCEPT ![j] = result]
    /\ phase' = [phase EXCEPT ![j] = "reporting"]
    /\ UNCHANGED <<queues, started, holds, published, cancelling>>

EmitFinish(j) ==
    /\ phase[j] = "reporting"
    /\ Emit(j, "finished")
    /\ phase' = [phase EXCEPT ![j] = "completing"]
    /\ UNCHANGED <<queues, started, outcome, holds, published, cancelling>>

\* Mutant: the next job is forgotten.
PromotedNever(rest) == {}

\* The job _complete schedules.
Promoted(rest) == IF rest = <<>> THEN {} ELSE {Head(rest)}

\* _complete: the next job is given to the pool before the thread is free.
Complete(j) ==
    /\ phase[j] = "completing"
    /\ LET rest == Tail(queues[ServerOf[j]]) IN
         IF IsHead(j)
         THEN /\ queues' = [queues EXCEPT ![ServerOf[j]] = rest]
              /\ phase' = [k \in Jobs |->
                             IF k = j THEN "returned"
                             ELSE IF k \in Promoted(rest) THEN "pooled"
                             ELSE phase[k]]
         ELSE /\ phase' = [phase EXCEPT ![j] = "returned"]
              /\ UNCHANGED queues
    /\ UNCHANGED <<started, outcome, holds, events, published, cancelling>>

RunStep(j) ==
    \/ Pop(j)
    \/ MarkStarted(j)
    \/ EmitStart(j)
    \/ \E result \in Outcomes : EmitOutcome(j, result)
    \/ EmitFinish(j)
    \/ Complete(j)

QtStep == FinishCancelled \/ Publish

Next ==
    \/ \E j \in Jobs : Submit(j) \/ RunStep(j)
    \/ \E s \in Servers : CancelPending(s)
    \/ QtStep

\* Submitting and cancelling are the callers' choice; threads run, the event
\* loop spins, and a job's work() always returns or raises (its remote calls
\* carry deadlines).
Fairness ==
    /\ WF_vars(QtStep)
    /\ \A j \in Jobs : WF_vars(RunStep(j))

Spec == Init /\ [][Next]_vars /\ Fairness

-----------------------------------------------------------------------------
TypeOK ==
    /\ queues     \in [Servers -> Seq(Jobs)]
    /\ phase      \in [Jobs -> Phases]
    /\ started    \in [Jobs -> BOOLEAN]
    /\ outcome    \in [Jobs -> Outcomes \cup {"none"}]
    /\ holds      \in SUBSET Jobs
    /\ events     \in Seq([job : Jobs, signal : Signals])
    /\ published  \in [Jobs -> Seq(Signals)]
    /\ cancelling \in Seq(Jobs)

\* A server's jobs never overlap: of the jobs of one server, at most one is on
\* a pool thread between _mark_started and the end of _complete, whatever
\* cancellations and submissions interleave with the threads.
OneAtATime ==
    \A j, k \in Jobs :
        /\ ServerOf[j] = ServerOf[k]
        /\ phase[j] \in Scheduled
        /\ phase[k] \in Scheduled
        => j = k

\* The pool and the deques agree at every lock release: only the head of a
\* deque has a live runnable, and the head of every non-empty deque has one.
\* Hence _mark_started never refuses, _complete always finds its job, no deque
\* is stranded, and wait_for_done, which sees only the pool, returns TRUE only
\* when every deque is empty.
HeadIsScheduled ==
    /\ \A j \in Jobs : phase[j] \in Scheduled => IsHead(j)
    /\ \A s \in Servers : queues[s] # <<>> => phase[Head(queues[s])] \in Scheduled

\* A handle is held while any of its signals is still queued, so that no
\* publication is lost with a garbage-collected handle.
HeldWhileSignalled ==
    /\ \A i \in 1 .. Len(events) : events[i].job \in holds
    /\ \A i \in 1 .. Len(cancelling) : cancelling[i] \in holds

\* Every submitted job's handle eventually publishes finished, cancelled or
\* not, whatever the other servers do.
EveryJobFinishes ==
    \A j \in Jobs :
        phase[j] # "unborn" ~> (j \notin holds /\ published[j] # <<>>)

-----------------------------------------------------------------------------
(* The scheduler implements the serial executor.                            *)

StageOf(j) ==
    CASE phase[j] = "unborn"                               -> "new"
      [] phase[j] = "dropped"                              -> "dropped"
      [] phase[j] \in {"waiting", "pooled", "popped"}      -> "waiting"
      [] phase[j] \in {"marked", "working"}                -> "running"
      [] OTHER                                             -> outcome[j]

Executor == INSTANCE SerialExecutor WITH
    line  <- queues,
    stage <- [j \in Jobs |-> StageOf(j)],
    told  <- published

ImplementsSerialExecutor == Executor!Spec
=============================================================================
