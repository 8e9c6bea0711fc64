----------------------- MODULE OperationSchedulerProofs -----------------------
(***************************************************************************)
(* Safety of the scheduler for any jobs, servers and pool size.            *)
(***************************************************************************)
EXTENDS OperationScheduler, SequenceTheorems, TLAPS

\* A job stands in the deque of its own server and only once; the first of the
\* deque has a runnable and the others wait for one; no other job of the server
\* has a runnable.
DequeOK(s) ==
    /\ \A i \in 1 .. Len(queues[s]) :
         /\ ServerOf[queues[s][i]] = s
         /\ IF i = 1 THEN phase[queues[s][i]] \in Scheduled
            ELSE phase[queues[s][i]] = "waiting"
    /\ \A i, k \in 1 .. Len(queues[s]) : queues[s][i] = queues[s][k] => i = k
    /\ \A j \in Jobs : ServerOf[j] = s /\ phase[j] \in Scheduled
                     => Len(queues[s]) # 0 /\ queues[s][1] = j

DequeInv == \A s \in Servers : DequeOK(s)

\* Where a job may still emit a signal, and where it has emitted its last.
Unfinished == {"waiting", "pooled", "popped", "marked", "working", "reporting"}
Finished   == {"completing", "returned", "dropped"}

\* A job that may emit is held; a queued signal's job is held; finished is the
\* last signal of its job; a cancelled job whose finish is still to be emitted
\* is held, has emitted none and is to emit one.
Queued(i) ==
    /\ events[i].job \in holds
    /\ events[i].signal = "finished" => phase[events[i].job] \in Finished
    /\ \A k \in 1 .. Len(events) :
         events[i].signal = "finished" /\ i < k => events[k].job # events[i].job

Cancelled(i) ==
    /\ cancelling[i] \in holds
    /\ phase[cancelling[i]] = "dropped"
    /\ \A k \in 1 .. Len(events) :
         events[k].signal = "finished" => events[k].job # cancelling[i]
    /\ \A k \in 1 .. Len(cancelling) : cancelling[i] = cancelling[k] => i = k

DeliveryInv ==
    /\ \A j \in Jobs : phase[j] \in Unfinished => j \in holds
    /\ \A i \in 1 .. Len(events) : Queued(i)
    /\ \A i \in 1 .. Len(cancelling) : Cancelled(i)

-----------------------------------------------------------------------------
(* What cancel_pending cuts off a deque and what it leaves.                 *)

\* cancel_pending leaves at most the head, and only jobs that are there.
LEMMA KeptBounds ==
  ASSUME NEW s \in Servers, queues[s] \in Seq(Jobs), queues[s] # <<>>
  PROVE  /\ Kept(s) \in {0, 1}
         /\ Kept(s) <= Len(queues[s])
         /\ Len(queues[s]) \in Nat \ {0}
  BY EmptySeq DEF Kept

\* The jobs cancel_pending announces are those behind the one it keeps, in the
\* order of the deque.
LEMMA NoticesType ==
  ASSUME NEW s \in Servers, queues[s] \in Seq(Jobs), queues[s] # <<>>
  PROVE  /\ Notices(s) \in Seq(Jobs)
         /\ Len(Notices(s)) = Len(queues[s]) - Kept(s)
         /\ \A i \in 1 .. Len(Notices(s)) : Notices(s)[i] = queues[s][i + Kept(s)]
<1>1. \A i \in Kept(s) + 1 .. Len(queues[s]) : queues[s][i] \in Jobs
  BY KeptBounds, ElementOfSeq
<1>2. Kept(s) + 1 \in Int /\ Len(queues[s]) \in Int
  BY KeptBounds
<1>3. Kept(s) + 1 <= Len(queues[s]) \/ Kept(s) = Len(queues[s])
  BY KeptBounds
<1>4. /\ Notices(s) \in Seq(Jobs)
      /\ Len(Notices(s)) = Len(queues[s]) - Kept(s)
  <2> DEFINE m == Kept(s) + 1
  <2>1. m \in Int /\ Len(queues[s]) \in Int /\ \A i \in m .. Len(queues[s]) : queues[s][i] \in Jobs
    BY <1>1, <1>2
  <2> HIDE DEF m
  <2>2. /\ SubSeq(queues[s], m, Len(queues[s])) \in Seq(Jobs)
        /\ Len(SubSeq(queues[s], m, Len(queues[s]))) =
             IF m <= Len(queues[s]) THEN Len(queues[s]) - m + 1 ELSE 0
    BY <2>1, SubSeqProperties
  <2> QED
    BY <2>2, <1>3, KeptBounds DEF m, Notices
<1>5. \A i \in 1 .. Len(queues[s]) - (Kept(s) + 1) + 1 :
         Notices(s)[i] = queues[s][Kept(s) + 1 + i - 1]
  BY <1>1, <1>2, SubSeqProperties DEF Notices
<1> QED
  BY <1>4, <1>5, KeptBounds

\* What cancel_pending leaves is the beginning of the deque.
LEMMA RemainderType ==
  ASSUME NEW s \in Servers, queues[s] \in Seq(Jobs), queues[s] # <<>>
  PROVE  /\ SubSeq(queues[s], 1, Kept(s)) \in Seq(Jobs)
         /\ Len(SubSeq(queues[s], 1, Kept(s))) = Kept(s)
         /\ \A i \in 1 .. Kept(s) : SubSeq(queues[s], 1, Kept(s))[i] = queues[s][i]
<1>1. \A i \in 1 .. Kept(s) : queues[s][i] \in Jobs
  BY KeptBounds, ElementOfSeq
<1> QED
  BY <1>1, KeptBounds, SubSeqProperties

-----------------------------------------------------------------------------
\* In the beginning every variable has its type.
THEOREM InitType == Init => TypeOK
  BY ServerOfAssumption DEF Init, TypeOK, Phases

\* Every variable keeps its type.
THEOREM NextType == TypeOK /\ [Next]_vars => TypeOK'
<1> SUFFICES ASSUME TypeOK, [Next]_vars PROVE TypeOK'
  OBVIOUS
<1> USE ServerOfAssumption
<1>1. ASSUME NEW j \in Jobs, Submit(j) PROVE TypeOK'
  <2>1. queues' \in [Servers -> Seq(Jobs)]
    BY <1>1 DEF TypeOK, Submit, LineUp
  <2>2. phase' \in [Jobs -> Phases]
    BY <1>1 DEF TypeOK, Submit, Admit, Phases, Scheduled
  <2> QED
    BY <1>1, <2>1, <2>2 DEF TypeOK, Submit
<1>2. ASSUME NEW j \in Jobs, Pop(j) PROVE TypeOK'
  BY <1>2 DEF TypeOK, Pop, Phases, Scheduled, OnThread
<1>3. ASSUME NEW j \in Jobs, MarkStarted(j) PROVE TypeOK'
  BY <1>3 DEF TypeOK, MarkStarted, Phases, Scheduled, OnThread, Executing, IsHead
<1>4. ASSUME NEW j \in Jobs, EmitStart(j) PROVE TypeOK'
  BY <1>4 DEF TypeOK, EmitStart, Emit, Phases, Scheduled, OnThread, Executing, Signals
<1>5. ASSUME NEW j \in Jobs, NEW r \in Outcomes, EmitOutcome(j, r) PROVE TypeOK'
  BY <1>5 DEF TypeOK, EmitOutcome, Emit, Phases, Scheduled, OnThread, Executing, Signals
<1>6. ASSUME NEW j \in Jobs, EmitFinish(j) PROVE TypeOK'
  BY <1>6 DEF TypeOK, EmitFinish, Emit, Phases, Scheduled, OnThread, Executing, Signals
<1>7. ASSUME NEW j \in Jobs, Complete(j) PROVE TypeOK'
  <2>1. queues' \in [Servers -> Seq(Jobs)]
    <3>1. ServerOf[j] \in Servers /\ queues[ServerOf[j]] \in Seq(Jobs)
      BY DEF TypeOK
    <3>2. CASE IsHead(j)
      <4>1. Tail(queues[ServerOf[j]]) \in Seq(Jobs)
        BY <3>1, <3>2, HeadTailProperties DEF IsHead
      <4> QED
        BY <1>7, <3>2, <4>1 DEF TypeOK, Complete
    <3>3. CASE ~IsHead(j)
      BY <1>7, <3>3 DEF TypeOK, Complete
    <3> QED
      BY <3>2, <3>3
  <2>2. phase' \in [Jobs -> Phases]
    BY <1>7 DEF TypeOK, Complete, Phases, Scheduled
  <2> QED
    BY <1>7, <2>1, <2>2 DEF TypeOK, Complete
<1>8. ASSUME NEW s \in Servers, CancelPending(s) PROVE TypeOK'
  <2>1. queues[s] \in Seq(Jobs) /\ queues[s] # <<>>
    BY <1>8 DEF TypeOK, CancelPending
  <2>2. phase' \in [Jobs -> Phases]
    BY <1>8 DEF TypeOK, CancelPending, Phases
  <2> QED
    BY <1>8, <2>1, <2>2, NoticesType, RemainderType DEF TypeOK, CancelPending
<1>9. CASE FinishCancelled
  BY <1>9 DEF TypeOK, FinishCancelled, Emit, Signals
<1>10. CASE Publish
  <2>1. Head(events) \in [job : Jobs, signal : Signals]
    BY <1>10, HeadTailProperties DEF TypeOK, Publish
  <2>2. published' \in [Jobs -> Seq(Signals)]
    BY <1>10, <2>1 DEF TypeOK, Publish
  <2>3. events' \in Seq([job : Jobs, signal : Signals])
    BY <1>10 DEF TypeOK, Publish
  <2> QED
    BY <1>10, <2>2, <2>3 DEF TypeOK, Publish
<1>11. CASE UNCHANGED vars
  BY <1>11 DEF TypeOK, vars
<1> QED
  BY <1>1, <1>2, <1>3, <1>4, <1>5, <1>6, <1>7, <1>8, <1>9, <1>10, <1>11
     DEF Next, RunStep, QtStep

-----------------------------------------------------------------------------
\* A deque is empty when it has no first job; its head is its first job.
LEMMA HeadIsFirst ==
  ASSUME NEW S, NEW q \in Seq(S)
  PROVE  /\ q # <<>> <=> Len(q) # 0
         /\ q # <<>> => Head(q) = q[1]
  BY EmptySeq

\* In the beginning the deques are empty and no job has a runnable.
THEOREM InitDeque == Init => DequeInv
  BY DEF Init, DequeInv, DequeOK, Scheduled, OnThread, Executing

\* A step that leaves the deque and the runnables of a server alone.
LEMMA DequeFrame ==
  ASSUME NEW s \in Servers, DequeOK(s), TypeOK, queues'[s] = queues[s],
         \A j \in Jobs : ServerOf[j] = s => phase'[j] = phase[j]
  PROVE  DequeOK(s)'
<1>1. \A i \in 1 .. Len(queues[s]) : queues[s][i] \in Jobs
  BY ElementOfSeq DEF TypeOK
<1> QED
  BY <1>1 DEF DequeOK

\* A job whose runnable moves on leaves the deques in order.
LEMMA RunnableMoves ==
  ASSUME TypeOK, DequeInv, NEW j \in Jobs, phase[j] \in Scheduled,
         NEW p \in Scheduled, phase' = [phase EXCEPT ![j] = p], queues' = queues
  PROVE  DequeInv'
<1> SUFFICES ASSUME NEW s \in Servers PROVE DequeOK(s)'
  BY DEF DequeInv
<1>1. \A k \in Jobs : (phase'[k] \in Scheduled <=> phase[k] \in Scheduled)
                     /\ (phase[k] = "waiting" => phase'[k] = "waiting")
  BY DEF TypeOK, Scheduled, OnThread, Executing
<1>2. \A i \in 1 .. Len(queues[s]) : queues[s][i] \in Jobs
  BY ElementOfSeq DEF TypeOK
<1> QED
  BY <1>1, <1>2 DEF DequeInv, DequeOK

\* submit appends a job that is in no deque, and starts it when it is alone.
LEMMA SubmitDeque ==
  ASSUME TypeOK, DequeInv, NEW j \in Jobs, Submit(j)
  PROVE  DequeInv'
<1> DEFINE s == ServerOf[j]
           n == Len(queues[s])
<1>1. s \in Servers /\ queues[s] \in Seq(Jobs) /\ n \in Nat
  BY ServerOfAssumption DEF TypeOK
<1>2. /\ queues' = [queues EXCEPT ![s] = Append(@, j)]
      /\ phase' = [phase EXCEPT ![j] = Admit(queues[s])]
      /\ phase[j] = "unborn"
  BY DEF Submit, LineUp
<1>3. /\ Len(queues'[s]) = n + 1
      /\ queues'[s][n + 1] = j
      /\ \A i \in 1 .. n : queues'[s][i] = queues[s][i]
  BY <1>1, <1>2, AppendProperties DEF TypeOK
<1>4. \A i \in 1 .. n : queues[s][i] \in Jobs /\ queues[s][i] # j
  BY <1>1, <1>2, ElementOfSeq DEF DequeInv, DequeOK, Scheduled, OnThread, Executing
<1>5. \A k \in Jobs \ {j} : phase'[k] = phase[k]
  BY <1>2 DEF TypeOK
<1>6. phase'[j] = IF n = 0 THEN "pooled" ELSE "waiting"
  BY <1>1, <1>2, HeadIsFirst DEF Admit, TypeOK
<1>7. DequeOK(s)
  BY <1>1 DEF DequeInv
<1>8. DequeOK(s)'
  <2> HIDE DEF s, n
  <2>1. ASSUME NEW i \in 1 .. n + 1
        PROVE  /\ ServerOf[queues'[s][i]] = s
               /\ IF i = 1 THEN phase'[queues'[s][i]] \in Scheduled
                  ELSE phase'[queues'[s][i]] = "waiting"
    BY <1>1, <1>3, <1>4, <1>5, <1>6, <1>7 DEF DequeOK, Scheduled, s, n
  <2>2. ASSUME NEW i \in 1 .. n + 1, NEW k \in 1 .. n + 1,
               queues'[s][i] = queues'[s][k]
        PROVE  i = k
    <3>1. (i \in 1 .. n \/ i = n + 1) /\ (k \in 1 .. n \/ k = n + 1)
      BY <1>1
    <3>2. CASE i \in 1 .. n /\ k \in 1 .. n
      BY <2>2, <3>2, <1>3, <1>7 DEF DequeOK, n
    <3>3. CASE i = n + 1 \/ k = n + 1
      BY <2>2, <3>1, <3>3, <1>3, <1>4
    <3> QED
      BY <3>1, <3>2, <3>3
  <2>3. ASSUME NEW k \in Jobs, ServerOf[k] = s, phase'[k] \in Scheduled
        PROVE  queues'[s][1] = k
    <3>1. CASE k = j
      BY <2>3, <3>1, <1>3, <1>6 DEF Scheduled, OnThread, Executing
    <3>2. CASE k # j
      BY <2>3, <3>2, <1>1, <1>3, <1>5, <1>7 DEF DequeOK, n
    <3> QED
      BY <3>1, <3>2
  <2> QED
    BY <2>1, <2>2, <2>3, <1>1, <1>3 DEF DequeOK
<1>9. ASSUME NEW r \in Servers, r # s PROVE DequeOK(r)'
  BY <1>9, <1>1, <1>2, <1>5, DequeFrame DEF DequeInv, TypeOK
<1> QED
  BY <1>8, <1>9 DEF DequeInv

\* _complete removes the head, which is the job that ran, and pools the next.
LEMMA CompleteDeque ==
  ASSUME TypeOK, DequeInv, NEW j \in Jobs, Complete(j)
  PROVE  DequeInv'
<1> DEFINE s == ServerOf[j]
           q == queues[s]
           rest == Tail(q)
<1>1. s \in Servers /\ q \in Seq(Jobs)
  BY ServerOfAssumption DEF TypeOK
<1>2. DequeOK(s) /\ phase[j] \in Scheduled
  BY <1>1 DEF DequeInv, Complete, Scheduled, OnThread, Executing
<1>3. Len(q) \in Nat \ {0} /\ q # <<>> /\ q[1] = j /\ IsHead(j)
  BY <1>1, <1>2, HeadIsFirst DEF DequeOK, IsHead
<1>4. /\ rest \in Seq(Jobs)
      /\ Len(rest) = Len(q) - 1
      /\ \A i \in 1 .. Len(rest) : rest[i] = q[i + 1]
  BY <1>1, <1>3, HeadTailProperties
<1>5. /\ queues' = [queues EXCEPT ![s] = rest]
      /\ phase' = [k \in Jobs |-> IF k = j THEN "returned"
                                  ELSE IF k \in Promoted(rest) THEN "pooled"
                                  ELSE phase[k]]
  BY <1>3 DEF Complete
<1>6. Promoted(rest) = IF Len(rest) = 0 THEN {} ELSE {rest[1]}
  BY <1>4, HeadIsFirst DEF Promoted
<1>7. \A i \in 1 .. Len(q) : q[i] \in Jobs
  BY <1>1, ElementOfSeq
<1>8. \A i \in 1 .. Len(rest) :
        /\ rest[i] \in Jobs /\ rest[i] # j /\ ServerOf[rest[i]] = s
        /\ phase[rest[i]] = "waiting"
        /\ i # 1 => rest[i] # rest[1]
  BY <1>2, <1>3, <1>4, <1>7 DEF DequeOK
<1>9. DequeOK(s)'
  <2>1. queues'[s] = rest
    BY <1>1, <1>5 DEF TypeOK
  <2>2. ASSUME NEW i \in 1 .. Len(rest)
        PROVE  /\ ServerOf[rest[i]] = s
               /\ IF i = 1 THEN phase'[rest[i]] \in Scheduled
                  ELSE phase'[rest[i]] = "waiting"
    BY <1>4, <1>5, <1>6, <1>8 DEF Scheduled
  <2>3. \A i, k \in 1 .. Len(rest) : rest[i] = rest[k] => i = k
    BY <1>2, <1>3, <1>4 DEF DequeOK
  <2>4. ASSUME NEW k \in Jobs, ServerOf[k] = s, phase'[k] \in Scheduled
        PROVE  Len(rest) # 0 /\ rest[1] = k
    <3>1. phase[k] \in Scheduled => k = j
      BY <1>2, <1>3, <2>4 DEF DequeOK
    <3> HIDE DEF rest
    <3>2. k \in Promoted(rest)
      BY <1>5, <2>4, <3>1 DEF Scheduled, OnThread, Executing
    <3> QED
      BY <1>6, <3>2
  <2> HIDE DEF rest
  <2> QED
    BY <2>1, <2>2, <2>3, <2>4 DEF DequeOK
<1>10. ASSUME NEW r \in Servers, r # s PROVE DequeOK(r)'
  <2>1. \A k \in Jobs : ServerOf[k] = r => phase'[k] = phase[k]
    <3>1. \A k \in Promoted(rest) : ServerOf[k] = s
      <4> HIDE DEF rest
      <4>1. Len(rest) \in Nat
        BY <1>4, EmptySeq
      <4> QED
        BY <4>1, <1>6, <1>8
    <3> QED
      BY <1>10, <3>1, <1>5
  <2> QED
    BY <1>10, <2>1, <1>5, DequeFrame DEF DequeInv, TypeOK
<1> QED
  BY <1>9, <1>10 DEF DequeInv

\* cancel_pending keeps the head when a thread has taken its runnable, and only it.
LEMMA CancelDeque ==
  ASSUME TypeOK, DequeInv, NEW s \in Servers, CancelPending(s)
  PROVE  DequeInv'
<1> DEFINE q == queues[s]
           kept == SubSeq(q, 1, Kept(s))
<1>1. q \in Seq(Jobs) /\ q # <<>> /\ DequeOK(s)
  BY DEF TypeOK, CancelPending, DequeInv
<1>2. /\ Len(q) \in Nat \ {0}
      /\ Kept(s) \in {0, 1}
      /\ Len(kept) = Kept(s)
      /\ Kept(s) = 1 => kept[1] = q[1]
  BY <1>1, KeptBounds, RemainderType
<1>3. /\ queues' = [queues EXCEPT ![s] = kept]
      /\ phase' = [j \in Jobs |->
                     IF \E i \in Kept(s) + 1 .. Len(q) : q[i] = j
                     THEN "dropped" ELSE phase[j]]
  BY DEF CancelPending
<1>4. \A i \in 1 .. Len(q) : q[i] \in Jobs
  BY <1>1, ElementOfSeq
<1>5. queues'[s] = kept
  BY <1>3 DEF TypeOK
<1>6. DequeOK(s)'
  <2>1. ASSUME Kept(s) = 1 PROVE phase'[q[1]] = phase[q[1]]
    BY <2>1, <1>1, <1>2, <1>3, <1>4 DEF DequeOK
  <2>2. ASSUME NEW i \in 1 .. Len(kept)
        PROVE  i = 1 /\ ServerOf[kept[i]] = s /\ phase'[kept[i]] \in Scheduled
    <3> HIDE DEF kept
    <3>1. Kept(s) = 1 /\ i = 1
      BY <1>2
    <3>2. kept[i] = q[1] /\ 1 \in 1 .. Len(q)
      BY <3>1, <1>2
    <3>3. ServerOf[q[1]] = s /\ phase[q[1]] \in Scheduled
      BY <3>2, <1>1 DEF DequeOK
    <3> QED
      BY <3>1, <3>2, <3>3, <2>1
  <2>3. ASSUME NEW k \in Jobs, ServerOf[k] = s, phase'[k] \in Scheduled
        PROVE  Len(kept) # 0 /\ kept[1] = k
    <3>1. phase[k] \in Scheduled /\ ~ \E i \in Kept(s) + 1 .. Len(q) : q[i] = k
      BY <2>3, <1>3 DEF Scheduled, OnThread, Executing
    <3>2. q[1] = k
      BY <2>3, <3>1, <1>1 DEF DequeOK
    <3> QED
      BY <3>1, <3>2, <1>2
  <2> HIDE DEF kept
  <2> QED
    BY <2>2, <2>3, <1>5 DEF DequeOK
<1>7. ASSUME NEW r \in Servers, r # s PROVE DequeOK(r)'
  <2>1. \A i \in 1 .. Len(q) : ServerOf[q[i]] = s
    BY <1>1 DEF DequeOK
  <2>2. \A k \in Jobs : ServerOf[k] = r => phase'[k] = phase[k]
    <3>1. Kept(s) + 1 .. Len(q) \subseteq 1 .. Len(q)
      BY <1>2
    <3> QED
      BY <1>7, <2>1, <3>1, <1>3
  <2> QED
    BY <1>7, <2>2, <1>3, DequeFrame DEF DequeInv, TypeOK
<1> QED
  BY <1>6, <1>7 DEF DequeInv

\* Every step keeps the deques and the pool in order.
THEOREM NextDeque == TypeOK /\ DequeInv /\ [Next]_vars => DequeInv'
<1> SUFFICES ASSUME TypeOK, DequeInv, [Next]_vars PROVE DequeInv'
  OBVIOUS
<1>1. ASSUME NEW j \in Jobs, Submit(j) PROVE DequeInv'
  BY <1>1, SubmitDeque
<1>2. ASSUME NEW j \in Jobs, Pop(j) PROVE DequeInv'
  BY <1>2, RunnableMoves DEF Pop, Scheduled, OnThread
<1>3. ASSUME NEW j \in Jobs, MarkStarted(j) PROVE DequeInv'
  <2>1. phase[j] \in Scheduled
    BY <1>3 DEF MarkStarted, Scheduled, OnThread
  <2>2. ServerOf[j] \in Servers /\ queues[ServerOf[j]] \in Seq(Jobs)
    BY ServerOfAssumption DEF TypeOK
  <2>3. IsHead(j)
    BY <2>1, <2>2, HeadIsFirst DEF DequeInv, DequeOK, IsHead
  <2> QED
    BY <1>3, <2>1, <2>3, RunnableMoves DEF MarkStarted, Scheduled, OnThread, Executing
<1>4. ASSUME NEW j \in Jobs, EmitStart(j) PROVE DequeInv'
  BY <1>4, RunnableMoves DEF EmitStart, Scheduled, OnThread, Executing
<1>5. ASSUME NEW j \in Jobs, NEW r \in Outcomes, EmitOutcome(j, r) PROVE DequeInv'
  BY <1>5, RunnableMoves DEF EmitOutcome, Scheduled, OnThread, Executing
<1>6. ASSUME NEW j \in Jobs, EmitFinish(j) PROVE DequeInv'
  BY <1>6, RunnableMoves DEF EmitFinish, Scheduled, OnThread, Executing
<1>7. ASSUME NEW j \in Jobs, Complete(j) PROVE DequeInv'
  BY <1>7, CompleteDeque
<1>8. ASSUME NEW s \in Servers, CancelPending(s) PROVE DequeInv'
  BY <1>8, CancelDeque
<1>9. ASSUME UNCHANGED <<queues, phase>> PROVE DequeInv'
  BY <1>9 DEF DequeInv, DequeOK
<1> QED
  BY <1>1, <1>2, <1>3, <1>4, <1>5, <1>6, <1>7, <1>8, <1>9
     DEF Next, RunStep, QtStep, FinishCancelled, Publish, vars

-----------------------------------------------------------------------------
\* Every queued signal is a job's.
LEMMA EventsTyped ==
  ASSUME TypeOK
  PROVE  \A i \in 1 .. Len(events) : events[i].job \in Jobs
<1> DEFINE E == [job : Jobs, signal : Signals]
<1>1. events \in Seq(E)
  BY DEF TypeOK
<1> HIDE DEF E
<1>2. \A i \in 1 .. Len(events) : events[i] \in E
  BY <1>1, ElementOfSeq
<1> QED
  BY <1>2 DEF E

\* In the beginning nothing is queued, held or cancelled.
THEOREM InitDelivery == Init => DeliveryInv
  BY DEF Init, DeliveryInv, Unfinished

\* A signal of a job that has not finished joins the event queue.
LEMMA EmitDelivery ==
  ASSUME TypeOK, DeliveryInv, NEW j \in Jobs, NEW signal \in Signals, NEW p,
         Emit(j, signal), phase[j] \in Unfinished, phase' = [phase EXCEPT ![j] = p],
         signal = "finished" => p \in Finished,
         UNCHANGED <<holds, cancelling>>
  PROVE  DeliveryInv'
<1> DEFINE n == Len(events)
           e == [job |-> j, signal |-> signal]
<1>1. /\ n \in Nat
      /\ Len(events') = n + 1
      /\ events'[n + 1] = e
      /\ \A i \in 1 .. n : events'[i] = events[i]
  BY AppendProperties DEF TypeOK, Emit
<1>2. j \in holds /\ phase[j] \notin Finished /\ phase[j] # "dropped"
  BY DEF DeliveryInv, Unfinished, Finished
<1>3. \A k \in Jobs : k # j => phase'[k] = phase[k]
  BY DEF TypeOK
<1>4. phase'[j] = p
  BY DEF TypeOK
<1>5. \A i \in 1 .. n : events[i].job \in Jobs
  BY EventsTyped
<1>6. \A i \in 1 .. n : events[i].signal = "finished" => events[i].job # j
  BY <1>2 DEF DeliveryInv, Queued
<1>7. ASSUME NEW i \in 1 .. n + 1 PROVE Queued(i)'
  <2>1. CASE i \in 1 .. n
    BY <2>1, <1>1, <1>3, <1>5, <1>6 DEF DeliveryInv, Queued
  <2>2. CASE i = n + 1
    BY <2>2, <1>1, <1>2, <1>4 DEF Queued
  <2> QED
    BY <2>1, <2>2, <1>1
<1>8. ASSUME NEW i \in 1 .. Len(cancelling) PROVE Cancelled(i)'
  <2>1. Cancelled(i) /\ cancelling[i] \in Jobs /\ cancelling[i] # j
    BY <1>2, ElementOfSeq DEF TypeOK, DeliveryInv, Cancelled
  <2>2. \A k \in 1 .. n + 1 : events'[k].signal = "finished" => events'[k].job # cancelling[i]
    BY <2>1, <1>1 DEF Cancelled
  <2> QED
    BY <2>1, <2>2, <1>1, <1>3 DEF Cancelled
<1>9. ASSUME NEW k \in Jobs, phase'[k] \in Unfinished PROVE k \in holds'
  BY <1>9, <1>2, <1>3 DEF DeliveryInv
<1> QED
  BY <1>1, <1>7, <1>8, <1>9 DEF DeliveryInv

\* No signal is emitted and nobody is released.
LEMMA QuietDelivery ==
  ASSUME TypeOK, DeliveryInv, UNCHANGED <<events, cancelling>>, holds \subseteq holds',
         \A k \in Jobs : phase[k] \in Finished => phase'[k] \in Finished,
         \A k \in Jobs : phase[k] = "dropped" => phase'[k] = "dropped",
         \A k \in Jobs : phase'[k] \in Unfinished => phase[k] \in Unfinished \/ k \in holds'
  PROVE  DeliveryInv'
<1>1. \A i \in 1 .. Len(events) : events[i].job \in Jobs
  BY EventsTyped
<1>2. \A i \in 1 .. Len(cancelling) : cancelling[i] \in Jobs
  BY ElementOfSeq DEF TypeOK
<1>3. \A i \in 1 .. Len(events) : Queued(i)'
  BY <1>1 DEF DeliveryInv, Queued
<1>4. \A i \in 1 .. Len(cancelling) : Cancelled(i)'
  BY <1>2 DEF DeliveryInv, Cancelled
<1> QED
  BY <1>3, <1>4 DEF DeliveryInv

\* The jobs cancel_pending drops are held, and none has emitted finished.
LEMMA CancelDelivery ==
  ASSUME TypeOK, DequeInv, DeliveryInv, NEW s \in Servers, CancelPending(s)
  PROVE  DeliveryInv'
<1> DEFINE q == queues[s]
           c == Notices(s)
<1>1. q \in Seq(Jobs) /\ q # <<>> /\ DequeOK(s)
  BY DEF TypeOK, CancelPending, DequeInv
<1>2. /\ Len(q) \in Nat \ {0}
      /\ Kept(s) \in {0, 1}
      /\ c \in Seq(Jobs)
      /\ Len(c) = Len(q) - Kept(s)
      /\ \A i \in 1 .. Len(c) : c[i] = q[i + Kept(s)]
  BY <1>1, KeptBounds, NoticesType
<1>3. /\ cancelling' = c
      /\ phase' = [j \in Jobs |->
                     IF \E i \in Kept(s) + 1 .. Len(q) : q[i] = j
                     THEN "dropped" ELSE phase[j]]
      /\ UNCHANGED <<holds, events>>
  BY DEF CancelPending
<1>4. Kept(s) = 0 => phase[q[1]] = "pooled"
  BY <1>1, HeadIsFirst DEF Kept
<1>5. \A i \in Kept(s) + 1 .. Len(q) : phase[q[i]] \in {"pooled", "waiting"}
  BY <1>1, <1>2, <1>4 DEF DequeOK
<1> HIDE DEF q, c
<1>6. ASSUME NEW i \in 1 .. Len(c)
      PROVE  /\ c[i] \in Jobs
             /\ i + Kept(s) \in Kept(s) + 1 .. Len(q)
             /\ c[i] = q[i + Kept(s)]
  BY <1>2, ElementOfSeq
<1>7. \A i \in 1 .. Len(c) : phase'[c[i]] = "dropped" /\ phase[c[i]] \in Unfinished
  BY <1>3, <1>5, <1>6 DEF Unfinished
<1>8. ASSUME NEW i \in 1 .. Len(c), NEW k \in 1 .. Len(c), c[i] = c[k] PROVE i = k
  <2>1. i + Kept(s) \in 1 .. Len(q) /\ k + Kept(s) \in 1 .. Len(q)
    BY <1>2, <1>6
  <2>2. i + Kept(s) = k + Kept(s)
    BY <2>1, <1>1, <1>6, <1>8 DEF DequeOK, q
  <2> QED
    BY <2>2, <1>2
<1>9. \A i \in 1 .. Len(c) : c[i] \in holds /\ phase[c[i]] \notin Finished
  BY <1>6, <1>7 DEF DeliveryInv, Unfinished, Finished
<1>10. ASSUME NEW i \in 1 .. Len(c) PROVE Cancelled(i)'
  <2>1. \A k \in 1 .. Len(events) : events[k].signal = "finished" => events[k].job # c[i]
    BY <1>9 DEF DeliveryInv, Queued
  <2> QED
    <3>1. c[i] \in holds' /\ phase'[c[i]] = "dropped"
      BY <1>3, <1>7, <1>9
    <3>2. \A k \in 1 .. Len(c) : c[i] = c[k] => i = k
      BY <1>8
    <3> QED
      BY <2>1, <3>1, <3>2, <1>3 DEF Cancelled
<1>11. ASSUME NEW i \in 1 .. Len(events) PROVE Queued(i)'
  <2>1. events[i].job \in Jobs
    BY EventsTyped
  <2> QED
    BY <2>1, <1>3 DEF DeliveryInv, Queued, Finished
<1>12. ASSUME NEW k \in Jobs, phase'[k] \in Unfinished PROVE k \in holds'
  BY <1>12, <1>3 DEF DeliveryInv, Unfinished
<1> QED
  BY <1>3, <1>10, <1>11, <1>12 DEF DeliveryInv

\* _complete releases nobody: the hold goes with the finished signal.
LEMMA CompleteDelivery ==
  ASSUME TypeOK, DequeInv, DeliveryInv, NEW j \in Jobs, Complete(j)
  PROVE  DeliveryInv'
<1> DEFINE q == queues[ServerOf[j]]
           rest == Tail(q)
<1>1. q \in Seq(Jobs) /\ DequeOK(ServerOf[j])
  BY ServerOfAssumption DEF TypeOK, DequeInv
<1>2. \A k \in Jobs : phase'[k] = phase[k] \/ (k = j /\ phase'[k] = "returned")
                       \/ (phase[k] = "waiting" /\ phase'[k] = "pooled")
  <2>1. CASE ~IsHead(j)
    BY <2>1 DEF Complete, TypeOK
  <2>2. CASE IsHead(j)
    <3>1. /\ rest \in Seq(Jobs) /\ Len(rest) = Len(q) - 1 /\ Len(q) \in Nat \ {0}
          /\ \A i \in 1 .. Len(rest) : rest[i] = q[i + 1]
      BY <2>2, <1>1, HeadTailProperties, EmptySeq DEF IsHead
    <3>2. \A k \in Promoted(rest) : Len(q) > 1 /\ k = q[2]
      BY <3>1, HeadIsFirst DEF Promoted
    <3>3. \A k \in Promoted(rest) : phase[k] = "waiting"
      BY <3>1, <3>2, <1>1 DEF DequeOK
    <3> QED
      BY <2>2, <3>3 DEF Complete, TypeOK
  <2> QED
    BY <2>1, <2>2
<1>3. phase[j] = "completing" /\ UNCHANGED <<events, cancelling, holds>>
  BY DEF Complete
<1> QED
  BY <1>2, <1>3, QuietDelivery DEF Unfinished, Finished

\* The finished signal of a cancelled job is queued while the job is held.
LEMMA FinishCancelledDelivery ==
  ASSUME TypeOK, DeliveryInv, FinishCancelled
  PROVE  DeliveryInv'
<1> DEFINE n == Len(events)
           j == Head(cancelling)
<1>1. /\ cancelling # <<>>
      /\ events' = Append(events, [job |-> j, signal |-> "finished"])
      /\ cancelling' = Tail(cancelling)
      /\ UNCHANGED <<phase, holds>>
  BY DEF FinishCancelled, Emit
<1>2. j \in Jobs /\ j = cancelling[1] /\ Len(cancelling) \in Nat \ {0}
  BY <1>1, HeadTailProperties, EmptySeq DEF TypeOK
<1>3. /\ Len(cancelling') = Len(cancelling) - 1
      /\ \A i \in 1 .. Len(cancelling') : cancelling'[i] = cancelling[i + 1]
  BY <1>1, HeadTailProperties DEF TypeOK
<1>4. Cancelled(1)
  BY <1>2 DEF DeliveryInv
<1> HIDE DEF j
<1>5. [job |-> j, signal |-> "finished"] \in [job : Jobs, signal : Signals]
  BY <1>2 DEF Signals
<1>6. /\ n \in Nat
      /\ Len(events') = n + 1
      /\ events'[n + 1].job = j
      /\ events'[n + 1].signal = "finished"
      /\ \A i \in 1 .. n : events'[i] = events[i]
  BY <1>1, <1>5, AppendProperties DEF TypeOK
<1>7. \A i \in 1 .. n : events[i].signal = "finished" => events[i].job # j
  BY <1>2, <1>4 DEF Cancelled
<1>8. ASSUME NEW i \in 1 .. n + 1 PROVE Queued(i)'
  <2>1. CASE i \in 1 .. n
    <3>1. Queued(i) /\ events'[i] = events[i]
      BY <2>1, <1>6 DEF DeliveryInv
    <3>2. ASSUME NEW k \in 1 .. n + 1, events[i].signal = "finished", i < k
          PROVE  events'[k].job # events[i].job
      <4>1. CASE k \in 1 .. n
        BY <4>1, <3>1, <3>2, <1>6 DEF Queued
      <4>2. CASE k = n + 1
        BY <4>2, <2>1, <3>2, <1>6, <1>7
      <4> QED
        BY <4>1, <4>2, <1>6
    <3> QED
      BY <3>1, <3>2, <1>1, <1>6 DEF Queued
  <2>2. CASE i = n + 1
    BY <2>2, <1>1, <1>2, <1>4, <1>6 DEF Queued, Cancelled, Finished
  <2> QED
    BY <2>1, <2>2, <1>6
<1>9. ASSUME NEW i \in 1 .. Len(cancelling') PROVE Cancelled(i)'
  <2>1. Cancelled(i + 1) /\ i + 1 \in 1 .. Len(cancelling) /\ i + 1 # 1
    BY <1>2, <1>3 DEF DeliveryInv
  <2>2. cancelling[i + 1] # j
    BY <2>1, <1>2, <1>4 DEF Cancelled
  <2>3. \A k \in 1 .. n + 1 : events'[k].signal = "finished" => events'[k].job # cancelling'[i]
    <3>1. \A k \in 1 .. n : events[k].signal = "finished" => events[k].job # cancelling[i + 1]
      BY <2>1 DEF Cancelled
    <3>2. cancelling'[i] = cancelling[i + 1] /\ \A k \in 1 .. n + 1 : k \in 1 .. n \/ k = n + 1
      BY <1>3, <1>6
    <3> QED
      BY <1>6, <2>2, <3>1, <3>2
  <2>4. \A k \in 1 .. Len(cancelling') : cancelling'[i] = cancelling'[k] => i = k
    BY <2>1, <1>2, <1>3 DEF Cancelled
  <2> QED
    BY <2>1, <2>3, <2>4, <1>1, <1>3, <1>6 DEF Cancelled
<1> QED
  BY <1>1, <1>6, <1>8, <1>9 DEF DeliveryInv

\* The Qt thread releases a job only with its last signal.
LEMMA PublishDelivery ==
  ASSUME TypeOK, DeliveryInv, Publish
  PROVE  DeliveryInv'
<1> DEFINE e == Head(events)
<1>1. /\ cancelling = <<>> /\ events # <<>>
      /\ events' = Tail(events)
      /\ holds' = IF e.signal = "finished" THEN holds \ {e.job} ELSE holds
      /\ UNCHANGED <<phase, cancelling>>
  BY DEF Publish, Releases
<1>2. e = events[1] /\ Len(events) \in Nat \ {0}
  BY <1>1, HeadTailProperties, EmptySeq DEF TypeOK
<1>3. /\ Len(events') = Len(events) - 1
      /\ \A i \in 1 .. Len(events') : events'[i] = events[i + 1]
  BY <1>1, HeadTailProperties DEF TypeOK
<1>4. Queued(1)
  BY <1>2 DEF DeliveryInv
<1> HIDE DEF e
<1>5. ASSUME NEW i \in 1 .. Len(events') PROVE Queued(i)'
  <2>1. Queued(i + 1) /\ i + 1 \in 1 .. Len(events) /\ 1 < i + 1
    BY <1>2, <1>3 DEF DeliveryInv
  <2>2. e.signal = "finished" => events[i + 1].job # e.job
    BY <2>1, <1>2, <1>4 DEF Queued
  <2>3. \A k \in 1 .. Len(events') : k + 1 \in 1 .. Len(events) /\ (i < k => i + 1 < k + 1)
    BY <1>2, <1>3
  <2> QED
    BY <2>1, <2>2, <2>3, <1>1, <1>3 DEF Queued
<1>6. ASSUME NEW k \in Jobs, phase'[k] \in Unfinished PROVE k \in holds'
  BY <1>6, <1>1, <1>2, <1>4 DEF DeliveryInv, Queued, Unfinished, Finished
<1>7. Len(cancelling') = 0
  BY <1>1
<1> QED
  BY <1>5, <1>6, <1>7 DEF DeliveryInv

\* Every step keeps the signals behind the holds.
THEOREM NextDelivery == TypeOK /\ DequeInv /\ DeliveryInv /\ [Next]_vars => DeliveryInv'
<1> SUFFICES ASSUME TypeOK, DequeInv, DeliveryInv, [Next]_vars PROVE DeliveryInv'
  OBVIOUS
<1>1. ASSUME NEW j \in Jobs, Submit(j) PROVE DeliveryInv'
  BY <1>1, QuietDelivery DEF Submit, TypeOK, Unfinished, Finished
<1>2. ASSUME NEW j \in Jobs, Pop(j) PROVE DeliveryInv'
  BY <1>2, QuietDelivery DEF Pop, TypeOK, Unfinished, Finished
<1>3. ASSUME NEW j \in Jobs, MarkStarted(j) PROVE DeliveryInv'
  BY <1>3, QuietDelivery DEF MarkStarted, TypeOK, Unfinished, Finished
<1>4. ASSUME NEW j \in Jobs, EmitStart(j) PROVE DeliveryInv'
  BY <1>4, EmitDelivery DEF EmitStart, Signals, Unfinished
<1>5. ASSUME NEW j \in Jobs, NEW r \in Outcomes, EmitOutcome(j, r) PROVE DeliveryInv'
  BY <1>5, EmitDelivery DEF EmitOutcome, Signals, Outcomes, Unfinished
<1>6. ASSUME NEW j \in Jobs, EmitFinish(j) PROVE DeliveryInv'
  BY <1>6, EmitDelivery DEF EmitFinish, Signals, Unfinished, Finished
<1>7. ASSUME NEW j \in Jobs, Complete(j) PROVE DeliveryInv'
  BY <1>7, CompleteDelivery
<1>8. ASSUME NEW s \in Servers, CancelPending(s) PROVE DeliveryInv'
  BY <1>8, CancelDelivery
<1>9. CASE FinishCancelled
  BY <1>9, FinishCancelledDelivery
<1>10. CASE Publish
  BY <1>10, PublishDelivery
<1>11. CASE UNCHANGED vars
  BY <1>11, QuietDelivery DEF vars
<1> QED
  BY <1>1, <1>2, <1>3, <1>4, <1>5, <1>6, <1>7, <1>8, <1>9, <1>10, <1>11
     DEF Next, RunStep, QtStep

-----------------------------------------------------------------------------
\* Every variable keeps its type.
THEOREM TypeCorrect == Spec => []TypeOK
  BY InitType, NextType, PTL DEF Spec

\* The invariant the safety of the deques rests on.
THEOREM DequesInOrder == Spec => []DequeInv
  BY InitDeque, NextDeque, TypeCorrect, PTL DEF Spec

\* A server with jobs in its deque has the first of them in the pool or on a
\* thread: no job waits for a completion that never comes (submit, _complete,
\* cancel_pending of workers/scheduler.py).
THEOREM PoolAndDequesAgree == Spec => []HeadIsScheduled
<1>1. TypeOK /\ DequeInv => HeadIsScheduled
  <2> SUFFICES ASSUME TypeOK, DequeInv PROVE HeadIsScheduled
    OBVIOUS
  <2>1. ASSUME NEW j \in Jobs, phase[j] \in Scheduled PROVE IsHead(j)
    BY <2>1, ServerOfAssumption, HeadIsFirst DEF TypeOK, DequeInv, DequeOK, IsHead
  <2>2. ASSUME NEW s \in Servers, queues[s] # <<>>
        PROVE  phase[Head(queues[s])] \in Scheduled
    <3>1. Len(queues[s]) \in Nat \ {0} /\ Head(queues[s]) = queues[s][1]
      BY <2>2, HeadIsFirst, EmptySeq DEF TypeOK
    <3> QED
      BY <3>1 DEF DequeInv, DequeOK
  <2> QED
    BY <2>1, <2>2 DEF HeadIsScheduled
<1> QED
  BY <1>1, TypeCorrect, DequesInOrder, PTL

\* Two jobs of a server never execute at once, however many threads the pool has
\* and whatever is cancelled meanwhile (_QueuedJob.run, _schedule_locked).
THEOREM JobsOfAServerNeverOverlap == Spec => []OneAtATime
<1>1. HeadIsScheduled => OneAtATime
  BY DEF HeadIsScheduled, OneAtATime, IsHead
<1> QED
  BY <1>1, PoolAndDequesAgree, PTL

\* The invariant the delivery of the signals rests on.
THEOREM DeliveryInOrder == Spec => []DeliveryInv
  BY InitDelivery, NextDelivery, TypeCorrect, DequesInOrder, PTL DEF Spec

\* A job whose signals are still queued is held by the scheduler, so that its
\* JobHandle outlives them (_handles, _release_handle).
THEOREM NoSignalIsLost == Spec => []HeldWhileSignalled
<1>1. DeliveryInv => HeldWhileSignalled
  BY DEF DeliveryInv, Queued, Cancelled, HeldWhileSignalled
<1> QED
  BY <1>1, DeliveryInOrder, PTL

-----------------------------------------------------------------------------
(* The signals of a job, queued or published, are its life cycle.           *)

\* The m-th word of what a job has to tell.
Word(j, m) ==
    IF phase[j] = "dropped" THEN "finished"
    ELSE CASE m = 1 -> "started" [] m = 2 -> outcome[j] [] OTHER -> "finished"

\* Which of these words a signal is.
Place(j, signal) ==
    IF phase[j] = "dropped" THEN 1
    ELSE CASE signal = "started" -> 1 [] signal = "finished" -> 3 [] OTHER -> 2

\* How many of them it has emitted.
Emitted(j) ==
    CASE phase[j] = "working"   -> 1
      [] phase[j] = "reporting" -> 2
      [] phase[j] \in {"completing", "returned"} -> 3
      [] phase[j] = "dropped"   ->
             IF \E i \in 1 .. Len(cancelling) : cancelling[i] = j THEN 0 ELSE 1
      [] OTHER -> 0

PlaceOf(i) == Place(events[i].job, events[i].signal)

\* A queued signal is true, and in its place behind those published and those queued
\* before it.
TrueSignal(i) ==
    /\ events[i].signal = Word(events[i].job, PlaceOf(i))
    /\ PlaceOf(i) > Len(published[events[i].job])
    /\ PlaceOf(i) <= Emitted(events[i].job)
    /\ \A k \in 1 .. Len(events) :
         i < k /\ events[i].job = events[k].job => PlaceOf(i) < PlaceOf(k)

\* What was published is the beginning of what was emitted, and the rest is queued.
TrueTale(j) ==
    /\ Len(published[j]) <= Emitted(j)
    /\ \A m \in 1 .. Len(published[j]) : published[j][m] = Word(j, m)
    /\ \A m \in Len(published[j]) + 1 .. Emitted(j) :
         \E i \in 1 .. Len(events) : events[i].job = j /\ PlaceOf(i) = m
    /\ phase[j] \in {"reporting", "completing", "returned"} => outcome[j] \in Outcomes

TaleInv ==
    /\ \A i \in 1 .. Len(events) : TrueSignal(i)
    /\ \A j \in Jobs : TrueTale(j)

\* How many words there are and where they stand.
LEMMA TaleRanges ==
  ASSUME TypeOK
  PROVE  /\ \A j \in Jobs : Emitted(j) \in 0 .. 3 /\ Len(published[j]) \in Nat
         /\ \A i \in 1 .. Len(events) :
              /\ events[i].job \in Jobs /\ events[i].signal \in Signals
              /\ PlaceOf(i) \in 1 .. 3
<1> DEFINE E == [job : Jobs, signal : Signals]
<1>1. \A j \in Jobs : published[j] \in Seq(Signals) /\ phase[j] \in Phases
  BY DEF TypeOK
<1>2. \A j \in Jobs : Emitted(j) \in 0 .. 3
  BY DEF Emitted
<1>3. events \in Seq(E)
  BY DEF TypeOK
<1> HIDE DEF E
<1>4. \A i \in 1 .. Len(events) : events[i] \in E
  BY <1>3, ElementOfSeq
<1>5. \A i \in 1 .. Len(events) : PlaceOf(i) \in 1 .. 3
  BY DEF PlaceOf, Place
<1> QED
  BY <1>1, <1>2, <1>4, <1>5 DEF E

\* A step that emits and publishes nothing, and after which no job that has emitted
\* something has something else to tell.
LEMMA QuietTale ==
  ASSUME TypeOK, TaleInv, UNCHANGED <<events, published>>,
         \A k \in Jobs :
            /\ Emitted(k)' = Emitted(k)
            /\ Emitted(k) # 0 => /\ phase'[k] = "dropped" <=> phase[k] = "dropped"
                                 /\ outcome'[k] = outcome[k]
            /\ phase'[k] \in {"reporting", "completing", "returned"} => outcome'[k] \in Outcomes
  PROVE  TaleInv'
<1>1. /\ \A j \in Jobs : Emitted(j) \in 0 .. 3 /\ Len(published[j]) \in Nat
      /\ \A i \in 1 .. Len(events) : events[i].job \in Jobs /\ PlaceOf(i) \in 1 .. 3
  BY TaleRanges
<1>2. ASSUME NEW i \in 1 .. Len(events)
      PROVE  /\ PlaceOf(i)' = PlaceOf(i)
             /\ Word(events[i].job, PlaceOf(i))' = Word(events[i].job, PlaceOf(i))
  <2>1. Emitted(events[i].job) # 0
    BY <1>1 DEF TaleInv, TrueSignal
  <2>2. PlaceOf(i)' = PlaceOf(i)
    BY <1>1, <2>1 DEF PlaceOf, Place
  <2> QED
    BY <1>1, <2>1, <2>2 DEF Word
<1>3. ASSUME NEW i \in 1 .. Len(events) PROVE TrueSignal(i)'
  BY <1>1, <1>2 DEF TaleInv, TrueSignal
<1>4. ASSUME NEW j \in Jobs PROVE TrueTale(j)'
  <2>1. ASSUME NEW m \in 1 .. Len(published[j]) PROVE Word(j, m)' = Word(j, m)
    <3>1. Emitted(j) # 0
      BY <1>1 DEF TaleInv, TrueTale
    <3> QED
      BY <3>1 DEF Word
  <2> QED
    BY <1>2, <2>1 DEF TaleInv, TrueTale
<1> QED
  BY <1>3, <1>4 DEF TaleInv

\* A job emits its next word.
LEMMA EmitTale ==
  ASSUME TypeOK, TaleInv, NEW j \in Jobs, NEW signal \in Signals, Emit(j, signal),
         UNCHANGED published,
         \A k \in Jobs \ {j} : /\ Emitted(k)' = Emitted(k)
                               /\ phase'[k] = phase[k] /\ outcome'[k] = outcome[k],
         NEW place, place = Emitted(j) + 1, Emitted(j)' = place,
         phase'[j] = "dropped" <=> phase[j] = "dropped",
         \A m \in 1 .. Emitted(j) : Word(j, m)' = Word(j, m),
         Place(j, signal)' = place, Word(j, place)' = signal,
         phase'[j] \in {"reporting", "completing", "returned"} => outcome'[j] \in Outcomes
  PROVE  TaleInv'
<1> DEFINE e == [job |-> j, signal |-> signal]
<1>8. PICK n \in Nat : n = Len(events)
  BY DEF TypeOK
<1>1. /\ Len(events') = n + 1
      /\ events'[n + 1] = e
      /\ \A i \in 1 .. n : events'[i] = events[i]
  BY <1>8, AppendProperties DEF TypeOK, Emit
<1>2. /\ \A k \in Jobs : Emitted(k) \in 0 .. 3 /\ Len(published[k]) \in Nat
      /\ \A i \in 1 .. n : events[i].job \in Jobs /\ PlaceOf(i) \in 1 .. 3
  BY <1>8, TaleRanges
<1>3. ASSUME NEW i \in 1 .. n
      PROVE  /\ PlaceOf(i)' = PlaceOf(i) /\ TrueSignal(i)
             /\ Word(events[i].job, PlaceOf(i))' = Word(events[i].job, PlaceOf(i))
  <2>1. TrueSignal(i) /\ events'[i] = events[i] /\ events[i].job \in Jobs
    BY <1>1, <1>2, <1>8 DEF TaleInv
  <2>2. PlaceOf(i)' = PlaceOf(i)
    BY <2>1 DEF PlaceOf, Place
  <2>3. CASE events[i].job = j
    BY <1>2, <2>1, <2>2, <2>3 DEF TrueSignal
  <2>4. CASE events[i].job # j
    BY <1>2, <2>1, <2>2, <2>4 DEF Word
  <2> QED
    BY <2>1, <2>2, <2>3, <2>4
<1>4. PlaceOf(n + 1)' = place
  BY <1>1 DEF PlaceOf
<1>5. ASSUME NEW i \in 1 .. n PROVE TrueSignal(i)'
  <2>1. TrueSignal(i) /\ events'[i] = events[i] /\ events[i].job \in Jobs
        /\ PlaceOf(i)' = PlaceOf(i) /\ PlaceOf(i) \in 1 .. 3
    BY <1>1, <1>2, <1>3
  <2>2. PlaceOf(i)' <= Emitted(events[i].job)'
    BY <1>2, <2>1 DEF TrueSignal
  <2>3. ASSUME NEW k \in 1 .. n + 1, i < k, events'[i].job = events'[k].job
        PROVE  PlaceOf(i)' < PlaceOf(k)'
    <3>1. CASE k \in 1 .. n
      BY <1>1, <1>3, <1>8, <2>1, <2>3, <3>1 DEF TrueSignal
    <3>2. CASE k = n + 1
      BY <1>1, <1>2, <1>4, <2>1, <2>3, <3>2 DEF TrueSignal
    <3> QED
      BY <1>1, <3>1, <3>2
  <2> QED
    BY <1>1, <1>3, <2>1, <2>2, <2>3 DEF TrueSignal
<1>6. TrueSignal(n + 1)'
  <2>1. Len(published[j]) <= Emitted(j)
    BY DEF TaleInv, TrueTale
  <2>2. \A k \in 1 .. n + 1 : ~(n + 1 < k)
    BY <1>1
  <2>3. events'[n + 1].job = j /\ events'[n + 1].signal = signal
    BY <1>1
  <2>4. place > Len(published[j])
    BY <1>2, <2>1
  <2>5. events'[n + 1].signal = Word(events[n + 1].job, PlaceOf(n + 1))'
    BY <1>4, <2>3
  <2>6. /\ PlaceOf(n + 1)' > Len(published'[events'[n + 1].job])
        /\ PlaceOf(n + 1)' <= Emitted(events[n + 1].job)'
    BY <1>2, <1>4, <2>3, <2>4
  <2>7. \A k \in 1 .. Len(events') : ~(n + 1 < k)
    BY <1>1, <2>2
  <2> QED
    BY <2>5, <2>6, <2>7 DEF TrueSignal
<1>7. ASSUME NEW k \in Jobs PROVE TrueTale(k)'
  <2>1. TrueTale(k)
    BY DEF TaleInv
  <2>2. ASSUME NEW m \in 1 .. Len(published[k]) PROVE published'[k][m] = Word(k, m)'
    <3>1. CASE k = j
      BY <1>2, <2>1, <3>1 DEF TrueTale
    <3>2. CASE k # j
      BY <2>1, <3>2 DEF TrueTale, Word
    <3> QED
      BY <3>1, <3>2
  <2>3. ASSUME NEW m \in Len(published[k]) + 1 .. Emitted(k)'
        PROVE  \E i \in 1 .. n + 1 : events'[i].job = k /\ PlaceOf(i)' = m
    <3>1. CASE k = j /\ m = place
      BY <1>1, <1>4, <3>1
    <3>2. CASE ~(k = j /\ m = place)
      <4>1. m \in Len(published[k]) + 1 .. Emitted(k)
        BY <1>2, <2>3, <3>2
      <4>2. PICK i \in 1 .. n : events[i].job = k /\ PlaceOf(i) = m
        BY <1>8, <2>1, <4>1 DEF TrueTale
      <4> QED
        BY <1>1, <1>3, <4>2
    <3> QED
      BY <3>1, <3>2
  <2>4. Len(published'[k]) <= Emitted(k)'
    BY <1>2, <2>1 DEF TrueTale
  <2> QED
    BY <1>1, <2>1, <2>2, <2>3, <2>4 DEF TrueTale
<1> QED
  BY <1>1, <1>5, <1>6, <1>7 DEF TaleInv

\* A job whose runnable is on a thread is the head of its deque.
LEMMA PopIsHead ==
  ASSUME TypeOK, DequeInv, NEW j \in Jobs, phase[j] \in Scheduled
  PROVE  IsHead(j)
BY ServerOfAssumption, HeadIsFirst DEF TypeOK, DequeInv, DequeOK, IsHead

\* What _complete does to the runnables of the other jobs.
LEMMA CompleteSteps ==
  ASSUME TypeOK, DequeInv, NEW j \in Jobs, Complete(j)
  PROVE  /\ phase[j] = "completing" /\ phase'[j] = "returned" /\ IsHead(j)
         /\ UNCHANGED <<events, published, outcome, cancelling>>
         /\ \A k \in Jobs \ {j} : \/ phase'[k] = phase[k]
                                  \/ phase[k] = "waiting" /\ phase'[k] = "pooled"
<1> DEFINE q == queues[ServerOf[j]]
           rest == Tail(q)
<1>1. IsHead(j)
  BY PopIsHead DEF Complete, Scheduled, OnThread, Executing
<1>2. q \in Seq(Jobs) /\ DequeOK(ServerOf[j])
  BY ServerOfAssumption DEF TypeOK, DequeInv
<1>3. /\ rest \in Seq(Jobs) /\ Len(rest) = Len(q) - 1 /\ Len(q) \in Nat \ {0}
      /\ \A i \in 1 .. Len(rest) : rest[i] = q[i + 1]
  BY <1>1, <1>2, HeadTailProperties, EmptySeq DEF IsHead
<1>4. \A k \in Promoted(rest) : Len(q) > 1 /\ k = q[2]
  BY <1>3, HeadIsFirst DEF Promoted
<1>5. \A k \in Promoted(rest) : phase[k] = "waiting"
  BY <1>2, <1>3, <1>4 DEF DequeOK
<1> QED
  BY <1>1, <1>5 DEF Complete, TypeOK

\* The jobs cancel_pending drops are those it is to announce, and none has begun.
LEMMA CancelSteps ==
  ASSUME TypeOK, DequeInv, NEW s \in Servers, CancelPending(s)
  PROVE  /\ UNCHANGED <<events, published, outcome>> /\ cancelling = <<>>
         /\ \A k \in Jobs :
              IF \E i \in 1 .. Len(cancelling') : cancelling'[i] = k
              THEN phase[k] \in {"waiting", "pooled"} /\ phase'[k] = "dropped"
              ELSE phase'[k] = phase[k]
<1> DEFINE q == queues[s]
           c == Notices(s)
<1>1. q \in Seq(Jobs) /\ q # <<>> /\ DequeOK(s)
  BY DEF TypeOK, CancelPending, DequeInv
<1>2. /\ Len(q) \in Nat \ {0}
      /\ Kept(s) \in {0, 1}
      /\ Len(c) = Len(q) - Kept(s)
      /\ \A i \in 1 .. Len(c) : c[i] = q[i + Kept(s)]
  BY <1>1, KeptBounds, NoticesType
<1>3. /\ cancelling' = c
      /\ phase' = [j \in Jobs |->
                     IF \E i \in Kept(s) + 1 .. Len(q) : q[i] = j
                     THEN "dropped" ELSE phase[j]]
      /\ UNCHANGED <<events, published, outcome>> /\ cancelling = <<>>
  BY DEF CancelPending
<1>4. Kept(s) = 0 => phase[q[1]] = "pooled"
  BY <1>1, HeadIsFirst DEF Kept
<1>5. \A i \in Kept(s) + 1 .. Len(q) : phase[q[i]] \in {"pooled", "waiting"}
  BY <1>1, <1>2, <1>4 DEF DequeOK
<1> HIDE DEF q, c
<1>6. ASSUME NEW k \in Jobs
      PROVE  (\E i \in 1 .. Len(c) : c[i] = k) <=> (\E i \in Kept(s) + 1 .. Len(q) : q[i] = k)
  <2>1. ASSUME NEW i \in 1 .. Len(c) PROVE i + Kept(s) \in Kept(s) + 1 .. Len(q)
    BY <1>2
  <2>2. ASSUME NEW i \in Kept(s) + 1 .. Len(q)
        PROVE  i - Kept(s) \in 1 .. Len(c) /\ c[i - Kept(s)] = q[i]
    BY <1>2
  <2> QED
    BY <1>2, <2>1, <2>2
<1> QED
  BY <1>3, <1>5, <1>6

\* The job whose end is announced was among those to be announced, once.
LEMMA NoticeSteps ==
  ASSUME TypeOK, DeliveryInv, FinishCancelled
  PROVE  LET j == Head(cancelling)
         IN  /\ j \in Jobs /\ phase[j] = "dropped"
             /\ \E i \in 1 .. Len(cancelling) : cancelling[i] = j
             /\ ~\E i \in 1 .. Len(cancelling') : cancelling'[i] = j
             /\ \A k \in Jobs \ {j} : (\E i \in 1 .. Len(cancelling) : cancelling[i] = k)
                                  <=> (\E i \in 1 .. Len(cancelling') : cancelling'[i] = k)
<1> DEFINE j == Head(cancelling)
<1>1. cancelling # <<>> /\ cancelling' = Tail(cancelling)
  BY DEF FinishCancelled
<1>2. /\ j = cancelling[1] /\ 1 \in 1 .. Len(cancelling)
      /\ Len(cancelling') = Len(cancelling) - 1
      /\ \A i \in 1 .. Len(cancelling') : cancelling'[i] = cancelling[i + 1]
  BY <1>1, HeadTailProperties, EmptySeq DEF TypeOK
<1> HIDE DEF j
<1>3. /\ \A i \in 1 .. Len(cancelling') : i + 1 \in 1 .. Len(cancelling) /\ i + 1 # 1
      /\ \A i \in 1 .. Len(cancelling) : i # 1 => i - 1 \in 1 .. Len(cancelling')
                                                 /\ cancelling'[i - 1] = cancelling[i]
  BY <1>2
<1>4. j \in Jobs /\ phase[j] = "dropped" /\ Cancelled(1)
  BY <1>2, ElementOfSeq DEF DeliveryInv, Cancelled, TypeOK
<1>5. ASSUME NEW i \in 1 .. Len(cancelling') PROVE cancelling'[i] # j
  BY <1>2, <1>3, <1>4 DEF Cancelled
<1>6. ASSUME NEW k \in Jobs \ {j}
      PROVE  (\E i \in 1 .. Len(cancelling) : cancelling[i] = k)
               <=> (\E i \in 1 .. Len(cancelling') : cancelling'[i] = k)
  BY <1>2, <1>3
<1> QED
  BY <1>2, <1>4, <1>5, <1>6 DEF j

\* What the oldest signal is when it is published: the next word of its job.
LEMMA OldestSignal ==
  ASSUME TypeOK, TaleInv, events # <<>>
  PROVE  LET e == Head(events)
         IN  /\ 1 \in 1 .. Len(events) /\ e = events[1] /\ e.job \in Jobs
             /\ e.signal \in Signals
             /\ PlaceOf(1) = Len(published[e.job]) + 1
             /\ PlaceOf(1) <= Emitted(e.job)
             /\ e.signal = Word(e.job, PlaceOf(1))
<1> DEFINE j == events[1].job
<1>1. 1 \in 1 .. Len(events) /\ Head(events) = events[1]
  BY HeadTailProperties, EmptySeq DEF TypeOK
<1>2. /\ j \in Jobs /\ events[1].signal \in Signals /\ PlaceOf(1) \in 1 .. 3
      /\ Len(published[j]) \in Nat /\ Emitted(j) \in 0 .. 3
      /\ \A i \in 1 .. Len(events) : PlaceOf(i) \in 1 .. 3
  BY <1>1, TaleRanges
<1>3. TrueSignal(1) /\ TrueTale(j)
  BY <1>1, <1>2 DEF TaleInv
<1>4. PlaceOf(1) = Len(published[j]) + 1
  <2> SUFFICES ASSUME PlaceOf(1) # Len(published[j]) + 1 PROVE FALSE
    OBVIOUS
  <2>1. Len(published[j]) + 1 \in Len(published[j]) + 1 .. Emitted(j)
        /\ Len(published[j]) + 1 < PlaceOf(1)
    BY <1>2, <1>3 DEF TrueSignal
  <2>2. PICK i \in 1 .. Len(events) :
           events[i].job = j /\ PlaceOf(i) = Len(published[j]) + 1
    BY <1>3, <2>1 DEF TrueTale
  <2>3. 1 < i
    BY <2>1, <2>2
  <2> QED
    BY <1>2, <1>3, <2>1, <2>2, <2>3 DEF TrueSignal
<1> QED
  BY <1>1, <1>2, <1>3, <1>4 DEF TrueSignal

\* A published signal goes from the queue to what was published.
LEMMA PublishTale ==
  ASSUME TypeOK, TaleInv, DeliveryInv, Publish
  PROVE  TaleInv'
<1>1. PICK j : j = Head(events).job
  OBVIOUS
<1>2. PICK m : m = PlaceOf(1)
  OBVIOUS
<1>3. events # <<>> /\ events' = Tail(events)
      /\ UNCHANGED <<phase, outcome, cancelling>>
  BY DEF Publish
<1>4. /\ 1 \in 1 .. Len(events) /\ j = events[1].job /\ j \in Jobs
      /\ Head(events) = events[1] /\ events[1].signal \in Signals
      /\ m = Len(published[j]) + 1 /\ m <= Emitted(j) /\ events[1].signal = Word(j, m)
  BY <1>1, <1>2, <1>3, OldestSignal
<1>5. j \in holds
  BY <1>4 DEF DeliveryInv, Queued
<1>6. /\ Len(events') = Len(events) - 1
      /\ \A i \in 1 .. Len(events') : events'[i] = events[i + 1]
      /\ \A i \in 1 .. Len(events') : i + 1 \in 1 .. Len(events) /\ 1 < i + 1
  BY <1>3, HeadTailProperties DEF TypeOK
<1>7. /\ \A k \in Jobs : Emitted(k) \in 0 .. 3 /\ Len(published[k]) \in Nat
      /\ \A i \in 1 .. Len(events) : events[i].job \in Jobs /\ PlaceOf(i) \in 1 .. 3
  BY TaleRanges
<1>8. published' = [published EXCEPT ![j] = Append(@, events[1].signal)]
  BY <1>1, <1>4, <1>5 DEF Publish
<1>9. /\ \A k \in Jobs \ {j} : published'[k] = published[k]
      /\ Len(published'[j]) = m
      /\ published'[j][m] = events[1].signal
      /\ \A x \in 1 .. Len(published[j]) : published'[j][x] = published[j][x]
  <2>1. published[j] \in Seq(Signals) /\ published'[j] = Append(published[j], events[1].signal)
    BY <1>4, <1>8 DEF TypeOK
  <2>2. \A k \in Jobs \ {j} : published'[k] = published[k]
    BY <1>8 DEF TypeOK
  <2>3. /\ Len(published'[j]) = Len(published[j]) + 1
        /\ published'[j][Len(published[j]) + 1] = events[1].signal
        /\ \A x \in 1 .. Len(published[j]) : published'[j][x] = published[j][x]
    BY <1>4, <2>1, AppendProperties
  <2> QED
    BY <1>4, <2>2, <2>3
<1>10. /\ \A k \in Jobs : Emitted(k)' = Emitted(k)
       /\ \A k \in Jobs, x \in 1 .. 3 : Word(k, x)' = Word(k, x)
       /\ \A i \in 1 .. Len(events') : PlaceOf(i)' = PlaceOf(i + 1)
  BY <1>3, <1>6 DEF Emitted, Word, PlaceOf, Place
<1>11. ASSUME NEW i \in 1 .. Len(events') PROVE TrueSignal(i)'
  <2>1. TrueSignal(i + 1) /\ events'[i] = events[i + 1] /\ PlaceOf(i)' = PlaceOf(i + 1)
        /\ events[i + 1].job \in Jobs /\ PlaceOf(i + 1) \in 1 .. 3
    BY <1>6, <1>7, <1>10 DEF TaleInv
  <2>2. PlaceOf(i)' > Len(published'[events'[i].job])
    <3>1. CASE events[i + 1].job = j
      <4>1. m < PlaceOf(i + 1)
        BY <1>2, <1>4, <1>6, <3>1 DEF TaleInv, TrueSignal
      <4> QED
        BY <1>9, <2>1, <3>1, <4>1
    <3>2. CASE events[i + 1].job # j
      BY <1>9, <2>1, <3>2 DEF TrueSignal
    <3> QED
      BY <3>1, <3>2
  <2>3. ASSUME NEW k \in 1 .. Len(events'), i < k, events'[i].job = events'[k].job
        PROVE  PlaceOf(i)' < PlaceOf(k)'
    <3>1. k + 1 \in 1 .. Len(events) /\ i + 1 < k + 1 /\ events'[k] = events[k + 1]
          /\ PlaceOf(k)' = PlaceOf(k + 1)
      BY <1>6, <1>10, <2>3
    <3> QED
      BY <2>1, <2>3, <3>1 DEF TrueSignal
  <2> QED
    BY <1>10, <2>1, <2>2, <2>3 DEF TrueSignal
<1>12. ASSUME NEW k \in Jobs PROVE TrueTale(k)'
  <2>1. TrueTale(k) /\ Emitted(k)' = Emitted(k) /\ Emitted(k) \in 0 .. 3
        /\ Len(published[k]) \in Nat
    BY <1>7, <1>10 DEF TaleInv
  <2>2. /\ Len(published'[k]) = IF k = j THEN Len(published[k]) + 1 ELSE Len(published[k])
        /\ Len(published'[k]) <= Emitted(k)
    BY <1>4, <1>9, <2>1 DEF TrueTale
  <2>3. ASSUME NEW x \in 1 .. Len(published'[k]) PROVE published'[k][x] = Word(k, x)'
    <3>1. x \in 1 .. 3
      BY <2>1, <2>2
    <3>2. CASE k = j /\ x = m
      BY <1>4, <1>9, <1>10, <3>1, <3>2
    <3>3. CASE ~(k = j /\ x = m)
      <4>1. x \in 1 .. Len(published[k])
        BY <1>4, <2>1, <2>2, <3>3
      <4> QED
        BY <1>9, <1>10, <2>1, <3>1, <4>1 DEF TrueTale
    <3> QED
      BY <3>2, <3>3
  <2>4. ASSUME NEW x \in Len(published'[k]) + 1 .. Emitted(k)
        PROVE  \E i \in 1 .. Len(events') : events'[i].job = k /\ PlaceOf(i)' = x
    <3>1. x \in Len(published[k]) + 1 .. Emitted(k) /\ (k = j => x # m)
      BY <1>4, <2>1, <2>2
    <3>2. PICK i \in 1 .. Len(events) : events[i].job = k /\ PlaceOf(i) = x
      BY <2>1, <3>1 DEF TrueTale
    <3>3. i # 1
      BY <1>2, <1>4, <3>1, <3>2
    <3>4. Len(events) \in Nat
      BY DEF TypeOK
    <3>5. i - 1 \in 1 .. Len(events') /\ (i - 1) + 1 = i
      BY <1>6, <3>3, <3>4
    <3>6. PICK h \in 1 .. Len(events') : h + 1 = i
      BY <3>5
    <3> QED
      BY <1>6, <1>10, <3>2, <3>6
  <2> QED
    BY <1>3, <2>1, <2>2, <2>3, <2>4 DEF TrueTale
<1> QED
  BY <1>11, <1>12 DEF TaleInv

\* The signals keep telling the life cycle of their job.
THEOREM NextTale == TypeOK /\ DequeInv /\ DeliveryInv /\ TaleInv /\ [Next]_vars => TaleInv'
<1> SUFFICES ASSUME TypeOK, DequeInv, DeliveryInv, TaleInv, [Next]_vars PROVE TaleInv'
  OBVIOUS
<1> DEFINE Late == {"reporting", "completing", "returned"}
<1>1. \A k \in Jobs : phase[k] \in Late => outcome[k] \in Outcomes
  BY DEF TaleInv, TrueTale
<1>2. ASSUME NEW j \in Jobs, Submit(j) PROVE TaleInv'
  BY <1>1, <1>2, QuietTale DEF Submit, Admit, TypeOK, Emitted
<1>3. ASSUME NEW j \in Jobs, Pop(j) PROVE TaleInv'
  BY <1>1, <1>3, QuietTale DEF Pop, TypeOK, Emitted
<1>4. ASSUME NEW j \in Jobs, MarkStarted(j) PROVE TaleInv'
  <2>1. IsHead(j)
    BY <1>4, PopIsHead DEF MarkStarted, Scheduled, OnThread
  <2> QED
    BY <1>1, <1>4, <2>1, QuietTale DEF MarkStarted, TypeOK, Emitted, Scheduled, OnThread
<1>5. ASSUME NEW j \in Jobs, EmitStart(j) PROVE TaleInv'
  <2>1. /\ Emit(j, "started") /\ "started" \in Signals /\ UNCHANGED <<published, cancelling>>
        /\ phase[j] = "marked" /\ phase'[j] = "working" /\ outcome'[j] = outcome[j]
        /\ \A k \in Jobs \ {j} : phase'[k] = phase[k] /\ outcome'[k] = outcome[k]
    BY <1>5 DEF EmitStart, TypeOK, Signals
  <2>2. /\ Emitted(j) = 0 /\ Emitted(j)' = 1
        /\ \A k \in Jobs \ {j} : Emitted(k)' = Emitted(k)
    BY <2>1 DEF Emitted
  <2>3. PICK place \in Nat : place = 0 + 1
    OBVIOUS
  <2>4. Place(j, "started")' = place /\ Word(j, place)' = "started"
    BY <1>1, <2>1, <2>3 DEF Word, Place, Outcomes
  <2>5. \A m \in 1 .. Emitted(j) : Word(j, m)' = Word(j, m)
    BY <2>1, <2>2 DEF Word
  <2>6. /\ place = Emitted(j) + 1 /\ Emitted(j)' = place
        /\ phase'[j] = "dropped" <=> phase[j] = "dropped"
        /\ phase'[j] \in Late => outcome'[j] \in Outcomes
    BY <1>1, <2>1, <2>2, <2>3
  <2> QED
    BY <2>1, <2>2, <2>4, <2>5, <2>6, EmitTale
<1>6. ASSUME NEW j \in Jobs, NEW r \in Outcomes, EmitOutcome(j, r) PROVE TaleInv'
  <2>1. /\ Emit(j, r) /\ r \in Signals /\ UNCHANGED <<published, cancelling>>
        /\ phase[j] = "working" /\ phase'[j] = "reporting" /\ outcome'[j] = r
        /\ \A k \in Jobs \ {j} : phase'[k] = phase[k] /\ outcome'[k] = outcome[k]
    BY <1>6 DEF EmitOutcome, TypeOK, Signals
  <2>2. /\ Emitted(j) = 1 /\ Emitted(j)' = 2
        /\ \A k \in Jobs \ {j} : Emitted(k)' = Emitted(k)
    BY <2>1 DEF Emitted
  <2>3. PICK place \in Nat : place = 1 + 1
    OBVIOUS
  <2>4. Place(j, r)' = place /\ Word(j, place)' = r
    BY <1>1, <2>1, <2>3 DEF Word, Place, Outcomes
  <2>5. \A m \in 1 .. Emitted(j) : Word(j, m)' = Word(j, m)
    BY <2>1, <2>2 DEF Word
  <2>6. /\ place = Emitted(j) + 1 /\ Emitted(j)' = place
        /\ phase'[j] = "dropped" <=> phase[j] = "dropped"
        /\ phase'[j] \in Late => outcome'[j] \in Outcomes
    BY <1>1, <2>1, <2>2, <2>3
  <2> QED
    BY <2>1, <2>2, <2>4, <2>5, <2>6, EmitTale
<1>7. ASSUME NEW j \in Jobs, EmitFinish(j) PROVE TaleInv'
  <2>1. /\ Emit(j, "finished") /\ "finished" \in Signals /\ UNCHANGED <<published, cancelling>>
        /\ phase[j] = "reporting" /\ phase'[j] = "completing" /\ outcome'[j] = outcome[j]
        /\ \A k \in Jobs \ {j} : phase'[k] = phase[k] /\ outcome'[k] = outcome[k]
    BY <1>7 DEF EmitFinish, TypeOK, Signals
  <2>2. /\ Emitted(j) = 2 /\ Emitted(j)' = 3
        /\ \A k \in Jobs \ {j} : Emitted(k)' = Emitted(k)
    BY <2>1 DEF Emitted
  <2>3. PICK place \in Nat : place = 2 + 1
    OBVIOUS
  <2>4. Place(j, "finished")' = place /\ Word(j, place)' = "finished"
    BY <1>1, <2>1, <2>3 DEF Word, Place, Outcomes
  <2>5. \A m \in 1 .. Emitted(j) : Word(j, m)' = Word(j, m)
    BY <2>1, <2>2 DEF Word
  <2>6. /\ place = Emitted(j) + 1 /\ Emitted(j)' = place
        /\ phase'[j] = "dropped" <=> phase[j] = "dropped"
        /\ phase'[j] \in Late => outcome'[j] \in Outcomes
    BY <1>1, <2>1, <2>2, <2>3
  <2> QED
    BY <2>1, <2>2, <2>4, <2>5, <2>6, EmitTale
<1>8. ASSUME NEW j \in Jobs, Complete(j) PROVE TaleInv'
  <2>1. /\ phase[j] = "completing" /\ phase'[j] = "returned"
        /\ UNCHANGED <<events, published, outcome, cancelling>>
        /\ \A k \in Jobs \ {j} : phase'[k] = phase[k] \/ (phase[k] = "waiting" /\ phase'[k] = "pooled")
    BY <1>8, CompleteSteps
  <2> QED
    BY <1>1, <2>1, QuietTale DEF Emitted
<1>9. ASSUME NEW s \in Servers, CancelPending(s) PROVE TaleInv'
  <2>1. /\ UNCHANGED <<events, published, outcome>> /\ cancelling = <<>>
        /\ \A k \in Jobs :
             IF \E i \in 1 .. Len(cancelling') : cancelling'[i] = k
             THEN phase[k] \in {"waiting", "pooled"} /\ phase'[k] = "dropped"
             ELSE phase'[k] = phase[k]
    BY <1>9, CancelSteps
  <2>2. \A k \in Jobs : Emitted(k)' = Emitted(k)
    BY <2>1 DEF Emitted
  <2> QED
    BY <1>1, <2>1, <2>2, QuietTale DEF Emitted
<1>10. CASE FinishCancelled
  <2>1. PICK j : j = Head(cancelling)
    OBVIOUS
  <2>2. /\ Emit(j, "finished") /\ "finished" \in Signals
        /\ UNCHANGED <<phase, outcome, published>>
    BY <1>10, <2>1 DEF FinishCancelled, Signals
  <2>3. /\ j \in Jobs /\ phase[j] = "dropped"
        /\ \E i \in 1 .. Len(cancelling) : cancelling[i] = j
        /\ ~\E i \in 1 .. Len(cancelling') : cancelling'[i] = j
        /\ \A k \in Jobs \ {j} : (\E i \in 1 .. Len(cancelling) : cancelling[i] = k)
                             <=> (\E i \in 1 .. Len(cancelling') : cancelling'[i] = k)
    BY <1>10, <2>1, NoticeSteps
  <2>4. Emitted(j) = 0 /\ Emitted(j)' = 1 /\ \A k \in Jobs \ {j} : Emitted(k)' = Emitted(k)
    BY <2>2, <2>3 DEF Emitted
  <2>5. PICK place \in Nat : place = 0 + 1
    OBVIOUS
  <2>6. Place(j, "finished")' = place /\ Word(j, place)' = "finished"
    <3>1. phase'[j] = "dropped" /\ place = 1
      BY <2>2, <2>3, <2>5
    <3> QED
      BY <3>1 DEF Word, Place
  <2>7. \A m \in 1 .. Emitted(j) : Word(j, m)' = Word(j, m)
    BY <2>4
  <2>8. /\ place = Emitted(j) + 1 /\ Emitted(j)' = place
        /\ \A k \in Jobs \ {j} : phase'[k] = phase[k] /\ outcome'[k] = outcome[k]
        /\ phase'[j] = "dropped" <=> phase[j] = "dropped"
        /\ phase'[j] \in Late => outcome'[j] \in Outcomes
    BY <2>2, <2>3, <2>4, <2>5
  <2> QED
    BY <2>2, <2>3, <2>4, <2>6, <2>7, <2>8, EmitTale
<1>11. CASE Publish
  BY <1>11, PublishTale
<1>12. CASE UNCHANGED vars
  BY <1>1, <1>12, QuietTale DEF vars, Emitted
<1> QED
  BY <1>2, <1>3, <1>4, <1>5, <1>6, <1>7, <1>8, <1>9, <1>10, <1>11, <1>12
     DEF Next, RunStep, QtStep

\* In the beginning nothing was told.
THEOREM InitTale == Init => TaleInv
<1> SUFFICES ASSUME Init PROVE TaleInv
  OBVIOUS
<1>1. Len(events) = 0 /\ \A j \in Jobs : Len(published[j]) = 0 /\ Emitted(j) = 0
  BY DEF Init, Emitted
<1>2. \A j \in Jobs : TrueTale(j)
  BY <1>1 DEF Init, TrueTale
<1> QED
  BY <1>1, <1>2 DEF TaleInv

\* The invariant the truth of the signals rests on.
THEOREM TalesAreTrue == Spec => []TaleInv
  BY InitTale, NextTale, TypeCorrect, DequesInOrder, DeliveryInOrder, PTL DEF Spec

-----------------------------------------------------------------------------
(* The scheduler implements the serial executor, step by step.              *)

Stage == [k \in Jobs |-> StageOf(k)]

\* A step that moves one job's stage.
LEMMA StageStep ==
  ASSUME NEW j \in Jobs, NEW v, StageOf(j)' = v,
         \A k \in Jobs \ {j} : StageOf(k)' = StageOf(k)
  PROVE  Stage' = [Stage EXCEPT ![j] = v]
BY DEF Stage

\* A step the executor does not see.
LEMMA Unseen ==
  ASSUME UNCHANGED <<queues, published>>, \A k \in Jobs : StageOf(k)' = StageOf(k)
  PROVE  UNCHANGED Executor!vars
BY DEF Executor!vars

\* Sequences of one and of two.
LEMMA OneLong ==
  ASSUME NEW S, NEW q \in Seq(S), NEW n \in Nat, n = 1, Len(q) = n
  PROVE  q = <<q[1]>>
<1>1. q[1] \in S
  BY ElementOfSeq
<1>2. <<q[1]>> \in Seq(S) /\ Len(<<q[1]>>) = Len(q) /\ \A i \in 1 .. Len(q) : <<q[1]>>[i] = q[i]
  BY <1>1
<1> QED
  BY <1>2, SeqEqual

LEMMA TwoLong ==
  ASSUME NEW S, NEW q \in Seq(S), NEW n \in Nat, n = 2, Len(q) = n
  PROVE  q = <<q[1], q[2]>>
<1>1. q[1] \in S /\ q[2] \in S
  BY ElementOfSeq
<1>2. /\ <<q[1], q[2]>> \in Seq(S) /\ Len(<<q[1], q[2]>>) = Len(q)
      /\ \A i \in 1 .. Len(q) : <<q[1], q[2]>>[i] = q[i]
  BY <1>1
<1> QED
  BY <1>2, SeqEqual

\* Publishing a signal tells it when it is due and true.
LEMMA PublishTells ==
  ASSUME TypeOK, TaleInv, DeliveryInv, Publish
  PROVE  \E j \in Jobs, signal \in Signals : Executor!Tell(j, signal)
<1>1. PICK j, signal, m : j = Head(events).job /\ signal = Head(events).signal /\ m = PlaceOf(1)
  OBVIOUS
<1>2. events # <<>> /\ UNCHANGED <<queues, phase, outcome>>
  BY DEF Publish
<1>3. /\ 1 \in 1 .. Len(events) /\ Head(events) = events[1]
      /\ j \in Jobs /\ signal \in Signals
      /\ m = Len(published[j]) + 1 /\ m <= Emitted(j) /\ signal = Word(j, m)
  BY <1>1, <1>2, OldestSignal
<1>4. j \in holds /\ TrueTale(j)
  BY <1>1, <1>3 DEF DeliveryInv, Queued, TaleInv
<1>5. published' = [published EXCEPT ![j] = Append(@, signal)]
  BY <1>1, <1>4 DEF Publish
<1>6. Stage' = Stage
  BY <1>2 DEF Stage, StageOf
<1>7. published[j] \in Seq(Signals) /\ Len(published[j]) \in Nat /\ Emitted(j) \in 0 .. 3
  BY <1>3, TaleRanges DEF TypeOK
<1>8. m \in {1, 2, 3} /\ phase[j] \in Phases
  BY <1>3, <1>7 DEF TypeOK
<1>9. /\ m = 1 => published[j] = <<>>
      /\ m = 2 => published[j] = <<published[j][1]>>
      /\ m = 3 => published[j] = <<published[j][1], published[j][2]>>
  BY <1>3, <1>7, EmptySeq, OneLong, TwoLong
<1>10. /\ m \in {2, 3} => published[j][1] = Word(j, 1)
       /\ m = 3 => published[j][2] = Word(j, 2)
  BY <1>3, <1>4, <1>7 DEF TrueTale
<1>11. Executor!Tellable(j, signal)
  <2>1. CASE phase[j] = "dropped"
    <3>1. m = 1 /\ signal = "finished" /\ StageOf(j) = "dropped"
      BY <1>3, <1>7, <1>8, <2>1 DEF Emitted, Word, StageOf
    <3> QED
      BY <1>3, <1>9, <3>1 DEF Executor!Tellable, Executor!Outcomes
  <2>2. CASE phase[j] # "dropped" /\ m = 1
    <3>1. signal = "started" /\ phase[j] \in {"working", "reporting", "completing", "returned"}
      BY <1>3, <1>8, <2>2 DEF Emitted, Word
    <3>2. StageOf(j) \in {"running"} \cup Outcomes
      BY <1>4, <3>1 DEF StageOf, TrueTale
    <3> QED
      BY <1>3, <1>9, <2>2, <3>1, <3>2 DEF Executor!Tellable, Executor!Outcomes, Outcomes
  <2>3. CASE phase[j] # "dropped" /\ m = 2
    <3>1. phase[j] \in {"reporting", "completing", "returned"}
      BY <1>3, <1>8, <2>3 DEF Emitted
    <3>2. signal = outcome[j] /\ outcome[j] \in Outcomes /\ StageOf(j) = outcome[j]
      BY <1>3, <1>4, <2>3, <3>1 DEF Word, StageOf, TrueTale
    <3>3. published[j] = <<"started">>
      BY <1>9, <1>10, <2>3 DEF Word
    <3> QED
      BY <1>3, <3>2, <3>3 DEF Executor!Tellable, Executor!Outcomes, Outcomes
  <2>4. CASE phase[j] # "dropped" /\ m = 3
    <3>1. phase[j] \in {"completing", "returned"}
      BY <1>3, <1>8, <2>4 DEF Emitted
    <3>2. signal = "finished" /\ outcome[j] \in Outcomes
      BY <1>3, <1>4, <2>4, <3>1 DEF Word, TrueTale
    <3>3. published[j] = <<"started", outcome[j]>>
      BY <1>9, <1>10, <2>4 DEF Word
    <3> QED
      BY <1>3, <3>2, <3>3 DEF Executor!Tellable, Executor!Outcomes, Outcomes
  <2> QED
    BY <1>8, <2>1, <2>2, <2>3, <2>4
<1> QED
  BY <1>2, <1>3, <1>5, <1>6, <1>11 DEF Executor!Tell, Stage

\* Cancelling drops what stands behind the head, and the head unless it has begun.
LEMMA CancelDrops ==
  ASSUME TypeOK, DequeInv, NEW s \in Servers, CancelPending(s)
  PROVE  (\E keep \in 0 .. 1 : Executor!Drop(s, keep)) \/ UNCHANGED Executor!vars
<1>1. PICK q, keep : q = queues[s] /\ keep = Kept(s)
  OBVIOUS
<1>2. q \in Seq(Jobs) /\ q # <<>>
  BY <1>1 DEF TypeOK, CancelPending
<1>3. keep \in {0, 1} /\ keep <= Len(q) /\ Len(q) \in Nat \ {0}
  BY <1>1, <1>2, KeptBounds
<1>4. /\ queues' = [queues EXCEPT ![s] = SubSeq(@, 1, keep)]
      /\ \A k \in Jobs : phase'[k] = IF \E i \in keep + 1 .. Len(q) : q[i] = k
                                     THEN "dropped" ELSE phase[k]
      /\ UNCHANGED <<outcome, published>>
  BY <1>1 DEF CancelPending
<1>5. \A i \in keep + 1 .. Len(q) : q[i] \in Jobs /\ phase[q[i]] \in {"pooled", "waiting"}
  <2>1. keep = 0 => phase[q[1]] = "pooled"
    BY <1>1, <1>2, HeadIsFirst DEF Kept
  <2>2. \A i \in 1 .. Len(q) : q[i] \in Jobs /\ (i # 1 => phase[q[i]] = "waiting")
    BY <1>1, <1>2, ElementOfSeq DEF DequeInv, DequeOK
  <2> QED
    BY <1>3, <2>1, <2>2
<1>6. Stage' = [k \in Jobs |-> IF \E i \in keep + 1 .. Len(q) : q[i] = k
                               THEN "dropped" ELSE Stage[k]]
  <2>1. \A k \in Jobs : StageOf(k)' = IF \E i \in keep + 1 .. Len(q) : q[i] = k
                                      THEN "dropped" ELSE StageOf(k)
    BY <1>4 DEF StageOf
  <2> QED
    BY <2>1 DEF Stage
<1>7. \A i \in keep + 1 .. Len(q) : Stage[q[i]] = "waiting"
  BY <1>5 DEF Stage, StageOf
<1>8. CASE keep < Len(q)
  <2>1. Executor!Drop(s, keep)
    BY <1>1, <1>4, <1>6, <1>7, <1>8 DEF Executor!Drop, Stage
  <2> QED
    BY <1>3, <2>1
<1>9. CASE keep = Len(q)
  <2>1. SubSeq(q, 1, keep) = q
    BY <1>1, <1>2, <1>9, RemainderType, SeqEqual
  <2>2. queues' = queues
    BY <1>1, <1>4, <2>1 DEF TypeOK
  <2>3. Stage' = Stage
    BY <1>3, <1>6, <1>9 DEF Stage
  <2> QED
    BY <1>4, <2>2, <2>3 DEF Executor!vars, Stage
<1> QED
  BY <1>3, <1>8, <1>9

\* Every step of the scheduler is one of the executor's or unseen by it.
THEOREM NextExecutor ==
  TypeOK /\ DequeInv /\ DeliveryInv /\ TaleInv /\ [Next]_vars => [Executor!Next]_(Executor!vars)
<1> SUFFICES ASSUME TypeOK, DequeInv, DeliveryInv, TaleInv, [Next]_vars
             PROVE  [Executor!Next]_(Executor!vars)
  OBVIOUS
<1>1. ASSUME NEW j \in Jobs, Submit(j) PROVE Executor!Submit(j)
  <2>1. StageOf(j) = "new" /\ StageOf(j)' = "waiting"
    BY <1>1 DEF Submit, Admit, StageOf, TypeOK
  <2>2. \A k \in Jobs \ {j} : StageOf(k)' = StageOf(k)
    BY <1>1 DEF Submit, StageOf, TypeOK
  <2>3. Stage' = [Stage EXCEPT ![j] = "waiting"]
    BY <2>1, <2>2, StageStep
  <2> QED
    BY <1>1, <2>1, <2>3 DEF Submit, LineUp, Executor!Submit, Stage
<1>2. ASSUME NEW j \in Jobs, Pop(j) PROVE UNCHANGED Executor!vars
  BY <1>2, Unseen DEF Pop, StageOf, TypeOK
<1>3. ASSUME NEW j \in Jobs, MarkStarted(j) PROVE Executor!Start(j)
  <2>1. IsHead(j)
    BY <1>3, PopIsHead DEF MarkStarted, Scheduled, OnThread
  <2>2. StageOf(j) = "waiting" /\ StageOf(j)' = "running"
    BY <1>3, <2>1 DEF MarkStarted, StageOf, TypeOK
  <2>3. \A k \in Jobs \ {j} : StageOf(k)' = StageOf(k)
    BY <1>3 DEF MarkStarted, StageOf, TypeOK
  <2>4. Stage' = [Stage EXCEPT ![j] = "running"]
    BY <2>2, <2>3, StageStep
  <2> QED
    BY <1>3, <2>1, <2>2, <2>4 DEF MarkStarted, IsHead, Executor!Start, Stage
<1>4. ASSUME NEW j \in Jobs, EmitStart(j) PROVE UNCHANGED Executor!vars
  BY <1>4, Unseen DEF EmitStart, StageOf, TypeOK
<1>5. ASSUME NEW j \in Jobs, NEW r \in Outcomes, EmitOutcome(j, r) PROVE Executor!End(j, r)
  <2>1. StageOf(j) = "running" /\ StageOf(j)' = r
    BY <1>5 DEF EmitOutcome, StageOf, TypeOK
  <2>2. \A k \in Jobs \ {j} : StageOf(k)' = StageOf(k)
    BY <1>5 DEF EmitOutcome, StageOf, TypeOK
  <2>3. Stage' = [Stage EXCEPT ![j] = r]
    BY <2>1, <2>2, StageStep
  <2> QED
    BY <1>5, <2>1, <2>3 DEF EmitOutcome, Executor!End, Stage
<1>6. ASSUME NEW j \in Jobs, EmitFinish(j) PROVE UNCHANGED Executor!vars
  BY <1>6, Unseen DEF EmitFinish, StageOf, TypeOK
<1>7. ASSUME NEW j \in Jobs, Complete(j) PROVE Executor!Leave(j)
  <2>1. /\ phase[j] = "completing" /\ phase'[j] = "returned" /\ IsHead(j)
        /\ UNCHANGED <<published, outcome>>
        /\ \A k \in Jobs \ {j} : \/ phase'[k] = phase[k]
                                 \/ phase[k] = "waiting" /\ phase'[k] = "pooled"
    BY <1>7, CompleteSteps
  <2>2. \A k \in Jobs : StageOf(k)' = StageOf(k)
    BY <2>1 DEF StageOf
  <2>3. StageOf(j) = outcome[j] /\ outcome[j] \in Outcomes
    BY <2>1 DEF StageOf, TaleInv, TrueTale
  <2>4. queues' = [queues EXCEPT ![ServerOf[j]] = Tail(@)]
    BY <1>7, <2>1 DEF Complete
  <2>5. Stage' = Stage
    BY <2>2 DEF Stage
  <2> QED
    BY <2>1, <2>3, <2>4, <2>5
       DEF IsHead, Outcomes, Executor!Outcomes, Executor!Leave, Stage
<1>8. ASSUME NEW s \in Servers, CancelPending(s)
      PROVE  (\E keep \in 0 .. 1 : Executor!Drop(s, keep)) \/ UNCHANGED Executor!vars
  BY <1>8, CancelDrops
<1>9. CASE FinishCancelled
  <2>1. UNCHANGED Executor!vars
    BY <1>9, Unseen DEF FinishCancelled, StageOf
  <2> QED
    BY <2>1
<1>10. CASE Publish
  <2>1. PICK j \in Jobs, signal \in Signals : Executor!Tell(j, signal)
    BY <1>10, PublishTells
  <2> QED
    BY <2>1 DEF Executor!Next, Executor!Outcomes, Signals, Outcomes
<1>11. CASE UNCHANGED vars
  <2>1. UNCHANGED Executor!vars
    BY <1>11, Unseen DEF vars, StageOf
  <2> QED
    BY <2>1
<1>12. Outcomes = Executor!Outcomes
  BY DEF Outcomes, Executor!Outcomes
<1> QED
  BY <1>1, <1>2, <1>3, <1>4, <1>5, <1>6, <1>7, <1>8, <1>9, <1>10, <1>11, <1>12
     DEF Next, RunStep, QtStep, Executor!Next

\* What OperationScheduler promises its callers: each server's jobs run one at a
\* time and in their order, work that has started is never interrupted, and a
\* submitter is told the life cycle of its job in order, truthfully and each signal
\* at most once, however many threads there are and whatever is cancelled meanwhile
\* (workers/scheduler.py).
THEOREM ImplementsTheExecutor == Spec => ImplementsSerialExecutor
<1>1. Init => Executor!Init
  BY DEF Init, Executor!Init, StageOf
<1> QED
  BY <1>1, NextExecutor, TypeCorrect, DequesInOrder, DeliveryInOrder, TalesAreTrue, PTL
     DEF Spec, ImplementsSerialExecutor, Executor!Spec

=============================================================================
