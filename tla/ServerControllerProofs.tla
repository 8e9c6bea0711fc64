------------------------ MODULE ServerControllerProofs ------------------------
(***************************************************************************)
(* The controller's connections and its plans, for any calls and any       *)
(* number of them, on top of ServerSessionProofs.                          *)
(*                                                                         *)
(* A step is seen in two more ways, each with its lemma for every action:  *)
(* TokenStep and HoldStep, what it does to the managers and those who hold *)
(* them, and PassOn, without dialogs, to whom a manager passes.  The       *)
(* invariants are built on these:                                          *)
(*   LineInv, HeldInv   tokens have a closer, what is held is not closed   *)
(*   FlatAll   without dialogs: every open connection has an owner         *)
(*   PlanInv   what is shown is current, stale, or its outcome is due      *)
(***************************************************************************)
EXTENDS ServerSessionProofs

-----------------------------------------------------------------------------
(* Who holds a manager, and who is to close it.                             *)

\* No job is to close m.
Unlisted(m) == \A i \in JobIds : m \notin jobs[i].closes

\* The attempt of j, or its manager, may still be taken up.
Held(j) == InLine(j) \/ Queued(j, "succeeded") \/ session.attempt = j \/ session.manager = j

TokensClosed == step # "waiting" => line # <<>> /\ jobs[Head(line)].closes \cap tokens = {}
OpenWhenMade == step = "made" => jobs[Head(line)].socket = "open"
OldCloses == \A j \in JobIds : jobs[j].closes \subseteq JobIds
LineUnclaimed == \A j \in JobIds : InLine(j) => ~jobs[j].finished /\ ~jobs[j].claimed

LineInv == TokensHaveACloser /\ TokensClosed /\ OpenWhenMade /\ OldCloses /\ LineUnclaimed

HeldManagers ==
    \A j \in Connections : ~jobs[j].claimed /\ Held(j) =>
      Unlisted(j) /\ jobs[j].socket \in {"unmade", "open"}
ResultManagers ==
    \A j \in Connections : Queued(j, "succeeded") =>
      /\ jobs[j].socket # "unmade" /\ jobs[j].finished
      /\ Current(j) => ~jobs[j].claimed
OwnAttempt == session.attempt # None => Current(session.attempt)
OwnManager ==
    \A m : m = session.manager /\ m # None =>
      /\ Current(m) /\ jobs[m].socket = "open" /\ ~jobs[m].claimed
      /\ session.attempt # m /\ ~InLine(m) /\ ~Queued(m, "succeeded")

HeldInv == HeldManagers /\ ResultManagers /\ OwnAttempt /\ OwnManager

\* What is held is on nobody's list.
LEMMA HeldIsNoToken ==
  ASSUME TypeInv, LineInv, HeldInv, NEW j \in Connections, ~jobs[j].claimed, Held(j)
  PROVE  j \notin tokens /\ Unlisted(j)
<1>1. Unlisted(j)
  BY DEF HeldInv, HeldManagers
<1>2. SUFFICES ASSUME j \in tokens PROVE FALSE
  BY <1>1
<1>3. PICK i \in 1 .. Len(line) : j \in jobs[line[i]].closes
  BY <1>2 DEF LineInv, TokensHaveACloser
<1>4. line[i] \in JobIds
  BY <1>3, ElementOfSeq DEF TypeInv
<1> QED
  BY <1>1, <1>3, <1>4 DEF Unlisted

\* A job that was just submitted.
Fresh(job) == job.socket = "unmade" /\ ~job.claimed /\ ~job.finished

\* The attempts that were given up are claimed only when the worker has left them.
SameManagers(history) ==
    \A j \in JobIds :
      /\ history[j].socket = jobs[j].socket /\ history[j].finished = jobs[j].finished
      /\ jobs[j].claimed => history[j].claimed
      /\ jobs[j].invalidated => history[j].invalidated
      /\ history[j].claimed => jobs[j].claimed \/ (~InLine(j) /\ ~Current(j)')

\* A job closes all open tokens, those of managers that are held no more included.
Closes(job) ==
    /\ job.closes = tokens' /\ tokens \in SUBSET tokens' /\ tokens' \in SUBSET Connections
    /\ \A k \in tokens' : k \notin tokens =>
         /\ ~jobs[k].claimed /\ Held(k) /\ jobs[k].socket # "unmade"
         /\ ~Held(k)' \/ jobs'[k].claimed

TokenStep ==
    \/ \E history :
         /\ SameJobs(history) /\ SameManagers(history)
         /\ jobs' = history /\ UNCHANGED <<line, step, tokens>> /\ EventsKeep
    \/ \E history : \E job \in JobType :
         /\ SameJobs(history) /\ SameManagers(history) /\ Fresh(job)
         /\ Enqueue(job, history, line) /\ EventsKeep
         /\ (job.closes = {} /\ tokens' = tokens) \/ Closes(job)
    \/ \E history : \E job \in JobType : \E submits \in BOOLEAN :
         /\ SameJobs(history) /\ SameManagers(history) /\ Fresh(job)
         /\ Cancels(history, job, submits)
         /\ IF submits THEN Closes(job) ELSE tokens = {} /\ tokens' = {}
    \/ \E j \in JobIds : \E signal \in {"succeeded", "failed"} : \E result \in Results :
         WorkStep(j, signal, result)

\* The line after one more job behind it.
LEMMA LineAppended ==
  ASSUME CoreInv, LineInv, HeldInv, NEW history, SameJobs(history), SameManagers(history),
         NEW job \in JobType, Fresh(job), NEW rest \in Seq(JobIds), Enqueue(job, history, rest),
         \A k : Has(rest, k) => InLine(k),
         rest # <<>> => line # <<>> /\ Head(rest) = Head(line),
         (job.closes = {} /\ tokens' = tokens /\ rest = line) \/ Closes(job)
  PROVE  LineInv'
<1>1. TypeInv
  BY DEF CoreInv
<1>2. PICK n : n = NextJob
  OBVIOUS
<1>3. /\ JobIds' = JobIds \cup {n} /\ n \notin JobIds /\ jobs'[n] = job
      /\ \A j \in JobIds : jobs'[j] = history[j]
      /\ line' = Append(rest, n)
      /\ \A j : InLine(j)' <=> Has(rest, j) \/ j = n
  BY <1>1, <1>2, EnqueueFacts DEF SameJobs
<1>4. \A j \in JobIds : /\ jobs'[j].closes = jobs[j].closes /\ jobs'[j].socket = jobs[j].socket
                        /\ jobs'[j].finished = jobs[j].finished
                        /\ InLine(j) => jobs'[j].claimed = jobs[j].claimed
  <2>1. SUFFICES ASSUME NEW j \in JobIds
                 PROVE  /\ jobs'[j].closes = jobs[j].closes /\ jobs'[j].socket = jobs[j].socket
                        /\ jobs'[j].finished = jobs[j].finished
                        /\ InLine(j) => jobs'[j].claimed = jobs[j].claimed
    OBVIOUS
  <2>2. jobs[j] \in JobType /\ history[j] \in JobType
    BY <1>1, <2>1, SessionParts, ElementOfSeq DEF TypeInv, SameJobs
  <2>3. jobs[j].claimed \in BOOLEAN /\ history[j].claimed \in BOOLEAN
    BY <2>2 DEF JobType
  <2> QED
    BY <1>3, <2>1, <2>3 DEF SameJobs, SameManagers
<1>5. /\ tokens \in SUBSET JobIds /\ tokens' \in SUBSET JobIds
  BY <1>1, TokenTypes DEF Closes
<1>6. step' = IF rest = <<>> THEN "waiting" ELSE step
  BY DEF Enqueue
<1>7. TokensHaveACloser'
  <2>1. SUFFICES ASSUME NEW m \in tokens'
                 PROVE  \E k : InLine(k)' /\ m \in jobs'[k].closes
    BY DEF TokensHaveACloser, InLine
  <2>2. CASE job.closes = {} /\ tokens' = tokens /\ rest = line
    <3>1. PICK i \in 1 .. Len(line) : m \in jobs[line[i]].closes
      BY <2>1, <2>2 DEF LineInv, TokensHaveACloser
    <3>2. line[i] \in JobIds /\ Has(rest, line[i])
      BY <1>1, <2>2, <3>1, ElementOfSeq DEF TypeInv, Has
    <3> QED
      BY <1>3, <1>4, <3>1, <3>2
  <2>3. CASE Closes(job)
    BY <1>3, <2>1, <2>3 DEF Closes
  <2> QED
    BY <2>2, <2>3
<1>8. ASSUME step' # "waiting"
      PROVE  rest # <<>> /\ line' # <<>> /\ Head(line') = Head(line) /\ step # "waiting" /\ Head(line) \in JobIds
  <2>1. rest # <<>> /\ step # "waiting"
    BY <1>6, <1>8
  <2>2. Head(line) \in JobIds
    BY <1>1, <2>1, HeadFacts
  <2>3. Len(rest) \in Nat \ {0} /\ rest[1] = Head(rest)
    BY <2>1, HasTail
  <2>4. Append(rest, n)[1] = rest[1] /\ Append(rest, n) # <<>> /\ Head(Append(rest, n)) = Append(rest, n)[1]
    BY <2>3
  <2> QED
    BY <1>3, <2>1, <2>2, <2>3, <2>4
<1>9. TokensClosed'
  <2>1. SUFFICES ASSUME step' # "waiting" PROVE line' # <<>> /\ jobs'[Head(line')].closes \cap tokens' = {}
    BY DEF TokensClosed
  <2>2. /\ Head(line') = Head(line) /\ Head(line) \in JobIds /\ line' # <<>>
        /\ jobs[Head(line)].closes \cap tokens = {}
    BY <1>8, <2>1 DEF LineInv, TokensClosed
  <2>3. ASSUME NEW k \in tokens', k \notin tokens PROVE k \notin jobs[Head(line)].closes
    <3>1. k \in Connections /\ ~jobs[k].claimed /\ Held(k)
      BY <2>3 DEF Closes
    <3> QED
      BY <1>1, <2>2, <3>1, HeldIsNoToken DEF Unlisted
  <2> QED
    BY <1>4, <2>2, <2>3
<1>10. OpenWhenMade'
  BY <1>4, <1>6, <1>8 DEF OpenWhenMade, LineInv
<1>11. OldCloses'
  BY <1>3, <1>4, <1>5 DEF OldCloses, LineInv, Closes
<1>12. LineUnclaimed'
  BY <1>3, <1>4 DEF LineUnclaimed, LineInv, Fresh
<1> QED
  BY <1>7, <1>9, <1>10, <1>11, <1>12 DEF LineInv

\* ... after a worker's statement.
LEMMA LineWorked ==
  ASSUME CoreInv, CoreInv', LineInv, HeldInv, NEW j \in JobIds, NEW signal \in {"succeeded", "failed"},
         NEW result \in Results, WorkStep(j, signal, result)
  PROVE  LineInv'
<1>1. TypeInv /\ OrderInv
  BY DEF CoreInv
<1>2. /\ line # <<>> /\ j = Head(line) /\ InLine(j) /\ SameJobs(jobs') /\ JobIds' = JobIds
      /\ line' \in {line, Tail(line)} /\ (line' = Tail(line) => step' = "waiting")
  BY <1>1, JobIdsRange, HeadFacts DEF WorkStep, SameJobs, JobIds, Ends
<1>3. /\ \A i \in 1 .. Len(line') : line'[i] \in JobIds
      /\ \A k : InLine(k)' => InLine(k)
      /\ \A k : InLine(k) => InLine(k)' \/ k = j
      /\ line' = Tail(line) => ~InLine(j)'
  <2>1. line \in Seq(JobIds) /\ JobIds \in SUBSET Nat
    BY <1>1, TokenTypes DEF TypeInv
  <2>2. line' \in Seq(JobIds)
    BY <1>2 DEF CoreInv, TypeInv
  <2>3. \A y : Has(line, y) <=> Has(Tail(line), y) \/ y = Head(line)
    BY <1>2, <2>1, HasTail
  <2>4. ~Has(Tail(line), Head(line))
    BY <1>1, <1>2, <2>1, TailIncreases DEF OrderInv
  <2>5. \A k : (InLine(k) <=> Has(line, k)) /\ (InLine(k)' <=> Has(line', k))
    BY DEF InLine, Has
  <2> QED
    BY <1>2, <2>2, <2>3, <2>4, <2>5, ElementOfSeq
<1>4. tokens' \in SUBSET tokens /\ jobs[j].closes \cap tokens' = {}
  BY <1>1, <1>2 DEF WorkStep, LineInv, TokensClosed
<1>5. \A k \in JobIds : jobs'[k].closes = jobs[k].closes
  BY <1>2 DEF SameJobs
<1>6. TokensHaveACloser'
  <2>1. SUFFICES ASSUME NEW m \in tokens' PROVE \E k : InLine(k)' /\ m \in jobs'[k].closes
    BY DEF TokensHaveACloser, InLine
  <2>2. PICK i \in 1 .. Len(line) : m \in jobs[line[i]].closes
    BY <1>4, <2>1 DEF LineInv, TokensHaveACloser
  <2>3. line[i] \in JobIds /\ InLine(line[i]) /\ line[i] # j
    BY <1>1, <1>4, <2>1, <2>2, ElementOfSeq DEF TypeInv, InLine
  <2> QED
    BY <1>3, <1>5, <2>2, <2>3
<1>7. TokensClosed'
  BY <1>2, <1>4, <1>5 DEF TokensClosed
<1>8. OpenWhenMade'
  <2>1. SUFFICES ASSUME step' = "made" PROVE jobs'[Head(line')].socket = "open"
    BY DEF OpenWhenMade
  <2>2. line' = line /\ step # "waiting" /\ ConnectionStep(j, signal)
    BY <1>2, <2>1 DEF WorkStep
  <2> QED
    BY <1>2, <2>1, <2>2 DEF ConnectionStep
<1>9. OldCloses'
  BY <1>2, <1>5 DEF OldCloses, LineInv
<1>10. LineUnclaimed'
  <2>1. SUFFICES ASSUME NEW k \in JobIds, InLine(k)' PROVE ~jobs'[k].finished /\ ~jobs'[k].claimed
    BY <1>2 DEF LineUnclaimed
  <2>2. InLine(k) /\ ~jobs[k].finished /\ ~jobs[k].claimed
    BY <1>3, <2>1 DEF LineInv, LineUnclaimed
  <2>3. CASE step = "waiting"
    BY <1>1, <2>2, <2>3, DisconnectFacts DEF WorkStep
  <2>4. CASE step # "waiting" /\ k # j
    BY <2>2, <2>4 DEF WorkStep
  <2>5. CASE step # "waiting" /\ k = j
    BY <1>2, <1>3, <2>1, <2>2, <2>5 DEF WorkStep, ConnectionStep
  <2> QED
    BY <2>3, <2>4, <2>5
<1> QED
  BY <1>6, <1>7, <1>8, <1>9, <1>10 DEF LineInv

\* Every step keeps the line's managers where they belong.
LEMMA LineKept ==
  ASSUME CoreInv, CoreInv', LineInv, HeldInv, TokenStep
  PROVE  LineInv'
<1>1. TypeInv /\ line \in Seq(JobIds)
  BY DEF CoreInv, TypeInv
<1>2. ASSUME NEW history, SameJobs(history), SameManagers(history),
             jobs' = history, UNCHANGED <<line, step, tokens>>
      PROVE  LineInv'
  <2>1. JobIds' = JobIds
    BY <1>1, <1>2, JobIdsRange DEF SameJobs, JobIds
  <2>2. /\ \A i \in 1 .. Len(line) : line[i] \in JobIds
        /\ line # <<>> => Head(line) \in JobIds
        /\ \A k : InLine(k)' <=> InLine(k)
    BY <1>1, <1>2, ElementOfSeq, HeadFacts DEF InLine
  <2>3. \A k \in JobIds : /\ jobs'[k].closes = jobs[k].closes /\ jobs'[k].socket = jobs[k].socket
                          /\ jobs'[k].finished = jobs[k].finished
                          /\ InLine(k) => (jobs'[k].claimed => jobs[k].claimed)
    BY <1>2 DEF SameJobs, SameManagers
  <2>4. TokensHaveACloser'
    BY <1>2, <2>2, <2>3 DEF LineInv, TokensHaveACloser
  <2>5. TokensClosed'
    BY <1>2, <2>2, <2>3 DEF LineInv, TokensClosed
  <2>6. OpenWhenMade'
    <3>1. step = "made" => line # <<>>
      BY DEF LineInv, TokensClosed
    <3> QED
      BY <1>2, <2>2, <2>3, <3>1 DEF LineInv, OpenWhenMade
  <2>7. OldCloses' /\ LineUnclaimed'
    BY <2>1, <2>2, <2>3 DEF LineInv, OldCloses, LineUnclaimed
  <2> QED
    BY <2>4, <2>5, <2>6, <2>7 DEF LineInv
<1>3. ASSUME NEW history, SameJobs(history), SameManagers(history), NEW job \in JobType, Fresh(job),
             NEW submits \in BOOLEAN, Cancels(history, job, submits),
             IF submits THEN Closes(job) ELSE tokens' = {}
      PROVE  LineInv'
  <2>1. PICK kept \in Survivors :
          IF submits THEN Enqueue(job, history, kept)
          ELSE /\ jobs' = history /\ line' = kept
               /\ step' = IF kept = <<>> THEN "waiting" ELSE step
    BY <1>3 DEF Cancels
  <2>2. /\ kept \in Seq(JobIds) /\ \A k : Has(kept, k) => InLine(k)
        /\ kept # <<>> => line # <<>> /\ Head(kept) = Head(line)
    BY <1>1, SurvivorFacts
  <2>3. CASE submits
    <3>1. Enqueue(job, history, kept) /\ Closes(job)
      BY <1>3, <2>1, <2>3
    <3> QED
      BY <1>3, <2>2, <3>1, LineAppended
  <2>4. CASE ~submits
    <3>1. jobs' = history /\ line' = kept /\ tokens' = {} /\ step' \in {"waiting", step}
          /\ (kept = <<>> => step' = "waiting")
      BY <1>3, <2>1, <2>4
    <3>2. JobIds' = JobIds
      BY <1>1, <1>3, <3>1, JobIdsRange DEF SameJobs, JobIds
    <3>3. \A k \in JobIds : /\ jobs'[k].closes = jobs[k].closes /\ jobs'[k].socket = jobs[k].socket
                            /\ jobs'[k].finished = jobs[k].finished
                            /\ InLine(k) => (jobs'[k].claimed => jobs[k].claimed)
                            /\ InLine(k)' => InLine(k)
      BY <1>3, <2>2, <3>1 DEF SameJobs, SameManagers, InLine, Has
    <3>4. step' # "waiting" => line' # <<>> /\ Head(line') = Head(line) /\ Head(line) \in JobIds /\ step' = step
      BY <1>1, <2>2, <3>1, HeadFacts
    <3>5. TokensHaveACloser' /\ TokensClosed'
      BY <3>1, <3>4 DEF TokensHaveACloser, TokensClosed
    <3>6. OpenWhenMade'
      BY <3>3, <3>4 DEF LineInv, OpenWhenMade
    <3>7. OldCloses' /\ LineUnclaimed'
      BY <3>2, <3>3 DEF LineInv, OldCloses, LineUnclaimed
    <3> QED
      BY <3>5, <3>6, <3>7 DEF LineInv
  <2> QED
    BY <2>3, <2>4
<1>4. ASSUME NEW history, SameJobs(history), SameManagers(history), NEW job \in JobType, Fresh(job),
             Enqueue(job, history, line), (job.closes = {} /\ tokens' = tokens) \/ Closes(job)
      PROVE  LineInv'
  <2>1. \A k : Has(line, k) => InLine(k)
    BY DEF Has, InLine
  <2> QED
    BY <1>1, <1>4, <2>1, LineAppended
<1> QED
  BY <1>2, <1>3, <1>4, LineWorked DEF TokenStep

-----------------------------------------------------------------------------
(* What a step does to the managers and to those who hold them.             *)

\* Of the holders only one is new: a job that is submitted, or a success that is taken up.
SameGen == session'.generation = session.generation /\ session'.present = session.present

NewAttempt == \A n : n = NextJob => n \in JobIds' /\ session'.attempt = n /\ Current(n)'

Adopts(j) ==
    /\ session'.manager = j /\ session'.attempt = None
    /\ Current(j) /\ Queued(j, "succeeded") /\ ~Queued(j, "succeeded")' /\ ~InLine(j)

HoldStep ==
    /\ \/ session'.attempt = None
       \/ session'.attempt = session.attempt /\ SameGen
       \/ NewAttempt
    /\ \/ session'.manager = None
       \/ session'.manager = session.manager /\ SameGen
       \/ SameGen /\ \E j \in Connections : Adopts(j)

\* A worker's last statement, after its manager was made.
SucceededNow(k) ==
    /\ InLine(k)
    /\ IsConnection(k) =>
         /\ step = "made" /\ k = Head(line) /\ jobs'[k].finished
         /\ jobs'[k].claimed = jobs[k].claimed /\ jobs'[k].socket = jobs[k].socket

\* The pool's thread adds no job, and queues a success only of the job it ends.
LEMMA WorkFates ==
  ASSUME CoreInv, NEW j \in JobIds, NEW signal \in {"succeeded", "failed"}, NEW result \in Results,
         WorkStep(j, signal, result)
  PROVE  /\ JobIds' = JobIds
         /\ \A k : InLine(k)' => InLine(k)
         /\ \A k : Queued(k, "succeeded")' => Queued(k, "succeeded") \/ SucceededNow(k)
<1>1. TypeInv /\ line # <<>> /\ j = Head(line)
  BY DEF CoreInv, WorkStep
<1>2. CASE Ends(j, jobs', signal, result)
  <2>1. /\ JobIds' = JobIds /\ InLine(j) /\ line' = Tail(line) /\ step' = "waiting"
        /\ \A k : InLine(k) <=> InLine(k)' \/ k = j
        /\ \A k, s : Queued(k, s)' <=> Queued(k, s) \/ (IsPublic(j) /\ k = j /\ s \in {signal, "finished"})
    <3>1. SameJobs(jobs')
      BY DEF WorkStep
    <3> QED
      BY <1>1, <1>2, <3>1, EndsFacts
  <2>2. SUFFICES ASSUME Queued(j, "succeeded")', ~Queued(j, "succeeded") PROVE SucceededNow(j)
    BY <2>1
  <2>3. signal = "succeeded"
    BY <2>1, <2>2
  <2>4. line # Tail(line)
    BY <1>1, HeadFacts
  <2>5. ASSUME IsConnection(j) PROVE step # "waiting" /\ ConnectionStep(j, signal)
    BY <2>1, <2>3, <2>5 DEF WorkStep
  <2> QED
    BY <1>1, <2>1, <2>3, <2>4, <2>5 DEF SucceededNow, ConnectionStep
<1>3. CASE line' = line /\ events' = events /\ SameJobs(jobs')
  <2>1. JobIds' = JobIds
    BY <1>1, <1>3, JobIdsRange DEF SameJobs, JobIds
  <2> QED
    BY <1>3, <2>1 DEF InLine, Queued
<1> QED
  BY <1>2, <1>3 DEF WorkStep

\* What is in line was so before, and a success is new only where a worker ends.
LEMMA TokenJobs ==
  ASSUME CoreInv, TokenStep
  PROVE  /\ JobStep
         /\ \A k \in JobIds : InLine(k)' => InLine(k)
         /\ \A k : Queued(k, "succeeded")' => k \in JobIds /\ (Queued(k, "succeeded") \/ SucceededNow(k))
<1>1. TypeInv
  BY DEF CoreInv
<1>2. \A k, s : Queued(k, s) => k \in JobIds
  <2>1. SUFFICES ASSUME NEW i \in 1 .. Len(events) PROVE events[i].job \in JobIds
    BY DEF Queued
  <2>2. events[i] \in EventType
    BY <1>1, <2>1, ElementOfSeq DEF TypeInv
  <2> QED
    BY <2>2 DEF EventType
<1>3. \A k : InLine(k) => k \in JobIds
  BY <1>1, ElementOfSeq DEF TypeInv, InLine
<1>4. EventsKeep => \A k, s : Queued(k, s)' => Queued(k, s)
  <2>1. CASE events' = events
    BY <2>1 DEF Queued
  <2>2. CASE events # <<>> /\ Received
    BY <1>1, <2>2, ReceivedFacts
  <2> QED
    BY <2>1, <2>2 DEF EventsKeep
<1>5. ASSUME NEW history, SameJobs(history), jobs' = history, UNCHANGED <<line, step, tokens>>, EventsKeep
      PROVE  /\ JobStep /\ \A k \in JobIds : InLine(k)' => InLine(k)
             /\ \A k : Queued(k, "succeeded")' => k \in JobIds /\ (Queued(k, "succeeded") \/ SucceededNow(k))
  BY <1>2, <1>4, <1>5 DEF JobStep, InLine
<1>6. ASSUME NEW history, NEW job \in JobType, SameJobs(history), Enqueue(job, history, line), EventsKeep
      PROVE  /\ JobStep /\ \A k \in JobIds : InLine(k)' => InLine(k)
             /\ \A k : Queued(k, "succeeded")' => k \in JobIds /\ (Queued(k, "succeeded") \/ SucceededNow(k))
  <2>1. NextJob \notin JobIds /\ \A k : InLine(k)' <=> InLine(k) \/ k = NextJob
    BY <1>1, <1>6, SubmitFacts
  <2>2. JobStep
    BY <1>6 DEF JobStep
  <2> QED
    BY <1>2, <1>4, <1>6, <2>1, <2>2
<1>7. ASSUME NEW history, NEW job \in JobType, NEW submits \in BOOLEAN, SameJobs(history),
             Cancels(history, job, submits)
      PROVE  /\ JobStep /\ \A k \in JobIds : InLine(k)' => InLine(k)
             /\ \A k : Queued(k, "succeeded")' => k \in JobIds /\ (Queued(k, "succeeded") \/ SucceededNow(k))
  <2>1. /\ \A k \in JobIds : InLine(k)' => InLine(k)
        /\ \A k, s : Queued(k, s)' => /\ k \in JobIds
                                      /\ Queued(k, s) \/ (s = "finished" /\ InLine(k))
    BY <1>1, <1>7, CancelFacts
  <2>2. JobStep
    BY <1>7 DEF JobStep
  <2> QED
    BY <2>1, <2>2
<1>8. ASSUME NEW j \in JobIds, NEW signal \in {"succeeded", "failed"}, NEW result \in Results,
             WorkStep(j, signal, result)
      PROVE  /\ JobStep /\ \A k \in JobIds : InLine(k)' => InLine(k)
             /\ \A k : Queued(k, "succeeded")' => k \in JobIds /\ (Queued(k, "succeeded") \/ SucceededNow(k))
  <2>1. JobStep
    BY <1>8 DEF JobStep
  <2>2. /\ \A k : InLine(k)' => InLine(k)
        /\ \A k : Queued(k, "succeeded")' => Queued(k, "succeeded") \/ SucceededNow(k)
    BY <1>8, WorkFates
  <2>3. \A k : SucceededNow(k) => InLine(k)
    BY DEF SucceededNow
  <2> QED
    BY <1>2, <1>3, <2>1, <2>2, <2>3
<1> QED
  BY <1>5, <1>6, <1>7, <1>8 DEF TokenStep

\* What a step may do to the manager of k.
Fate(k) ==
    /\ jobs[k].claimed => jobs'[k].claimed
    /\ jobs'[k].claimed => jobs[k].claimed \/ InLine(k) \/ ~Current(k)'
    /\ ~InLine(k) => jobs'[k].finished = jobs[k].finished
    /\ ~InLine(k) /\ k \notin tokens => jobs'[k].socket = jobs[k].socket
    /\ ~InLine(k) /\ jobs[k].socket # "unmade" => jobs'[k].socket # "unmade"
    /\ k \notin tokens /\ IsConnection(k) /\ ~jobs'[k].claimed /\ jobs[k].socket \in {"unmade", "open"}
         => jobs'[k].socket \in {"unmade", "open"}

\* What a new job is like, and what it is to close.
NewComer(n) ==
    /\ jobs'[n].socket = "unmade" /\ ~jobs'[n].claimed
    /\ \A m \in jobs'[n].closes : m \in JobIds /\ (m \in tokens \/ ~Held(m)' \/ jobs'[m].claimed)

\* What any step may do to a job that was there, and what a new job is like.
LEMMA Fates ==
  ASSUME CoreInv, TokenStep
  PROVE  /\ \A k \in JobIds : Fate(k)
         /\ \A n \in JobIds' : n \notin JobIds => NewComer(n)
<1>1. TypeInv
  BY DEF CoreInv
<1>2. ASSUME NEW history, SameManagers(history), \A k \in JobIds : jobs'[k] = history[k]
      PROVE  \A k \in JobIds : Fate(k)
  BY <1>2 DEF Fate, SameManagers
<1>3. ASSUME NEW job, Fresh(job), job.closes = {} \/ Closes(job), NEW n, jobs'[n] = job
      PROVE  NewComer(n)
  BY <1>1, <1>3, TokenTypes DEF NewComer, Fresh, Closes
<1>4. ASSUME NEW history, SameJobs(history), jobs' = history
      PROVE  JobIds' = JobIds
  BY <1>1, <1>4, JobIdsRange DEF SameJobs, JobIds
<1>5. ASSUME NEW history, SameJobs(history), SameManagers(history), jobs' = history
      PROVE  (\A k \in JobIds : Fate(k)) /\ \A n \in JobIds' : n \notin JobIds => NewComer(n)
  BY <1>2, <1>4, <1>5
<1>6. ASSUME NEW history, NEW job \in JobType, SameJobs(history), SameManagers(history), Fresh(job),
             Enqueue(job, history, line), job.closes = {} \/ Closes(job)
      PROVE  (\A k \in JobIds : Fate(k)) /\ \A n \in JobIds' : n \notin JobIds => NewComer(n)
  <2>1. /\ JobIds' = JobIds \cup {NextJob} /\ jobs'[NextJob] = job
        /\ \A k \in JobIds : jobs'[k] = history[k]
    BY <1>1, <1>6, SubmitFacts
  <2>2. NewComer(NextJob)
    BY <1>3, <1>6, <2>1
  <2>3. \A n \in JobIds' : n \notin JobIds => n = NextJob
    BY <2>1
  <2> QED
    BY <1>2, <1>6, <2>1, <2>2, <2>3
<1>7. ASSUME NEW history, NEW job \in JobType, NEW submits \in BOOLEAN,
             SameJobs(history), SameManagers(history), Fresh(job),
             Cancels(history, job, submits), submits => Closes(job)
      PROVE  (\A k \in JobIds : Fate(k)) /\ \A n \in JobIds' : n \notin JobIds => NewComer(n)
  <2>1. /\ JobIds' = IF submits THEN JobIds \cup {NextJob} ELSE JobIds
        /\ \A k \in JobIds : jobs'[k] = history[k]
        /\ \A n : submits /\ n = NextJob => jobs'[n] = job /\ InLine(n)'
    BY <1>1, <1>7, CancelFacts
  <2>2. ASSUME NEW n \in JobIds', n \notin JobIds PROVE NewComer(n)
    <3>1. submits /\ jobs'[n] = job
      BY <2>1, <2>2
    <3> QED
      BY <1>3, <1>7, <3>1
  <2> QED
    BY <1>2, <1>7, <2>1, <2>2
<1>8. ASSUME NEW j \in JobIds, NEW signal \in {"succeeded", "failed"}, NEW result \in Results,
             WorkStep(j, signal, result)
      PROVE  (\A k \in JobIds : Fate(k)) /\ \A n \in JobIds' : n \notin JobIds => NewComer(n)
  <2>1. JobIds' = JobIds /\ InLine(j)
    BY <1>1, <1>8, WorkFates, HeadFacts DEF WorkStep
  <2>2. SUFFICES ASSUME NEW k \in JobIds PROVE Fate(k)
    BY <2>1
  <2>3. CASE step = "waiting"
    <3>1. jobs' = DisconnectAll(jobs[j].closes \cap tokens)
      BY <1>8, <2>3 DEF WorkStep
    <3>2. /\ k \notin jobs[j].closes \cap tokens => jobs'[k] = jobs[k]
          /\ k \in jobs[j].closes \cap tokens => jobs'[k].socket \in {"closed", "twice"}
          /\ jobs'[k].claimed = jobs[k].claimed /\ jobs'[k].finished = jobs[k].finished
      BY <1>1, <3>1, DisconnectFacts
    <3> QED
      BY <3>2 DEF Fate
  <2>4. CASE step # "waiting" /\ (k # j \/ ~IsConnection(j))
    <3>1. jobs'[k] = jobs[k]
      BY <1>8, <2>4 DEF WorkStep
    <3> QED
      BY <3>1 DEF Fate
  <2>5. CASE step # "waiting" /\ k = j /\ IsConnection(j)
    <3>1. ConnectionStep(j, signal)
      BY <1>8, <2>5 DEF WorkStep
    <3> QED
      BY <2>1, <2>5, <3>1 DEF Fate, ConnectionStep
  <2> QED
    BY <2>3, <2>4, <2>5
<1> QED
  BY <1>5, <1>6, <1>7, <1>8 DEF TokenStep

\* A job of the present generation was of it before.
LEMMA KeptCurrent ==
  ASSUME TypeInv, OldGenerations, JobStep, SessionStep, NEW j \in JobIds, Current(j)'
  PROVE  Current(j)
<1>1. /\ jobs'[j].generation = jobs[j].generation
      /\ jobs[j].generation <= session.generation /\ session.generation \in Nat
      /\ session'.present /\ session'.generation = jobs'[j].generation
  BY Growth, SessionParts DEF OldGenerations, Current
<1>2. jobs[j].generation \in Nat
  <2>1. jobs[j] \in JobType
    BY ElementOfSeq, SessionParts DEF TypeInv
  <2> QED
    BY <2>1 DEF JobType
<1>3. ~SessionBegins
  BY <1>1, <1>2 DEF SessionBegins
<1> QED
  BY <1>1, <1>3 DEF SessionStep, SessionGoesOn, Current

\* Nobody comes to hold an old manager whom it was not promised to.
LEMMA HeldBack ==
  ASSUME CoreInv, TokenStep, HoldStep, NEW j \in JobIds, Held(j)'
  PROVE  Held(j)
<1>1. TypeInv
  BY DEF CoreInv
<1>2. /\ InLine(j)' => InLine(j)
      /\ Queued(j, "succeeded")' => Queued(j, "succeeded") \/ InLine(j)
  BY TokenJobs DEF SucceededNow
<1>3. /\ NextJob \notin JobIds /\ None \notin JobIds
  BY <1>1, SessionParts, TokenTypes
<1>4. session'.attempt = j => session.attempt = j
  BY <1>3 DEF HoldStep, NewAttempt, Adopts
<1>5. session'.manager = j => session.manager = j \/ Queued(j, "succeeded")
  BY <1>3 DEF HoldStep, Adopts
<1> QED
  BY <1>2, <1>4, <1>5 DEF Held

\* Every step keeps what the session holds a manager of its own.
LEMMA HeldKept ==
  ASSUME CoreInv, CoreInv', BusyInv, LineInv, HeldInv, TokenStep, HoldStep, SessionStep
  PROVE  HeldInv'
<1>1. TypeInv /\ OrderInv /\ OldGenerations /\ JobStep
  BY TokenJobs DEF CoreInv, BusyInv
<1>2. /\ \A j \in JobIds : InLine(j)' => InLine(j)
      /\ \A j : Queued(j, "succeeded")' => j \in JobIds /\ (Queued(j, "succeeded") \/ SucceededNow(j))
      /\ \A j \in JobIds : Held(j)' => Held(j)
      /\ \A j \in JobIds : Fate(j)
      /\ \A n \in JobIds' : n \notin JobIds => NewComer(n)
      /\ \A j \in JobIds : Current(j)' => Current(j)
  BY <1>1, TokenJobs, HeldBack, Fates, KeptCurrent
<1>3. /\ JobIds \subseteq JobIds'
      /\ \A j \in JobIds : /\ jobs'[j].closes = jobs[j].closes
                           /\ jobs'[j].generation = jobs[j].generation
                           /\ IsConnection(j)' = IsConnection(j)
  BY <1>1, Growth
<1>4. \A j : Queued(j, "succeeded") => ~InLine(j)
  BY <1>1 DEF OrderInv, Queued
<1>5. \A j \in Connections : ~jobs[j].claimed /\ Held(j) => j \notin tokens /\ Unlisted(j)
  BY <1>1, HeldIsNoToken
<1>6. \A j : j \in Connections <=> j \in JobIds /\ IsConnection(j)
  BY DEF Connections
<1>7. \A j : j \in Connections' <=> j \in JobIds' /\ IsConnection(j)'
  BY DEF Connections
<1>8. HeldManagers'
  <2>1. SUFFICES ASSUME NEW j \in Connections', ~jobs'[j].claimed, Held(j)'
                 PROVE  Unlisted(j)' /\ jobs'[j].socket \in {"unmade", "open"}
    BY DEF HeldManagers
  <2>2. CASE j \in JobIds
    <3>1. j \in Connections /\ Held(j) /\ Fate(j) /\ ~jobs[j].claimed
      BY <1>2, <1>3, <1>6, <1>7, <2>1, <2>2 DEF Fate
    <3>2. Unlisted(j) /\ jobs[j].socket \in {"unmade", "open"} /\ j \notin tokens
      BY <1>5, <3>1 DEF HeldInv, HeldManagers
    <3>3. jobs'[j].socket \in {"unmade", "open"}
      BY <1>6, <2>1, <3>1, <3>2 DEF Fate
    <3>4. ASSUME NEW i \in JobIds' PROVE j \notin jobs'[i].closes
      <4>1. CASE i \in JobIds
        BY <1>3, <3>2, <4>1 DEF Unlisted
      <4>2. CASE i \notin JobIds
        BY <1>2, <2>1, <3>2, <3>4, <4>2 DEF NewComer
      <4> QED
        BY <4>1, <4>2
    <3> QED
      BY <3>3, <3>4 DEF Unlisted
  <2>3. CASE j \notin JobIds
    <3>1. j \in JobIds' /\ NewComer(j)
      BY <1>2, <1>7, <2>1, <2>3
    <3>2. ASSUME NEW i \in JobIds' PROVE j \notin jobs'[i].closes
      BY <1>2, <1>3, <2>3 DEF NewComer, LineInv, OldCloses
    <3> QED
      BY <3>1, <3>2 DEF NewComer, Unlisted
  <2> QED
    BY <2>2, <2>3
<1>9. ResultManagers'
  <2>1. SUFFICES ASSUME NEW j \in Connections', Queued(j, "succeeded")'
                 PROVE  /\ jobs'[j].socket # "unmade" /\ jobs'[j].finished
                        /\ Current(j)' => ~jobs'[j].claimed
    BY DEF ResultManagers
  <2>2. j \in Connections /\ Fate(j) /\ j \in JobIds /\ IsConnection(j)
    BY <1>2, <1>3, <1>6, <1>7, <2>1
  <2>3. CASE Queued(j, "succeeded")
    <3>1. /\ jobs[j].socket # "unmade" /\ jobs[j].finished /\ ~InLine(j)
          /\ Current(j) => ~jobs[j].claimed
      BY <1>4, <2>2, <2>3 DEF HeldInv, ResultManagers
    <3> QED
      BY <1>2, <2>2, <3>1 DEF Fate
  <2>4. CASE SucceededNow(j)
    <3>1. /\ InLine(j) /\ step = "made" /\ j = Head(line) /\ jobs'[j].finished
          /\ jobs'[j].claimed = jobs[j].claimed /\ jobs'[j].socket = jobs[j].socket
      BY <2>2, <2>4 DEF SucceededNow
    <3>2. ~jobs[j].claimed /\ jobs[j].socket = "open"
      BY <2>2, <3>1 DEF LineInv, LineUnclaimed, OpenWhenMade
    <3> QED
      BY <3>1, <3>2
  <2> QED
    BY <1>2, <2>1, <2>3, <2>4
<1>10. OwnAttempt'
  <2>1. SUFFICES ASSUME session'.attempt # None PROVE \A a : a = session'.attempt => Current(a)'
    BY DEF OwnAttempt, Current
  <2>2. CASE session'.attempt = session.attempt /\ SameGen
    <3>1. Current(session.attempt) /\ session.attempt \in JobIds
      BY <1>1, <2>1, <2>2, TokenTypes DEF HeldInv, OwnAttempt
    <3> QED
      BY <1>3, <2>2, <3>1 DEF Current, SameGen
  <2>3. CASE NewAttempt
    BY <2>3 DEF NewAttempt
  <2> QED
    BY <2>1, <2>2, <2>3 DEF HoldStep
<1>11. OwnManager'
  <2>1. SUFFICES ASSUME NEW m, m = session'.manager, m # None
                 PROVE  /\ Current(m)' /\ jobs'[m].socket = "open" /\ ~jobs'[m].claimed
                        /\ session'.attempt # m /\ ~InLine(m)' /\ ~Queued(m, "succeeded")'
    BY DEF OwnManager
  <2>2. NextJob \notin JobIds /\ None \notin JobIds
    BY <1>1, SessionParts, TokenTypes
  <2>3. CASE m = session.manager /\ SameGen
    <3>1. /\ Current(m) /\ jobs[m].socket = "open" /\ ~jobs[m].claimed
          /\ session.attempt # m /\ ~InLine(m) /\ ~Queued(m, "succeeded")
          /\ m \in Connections /\ Held(m)
      BY <1>1, <2>1, <2>3, TokenTypes DEF HeldInv, OwnManager, Held
    <3>2. m \notin tokens /\ m \in JobIds /\ Fate(m)
      BY <1>2, <1>5, <1>6, <3>1
    <3>3. Current(m)'
      BY <1>3, <2>3, <3>1, <3>2 DEF Current, SameGen
    <3>4. jobs'[m].socket = "open" /\ ~jobs'[m].claimed
      BY <3>1, <3>2, <3>3 DEF Fate
    <3>5. ~InLine(m)' /\ ~Queued(m, "succeeded")'
      BY <1>2, <3>1, <3>2 DEF SucceededNow
    <3>6. session'.attempt # m
      BY <2>1, <2>2, <3>1, <3>2 DEF HoldStep, NewAttempt
    <3> QED
      BY <3>3, <3>4, <3>5, <3>6
  <2>4. CASE SameGen /\ m \in Connections /\ Adopts(m)
    <3>1. /\ session'.attempt = None /\ Current(m) /\ Queued(m, "succeeded")
          /\ ~Queued(m, "succeeded")' /\ ~InLine(m)
      BY <2>4 DEF Adopts
    <3>2. /\ jobs[m].socket # "unmade" /\ ~jobs[m].claimed /\ Held(m)
      BY <2>4, <3>1 DEF HeldInv, ResultManagers, Held
    <3>3. jobs[m].socket \in {"unmade", "open"} /\ m \notin tokens /\ m \in JobIds /\ Fate(m)
      BY <1>2, <1>5, <1>6, <2>4, <3>2 DEF HeldInv, HeldManagers
    <3>4. Current(m)'
      BY <1>3, <2>4, <3>1, <3>3 DEF Current, SameGen
    <3>5. jobs'[m].socket = "open" /\ ~jobs'[m].claimed
      BY <3>1, <3>2, <3>3, <3>4 DEF Fate
    <3>6. ~InLine(m)'
      BY <1>2, <3>1, <3>3
    <3> QED
      BY <2>1, <3>1, <3>4, <3>5, <3>6
  <2> QED
    BY <2>1, <2>3, <2>4 DEF HoldStep, Adopts
<1> QED
  BY <1>8, <1>9, <1>10, <1>11 DEF HeldInv

-----------------------------------------------------------------------------
(* ... step by step.                                                        *)

\* A session that takes up no manager is a HoldStep.
LEMMA SameHolders ==
  ASSUME SameGen, session'.attempt \in {None, session.attempt},
         session'.manager \in {None, session.manager}
  PROVE  HoldStep
BY DEF HoldStep

\* So is a session that lets go of all it holds.
LEMMA NoHolders ==
  ASSUME session'.attempt = None, session'.manager = None
  PROVE  HoldStep
BY DEF HoldStep

\* The jobs as they are hold the managers they held.
LEMMA UntouchedManagers == SameManagers(jobs)
BY DEF SameManagers

\* A step that leaves jobs, line and tokens alone is a TokenStep.
LEMMA QuietTokens ==
  ASSUME TypeInv, UNCHANGED <<jobs, line, step, tokens>>, EventsKeep
  PROVE  TokenStep
BY JobsAreSame, UntouchedManagers DEF TokenStep

\* A job of the user's, behind the others.
LEMMA LaunchTokens ==
  ASSUME TypeInv, NEW op \in JobOps, NEW generation \in Nat, NEW sudo \in BOOLEAN,
         NEW logical \in Nat, Enqueue(NewJob(op, generation, sudo, {}, logical), jobs, line),
         tokens' = tokens, EventsKeep
  PROVE  TokenStep
<1>1. PICK job : job = NewJob(op, generation, sudo, {}, logical)
  OBVIOUS
<1>2. job \in JobType /\ Fresh(job) /\ job.closes = {}
  BY <1>1 DEF NewJob, JobType, Fresh
<1>3. Enqueue(job, jobs, line)
  BY <1>1
<1> QED
  BY <1>2, <1>3, JobsAreSame, UntouchedManagers DEF TokenStep

\* A job that closes all open tokens, behind the others.
LEMMA SubmittedClose ==
  ASSUME TypeInv, NEW history, SameJobs(history), SameManagers(history), EventsKeep,
         NEW open, open = tokens', SubmitClose(history, open),
         tokens \subseteq open, open \subseteq Connections,
         \A k \in open : k \notin tokens =>
           /\ ~jobs[k].claimed /\ Held(k) /\ jobs[k].socket # "unmade"
           /\ ~Held(k)' \/ jobs'[k].claimed
  PROVE  TokenStep
<1>1. PICK job : job = NewJob("close", session.generation, FALSE, open, 0)
  OBVIOUS
<1>2. open \in SUBSET Nat /\ session.generation \in Nat
  BY TokenTypes, SessionParts
<1>3. job \in JobType /\ Fresh(job) /\ job.closes = open
  BY <1>1, <1>2 DEF NewJob, JobType, JobOps, Fresh
<1>4. Enqueue(job, history, line)
  BY <1>1 DEF SubmitClose
<1>5. Closes(job)
  BY <1>3 DEF Closes
<1> QED
  BY <1>3, <1>4, <1>5 DEF TokenStep

\* The manager that is lost is held by nobody else.
LEMMA LostManager ==
  ASSUME CoreInv, LineInv, HeldInv, EventsKeep, session.manager # None, session'.manager = None,
         session'.attempt \in {None, session.attempt},
         tokens' = tokens \cup {session.manager}, SubmitClose(jobs, tokens')
  PROVE  TokenStep
<1>1. TypeInv
  BY DEF CoreInv
<1>2. PICK m : m = session.manager
  OBVIOUS
<1>3. /\ m \in Connections /\ m \in JobIds /\ None \notin JobIds /\ m # None
      /\ jobs[m].socket # "unmade" /\ ~jobs[m].claimed /\ session.attempt # m /\ ~InLine(m) /\ ~Queued(m, "succeeded")
  BY <1>1, <1>2, TokenTypes DEF HeldInv, OwnManager, Connections
<1>4. PICK open : open = tokens'
  OBVIOUS
<1>5. PICK job : job = NewJob("close", session.generation, FALSE, open, 0)
  OBVIOUS
<1>6. tokens \subseteq open /\ open \subseteq Connections /\ open \in SUBSET Nat /\ session.generation \in Nat
  BY <1>1, <1>2, <1>3, <1>4, TokenTypes, SessionParts
<1>7. job \in JobType
  BY <1>5, <1>6 DEF NewJob, JobType, JobOps
<1>8. Enqueue(job, jobs, line)
  BY <1>4, <1>5 DEF SubmitClose
<1>9. \A j : InLine(j)' <=> InLine(j) \/ j = NextJob
  BY <1>1, <1>7, <1>8, JobsAreSame, SubmitFacts
<1>10. ~InLine(m)'
  BY <1>1, <1>3, <1>9, SessionParts
<1>11. ~Queued(m, "succeeded")'
  <2>1. CASE events' = events
    BY <1>3, <2>1 DEF Queued
  <2>2. CASE events # <<>> /\ Received
    BY <1>1, <1>3, <2>2, ReceivedFacts
  <2> QED
    BY <2>1, <2>2 DEF EventsKeep
<1>12. Held(m) /\ ~Held(m)'
  BY <1>2, <1>3, <1>10, <1>11 DEF Held
<1>13. SubmitClose(jobs, open)
  BY <1>4
<1>14. \A k \in open : k \notin tokens => k = m
  BY <1>2, <1>4
<1> QED
  BY <1>1, <1>3, <1>4, <1>6, <1>12, <1>13, <1>14, JobsAreSame, UntouchedManagers, SubmittedClose

\* disconnect(), reconnect(), a reloaded configuration, shutdown().
LEMMA GiveUpTokens ==
  ASSUME CoreInv, BusyInv, LineInv, HeldInv, NEW op \in {"disconnect", "reconnect", "close"}, NEW next,
         GiveUp(op, next), next.generation = session.generation + 1, next.sudo \in BOOLEAN,
         next.manager = None, next.attempt \in {None, NextJob}
  PROVE  TokenStep
<1>1. TypeInv /\ OldGenerations
  BY DEF CoreInv, BusyInv
<1>2. session.generation \in Nat /\ next.generation \in Nat /\ NextJob \notin JobIds
  BY <1>1, SessionParts
<1>3. PICK submits \in BOOLEAN : submits = ~(op = "close" /\ TokensGivenUp = {})
  OBVIOUS
<1>4. PICK job : job = NewJob(op, next.generation, next.sudo, TokensGivenUp, 0)
  OBVIOUS
<1>5. /\ session' = next /\ tokens' = TokensGivenUp
      /\ Cancels(JobsGivenUp, job, submits)
      /\ job \in JobType /\ job.closes = TokensGivenUp /\ Fresh(job)
  BY ZenonT(30), <1>1, <1>2, <1>3, <1>4, GiveUpFacts DEF Fresh
<1>6. /\ SameJobs(JobsGivenUp)
      /\ \A j \in JobIds : /\ JobsGivenUp[j].socket = jobs[j].socket
                           /\ JobsGivenUp[j].finished = jobs[j].finished
                           /\ j # session.attempt => JobsGivenUp[j] = jobs[j]
                           /\ j = session.attempt =>
                                /\ JobsGivenUp[j].invalidated
                                /\ JobsGivenUp[j].claimed = (jobs[j].claimed \/ Claimable(j))
  BY <1>1, GivenUpFacts
<1>7. /\ \A j \in JobIds : /\ jobs'[j] = JobsGivenUp[j]
                           /\ jobs'[j].generation = jobs[j].generation
      /\ \A j \in JobIds : InLine(j)' => InLine(j)
      /\ \A j, s : Queued(j, s)' => Queued(j, s) \/ s = "finished"
  BY <1>1, <1>5, <1>6, CancelFacts
<1>8. \A j \in JobIds : ~Current(j)'
  <2>1. SUFFICES ASSUME NEW j \in JobIds PROVE ~Current(j)'
    OBVIOUS
  <2>2. jobs[j].generation <= session.generation /\ jobs[j].generation \in Nat
    <3>1. jobs[j] \in JobType
      BY <1>1, ElementOfSeq, SessionParts DEF TypeInv
    <3> QED
      BY <1>1, <3>1 DEF JobType, OldGenerations
  <2> QED
    BY <1>2, <1>5, <1>7, <2>2 DEF Current
<1>9. SameManagers(JobsGivenUp)
  <2>1. SUFFICES ASSUME NEW j \in JobIds
                 PROVE  /\ JobsGivenUp[j].socket = jobs[j].socket
                        /\ JobsGivenUp[j].finished = jobs[j].finished
                        /\ jobs[j].claimed => JobsGivenUp[j].claimed
                        /\ jobs[j].invalidated => JobsGivenUp[j].invalidated
                        /\ JobsGivenUp[j].claimed => jobs[j].claimed \/ (~InLine(j) /\ ~Current(j)')
    BY DEF SameManagers
  <2>2. Claimable(j) => ~InLine(j)
    BY DEF Claimable, LineInv, LineUnclaimed
  <2> QED
    BY <1>6, <1>8, <2>1, <2>2
<1>10. Closes(job)
  <2>1. tokens \subseteq TokensGivenUp /\ TokensGivenUp \subseteq Connections
    BY <1>1, TokenTypes DEF TokensGivenUp
  <2>2. SUFFICES ASSUME NEW k \in TokensGivenUp, k \notin tokens
                 PROVE  /\ ~jobs[k].claimed /\ Held(k) /\ jobs[k].socket # "unmade"
                        /\ ~Held(k)' \/ jobs'[k].claimed
    BY <1>5, <2>1 DEF Closes
  <2>3. k \in JobIds /\ None \notin JobIds
    BY <1>1, <2>1, <2>2, TokenTypes
  <2>4. CASE k = session.manager /\ k # None
    <3>1. /\ ~jobs[k].claimed /\ session.attempt # k /\ ~InLine(k) /\ ~Queued(k, "succeeded")
          /\ jobs[k].socket # "unmade"
      BY <2>4 DEF HeldInv, OwnManager
    <3>2. ~InLine(k)' /\ ~Queued(k, "succeeded")'
      BY <1>7, <2>3, <3>1
    <3>3. session'.attempt # k /\ session'.manager # k
      BY <1>2, <1>5, <2>3
    <3> QED
      BY <2>4, <3>1, <3>2, <3>3 DEF Held
  <2>5. CASE k = session.attempt /\ k # None /\ Claimable(k)
    BY <1>6, <1>7, <2>3, <2>5 DEF Held, Claimable
  <2> QED
    BY <2>2, <2>4, <2>5 DEF TokensGivenUp
<1>11. ~submits => tokens = {} /\ tokens' = {}
  BY <1>3, <1>5 DEF TokensGivenUp
<1> QED
  BY <1>5, <1>6, <1>9, <1>10, <1>11 DEF TokenStep

\* The calls that give up the session's work hand its managers on as they may.
LEMMA GiveUpCallTokens ==
  ASSUME CoreInv, AgreeInv, LineInv, HeldInv,
         Disconnect \/ Reconnect \/ ReloadChanged \/ ReloadRemoved \/ Shutdown
  PROVE  TokenStep /\ HoldStep
<1>1. TypeInv /\ BusyInv /\ session.generation \in Nat
  BY SessionParts DEF CoreInv, AgreeInv
<1>2. ASSUME NEW op \in {"disconnect", "reconnect", "close"}, NEW status \in {"disconnected", "connecting"},
             NEW busy \in {None, "disconnect"} \cup ConnectionOps, NEW next,
             next \in {Detached(status, busy), [Detached(status, busy) EXCEPT !.present = FALSE]},
             GiveUp(op, next)
      PROVE  TokenStep /\ HoldStep
  <2>1. PICK d : d = Detached(status, busy)
    OBVIOUS
  <2>2. d \in SessionType /\ d.generation = session.generation + 1 /\ ~d.sudo
        /\ d.manager = None /\ d.attempt = None
    BY <1>1, <2>1, DetachedFacts
  <2>3. /\ next.generation = session.generation + 1 /\ next.sudo = FALSE
        /\ next.manager = None /\ next.attempt = None
    BY <1>2, <2>1, <2>2 DEF SessionType
  <2>4. session' = next
    BY <1>2 DEF GiveUp
  <2> QED
    BY <1>1, <1>2, <2>3, <2>4, GiveUpTokens, NoHolders
<1>3. CASE Disconnect
  BY <1>2, <1>3 DEF Disconnect
<1>4. CASE ReloadChanged
  BY <1>2, <1>4 DEF ReloadChanged
<1>5. CASE ReloadRemoved
  BY <1>2, <1>5 DEF ReloadRemoved
<1>6. CASE Reconnect
  <2>1. CASE session.status # "disconnected" /\ Idle
    <3>1. session.present
      BY <1>6 DEF Reconnect
    <3>2. PICK d : d = Detached("connecting", "reconnect")
      OBVIOUS
    <3>3. PICK next : next = [d EXCEPT !.attempt = NextJob]
      OBVIOUS
    <3>4. "reconnect" \in ConnectionOps
      BY DEF ConnectionOps
    <3>5. d \in SessionType /\ d.generation = session.generation + 1 /\ ~d.sudo /\ d.manager = None /\ d.present
      BY <1>1, <3>2, <3>4, DetachedFacts
    <3>6. /\ next.generation = session.generation + 1 /\ next.sudo = FALSE
          /\ next.manager = None /\ next.attempt = NextJob /\ next.present
      BY <3>3, <3>5 DEF SessionType
    <3>7. GiveUp("reconnect", next)
      BY <1>6, <2>1, <3>2, <3>3 DEF Reconnect
    <3>8. TokenStep
      BY <1>1, <3>6, <3>7, GiveUpTokens
    <3>9. session' = next
      BY <3>7 DEF GiveUp
    <3>10. PICK job : job = NewJob("reconnect", next.generation, next.sudo, TokensGivenUp, 0)
      OBVIOUS
    <3>11. Cancels(JobsGivenUp, job, TRUE) /\ job \in JobType /\ job.generation = next.generation
      <4>1. next.generation \in Nat
        BY <1>1, <3>6
      <4>2. /\ Cancels(JobsGivenUp, job, ~("reconnect" = "close" /\ TokensGivenUp = {}))
            /\ job \in JobType /\ job.generation = next.generation
        BY ZenonT(30), <1>1, <3>6, <3>7, <3>10, <4>1, GiveUpFacts
      <4> QED
        BY <4>2
    <3>12. \A n : n = NextJob => n \in JobIds' /\ jobs'[n] = job
      BY ZenonT(30), <1>1, <3>11, GivenUpFacts, CancelFacts
    <3>13. NewAttempt
      BY <3>6, <3>9, <3>11, <3>12 DEF NewAttempt, Current
    <3> QED
      BY <3>6, <3>8, <3>9, <3>13 DEF HoldStep
  <2>2. CASE ~(session.status # "disconnected" /\ Idle)
    <3>1. UNCHANGED <<session, jobs, line, step, tokens, events>>
      BY <1>6, <2>2 DEF Reconnect
    <3> QED
      BY <1>1, <3>1, QuietTokens, SameHolders DEF SameGen, EventsKeep
  <2> QED
    BY <2>1, <2>2
<1>7. CASE Shutdown
  <2>1. CASE session.present
    BY <1>2, <1>7, <2>1 DEF Shutdown
  <2>2. CASE ~session.present
    <3>1. /\ session' = session /\ tokens' = tokens
          /\ \E kept \in Survivors :
                 IF tokens = {} THEN UNCHANGED <<jobs, line, step, events>>
                 ELSE /\ \E notices \in CancelNotices(kept) : events' = events \o notices
                      /\ Enqueue(NewJob("close", session.generation, FALSE, tokens, 0), jobs, kept)
      BY <1>7, <2>2 DEF Shutdown
    <3>2. HoldStep
      BY <3>1, SameHolders DEF SameGen
    <3>3. CASE UNCHANGED <<jobs, line, step, events>>
      BY <1>1, <3>1, <3>2, <3>3, QuietTokens DEF EventsKeep
    <3>4. CASE tokens # {}
      <4>1. PICK job : job = NewJob("close", session.generation, FALSE, tokens, 0)
        OBVIOUS
      <4>2. tokens \in SUBSET Nat
        BY <1>1, TokenTypes
      <4>3. job \in JobType /\ job.closes = tokens /\ Fresh(job)
        BY <1>1, <4>1, <4>2 DEF NewJob, JobType, JobOps, Fresh
      <4>4. Cancels(jobs, job, TRUE)
        BY <3>1, <3>4, <4>1 DEF Cancels
      <4>5. Closes(job)
        BY <1>1, <3>1, <4>3, TokenTypes DEF Closes
      <4> QED
        BY <1>1, <3>2, <4>3, <4>4, <4>5, JobsAreSame, UntouchedManagers DEF TokenStep
    <3> QED
      BY <3>1, <3>3, <3>4
  <2> QED
    BY <2>1, <2>2
<1> QED
  BY <1>3, <1>4, <1>5, <1>6, <1>7

\* A call that starts something, and one that does not.
LEMMA OtherCallTokens ==
  ASSUME CoreInv,
         \/ Connect \/ (\E op \in Reads : StartRead(op)) \/ (\E op \in Mutations : StartMutation(op))
         \/ ProvideSudoPassword \/ Select \/ ReloadAdded
  PROVE  TokenStep /\ HoldStep
<1>1. TypeInv /\ session \in SessionType /\ session.generation \in Nat /\ session.sudo \in BOOLEAN
      /\ Len(logicals) + 1 \in Nat
  BY SessionParts DEF CoreInv
<1>2. CASE Connect
  <2>1. CASE UNCHANGED <<session, jobs, line, step>>
    BY <1>1, <1>2, <2>1, QuietTokens, SameHolders DEF Connect, SameGen, EventsKeep
  <2>2. CASE /\ Enqueue(NewJob("connect", session.generation, session.sudo, {}, 0), jobs, line)
             /\ session' = [session EXCEPT !.status = "connecting", !.snapshot = None,
                                           !.busy = "connect", !.attempt = NextJob]
    <3>1. "connect" \in JobOps /\ 0 \in Nat
      BY DEF JobOps, ConnectionOps
    <3>2. TokenStep
      BY <1>1, <1>2, <2>2, <3>1, LaunchTokens DEF Connect, EventsKeep
    <3>3. \A n : n = NextJob => n \in JobIds' /\ jobs'[n].generation = session.generation
      BY <1>1, <2>2, <3>1, NewWork
    <3>4. /\ session'.generation = session.generation /\ session'.present = session.present
          /\ session'.manager = session.manager /\ session'.attempt = NextJob
      BY <1>1, <2>2 DEF SessionType
    <3>5. session.present
      BY <1>2 DEF Connect
    <3>6. NewAttempt
      BY <3>3, <3>4, <3>5 DEF NewAttempt, Current
    <3> QED
      BY <3>2, <3>4, <3>6 DEF HoldStep, SameGen
  <2> QED
    BY <1>2, <2>1, <2>2 DEF Connect
<1>3. ASSUME NEW op \in Reads \cup Mutations, StartRead(op) \/ StartMutation(op)
      PROVE  TokenStep /\ HoldStep
  <2>1. op \in JobOps
    BY DEF JobOps
  <2>2. PICK logical \in Nat :
          Enqueue(NewJob(op, session.generation, session.sudo, {}, logical), jobs, line)
    BY <1>1, <1>3 DEF StartRead, StartMutation
  <2>3. session' = [session EXCEPT !.busy = op] /\ tokens' = tokens /\ events' = events
    BY <1>3 DEF StartRead, StartMutation
  <2>4. TokenStep
    BY <1>1, <2>1, <2>2, <2>3, LaunchTokens DEF EventsKeep
  <2>5. /\ session'.generation = session.generation /\ session'.present = session.present
        /\ session'.manager = session.manager /\ session'.attempt = session.attempt
    BY <1>1, <2>3 DEF SessionType
  <2> QED
    BY <2>4, <2>5, SameHolders DEF SameGen
<1>4. CASE ProvideSudoPassword \/ Select
  <2>1. /\ session' \in {session, [session EXCEPT !.sudo = TRUE]}
        /\ UNCHANGED <<jobs, line, step, tokens, events>>
    BY <1>4 DEF ProvideSudoPassword, Select
  <2>2. /\ session'.generation = session.generation /\ session'.present = session.present
        /\ session'.manager = session.manager /\ session'.attempt = session.attempt
    BY <1>1, <2>1 DEF SessionType
  <2> QED
    BY <1>1, <2>1, <2>2, QuietTokens, SameHolders DEF SameGen, EventsKeep
<1>5. CASE ReloadAdded
  <2>1. session' = NewSession(session.generation + 1) /\ UNCHANGED <<jobs, line, step, tokens, events>>
    BY <1>5 DEF ReloadAdded
  <2>2. session'.attempt = None /\ session'.manager = None
    BY <2>1 DEF NewSession
  <2> QED
    BY <1>1, <2>1, <2>2, QuietTokens, NoHolders DEF EventsKeep
<1> QED
  BY <1>2, <1>3, <1>4, <1>5

\* So does _on_job_succeeded.
LEMMA SucceededTokens ==
  ASSUME CoreInv, LineInv, HeldInv, OnSucceeded
  PROVE  TokenStep /\ HoldStep
<1>j. PICK j : j = Head(events).job
  OBVIOUS
<1>r. PICK result : result = Head(events).result
  OBVIOUS
<1>1. TypeInv /\ session \in SessionType
  BY SessionParts DEF CoreInv
<1>2. /\ events # <<>> /\ Received /\ j \in JobIds /\ Queued(j, "succeeded") /\ EventsKeep
      /\ \/ DiscardSucceeded(j)
         \/ MutationSucceeded(j, result)
         \/ /\ Current(j)
            /\ session' = IF IsConnection(j)
                          THEN [session EXCEPT !.manager = j, !.attempt = None,
                                  !.snapshot = Snapshot(j), !.status = "connected"]
                          ELSE IF jobs[j].op = "refresh"
                          THEN [session EXCEPT !.snapshot = Snapshot(j)]
                          ELSE session
            /\ UNCHANGED <<jobs, tokens, line, step>>
  BY <1>j, <1>r, <1>1, SucceededCases DEF EventsKeep
<1>3. ~InLine(j) /\ ~Queued(j, "succeeded")'
  BY <1>j, <1>1, <1>2, HeadGone DEF CoreInv
<1>4. CASE DiscardSucceeded(j)
  <2>1. session' = session /\ HoldStep
    BY <1>1, <1>2, <1>4, DiscardCases, SameHolders DEF SameGen
  <2>2. CASE UNCHANGED <<jobs, tokens, line, step>>
    BY <1>1, <1>2, <2>1, <2>2, QuietTokens
  <2>3. CASE /\ ~Current(j) /\ IsConnection(j) /\ SameJobs(Invalidated(j))
             /\ \/ /\ Claimable(j) /\ tokens' = tokens \cup {j}
                   /\ SubmitClose(Invalidated(j), tokens \cup {j})
                \/ /\ ~Claimable(j) /\ jobs' = Invalidated(j)
                   /\ UNCHANGED <<tokens, line, step>>
    <3>1. PICK history : history = Invalidated(j)
      OBVIOUS
    <3>2. /\ SameJobs(history)
          /\ \A k \in JobIds : /\ history[k].socket = jobs[k].socket
                               /\ history[k].finished = jobs[k].finished
                               /\ k # j => history[k] = jobs[k]
          /\ history[j].claimed = (jobs[j].claimed \/ Claimable(j)) /\ history[j].invalidated
      BY <1>1, <1>2, <3>1, InvalidatedFacts
    <3>3. jobs'[j].generation = jobs[j].generation /\ (Claimable(j) => jobs'[j] = history[j])
      <4>1. CASE jobs' = history /\ ~Claimable(j)
        BY <1>2, <3>2, <4>1 DEF SameJobs
      <4>2. CASE SubmitClose(history, tokens \cup {j}) /\ Claimable(j)
        <5>1. PICK open : open = tokens \cup {j}
          OBVIOUS
        <5>2. j \in Connections /\ open \in SUBSET Nat /\ session.generation \in Nat
          BY <1>1, <1>2, <2>3, <5>1, TokenTypes, SessionParts DEF Connections
        <5>3. PICK job : job = NewJob("close", session.generation, FALSE, open, 0)
          OBVIOUS
        <5>4. job \in JobType /\ Enqueue(job, history, line)
          BY <4>2, <5>1, <5>2, <5>3 DEF NewJob, JobType, JobOps, SubmitClose
        <5> QED
          BY <1>1, <1>2, <3>2, <5>4, SubmitFacts
      <4> QED
        BY <2>3, <3>1, <4>1, <4>2
    <3>4. ~Current(j)'
      BY <2>1, <2>3, <3>3 DEF Current
    <3>5. SameManagers(history)
      BY <1>3, <3>2, <3>4 DEF SameManagers
    <3>6. CASE Claimable(j)
      <4>1. PICK open : open = tokens'
        OBVIOUS
      <4>2. open = tokens \cup {j} /\ SubmitClose(history, open)
        BY <2>3, <3>1, <3>6, <4>1
      <4>3. tokens \subseteq open /\ open \subseteq Connections
        BY <1>1, <1>2, <2>3, <4>2, TokenTypes DEF Connections
      <4>4. Held(j) /\ ~jobs[j].claimed /\ jobs'[j].claimed /\ jobs[j].socket # "unmade"
        BY <1>2, <3>2, <3>3, <3>6 DEF Held, Claimable
      <4>5. TokenStep
        BY <1>1, <1>2, <3>2, <3>5, <4>1, <4>2, <4>3, <4>4, SubmittedClose
      <4> QED
        BY <2>1, <4>5
    <3>7. CASE ~Claimable(j)
      <4>1. jobs' = history /\ UNCHANGED <<tokens, line, step>>
        BY <2>3, <3>1, <3>7
      <4> QED
        BY <1>2, <2>1, <3>2, <3>5, <4>1 DEF TokenStep
    <3> QED
      BY <3>6, <3>7
  <2> QED
    BY <1>1, <1>2, <1>4, <2>2, <2>3, DiscardCases
<1>5. CASE MutationSucceeded(j, result)
  <2> DEFINE lost == result = "refresh_transport" /\ session.manager # None
  <2>1. /\ session'.generation = session.generation /\ session'.present = session.present
        /\ session'.attempt = session.attempt
        /\ session'.manager = IF lost THEN None ELSE session.manager
        /\ tokens' = tokens \cup {m \in {session.manager} : lost}
        /\ IF lost THEN SubmitClose(jobs, tokens \cup {m \in {session.manager} : lost})
           ELSE UNCHANGED <<jobs, line, step>>
    BY <1>1, <1>5 DEF MutationSucceeded, SessionType
  <2>2. HoldStep
    BY <2>1, SameHolders DEF SameGen
  <2>3. CASE lost
    <3>1. tokens' = tokens \cup {session.manager} /\ SubmitClose(jobs, tokens')
      BY <2>1, <2>3
    <3>2. session'.manager = None /\ session.manager # None
      BY <2>1, <2>3
    <3> QED
      BY <1>2, <2>1, <2>2, <3>1, <3>2, LostManager
  <2>4. CASE ~lost
    <3>1. UNCHANGED <<jobs, line, step, tokens>>
      BY <2>1, <2>4
    <3> QED
      BY <1>1, <1>2, <2>2, <3>1, QuietTokens
  <2> QED
    BY <2>3, <2>4
<1>6. CASE Current(j) /\ UNCHANGED <<jobs, tokens, line, step>> /\ IsConnection(j)
           /\ session' = [session EXCEPT !.manager = j, !.attempt = None,
                            !.snapshot = Snapshot(j), !.status = "connected"]
  <2>1. /\ session'.generation = session.generation /\ session'.present = session.present
        /\ session'.manager = j /\ session'.attempt = None
    BY <1>1, <1>6 DEF SessionType
  <2>2. Adopts(j) /\ j \in Connections
    BY <1>2, <1>3, <1>6, <2>1 DEF Adopts, Connections
  <2> QED
    BY <1>1, <1>2, <1>6, <2>1, <2>2, QuietTokens DEF HoldStep, SameGen
<1>7. CASE UNCHANGED <<jobs, tokens, line, step>>
           /\ session' \in {session, [session EXCEPT !.snapshot = Snapshot(j)]}
  <2>1. /\ session'.generation = session.generation /\ session'.present = session.present
        /\ session'.manager = session.manager /\ session'.attempt = session.attempt
    BY <1>1, <1>7 DEF SessionType
  <2> QED
    BY <1>1, <1>2, <1>7, <2>1, QuietTokens, SameHolders DEF SameGen
<1> QED
  BY <1>2, <1>4, <1>5, <1>6, <1>7

\* So does a failure, with what follows its signal.
LEMMA FailureTokens ==
  ASSUME CoreInv, LineInv, HeldInv, OnFailed \/ HostKeyStoreFails \/ RestOfApplyFailure
  PROVE  TokenStep /\ HoldStep
<1>1. TypeInv /\ TopicInv /\ session \in SessionType
  BY SessionParts DEF CoreInv
<1>2. ASSUME NEW j \in JobIds, IsPublic(j), NEW result \in Results, NEW rest, ApplyFailure(j, result, rest)
      PROVE  HoldStep
  <2>1. PICK sudo \in BOOLEAN : \E status \in Statuses : FailedSession(j, result, sudo, status)
    BY <1>1, <1>2, FailureFacts
  <2>2. PICK status \in Statuses : FailedSession(j, result, sudo, status)
    BY <2>1
  <2> QED
    BY <1>1, <2>2, FailedParts, SameHolders DEF SameGen
<1>3. CASE OnFailed
  <2>1. /\ events # <<>> /\ Received
        /\ Head(events).job \in JobIds /\ Head(events).result \in Results
        /\ UNCHANGED <<jobs, line, step, tokens>>
        /\ \/ session' = session
           \/ /\ IsPublic(Head(events).job)
              /\ ApplyFailure(Head(events).job, Head(events).result,
                              <<Frame("emit_failed", Head(events).job, Head(events).result)>> \o stack)
    BY <1>1, <1>3, FailedCases
  <2>2. HoldStep
    BY <1>2, <2>1, SameHolders DEF SameGen
  <2>3. TokenStep
    BY <1>1, <2>1, QuietTokens DEF EventsKeep
  <2> QED
    BY <2>2, <2>3
<1>4. CASE HostKeyStoreFails
  <2>1. "store_error" \in Results
    BY DEF Results
  <2>2. PICK j \in JobIds : IsPublic(j) /\ ApplyFailure(j, "store_error", Answered)
    BY <1>1, <1>4, StoreFailsCases
  <2>3. UNCHANGED <<jobs, line, step, tokens, events>>
    BY <1>4 DEF HostKeyStoreFails
  <2> QED
    BY <1>1, <1>2, <2>1, <2>2, <2>3, QuietTokens DEF EventsKeep
<1>5. CASE RestOfApplyFailure
  <2>1. PICK attempt \in {session.attempt, None},
               snapshot \in {session.snapshot, Staled(session.snapshot)},
               manager \in {session.manager, None}, sudo \in BOOLEAN :
              /\ session' = [session EXCEPT !.attempt = attempt, !.snapshot = snapshot,
                                            !.manager = manager, !.sudo = sudo]
              /\ \/ /\ manager = session.manager /\ tokens' = tokens /\ UNCHANGED <<jobs, line, step>>
                 \/ /\ session.manager # None /\ manager = None
                    /\ tokens' = tokens \cup {session.manager}
                    /\ SubmitClose(jobs, tokens')
    BY <1>1, <1>5, RestFacts
  <2>2. /\ session'.generation = session.generation /\ session'.present = session.present
        /\ session'.attempt = attempt /\ session'.manager = manager
    BY <1>1, <2>1 DEF SessionType
  <2>3. HoldStep /\ EventsKeep
    BY <1>5, <2>1, <2>2, SameHolders DEF SameGen, RestOfApplyFailure, EventsKeep
  <2>4. CASE tokens' = tokens /\ UNCHANGED <<jobs, line, step>>
    BY <1>1, <2>3, <2>4, QuietTokens
  <2>5. CASE /\ session.manager # None /\ manager = None
             /\ tokens' = tokens \cup {session.manager} /\ SubmitClose(jobs, tokens')
    BY <2>1, <2>2, <2>3, <2>5, LostManager
  <2> QED
    BY <2>1, <2>4, <2>5
<1> QED
  BY <1>3, <1>4, <1>5

\* A retry that starts a connection again starts with no manager.
LEMMA RetryTokens ==
  ASSUME TypeInv, PhaseInv', NEW s \in SessionType, NEW p, NEW r, NEW l \in Seq(LogicalType),
         NEW key \in Keys, Retries(s, p, r, l, key), EventsKeep, tokens' = tokens,
         s.present = session.present, s.generation = session.generation,
         s.manager = session.manager, s.attempt = session.attempt
  PROVE  TokenStep /\ HoldStep
<1>1. /\ key.generation \in Nat /\ key.op \in JobOps /\ session.generation \in Nat
      /\ s.generation + 1 \in Nat /\ s.sudo \in BOOLEAN
  BY SessionParts DEF Keys, JobOps, SessionType
<1>2. CASE NoRetry(s, p, r, l)
  <2>1. session' = s /\ UNCHANGED <<jobs, line, step>>
    BY <1>2 DEF NoRetry
  <2> QED
    BY <2>1, QuietTokens, SameHolders DEF SameGen
<1>3. CASE s.present /\ \E with_sudo \in BOOLEAN : Restart(s, p, r, key, with_sudo)
  <2>1. /\ session' = [s EXCEPT !.generation = @ + 1, !.status = "connecting",
                            !.snapshot = None, !.busy = key.op, !.attempt = NextJob]
        /\ Enqueue(NewJob(key.op, s.generation + 1, s.sudo, {}, 0), jobs, line)
    BY <1>3 DEF Restart
  <2>2. /\ session'.generation = s.generation + 1 /\ session'.attempt = NextJob
        /\ session'.status = "connecting" /\ session'.present = s.present
    BY <2>1 DEF SessionType
  <2>3. session'.manager = None
    BY <2>2 DEF PhaseInv
  <2>4. 0 \in Nat
    OBVIOUS
  <2>5. \A n : n = NextJob => n \in JobIds' /\ jobs'[n].generation = s.generation + 1
    BY <1>1, <2>1, <2>4, NewWork
  <2>6. NewAttempt
    BY <1>3, <2>2, <2>5 DEF NewAttempt, Current
  <2>7. TokenStep
    BY <1>1, <2>1, <2>4, LaunchTokens
  <2> QED
    BY <2>3, <2>6, <2>7 DEF HoldStep
<1>4. CASE Relaunch(s, p, r, l, key)
  <2>1. PICK i \in Nat : i = OpenLogical(l, key)
    BY LogicalIds
  <2>2. /\ session' = [s EXCEPT !.status = "connected", !.busy = key.op]
        /\ Enqueue(NewJob(key.op, key.generation, s.sudo, {}, i), jobs, line)
    BY <1>4, <2>1 DEF Relaunch
  <2>3. /\ session'.generation = s.generation /\ session'.attempt = s.attempt
        /\ session'.manager = s.manager /\ session'.present = s.present
    BY <2>2 DEF SessionType
  <2>4. TokenStep
    BY <1>1, <2>2, LaunchTokens
  <2> QED
    BY <2>3, <2>4, SameHolders DEF SameGen
<1> QED
  BY <1>2, <1>3, <1>4 DEF Retries

\* So do the handler of finished and the answers that retry.
LEMMA AnswerTokens ==
  ASSUME CoreInv, PhaseInv', OnFinished \/ ConfirmHostKey \/ AcceptSudo
  PROVE  TokenStep /\ HoldStep
<1>1. TypeInv /\ TopicInv /\ session \in SessionType
  BY SessionParts DEF CoreInv
<1>2. CASE OnFinished
  <2> DEFINE j   == Head(events).job
             key == KeyOf(j)
             s   == IF Current(j) /\ session.busy = key.op
                    THEN [session EXCEPT !.busy = None] ELSE session
             r   == {k \in records : KeyOf(k) # key}
  <2>1. PICK p \in DecisionsType, l \in Seq(LogicalType) :
        \/ NoRetry(s, p, r, l)
        \/ /\ key \in Keys
           /\ key \in pending.trusted => key.op \in ConnectionOps
           /\ \/ key \in pending.trusted /\ TrustedRetry(s, p, r, l, key)
              \/ key \in pending.accepted /\ SudoRetry(s, p, r, l, key)
    BY <1>1, <1>2, FinishedCases
  <2>2. s \in SessionType /\ tokens' = tokens /\ EventsKeep
    BY <1>1, <1>2, FinishedCases DEF EventsKeep
  <2>3. /\ s.present = session.present /\ s.generation = session.generation
        /\ s.manager = session.manager /\ s.attempt = session.attempt
    BY <1>1 DEF SessionType
  <2> HIDE DEF s, r, key
  <2>4. CASE NoRetry(s, p, r, l)
    <3>1. session' = s /\ UNCHANGED <<jobs, line, step>>
      BY <2>4 DEF NoRetry
    <3> QED
      BY <1>1, <2>2, <2>3, <3>1, QuietTokens, SameHolders DEF SameGen
  <2>5. CASE key \in Keys /\ Retries(s, p, r, l, key)
    BY <1>1, <2>2, <2>3, <2>5, RetryTokens
  <2> QED
    BY <2>1, <2>4, <2>5, RetryCases
<1>3. CASE ConfirmHostKey \/ AcceptSudo
  <2>1. PICK key \in Keys, s \in SessionType, p \in DecisionsType : Answering(key, s, p)
    BY <1>1, <1>3, AnswerCases
  <2>2. PICK q : Retries(s, q, records, logicals, key)
    <3>1. \/ NoRetry(s, [p EXCEPT !.trusted = @ \cup {key}], records, logicals)
          \/ NoRetry(s, [p EXCEPT !.accepted = @ \cup {key}], records, logicals)
          \/ key.op \in ConnectionOps /\ TrustedRetry(s, p, records, logicals, key)
          \/ SudoRetry(s, p, records, logicals, key)
      BY <2>1 DEF Answering
    <3> QED
      BY <3>1, RetryCases DEF Retries
  <2>3. s = session \/ s = [session EXCEPT !.sudo = TRUE]
    BY <2>1 DEF Answering
  <2>4. /\ s.present = session.present /\ s.generation = session.generation
        /\ s.manager = session.manager /\ s.attempt = session.attempt
    BY <1>1, <2>3 DEF SessionType
  <2>5. tokens' = tokens /\ EventsKeep /\ logicals \in Seq(LogicalType)
    BY <1>1, <2>1 DEF Answering, EventsKeep, TypeInv
  <2> QED
    BY <1>1, <2>2, <2>4, <2>5, RetryTokens
<1> QED
  BY <1>2, <1>3

\* So does every step.
LEMMA TokenSteps ==
  ASSUME CoreInv, AgreeInv, AgreeInv', LineInv, HeldInv, [Next]_vars
  PROVE  TokenStep /\ HoldStep
<1>1. TypeInv /\ TopicInv /\ PhaseInv'
  BY DEF CoreInv, AgreeInv
<1>2. CASE Work
  <2>1. PICK j \in JobIds, signal \in {"succeeded", "failed"}, result \in Results :
          WorkStep(j, signal, result)
    BY <1>1, <1>2, WorkSteps
  <2>2. session' = session
    BY <2>1 DEF WorkStep, worker_only
  <2>3. TokenStep
    BY <2>1 DEF TokenStep
  <2> QED
    BY <2>2, <2>3, SameHolders DEF SameGen
<1>3. CASE EmitSucceeded \/ EmitFailed \/ ShutdownReturns \/ DeclineHostKey \/ DeclineSudo
           \/ DismissError \/ UNCHANGED vars
  <2>1. session' = session /\ UNCHANGED <<jobs, line, step, tokens, events>>
    BY <1>3 DEF EmitSucceeded, EmitFailed, ShutdownReturns, DeclineHostKey, DeclineSudo,
                DismissError, vars
  <2> QED
    BY <1>1, <2>1, QuietTokens, SameHolders DEF SameGen, EventsKeep
<1>4. CASE Calls
  BY <1>4, GiveUpCallTokens, OtherCallTokens DEF Calls
<1> QED
  BY <1>1, <1>2, <1>3, <1>4, SucceededTokens, FailureTokens, AnswerTokens DEF Next, Handlers, Answers

-----------------------------------------------------------------------------
(* What the session, its jobs and its tokens always agree on.               *)

Inv == CoreInv /\ AgreeInv /\ LineInv /\ HeldInv /\ SnapshotOfThisSession

\* The invariant holds before the first call.
LEMMA InvInitially ==
  ASSUME Init
  PROVE  Inv
<1>1. /\ jobs = <<>> /\ line = <<>> /\ events = <<>> /\ tokens = {} /\ step = "waiting"
      /\ session = NewSession(0)
  BY DEF Init
<1>2. JobIds = {} /\ session.attempt = None /\ session.manager = None
  BY <1>1 DEF JobIds, NewSession
<1>3. LineInv
  BY <1>1, <1>2 DEF LineInv, TokensHaveACloser, TokensClosed, OpenWhenMade, OldCloses, LineUnclaimed
<1>4. HeldInv
  BY <1>2 DEF HeldInv, HeldManagers, ResultManagers, OwnAttempt, OwnManager, Connections
<1> QED
  BY <1>3, <1>4, CoreInitially, AgreeInitially, SnapshotInitially DEF Inv

\* Every step keeps the invariant.
LEMMA InvKept ==
  ASSUME Inv, [Next]_vars
  PROVE  Inv'
<1>1. CoreInv /\ AgreeInv /\ LineInv /\ HeldInv /\ SnapshotOfThisSession /\ TypeInv /\ TopicInv /\ BusyInv
  BY DEF Inv, CoreInv, AgreeInv
<1>2. CoreInv'
  BY <1>1, CoreKept
<1>3. AgreeInv'
  BY <1>1, <1>2, AgreeKept
<1>4. TokenStep /\ HoldStep /\ SessionStep
  BY <1>1, <1>3, TokenSteps, SessionSteps
<1>5. LineInv'
  BY <1>1, <1>2, <1>4, LineKept
<1>6. HeldInv'
  BY <1>1, <1>2, <1>4, HeldKept
<1>7. SnapshotOfThisSession'
  BY <1>1, SnapshotKept
<1> QED
  BY <1>2, <1>3, <1>5, <1>6, <1>7 DEF Inv

\* Whatever the user calls and answers and whatever is late, the invariant holds.
THEOREM InvAlways == Spec => []Inv
<1>1. Init => Inv
  BY InvInitially
<1>2. Inv /\ [Next]_vars => Inv'
  BY InvKept
<1> QED
  BY <1>1, <1>2, PTL DEF Spec

\* What the invariant says of the tokens, the live connection and the busy mark.
LEMMA InvForgetsNothing ==
  ASSUME Inv
  PROVE  DialogsForgetNothingElse
<1>2. TypeInv /\ BusyInv /\ LineInv /\ HeldInv
  BY DEF Inv, CoreInv, AgreeInv
<1>3. LiveIsOpen
  <2>1. SUFFICES ASSUME NEW m, m = session.manager, m # None
                 PROVE  /\ jobs[m].socket = "open" /\ m \notin tokens /\ ~jobs[m].claimed
                        /\ jobs[m].generation = session.generation
    BY DEF LiveIsOpen
  <2>2. m \in Connections /\ Held(m) /\ Current(m) /\ jobs[m].socket = "open" /\ ~jobs[m].claimed
    BY <1>2, <2>1, SessionParts DEF HeldInv, OwnManager, Held
  <2> QED
    BY <1>2, <2>2, HeldIsNoToken DEF Current
<1>4. BusyHasItsJob
  <2>1. SUFFICES ASSUME down = "no",
                        NEW mine, mine = {r \in records : Current(r)}
                 PROVE  IF session.busy = None THEN mine = {}
                        ELSE \E r \in mine : /\ mine = {r} /\ jobs[r].op = session.busy
                                             /\ InLine(r) \/ Queued(r, "finished")
    BY DEF BusyHasItsJob
  <2>2. CASE session.busy = None
    BY <1>2, <2>1, <2>2, NoneOnRecord
  <2>3. CASE session.busy # None
    <3>1. PICK r \in records : Current(r) /\ (InLine(r) \/ Queued(r, "finished"))
      BY <1>2, <2>1, <2>3 DEF BusyInv, BusyReason
    <3>2. r \in mine /\ mine = {r}
      BY <1>2, <2>1, <3>1 DEF BusyInv, OneRecord
    <3>3. jobs[r].op = session.busy
      BY <1>2, <3>1 DEF BusyInv, BusyRecords
    <3> QED
      BY <2>3, <3>1, <3>2, <3>3
  <2> QED
    BY <2>2, <2>3
<1> QED
  BY <1>2, <1>3, <1>4 DEF DialogsForgetNothingElse, LineInv

\* Every open token is in the batch of a job in line, the session's connection is its own
\* and open, and a busy session has its one job on record: with or without dialogs.
THEOREM DialogsForgetNothingElseAlways == Spec => []DialogsForgetNothingElse
<1>1. Inv => DialogsForgetNothingElse
  BY InvForgetsNothing
<1> QED
  BY <1>1, InvAlways, PTL

-----------------------------------------------------------------------------
(* The Qt thread without dialogs.                                           *)

\* No outcome of the present session is on its way.
NothingDue == \A j \in JobIds : Mine(j) => ~Unreported(j)

\* The handler remainders that are no dialog; all but one of them only tell.
Remainders == {"rest_of_apply_failure", "emit_failed", "emit_succeeded", "wait_for_done"}
Only(q, S) == \A f : Has(q, f) => f.fn \in S

\* A failed operation was the last of its session when the rest of its failure is handled.
FlatInv ==
    /\ Only(stack, Remainders)
    /\ NothingDue \/ Only(stack, Remainders \ {"rest_of_apply_failure"})

\* Going on with the jobs there are brings no outcome of the session on its way.
LEMMA DueKept ==
  ASSUME TypeInv, JobStep, Continues, NothingDue
  PROVE  NothingDue'
<1>1. SUFFICES ASSUME NEW j \in JobIds', Mine(j)', Unreported(j)' PROVE FALSE
  BY DEF NothingDue
<1>2. j \in JobIds
  BY <1>1 DEF Continues, Mine
<1>3. Mine(j) /\ Unreported(j)
  BY <1>1, <1>2, Growth DEF Continues, Mine, Current
<1> QED
  BY <1>2, <1>3 DEF NothingDue

\* The kinds of frames in two sequences put together.
LEMMA OnlyParts ==
  ASSUME NEW q \in Seq(FrameType), NEW r \in Seq(FrameType), NEW S
  PROVE  /\ Only(q \o r, S) <=> Only(q, S) /\ Only(r, S)
         /\ q # <<>> /\ Only(q, S) => Head(q).fn \in S /\ Only(Tail(q), S)
BY HasConcat, HasTail DEF Only

\* The kinds of frames in a sequence of one.
LEMMA OnlyOne ==
  ASSUME NEW f, NEW S, f.fn \in S
  PROVE  Only(<<f>>, S) /\ Only(<<>>, S)
<1>1. \A x : Has(<<f>>, x) => x = f
  BY DEF Has
<1>2. \A x : ~Has(<<>>, x)
  BY DEF Has
<1> QED
  BY <1>1, <1>2 DEF Only

\* Nothing is handled between a handler's parts.
LEMMA EmptyStack ==
  ASSUME ~NestedDialogs, StackInv, Only(stack, Remainders), Looping
  PROVE  stack = <<>>
<1>1. stack # <<>> => Head(stack).fn \in Remainders
  BY OnlyParts DEF StackInv
<1> QED
  BY <1>1 DEF Looping, Remainders, Dialogs

\* Finishing what is on top leaves what is below.
LEMMA FlatTail ==
  ASSUME StackInv, FlatInv, stack # <<>>, stack' = Tail(stack), NothingDue => NothingDue'
  PROVE  FlatInv'
BY OnlyParts DEF StackInv, FlatInv

\* Without dialogs a failure leaves only its own remainder to do.
LEMMA FlatFailure ==
  ASSUME ~NestedDialogs, NothingDue', NEW j \in Nat, NEW result \in Results,
         NEW rest \in Seq(FrameType), Only(rest, Remainders), ApplyFailure(j, result, rest)
  PROVE  FlatInv'
<1>1. PICK f \in FrameType : f = Frame("rest_of_apply_failure", j, result)
  <2>1. Frame("rest_of_apply_failure", j, result) \in FrameType
    BY DEF Frame, FrameType
  <2> QED
    BY <2>1
<1>2. f \in FrameType /\ f.fn \in Remainders
  BY <1>1 DEF Frame, Remainders
<1>3. PICK m \in Seq(FrameType) : m = <<f>>
  <2>1. <<f>> \in Seq(FrameType)
    BY <1>2
  <2> QED
    BY <2>1
<1>4. stack' = <<>> \o m \o rest
  BY <1>1, <1>3 DEF ApplyFailure, Opens
<1>5. <<>> \o m = m
  BY <1>3
<1>6. Only(m \o rest, Remainders)
  BY <1>2, <1>3, OnlyParts, OnlyOne
<1> QED
  BY <1>4, <1>5, <1>6 DEF FlatInv

\* Without dialogs the handlers keep the stack flat.
LEMMA FlatEvents ==
  ASSUME ~NestedDialogs, CoreInv, BusyInv, FlatInv, OnSucceeded \/ OnFailed \/ OnFinished
  PROVE  FlatInv'
<1>1. TypeInv /\ StackInv /\ JobIds \in SUBSET Nat
  BY TokenTypes DEF CoreInv
<1>2. stack = <<>>
  BY <1>1, EmptyStack DEF OnSucceeded, OnFailed, OnFinished, FlatInv
<1>3. ASSUME NEW q, q = <<>> PROVE \A S : Only(q, S)
  BY <1>3 DEF Only, Has
<1>4. CASE stack' = stack
  BY <1>2, <1>3, <1>4 DEF FlatInv
<1>5. CASE OnSucceeded
  <2>1. PICK j \in JobIds, result \in Results :
          \/ DiscardSucceeded(j)
          \/ MutationSucceeded(j, result)
          \/ stack' = <<Frame("emit_succeeded", j, "ok")>> \o stack
    <3>1. Head(events).job \in JobIds /\ Head(events).result \in Results
      BY <1>1, <1>5, SucceededCases
    <3> QED
      BY <1>5, <3>1 DEF OnSucceeded
  <2>2. CASE DiscardSucceeded(j)
    BY <1>4, <2>2 DEF DiscardSucceeded
  <2>3. ASSUME NEW f, f.fn = "emit_succeeded", stack' = <<f>> PROVE FlatInv'
    BY <2>3, OnlyOne DEF FlatInv, Remainders
  <2>4. CASE stack' = <<Frame("emit_succeeded", j, "ok")>> \o stack
    <3>1. PICK f : f = Frame("emit_succeeded", j, "ok")
      OBVIOUS
    <3>2. stack' = <<f>> /\ f.fn = "emit_succeeded"
      BY <1>2, <2>4, <3>1 DEF Frame
    <3> QED
      BY <2>3, <3>2
  <2>5. CASE MutationSucceeded(j, result)
    <3>1. PICK f : f = Frame("emit_succeeded", j, result)
      OBVIOUS
    <3>2. stack' = <<>> \o <<f>> \o stack /\ f.fn = "emit_succeeded"
      BY <2>5, <3>1 DEF MutationSucceeded, Opens, Frame
    <3>3. stack' = <<f>>
      BY <1>2, <3>2
    <3> QED
      BY <2>3, <3>2, <3>3
  <2> QED
    BY <2>1, <2>2, <2>4, <2>5
<1>6. CASE OnFailed
  <2>1. PICK j : j = Head(events).job
    OBVIOUS
  <2>2. PICK result : result = Head(events).result
    OBVIOUS
  <2>3. /\ events # <<>> /\ Received /\ j \in JobIds /\ result \in Results
        /\ UNCHANGED <<jobs, line>> /\ Head(events).signal = "failed"
        /\ \/ stack' = stack
           \/ /\ Current(j) /\ IsPublic(j)
              /\ ApplyFailure(j, result, <<Frame("emit_failed", j, result)>> \o stack)
    BY <1>1, <1>6, <2>1, <2>2, FailedCases
  <2>4. CASE Current(j) /\ IsPublic(j)
             /\ ApplyFailure(j, result, <<Frame("emit_failed", j, result)>> \o stack)
    <3>1. \A k \in JobIds : Mine(k) => ~Unreported(k)'
      BY <2>1, <2>3, <2>4, OneOutcome DEF Mine, InLine
    <3>2. session'.generation = session.generation /\ session'.present = session.present
      BY <1>1, <2>4, SessionParts DEF ApplyFailure, SessionType
    <3>3. NothingDue'
      BY <2>3, <3>1, <3>2 DEF NothingDue, JobIds, Mine, Current, IsPublic
    <3>4. PICK f \in FrameType : f = Frame("emit_failed", j, result)
      <4>1. j \in Nat
        BY <1>1, <2>3
      <4>2. Frame("emit_failed", j, result) \in FrameType
        BY <2>3, <4>1 DEF Frame, FrameType
      <4> QED
        BY <4>2
    <3>5. f.fn \in Remainders /\ f \in FrameType
      BY <3>4 DEF Frame, Remainders
    <3>6. PICK rest \in Seq(FrameType) : rest = <<f>>
      <4>1. <<f>> \in Seq(FrameType)
        BY <3>5
      <4> QED
        BY <4>1
    <3>7. <<Frame("emit_failed", j, result)>> \o stack = rest
      BY <1>2, <3>4, <3>6
    <3> QED
      BY <1>1, <2>3, <2>4, <3>3, <3>5, <3>6, <3>7, OnlyOne, FlatFailure
  <2> QED
    BY <1>4, <2>3, <2>4
<1>7. CASE OnFinished
  BY <1>4, <1>7 DEF OnFinished
<1> QED
  BY <1>5, <1>6, <1>7

\* Without dialogs the remainders of the handlers keep it flat.
LEMMA FlatRemainders ==
  ASSUME ~NestedDialogs, CoreInv, FlatInv, EmitSucceeded \/ EmitFailed \/ RestOfApplyFailure
  PROVE  FlatInv'
<1>1. TypeInv /\ StackInv /\ session \in SessionType
  BY SessionParts DEF CoreInv
<1>2. CASE EmitSucceeded \/ EmitFailed
  <2>1. stack # <<>> /\ stack' = Tail(stack) /\ UNCHANGED <<session, jobs, line, events>>
    BY <1>2 DEF EmitSucceeded, EmitFailed
  <2>2. NothingDue => NothingDue'
    BY <2>1 DEF NothingDue, JobIds, Mine, Current, IsPublic, Unreported, InLine, Queued
  <2> QED
    BY <1>1, <2>1, <2>2, FlatTail
<1>3. CASE RestOfApplyFailure
  <2>1. /\ UNCHANGED <<pending, records, events, down>>
        /\ \E attempt \in {session.attempt, None},
              snapshot \in {session.snapshot, Staled(session.snapshot)},
              manager \in {session.manager, None}, sudo \in BOOLEAN :
             /\ session' = [session EXCEPT !.attempt = attempt, !.snapshot = snapshot,
                                           !.manager = manager, !.sudo = sudo]
             /\ \/ UNCHANGED <<jobs, line, step>>
                \/ session.manager # None /\ tokens' = tokens \cup {session.manager} /\ SubmitClose(jobs, tokens')
    BY <1>1, <1>3, RestFacts
  <2>2. /\ session'.generation = session.generation /\ session'.present = session.present
        /\ session'.busy = session.busy
    BY <1>1, <2>1 DEF SessionType
  <2>3. \E open \in SUBSET Connections : MayClose(jobs, open)
    <3>1. CASE UNCHANGED <<jobs, line, step>>
      <4>1. MayClose(jobs, {})
        BY <3>1 DEF MayClose
      <4> QED
        BY <4>1
    <3>2. CASE session.manager # None /\ tokens' = tokens \cup {session.manager} /\ SubmitClose(jobs, tokens')
      <4>1. tokens' \in SUBSET Connections
        BY <1>1, <3>2, TokenTypes
      <4> QED
        BY <3>2, <4>1 DEF MayClose
    <3> QED
      BY <2>1, <3>1, <3>2
  <2>4. Continues /\ JobStep
    BY <1>1, <2>1, <2>2, <2>3, HandlersContinue, JobsAreSame DEF EventsKeep
  <2>5. NothingDue => NothingDue'
    BY <1>1, <2>4, DueKept
  <2>6. stack # <<>> /\ stack' = <<>> \o Tail(stack)
    BY <1>3 DEF RestOfApplyFailure, Opens
  <2>7. Tail(stack) \in Seq(FrameType)
    BY <1>1, <2>6, HasTail DEF StackInv
  <2>8. <<>> \o Tail(stack) = Tail(stack)
    BY <2>7
  <2> QED
    BY <1>1, <2>5, <2>6, <2>8, FlatTail
<1> QED
  BY <1>2, <1>3

\* Without dialogs every step keeps it flat.
LEMMA FlatKept ==
  ASSUME ~NestedDialogs, CoreInv, AgreeInv, FlatInv, [Next]_vars
  PROVE  FlatInv'
<1>1. TypeInv /\ TopicInv /\ StackInv /\ BusyInv /\ DecisionInv
  BY DEF CoreInv, AgreeInv
<1>2. ASSUME NEW q, q = <<>> PROVE \A S : Only(q, S)
  BY <1>2 DEF Only, Has
<1>3. CASE stack' = <<>>
  BY <1>2, <1>3 DEF FlatInv
<1>4. CASE stack' = <<[fn |-> "wait_for_done"]>>
  <2>1. PICK f : f = [fn |-> "wait_for_done"]
    OBVIOUS
  <2>2. f.fn \in Remainders /\ f.fn \in Remainders \ {"rest_of_apply_failure"}
    BY <2>1 DEF Remainders
  <2> QED
    BY <1>4, <2>1, <2>2, OnlyOne DEF FlatInv
<1>5. CASE UNCHANGED vars
  BY <1>5 DEF vars, FlatInv, NothingDue, JobIds, Mine, Current, IsPublic, Unreported, InLine, Queued
<1>6. CASE Calls
  <2>1. stack = <<>> /\ stack' \in {stack, <<[fn |-> "wait_for_done"]>>}
    BY <1>6
       DEF Calls, Connect, Disconnect, Reconnect, StartRead, StartMutation, ProvideSudoPassword,
           Select, ReloadChanged, ReloadRemoved, ReloadAdded, Shutdown, Request
  <2> QED
    BY <1>3, <1>4, <2>1
<1>7. CASE Work
  <2>1. Continues /\ JobStep
    BY <1>7, WorkContinues
  <2>2. stack' = stack
    BY <1>1, <1>7, WorkSteps DEF WorkStep, worker_only
  <2> QED
    BY <1>1, <2>1, <2>2, DueKept DEF FlatInv
<1>8. CASE ShutdownReturns
  BY <1>3, <1>8 DEF ShutdownReturns
<1>9. CASE DeclineHostKey \/ ConfirmHostKey \/ DeclineSudo \/ AcceptSudo
  BY <1>3, <1>9 DEF DeclineHostKey, ConfirmHostKey, DeclineSudo, AcceptSudo, CanAnswer, Answered
<1>10. CASE DismissError
  <2>1. stack # <<>> /\ Head(stack).fn = "error"
    BY <1>10 DEF DismissError
  <2> QED
    BY <1>1, <2>1, OnlyParts DEF FlatInv, StackInv, Remainders
<1>11. CASE HostKeyStoreFails
  <2>1. PICK j \in JobIds : /\ CanAnswer("host_key", pending.key)
                            /\ ApplyFailure(j, "store_error", Answered)
    BY <1>1, <1>11, StoreFailsCases
  <2>2. /\ Answered = <<>> /\ "store_error" \in Results /\ j \in Nat
        /\ UNCHANGED <<jobs, line, events>>
        /\ pending.key # None /\ OfSession(pending.key)
    BY <1>1, <1>11, <2>1, TokenTypes DEF CanAnswer, Answered, Results, HostKeyStoreFails, Exact
  <2>3. NothingDue
    BY <1>1, <2>2 DEF DecisionInv, KeyDecision, NothingDue
  <2>4. session'.generation = session.generation /\ session'.present = session.present
    BY <1>1, <2>1, SessionParts DEF ApplyFailure, SessionType
  <2>5. NothingDue'
    BY <2>2, <2>3, <2>4 DEF NothingDue, JobIds, Mine, Current, IsPublic, Unreported, InLine, Queued
  <2>6. <<>> \in Seq(FrameType)
    OBVIOUS
  <2>7. PICK rest \in Seq(FrameType) : rest = <<>>
    BY <2>6
  <2> QED
    BY <1>2, <2>1, <2>2, <2>5, <2>7, FlatFailure
<1>12. CASE OnSucceeded \/ OnFailed \/ OnFinished
  BY <1>1, <1>12, FlatEvents
<1>13. CASE EmitSucceeded \/ EmitFailed \/ RestOfApplyFailure
  BY <1>13, FlatRemainders
<1> QED
  BY <1>5, <1>6, <1>7, <1>8, <1>9, <1>10, <1>11, <1>12, <1>13 DEF Next, Handlers, Answers

-----------------------------------------------------------------------------
(* An open connection is somebody's, without dialogs.                       *)

\* What waits in line has no manager yet.
UnmadeInLine ==
    \A j \in JobIds : InLine(j) /\ jobs[j].socket # "unmade" => j = Head(line) /\ step = "made"

\* The line goes on with one more job, or what is left of it.
LEMMA UnmadeAppended ==
  ASSUME CoreInv, UnmadeInLine, NEW history, SameManagers(history), NEW rest \in Seq(JobIds), NEW n,
         \A j \in JobIds : jobs'[j] = history[j],
         line' \in {rest, Append(rest, n)}, step' = IF rest = <<>> THEN "waiting" ELSE step,
         \A k : Has(rest, k) => InLine(k),
         rest # <<>> => Head(rest) = Head(line),
         \A k \in JobIds' : k \notin JobIds => jobs'[k].socket = "unmade",
         n \notin JobIds
  PROVE  UnmadeInLine'
<1>1. SUFFICES ASSUME NEW j \in JobIds', InLine(j)', jobs'[j].socket # "unmade"
               PROVE  j = Head(line') /\ step' = "made"
  BY DEF UnmadeInLine
<1>2. j \in JobIds /\ jobs[j].socket # "unmade"
  BY <1>1 DEF SameManagers
<1>3. Has(rest, j)
  <2>1. Has(line', j)
    BY <1>1 DEF InLine, Has
  <2>2. CASE line' = rest
    BY <2>1, <2>2
  <2>3. CASE line' = Append(rest, n)
    BY <1>2, <2>1, <2>3, HasAppend
  <2> QED
    BY <2>2, <2>3
<1>4. j = Head(line) /\ step = "made"
  BY <1>2, <1>3 DEF UnmadeInLine
<1>5. rest # <<>>
  BY <1>3 DEF Has
<1>6. Head(line') = Head(rest)
  <2>1. Len(rest) \in Nat \ {0} /\ rest[1] = Head(rest)
    BY <1>5, HasTail
  <2>2. Append(rest, n)[1] = rest[1] /\ Append(rest, n) # <<>> /\ Head(Append(rest, n)) = Append(rest, n)[1]
    BY <2>1
  <2> QED
    BY <2>1, <2>2
<1> QED
  BY <1>4, <1>5, <1>6

\* A step of the pool's thread leaves only the job at the head with a manager made.
LEMMA UnmadeWorked ==
  ASSUME CoreInv, LineInv, HeldInv, UnmadeInLine, NEW j \in JobIds,
         NEW signal \in {"succeeded", "failed"}, NEW result \in Results, WorkStep(j, signal, result)
  PROVE  UnmadeInLine'
<1>1. TypeInv /\ OrderInv /\ line \in Seq(JobIds) /\ JobIds \in SUBSET Nat
  BY TokenTypes DEF CoreInv, TypeInv
<1>2. /\ line # <<>> /\ j = Head(line) /\ InLine(j) /\ line' \in {line, Tail(line)}
      /\ (line' = Tail(line) => step' = "waiting")
  BY <1>1, HeadFacts DEF WorkStep, Ends
<1>3. JobIds' = JobIds /\ \A k : InLine(k)' => InLine(k)
  BY WorkFates
<1>4. line' = Tail(line) => ~InLine(j)'
  <2>1. ~Has(Tail(line), Head(line))
    BY <1>1, <1>2, TailIncreases DEF OrderInv
  <2> QED
    BY <1>2, <2>1 DEF InLine, Has
<1>5. SUFFICES ASSUME NEW k \in JobIds, InLine(k)', jobs'[k].socket # "unmade"
               PROVE  k = Head(line') /\ step' = "made"
  BY <1>3 DEF UnmadeInLine
<1>6. InLine(k)
  BY <1>3, <1>5
<1>7. CASE step = "waiting"
  <2>1. k \notin tokens
    <3>1. CASE IsConnection(k)
      BY <1>1, <1>6, <3>1, HeldIsNoToken DEF Held, Connections, LineInv, LineUnclaimed
    <3>2. CASE ~IsConnection(k)
      BY <1>1, <3>2, TokenTypes DEF Connections
    <3> QED
      BY <3>1, <3>2
  <2>2. jobs'[k] = jobs[k]
    BY <1>1, <1>7, <2>1, DisconnectFacts DEF WorkStep
  <2> QED
    BY <1>5, <1>6, <1>7, <2>2 DEF UnmadeInLine
<1>8. CASE step # "waiting"
  <2>1. CASE k = j
    <3>1. line' = line
      BY <1>2, <1>4, <1>5, <2>1
    <3>2. line' # Tail(line)
      BY <1>1, <1>2, <3>1, HeadFacts
    <3>3. step' \in {"begun", "made"} /\ ~Ends(j, jobs', signal, result)
      BY <3>2 DEF WorkStep, Ends
    <3>4. IsConnection(j) /\ ConnectionStep(j, signal)
      BY <1>8, <3>3 DEF WorkStep
    <3> QED
      BY <1>2, <2>1, <3>1, <3>2, <3>4 DEF ConnectionStep
  <2>2. CASE k # j
    BY <1>2, <1>5, <1>6, <1>8, <2>2 DEF WorkStep, UnmadeInLine
  <2> QED
    BY <2>1, <2>2
<1> QED
  BY <1>7, <1>8

\* Every step does: no other job in the line has its manager.
LEMMA UnmadeKept ==
  ASSUME CoreInv, LineInv, HeldInv, UnmadeInLine, TokenStep
  PROVE  UnmadeInLine'
<1>1. TypeInv /\ line \in Seq(JobIds)
  BY DEF CoreInv, TypeInv
<1>2. \A n \in JobIds' : n \notin JobIds => jobs'[n].socket = "unmade"
  BY Fates DEF NewComer
<1>3. ASSUME NEW history, SameJobs(history), SameManagers(history), jobs' = history, UNCHANGED <<line, step>>
      PROVE  UnmadeInLine'
  <2>1. JobIds' = JobIds
    BY <1>1, <1>3, JobIdsRange DEF SameJobs, JobIds
  <2> QED
    BY <1>3, <2>1 DEF UnmadeInLine, SameManagers, InLine
<1>4. ASSUME NEW history, SameJobs(history), SameManagers(history), NEW job \in JobType,
             Enqueue(job, history, line)
      PROVE  UnmadeInLine'
  <2>1. PICK n : n = NextJob
    OBVIOUS
  <2>2. n \notin JobIds /\ \A j \in JobIds : jobs'[j] = history[j]
    BY <1>1, <1>4, <2>1, SubmitFacts
  <2>3. line' = Append(line, n) /\ step' = IF line = <<>> THEN "waiting" ELSE step
    BY <1>4, <2>1 DEF Enqueue
  <2>4. \A k : Has(line, k) => InLine(k)
    BY DEF Has, InLine
  <2> QED
    BY <1>1, <1>2, <1>4, <2>2, <2>3, <2>4, UnmadeAppended
<1>5. ASSUME NEW history, SameJobs(history), SameManagers(history), NEW job \in JobType,
             NEW submits \in BOOLEAN, Cancels(history, job, submits)
      PROVE  UnmadeInLine'
  <2>1. PICK kept \in Survivors :
          IF submits THEN Enqueue(job, history, kept)
          ELSE /\ jobs' = history /\ line' = kept
               /\ step' = IF kept = <<>> THEN "waiting" ELSE step
    BY <1>5 DEF Cancels
  <2>2. /\ kept \in Seq(JobIds) /\ \A k : Has(kept, k) => InLine(k)
        /\ kept # <<>> => line # <<>> /\ Head(kept) = Head(line)
    BY <1>1, SurvivorFacts
  <2>3. PICK n : n = NextJob
    OBVIOUS
  <2>4. n \notin JobIds /\ \A j \in JobIds : jobs'[j] = history[j]
    BY <1>1, <1>5, <2>3, CancelFacts
  <2>5. line' \in {kept, Append(kept, n)} /\ step' = IF kept = <<>> THEN "waiting" ELSE step
    BY <2>1, <2>3 DEF Enqueue
  <2> QED
    BY <1>1, <1>2, <1>5, <2>2, <2>4, <2>5, UnmadeAppended
<1> QED
  BY <1>3, <1>4, <1>5, UnmadeWorked DEF TokenStep


\* An attempt is given up when it is called off, or when nothing of it is left to come; a
\* manager is given up to its close token; and a new connection is the session's attempt.
PassOn ==
    /\ \A a \in Connections : session.attempt = a =>
         \/ session'.attempt = a /\ (Queued(a, "succeeded") => Queued(a, "succeeded")')
         \/ ~InLine(a)' /\ (Queued(a, "succeeded") => session'.manager = a)
         \/ jobs'[a].invalidated /\ (Claimable(a) => a \in tokens')
    /\ \A m \in Connections : session.manager = m => session'.manager = m \/ m \in tokens'
    /\ \A n \in JobIds' : n \notin JobIds /\ IsConnection(n)' => session'.attempt = n

KeepsSuccess == \A k : Queued(k, "succeeded") => Queued(k, "succeeded")'

\* A queue that loses no success as its head keeps every success.
LEMMA SuccessIsKept ==
  ASSUME TypeInv, EventsKeep, events' # events => Head(events).signal # "succeeded"
  PROVE  KeepsSuccess
<1>1. CASE events' = events
  BY <1>1 DEF KeepsSuccess, Queued
<1>2. CASE events # <<>> /\ Received /\ Head(events).signal # "succeeded"
  BY <1>2, ReceivedFacts DEF KeepsSuccess
<1> QED
  BY <1>1, <1>2 DEF EventsKeep

\* A session that keeps what it has, and the jobs that keep it.
LEMMA PassSame ==
  ASSUME session'.attempt = session.attempt, session'.manager = session.manager, KeepsSuccess,
         \A n \in JobIds' : n \notin JobIds => ~IsConnection(n)'
  PROVE  PassOn
BY DEF PassOn, KeepsSuccess

\* A step that leaves jobs and holders alone passes no manager on.
LEMMA PassQuiet ==
  ASSUME TypeInv, session'.attempt = session.attempt, session'.manager = session.manager,
         jobs' = jobs, EventsKeep, events' # events => Head(events).signal # "succeeded"
  PROVE  PassOn
<1>1. JobIds' = JobIds
  BY DEF JobIds
<1> QED
  BY <1>1, SuccessIsKept, PassSame

\* The session's attempt is one of its jobs.
LEMMA AttemptIsMine ==
  ASSUME TypeInv, HeldInv, NEW a \in Connections, session.attempt = a
  PROVE  a \in JobIds /\ Mine(a) /\ IsConnection(a)
<1>1. a # None /\ a \in JobIds /\ IsConnection(a)
  BY TokenTypes DEF Connections
<1>2. IsPublic(a)
  BY <1>1 DEF IsConnection, ConnectionOps, IsPublic
<1> QED
  BY <1>1, <1>2 DEF HeldInv, OwnAttempt, Mine

\* A connection that is started when nothing of the session is due.
LEMMA PassStart ==
  ASSUME TypeInv, HeldInv, NothingDue, NEW op \in ConnectionOps, NEW generation \in Nat,
         NEW sudo \in BOOLEAN, Enqueue(NewJob(op, generation, sudo, {}, 0), jobs, line),
         session'.attempt = NextJob, session'.manager = session.manager
  PROVE  PassOn
<1>1. op \in JobOps /\ 0 \in Nat
  BY DEF JobOps
<1>2. /\ JobIds' = JobIds \cup {NextJob} /\ NextJob \notin JobIds
      /\ \A j \in JobIds : InLine(j)' <=> InLine(j)
  BY <1>1, NewWork
<1>3. \A a \in Connections : session.attempt = a => ~InLine(a)' /\ ~Queued(a, "succeeded")
  BY <1>2, AttemptIsMine DEF NothingDue, Unreported
<1> QED
  BY <1>2, <1>3 DEF PassOn

\* Giving up calls the attempt off.
LEMMA PassGiveUp ==
  ASSUME TypeInv, NEW op \in {"disconnect", "reconnect", "close"}, NEW next,
         GiveUp(op, next), next.generation \in Nat, next.sudo \in BOOLEAN,
         op = "reconnect" => next.attempt = NextJob
  PROVE  PassOn
<1>1. PICK submits \in BOOLEAN : submits = ~(op = "close" /\ TokensGivenUp = {})
  OBVIOUS
<1>2. PICK job : job = NewJob(op, next.generation, next.sudo, TokensGivenUp, 0)
  OBVIOUS
<1>3. /\ session' = next /\ tokens' = TokensGivenUp
      /\ Cancels(JobsGivenUp, job, submits)
      /\ job \in JobType /\ job.op = op
  BY <1>1, <1>2, GiveUpFacts
<1>4. /\ SameJobs(JobsGivenUp)
      /\ \A j \in JobIds : j = session.attempt => JobsGivenUp[j].invalidated
  BY GivenUpFacts
<1>5. /\ \A j \in JobIds : jobs'[j] = JobsGivenUp[j]
      /\ JobIds' = IF submits THEN JobIds \cup {NextJob} ELSE JobIds
      /\ \A n : submits /\ n = NextJob => jobs'[n] = job
  BY <1>3, <1>4, CancelFacts
<1>6. Connections \subseteq JobIds /\ None \notin JobIds
  BY TokenTypes
<1>7. \A a \in Connections : session.attempt = a => jobs'[a].invalidated /\ (Claimable(a) => a \in tokens')
  BY <1>3, <1>4, <1>5, <1>6 DEF TokensGivenUp
<1>8. \A m \in Connections : session.manager = m => m \in tokens'
  BY <1>3, <1>6 DEF TokensGivenUp
<1>9. ASSUME NEW n \in JobIds', n \notin JobIds, IsConnection(n)' PROVE session'.attempt = n
  <2>1. n = NextJob /\ jobs'[n] = job
    BY <1>5, <1>9
  <2>2. op \in ConnectionOps
    BY <1>3, <1>9, <2>1 DEF IsConnection
  <2>3. op = "reconnect"
    BY <2>2 DEF ConnectionOps
  <2> QED
    BY <1>3, <2>1, <2>3
<1> QED
  BY <1>7, <1>8, <1>9 DEF PassOn

\* The calls that give up the session's work pass its managers to a close.
LEMMA GiveUpCallsPass ==
  ASSUME CoreInv, AgreeInv, Disconnect \/ Reconnect \/ ReloadChanged \/ ReloadRemoved \/ Shutdown
  PROVE  PassOn
<1>1. TypeInv /\ BusyInv /\ session.generation \in Nat
  BY SessionParts DEF CoreInv, AgreeInv
<1>2. ASSUME NEW op \in {"disconnect", "close"}, NEW status \in {"disconnected", "connecting"},
             NEW busy \in {None, "disconnect"} \cup ConnectionOps, NEW next,
             next \in {Detached(status, busy), [Detached(status, busy) EXCEPT !.present = FALSE]},
             GiveUp(op, next)
      PROVE  PassOn
  <2>1. PICK d : d = Detached(status, busy)
    OBVIOUS
  <2>2. d \in SessionType /\ d.generation = session.generation + 1 /\ ~d.sudo
    BY <1>1, <2>1, DetachedFacts
  <2>3. next.generation = session.generation + 1 /\ next.sudo = FALSE
    BY <1>2, <2>1, <2>2 DEF SessionType
  <2>4. next.generation \in Nat
    BY <1>1, <2>3
  <2> QED
    BY <1>1, <1>2, <2>3, <2>4, PassGiveUp
<1>3. CASE Disconnect
  BY <1>2, <1>3 DEF Disconnect
<1>4. CASE ReloadChanged
  BY <1>2, <1>4 DEF ReloadChanged
<1>5. CASE ReloadRemoved
  BY <1>2, <1>5 DEF ReloadRemoved
<1>6. CASE Reconnect
  <2>1. CASE session.status # "disconnected" /\ Idle
    <3>1. PICK d : d = Detached("connecting", "reconnect")
      OBVIOUS
    <3>2. PICK next : next = [d EXCEPT !.attempt = NextJob]
      OBVIOUS
    <3>3. "reconnect" \in ConnectionOps
      BY DEF ConnectionOps
    <3>4. d \in SessionType /\ d.generation = session.generation + 1 /\ ~d.sudo
      BY <1>1, <3>1, <3>3, DetachedFacts
    <3>5. next.generation = session.generation + 1 /\ next.sudo = FALSE /\ next.attempt = NextJob
      BY <3>2, <3>4 DEF SessionType
    <3>6. GiveUp("reconnect", next)
      BY <1>6, <2>1, <3>1, <3>2 DEF Reconnect
    <3>7. next.generation \in Nat
      BY <1>1, <3>5
    <3> QED
      BY <1>1, <3>5, <3>6, <3>7, PassGiveUp
  <2>2. CASE ~(session.status # "disconnected" /\ Idle)
    <3>1. UNCHANGED <<session, jobs, events>>
      BY <1>6, <2>2 DEF Reconnect
    <3> QED
      BY <1>1, <3>1, PassQuiet DEF EventsKeep
  <2> QED
    BY <2>1, <2>2
<1>7. CASE Shutdown
  <2>1. CASE session.present
    BY <1>2, <1>7, <2>1 DEF Shutdown
  <2>2. CASE ~session.present
    <3>1. session'.attempt = session.attempt /\ session'.manager = session.manager
      BY <1>7, <2>2 DEF Shutdown
    <3>2. session.attempt = None /\ session.manager = None
      BY <1>1, <2>2 DEF BusyInv, GoneSession
    <3>3. CASE jobs' = jobs
      BY <3>1, <3>2, <3>3, TokenTypes DEF PassOn, JobIds, CoreInv
    <3>4. CASE \E kept \in Survivors : Enqueue(NewJob("close", session.generation, FALSE, tokens, 0), jobs, kept)
      <4>1. PICK kept \in Survivors : Enqueue(NewJob("close", session.generation, FALSE, tokens, 0), jobs, kept)
        BY <3>4
      <4>2. PICK job : job = NewJob("close", session.generation, FALSE, tokens, 0)
        OBVIOUS
      <4>3. tokens \in SUBSET Nat
        BY <1>1, TokenTypes
      <4>4. job \in JobType /\ job.op = "close"
        BY <1>1, <4>2, <4>3 DEF NewJob, JobType, JobOps
      <4>5. kept \in Seq(JobIds)
        BY <1>1, SurvivorFacts
      <4>6. JobIds' = JobIds \cup {NextJob} /\ jobs'[NextJob] = job
        BY <1>1, <4>1, <4>2, <4>4, <4>5, EnqueueFacts DEF TypeInv
      <4>7. \A n \in JobIds' : n \notin JobIds => ~IsConnection(n)'
        BY <4>4, <4>6 DEF IsConnection, ConnectionOps
      <4>8. \A a \in Connections : a # None
        BY <1>1, TokenTypes
      <4> QED
        BY <3>1, <3>2, <4>7, <4>8 DEF PassOn
    <3> QED
      BY <1>7, <2>2, <3>3, <3>4 DEF Shutdown
  <2> QED
    BY <2>1, <2>2
<1> QED
  BY <1>3, <1>4, <1>5, <1>6, <1>7


\* The other calls pass none on.
LEMMA OtherCallsPass ==
  ASSUME CoreInv, AgreeInv, HeldInv,
         \/ Connect \/ (\E op \in Reads : StartRead(op)) \/ (\E op \in Mutations : StartMutation(op))
         \/ ProvideSudoPassword \/ Select \/ ReloadAdded
  PROVE  PassOn
<1>1. TypeInv /\ BusyInv /\ session \in SessionType /\ session.generation \in Nat /\ session.sudo \in BOOLEAN
      /\ Len(logicals) + 1 \in Nat
  BY SessionParts DEF CoreInv, AgreeInv
<1>2. CASE Connect
  <2>1. CASE UNCHANGED <<session, jobs>>
    BY <1>1, <1>2, <2>1, PassQuiet DEF Connect, EventsKeep
  <2>2. CASE /\ Enqueue(NewJob("connect", session.generation, session.sudo, {}, 0), jobs, line)
             /\ session' = [session EXCEPT !.status = "connecting", !.snapshot = None,
                                           !.busy = "connect", !.attempt = NextJob]
    <3>1. "connect" \in ConnectionOps
      BY DEF ConnectionOps
    <3>2. session'.manager = session.manager /\ session'.attempt = NextJob
      BY <1>1, <2>2 DEF SessionType
    <3>3. NothingDue
      BY <1>1, <1>2, NoneOnRecord DEF Connect, Idle, NothingDue, Open
    <3> QED
      BY <1>1, <2>2, <3>1, <3>2, <3>3, PassStart
  <2> QED
    BY <1>2, <2>1, <2>2 DEF Connect
<1>3. ASSUME NEW op \in Reads \cup Mutations, StartRead(op) \/ StartMutation(op)
      PROVE  PassOn
  <2>1. op \in JobOps /\ op \notin ConnectionOps
    BY DEF JobOps, Reads, Mutations, ConnectionOps
  <2>2. PICK logical \in Nat :
          Enqueue(NewJob(op, session.generation, session.sudo, {}, logical), jobs, line)
    BY <1>1, <1>3 DEF StartRead, StartMutation
  <2>3. session' = [session EXCEPT !.busy = op] /\ events' = events
    BY <1>3 DEF StartRead, StartMutation
  <2>4. session'.manager = session.manager /\ session'.attempt = session.attempt
    BY <1>1, <2>3 DEF SessionType
  <2>5. \A n \in JobIds' : n \notin JobIds => ~IsConnection(n)'
    BY <1>1, <2>1, <2>2, NewWork
  <2>6. KeepsSuccess
    BY <1>1, <2>3, SuccessIsKept DEF EventsKeep
  <2> QED
    BY <2>4, <2>5, <2>6, PassSame
<1>4. CASE ProvideSudoPassword \/ Select
  <2>1. session' \in {session, [session EXCEPT !.sudo = TRUE]} /\ UNCHANGED <<jobs, events>>
    BY <1>4 DEF ProvideSudoPassword, Select
  <2>2. session'.manager = session.manager /\ session'.attempt = session.attempt
    BY <1>1, <2>1 DEF SessionType
  <2> QED
    BY <1>1, <2>1, <2>2, PassQuiet DEF EventsKeep
<1>5. CASE ReloadAdded
  <2>1. session' = NewSession(session.generation + 1) /\ UNCHANGED <<jobs, events>> /\ ~session.present
    BY <1>5 DEF ReloadAdded
  <2>2. session.manager = None /\ session.attempt = None
    BY <1>1, <2>1 DEF BusyInv, GoneSession
  <2>3. session'.attempt = None /\ session'.manager = None
    BY <2>1 DEF NewSession
  <2> QED
    BY <1>1, <2>1, <2>2, <2>3, PassQuiet DEF EventsKeep
<1> QED
  BY <1>2, <1>3, <1>4, <1>5

\* A job that closes what was lost.
LEMMA ClosePasses ==
  ASSUME TypeInv, NEW history, SameJobs(history), NEW open \in SUBSET Connections,
         SubmitClose(history, open)
  PROVE  /\ \A n \in JobIds' : n \notin JobIds => ~IsConnection(n)'
         /\ \A j \in JobIds : jobs'[j] = history[j] /\ (InLine(j)' <=> InLine(j))
<1>1. PICK job : job = NewJob("close", session.generation, FALSE, open, 0)
  OBVIOUS
<1>2. open \in SUBSET Nat
  BY TokenTypes
<1>3. job \in JobType /\ job.op = "close" /\ Enqueue(job, history, line)
  BY <1>1, <1>2, SessionParts DEF NewJob, JobType, JobOps, SubmitClose
<1>4. /\ JobIds' = JobIds \cup {NextJob} /\ NextJob \notin JobIds /\ jobs'[NextJob] = job
      /\ \A j \in JobIds : jobs'[j] = history[j] /\ (InLine(j)' <=> InLine(j))
  BY <1>3, SubmitFacts
<1>5. "close" \notin ConnectionOps
  BY DEF ConnectionOps
<1> QED
  BY <1>3, <1>4, <1>5 DEF IsConnection

\* _on_job_succeeded passes the attempt's manager to the session or to a close.
LEMMA SucceededPasses ==
  ASSUME CoreInv, AgreeInv, HeldInv, OnSucceeded
  PROVE  PassOn
<1>j. PICK j : j = Head(events).job
  OBVIOUS
<1>r. PICK result : result = Head(events).result
  OBVIOUS
<1>1. TypeInv /\ BusyInv /\ PhaseInv /\ session \in SessionType
  BY SessionParts DEF CoreInv, AgreeInv
<1>2. /\ events # <<>> /\ Received /\ j \in JobIds /\ Queued(j, "succeeded")
      /\ Head(events).signal = "succeeded"
      /\ \/ /\ ~(Recorded(j) /\ Current(j) /\ session.busy = jobs[j].op)
            /\ DiscardSucceeded(j)
         \/ /\ jobs[j].op \in Mutations /\ MutationSucceeded(j, result)
         \/ /\ Current(j)
            /\ session' = IF IsConnection(j)
                          THEN [session EXCEPT !.manager = j, !.attempt = None,
                                  !.snapshot = Snapshot(j), !.status = "connected"]
                          ELSE IF jobs[j].op = "refresh"
                          THEN [session EXCEPT !.snapshot = Snapshot(j)]
                          ELSE session
            /\ UNCHANGED <<jobs, tokens, line, step>>
  BY <1>j, <1>r, <1>1, SucceededCases
<1>3. \A k : Queued(k, "succeeded") => Queued(k, "succeeded")' \/ k = j
  BY <1>j, <1>1, <1>2, ReceivedFacts
<1>4. ASSUME session'.attempt = session.attempt,
             session'.manager = session.manager \/ (session.manager # None => session.manager \in tokens'),
             \A n \in JobIds' : n \notin JobIds => ~IsConnection(n)',
             session.attempt # j
      PROVE  PassOn
  <2>1. \A m \in Connections : m # None
    BY <1>1, TokenTypes
  <2> QED
    BY <1>3, <1>4, <2>1 DEF PassOn
<1>5. ASSUME session.attempt = j, j \in Connections
      PROVE  Recorded(j) /\ Current(j) /\ session.busy = jobs[j].op
  <2>1. Mine(j) /\ Open(j) /\ Current(j)
    BY <1>1, <1>2, <1>5, AttemptIsMine DEF Open, Unreported, Mine
  <2>2. j \in records
    BY <1>2, <2>1, <1>1 DEF BusyInv, RecordedWork
  <2> QED
    BY <1>1, <2>1, <2>2 DEF BusyInv, BusyRecords, Recorded
<1>6. session.attempt = j => j \in Connections
  BY <1>1, <1>2, TokenTypes
<1>7. CASE ~(Recorded(j) /\ Current(j) /\ session.busy = jobs[j].op) /\ DiscardSucceeded(j)
  <2>1. session' = session /\ session.attempt # j
    BY <1>1, <1>2, <1>5, <1>6, <1>7, DiscardCases
  <2>2. \A n \in JobIds' : n \notin JobIds => ~IsConnection(n)'
    <3>1. CASE jobs' = jobs
      BY <3>1 DEF JobIds
    <3>2. CASE IsConnection(j) /\ SameJobs(Invalidated(j)) /\ SubmitClose(Invalidated(j), tokens \cup {j})
      <4>1. tokens \cup {j} \in SUBSET Connections
        BY <1>1, <1>2, <3>2, TokenTypes DEF Connections
      <4> QED
        BY <1>1, <3>2, <4>1, ClosePasses
    <3>3. CASE SameJobs(Invalidated(j)) /\ jobs' = Invalidated(j)
      BY <1>1, <3>3, JobIdsRange DEF SameJobs, JobIds
    <3> QED
      BY <1>1, <1>2, <1>7, <3>1, <3>2, <3>3, DiscardCases
  <2> QED
    BY <1>4, <2>1, <2>2
<1>8. CASE jobs[j].op \in Mutations /\ MutationSucceeded(j, result)
  <2> DEFINE lost == result = "refresh_transport" /\ session.manager # None
  <2>1. /\ session'.attempt = session.attempt
        /\ session'.manager = IF lost THEN None ELSE session.manager
        /\ tokens' = tokens \cup {m \in {session.manager} : lost}
        /\ IF lost THEN SubmitClose(jobs, tokens \cup {m \in {session.manager} : lost})
           ELSE UNCHANGED <<jobs, line, step>>
    BY <1>1, <1>8 DEF MutationSucceeded, SessionType
  <2>2. session.attempt # j
    BY <1>1, <1>6, <1>8 DEF Connections, IsConnection, Mutations, ConnectionOps
  <2>3. CASE lost
    <3>1. PICK open : open = tokens'
      OBVIOUS
    <3>2. open = tokens \cup {session.manager} /\ SubmitClose(jobs, open) /\ session.manager # None
      BY <2>1, <2>3, <3>1
    <3>3. open \in SUBSET Connections
      BY <1>1, <3>2, TokenTypes
    <3>4. \A n \in JobIds' : n \notin JobIds => ~IsConnection(n)'
      BY <1>1, <3>2, <3>3, ClosePasses, JobsAreSame
    <3> QED
      BY <1>4, <2>1, <2>2, <3>1, <3>2, <3>4
  <2>4. CASE ~lost
    <3>1. jobs' = jobs /\ session'.manager = session.manager
      BY <2>1, <2>4
    <3>2. JobIds' = JobIds
      BY <3>1 DEF JobIds
    <3> QED
      BY <1>4, <2>1, <2>2, <3>1, <3>2
  <2> QED
    BY <2>3, <2>4
<1>9. CASE Current(j) /\ UNCHANGED <<jobs, tokens, line, step>> /\ IsConnection(j)
           /\ session' = [session EXCEPT !.manager = j, !.attempt = None,
                            !.snapshot = Snapshot(j), !.status = "connected"]
  <2>1. session'.manager = j /\ session'.attempt = None /\ JobIds' = JobIds
    BY <1>1, <1>9 DEF SessionType, JobIds
  <2>2. Mine(j)
    BY <1>9 DEF Mine, IsPublic, IsConnection, ConnectionOps
  <2>3. \A k \in JobIds : InLine(k)' => InLine(k)
    BY <1>9 DEF InLine
  <2>4. \A k \in JobIds : Mine(k) => ~Unreported(k)'
    BY <1>j, <1>1, <1>2, <2>2, <2>3, OneOutcome
  <2>5. session.manager = None
    BY <1>1, <1>2, <1>9 DEF PhaseInv, Unreported
  <2>6. \A m \in Connections : m # None
    BY <1>1, TokenTypes
  <2>7. ASSUME NEW a \in Connections, session.attempt = a
        PROVE  ~InLine(a)' /\ (Queued(a, "succeeded") => session'.manager = a)
    <3>1. a \in JobIds /\ Mine(a)
      BY <1>1, <2>7, AttemptIsMine
    <3>2. ~InLine(a)' /\ ~Queued(a, "succeeded")'
      BY <2>4, <3>1 DEF Unreported
    <3> QED
      BY <1>3, <2>1, <3>2
  <2> QED
    BY <2>1, <2>5, <2>6, <2>7 DEF PassOn
<1>10. CASE ~IsConnection(j) /\ UNCHANGED jobs
            /\ session' \in {session, [session EXCEPT !.snapshot = Snapshot(j)]}
  <2>1. /\ session'.manager = session.manager /\ session'.attempt = session.attempt /\ JobIds' = JobIds
    BY <1>1, <1>10 DEF SessionType, JobIds
  <2>2. session.attempt # j
    BY <1>6, <1>10 DEF Connections
  <2> QED
    BY <1>4, <2>1, <2>2
<1> QED
  BY <1>2, <1>7, <1>8, <1>9, <1>10


\* An attempt is forgotten when its failure is handled, and is over then.
LEMMA FailurePasses ==
  ASSUME CoreInv, HeldInv, FlatInv, OnFailed \/ HostKeyStoreFails \/ RestOfApplyFailure
  PROVE  PassOn
<1>1. TypeInv /\ TopicInv /\ StackInv /\ session \in SessionType
  BY SessionParts DEF CoreInv
<1>2. ASSUME NEW j \in JobIds, IsPublic(j), NEW result \in Results, NEW rest, ApplyFailure(j, result, rest)
      PROVE  session'.attempt = session.attempt /\ session'.manager = session.manager
  <2>1. PICK sudo \in BOOLEAN : \E status \in Statuses : FailedSession(j, result, sudo, status)
    BY <1>1, <1>2, FailureFacts
  <2>2. PICK status \in Statuses : FailedSession(j, result, sudo, status)
    BY <2>1
  <2> QED
    BY <1>1, <2>2, FailedParts
<1>3. CASE OnFailed
  <2>1. /\ events # <<>> /\ Received /\ Head(events).signal = "failed"
        /\ Head(events).job \in JobIds /\ Head(events).result \in Results
        /\ UNCHANGED <<jobs, line, step, tokens>>
        /\ \/ session' = session
           \/ /\ IsPublic(Head(events).job)
              /\ ApplyFailure(Head(events).job, Head(events).result,
                              <<Frame("emit_failed", Head(events).job, Head(events).result)>> \o stack)
    BY <1>1, <1>3, FailedCases
  <2>2. session'.attempt = session.attempt /\ session'.manager = session.manager
    BY <1>2, <2>1
  <2> QED
    BY <1>1, <2>1, <2>2, PassQuiet DEF EventsKeep
<1>4. CASE HostKeyStoreFails
  <2>1. "store_error" \in Results
    BY DEF Results
  <2>2. PICK j \in JobIds : IsPublic(j) /\ ApplyFailure(j, "store_error", Answered)
    BY <1>1, <1>4, StoreFailsCases
  <2>3. UNCHANGED <<jobs, line, step, tokens, events>>
    BY <1>4 DEF HostKeyStoreFails
  <2> QED
    BY <1>1, <1>2, <2>1, <2>2, <2>3, PassQuiet DEF EventsKeep
<1>5. CASE RestOfApplyFailure
  <2>1. /\ stack # <<>> /\ Head(stack).fn = "rest_of_apply_failure"
        /\ \E attempt \in {session.attempt, None},
               snapshot \in {session.snapshot, Staled(session.snapshot)},
               manager \in {session.manager, None}, sudo \in BOOLEAN :
              /\ session' = [session EXCEPT !.attempt = attempt, !.snapshot = snapshot,
                                            !.manager = manager, !.sudo = sudo]
              /\ \/ /\ manager = session.manager /\ UNCHANGED <<jobs, line, step>>
                 \/ /\ session.manager # None /\ manager = None
                    /\ tokens' = tokens \cup {session.manager}
                    /\ SubmitClose(jobs, tokens')
    BY <1>1, <1>5, RestFacts
  <2>2. PICK attempt \in {session.attempt, None}, manager \in {session.manager, None} :
          /\ session'.attempt = attempt /\ session'.manager = manager
          /\ \/ manager = session.manager /\ UNCHANGED <<jobs, line>>
             \/ /\ session.manager # None
                /\ tokens' = tokens \cup {session.manager}
                /\ SubmitClose(jobs, tokens')
    BY <1>1, <2>1 DEF SessionType
  <2>3. NothingDue
    <3>1. Has(stack, Head(stack))
      BY <1>1, <2>1, HasTail DEF StackInv
    <3> QED
      BY <2>1, <3>1 DEF FlatInv, Only
  <2>4. /\ \A n \in JobIds' : n \notin JobIds => ~IsConnection(n)'
        /\ \A j \in JobIds : InLine(j)' <=> InLine(j)
    <3>1. CASE UNCHANGED <<jobs, line>>
      BY <3>1 DEF JobIds, InLine
    <3>2. CASE /\ session.manager # None /\ tokens' = tokens \cup {session.manager}
               /\ SubmitClose(jobs, tokens')
      <4>1. PICK open : open = tokens'
        OBVIOUS
      <4>2. open \in SUBSET Connections /\ SubmitClose(jobs, open)
        BY <1>1, <3>2, <4>1, TokenTypes
      <4> QED
        BY <1>1, <4>2, ClosePasses, JobsAreSame
    <3> QED
      BY <2>2, <3>1, <3>2
  <2>5. \A a \in Connections : session.attempt = a => ~InLine(a)' /\ ~Queued(a, "succeeded")
    BY <1>1, <2>3, <2>4, AttemptIsMine DEF NothingDue, Unreported
  <2> QED
    BY <2>2, <2>4, <2>5 DEF PassOn
<1> QED
  BY <1>3, <1>4, <1>5

\* A retry that starts a connection again does so when nothing is due.
LEMMA RetryPasses ==
  ASSUME TypeInv, HeldInv, PhaseInv', NEW s \in SessionType, NEW p, NEW r, NEW l \in Seq(LogicalType),
         NEW key \in Keys, Retries(s, p, r, l, key),
         EventsKeep, events' # events => Head(events).signal # "succeeded",
         OfSession(key) => NothingDue,
         s.present = session.present, s.generation = session.generation,
         s.manager = session.manager, s.attempt = session.attempt
  PROVE  PassOn
<1>1. /\ key.generation \in Nat /\ key.op \in JobOps /\ session.generation \in Nat
      /\ s.generation + 1 \in Nat /\ s.sudo \in BOOLEAN
  BY SessionParts DEF Keys, JobOps, SessionType
<1>2. CASE NoRetry(s, p, r, l)
  <2>1. session' = s /\ jobs' = jobs
    BY <1>2 DEF NoRetry
  <2> QED
    BY <2>1, PassQuiet
<1>3. CASE /\ s.present /\ s.generation = key.generation
           /\ \E with_sudo \in BOOLEAN : key.op \in ConnectionOps /\ Restart(s, p, r, key, with_sudo)
  <2>1. /\ session' = [s EXCEPT !.generation = @ + 1, !.status = "connecting",
                            !.snapshot = None, !.busy = key.op, !.attempt = NextJob]
        /\ Enqueue(NewJob(key.op, s.generation + 1, s.sudo, {}, 0), jobs, line)
        /\ key.op \in ConnectionOps
    BY <1>3 DEF Restart
  <2>2. session'.attempt = NextJob /\ session'.manager = session.manager
    BY <2>1 DEF SessionType
  <2>3. NothingDue
    BY <1>3 DEF OfSession
  <2> QED
    BY <1>1, <2>1, <2>2, <2>3, PassStart
<1>4. CASE key.op \in Reads \cup Mutations /\ Relaunch(s, p, r, l, key)
  <2>1. PICK i \in Nat : i = OpenLogical(l, key)
    BY LogicalIds
  <2>2. /\ session' = [s EXCEPT !.status = "connected", !.busy = key.op]
        /\ Enqueue(NewJob(key.op, key.generation, s.sudo, {}, i), jobs, line)
    BY <1>4, <2>1 DEF Relaunch
  <2>3. session'.attempt = session.attempt /\ session'.manager = session.manager
    BY <2>2 DEF SessionType
  <2>4. key.op \notin ConnectionOps
    BY <1>4 DEF Reads, Mutations, ConnectionOps
  <2>5. \A n \in JobIds' : n \notin JobIds => ~IsConnection(n)'
    BY <1>1, <2>2, <2>4, NewWork
  <2> QED
    BY <2>3, <2>5, SuccessIsKept, PassSame
<1> QED
  BY <1>2, <1>3, <1>4 DEF Retries

\* Nothing is due when the finish of the session's job is handled.
LEMMA DueAtFinish ==
  ASSUME CoreInv, BusyInv, events # <<>>, Received, Head(events).signal = "finished",
         NEW j, j = Head(events).job, Mine(j)
  PROVE  NothingDue
<1>1. TypeInv /\ OrderInv
  BY DEF CoreInv
<1>2. /\ j \in JobIds /\ ~InLine(j) /\ Queued(j, "finished")
      /\ ~Queued(j, "succeeded")' /\ ~Queued(j, "failed")'
  BY <1>1, HeadGone, ReceivedFacts
<1>3. ~Unreported(j)
  BY <1>1, <1>2, ReceivedFacts DEF Unreported
<1>4. ASSUME NEW k \in JobIds, Mine(k), Unreported(k) PROVE FALSE
  <2>1. j \in records /\ k \in records
    BY <1>2, <1>4 DEF BusyInv, RecordedWork, Open
  <2>2. j = k
    BY <1>4, <2>1 DEF BusyInv, OneRecord, Mine
  <2> QED
    BY <1>3, <1>4, <2>2
<1> QED
  BY <1>4 DEF NothingDue

\* The handler of finished and the answers that retry pass none on.
LEMMA AnswersPass ==
  ASSUME CoreInv, AgreeInv, HeldInv, PhaseInv', OnFinished \/ ConfirmHostKey \/ AcceptSudo
  PROVE  PassOn
<1>1. TypeInv /\ TopicInv /\ session \in SessionType /\ BusyInv /\ DecisionInv
  BY SessionParts DEF CoreInv, AgreeInv
<1>2. CASE OnFinished
  <2> DEFINE j   == Head(events).job
             key == KeyOf(j)
             s   == IF Current(j) /\ session.busy = key.op
                    THEN [session EXCEPT !.busy = None] ELSE session
             r   == {k \in records : KeyOf(k) # key}
  <2>1. PICK p \in DecisionsType, l \in Seq(LogicalType) :
        \/ NoRetry(s, p, r, l)
        \/ /\ key \in Keys
           /\ key \in pending.trusted => key.op \in ConnectionOps
           /\ \/ key \in pending.trusted /\ TrustedRetry(s, p, r, l, key)
              \/ key \in pending.accepted /\ SudoRetry(s, p, r, l, key)
    BY <1>1, <1>2, FinishedCases
  <2>2. /\ s \in SessionType /\ EventsKeep /\ events # <<>> /\ Received /\ j \in JobIds
        /\ Head(events).signal = "finished"
    BY <1>1, <1>2, FinishedCases DEF EventsKeep
  <2>3. /\ s.present = session.present /\ s.generation = session.generation
        /\ s.manager = session.manager /\ s.attempt = session.attempt
    BY <1>1 DEF SessionType
  <2>4. OfSession(key) => NothingDue
    <3>1. PICK i : i = Head(events).job
      OBVIOUS
    <3>2. i \in JobIds /\ IsPublic(i) /\ key.generation = jobs[i].generation
      BY <1>1, <2>2, <3>1, HeadGone DEF CoreInv, KeyOf, Key
    <3>3. OfSession(key) => Mine(i)
      BY <3>2 DEF OfSession, Mine, Current
    <3> QED
      BY <1>1, <2>2, <3>1, <3>3, DueAtFinish
  <2> HIDE DEF s, r, key
  <2>5. CASE NoRetry(s, p, r, l)
    <3>1. session' = s /\ jobs' = jobs
      BY <2>5 DEF NoRetry
    <3> QED
      BY <1>1, <2>2, <2>3, <3>1, PassQuiet
  <2>6. CASE key \in Keys /\ Retries(s, p, r, l, key)
    BY <1>1, <2>2, <2>3, <2>4, <2>6, RetryPasses
  <2> QED
    BY <2>1, <2>5, <2>6, RetryCases
<1>3. CASE ConfirmHostKey \/ AcceptSudo
  <2>1. PICK key \in Keys, s \in SessionType, p \in DecisionsType : Answering(key, s, p)
    BY <1>1, <1>3, AnswerCases
  <2>2. PICK q : Retries(s, q, records, logicals, key)
    <3>1. \/ NoRetry(s, [p EXCEPT !.trusted = @ \cup {key}], records, logicals)
          \/ NoRetry(s, [p EXCEPT !.accepted = @ \cup {key}], records, logicals)
          \/ key.op \in ConnectionOps /\ TrustedRetry(s, p, records, logicals, key)
          \/ SudoRetry(s, p, records, logicals, key)
      BY <2>1 DEF Answering
    <3> QED
      BY <3>1, RetryCases DEF Retries
  <2>3. s = session \/ s = [session EXCEPT !.sudo = TRUE]
    BY <2>1 DEF Answering
  <2>4. /\ s.present = session.present /\ s.generation = session.generation
        /\ s.manager = session.manager /\ s.attempt = session.attempt
    BY <1>1, <2>3 DEF SessionType
  <2>5. EventsKeep /\ events' = events /\ logicals \in Seq(LogicalType)
    BY <1>1, <2>1 DEF Answering, EventsKeep, TypeInv
  <2>6. NothingDue
    <3>1. OfSession(key) /\ (key = pending.key \/ key = pending.sudo) /\ key # None
      BY <2>1, NoneIsNoKey DEF Answering, OfSession
    <3> QED
      BY <1>1, <3>1 DEF DecisionInv, KeyDecision, SudoDecisions, Undecided, NothingDue
  <2> QED
    BY <1>1, <2>2, <2>4, <2>5, <2>6, RetryPasses
<1> QED
  BY <1>2, <1>3

\* So every step passes managers on as PassOn says.
LEMMA PassSteps ==
  ASSUME CoreInv, AgreeInv, AgreeInv', HeldInv, FlatInv, [Next]_vars
  PROVE  PassOn
<1>1. TypeInv /\ TopicInv /\ PhaseInv'
  BY DEF CoreInv, AgreeInv
<1>2. CASE Work
  <2>1. PICK j \in JobIds, signal \in {"succeeded", "failed"}, result \in Results :
          WorkStep(j, signal, result)
    BY <1>1, <1>2, WorkSteps
  <2>2. session' = session /\ line # <<>> /\ j = Head(line) /\ SameJobs(jobs')
        /\ (Ends(j, jobs', signal, result) \/ events' = events)
    BY <2>1 DEF WorkStep, worker_only
  <2>3. KeepsSuccess
    <3>1. CASE Ends(j, jobs', signal, result)
      BY <1>1, <2>2, <3>1, EndsFacts DEF KeepsSuccess
    <3>2. CASE events' = events
      BY <3>2 DEF KeepsSuccess, Queued
    <3> QED
      BY <2>2, <3>1, <3>2
  <2>4. JobIds' = JobIds
    BY <2>1, WorkFates
  <2> QED
    BY <2>2, <2>3, <2>4, PassSame
<1>3. CASE EmitSucceeded \/ EmitFailed \/ ShutdownReturns \/ DeclineHostKey \/ DeclineSudo
           \/ DismissError \/ UNCHANGED vars
  <2>1. session' = session /\ UNCHANGED <<jobs, events>>
    BY <1>3 DEF EmitSucceeded, EmitFailed, ShutdownReturns, DeclineHostKey, DeclineSudo,
                DismissError, vars
  <2> QED
    BY <1>1, <2>1, PassQuiet DEF EventsKeep
<1>4. CASE Calls
  BY <1>4, GiveUpCallsPass, OtherCallsPass DEF Calls
<1> QED
  BY <1>1, <1>2, <1>3, <1>4, SucceededPasses, FailurePasses, AnswersPass DEF Next, Handlers, Answers

\* No attempt is called on again.
LEMMA MarksKept ==
  ASSUME TypeInv, TokenStep, NEW k \in JobIds, jobs[k].invalidated
  PROVE  jobs'[k].invalidated
<1>1. ASSUME NEW history, SameManagers(history), jobs'[k] = history[k]
      PROVE  jobs'[k].invalidated
  BY <1>1 DEF SameManagers
<1>2. ASSUME NEW history, NEW job \in JobType, SameJobs(history), SameManagers(history),
             Enqueue(job, history, line)
      PROVE  jobs'[k].invalidated
  BY <1>1, <1>2, SubmitFacts
<1>3. ASSUME NEW history, NEW job \in JobType, NEW submits \in BOOLEAN,
             SameJobs(history), SameManagers(history), Cancels(history, job, submits)
      PROVE  jobs'[k].invalidated
  BY <1>1, <1>3, CancelFacts
<1>4. ASSUME NEW j \in JobIds, NEW signal \in {"succeeded", "failed"}, NEW result \in Results,
             WorkStep(j, signal, result)
      PROVE  jobs'[k].invalidated
  <2>1. CASE step = "waiting"
    BY <1>4, <2>1, DisconnectFacts DEF WorkStep
  <2>2. CASE step # "waiting"
    BY <1>4, <2>2 DEF WorkStep
  <2> QED
    BY <2>1, <2>2
<1> QED
  BY <1>1, <1>2, <1>3, <1>4 DEF TokenStep

\* An attempt that may still make a manager is the session's, or it is called off.
LEMMA AttemptsKept ==
  ASSUME CoreInv, LineInv, TokenStep, PassOn, AttemptsCanBeCalledOff
  PROVE  AttemptsCanBeCalledOff'
<1>1. SUFFICES ASSUME NEW j \in JobIds', InLine(j)', IsConnection(j)'
               PROVE  session'.attempt = j \/ jobs'[j].invalidated \/ jobs'[j].finished
  BY DEF AttemptsCanBeCalledOff
<1>2. CASE j \notin JobIds
  BY <1>1, <1>2 DEF PassOn
<1>3. CASE j \in JobIds
  <2>1. TypeInv /\ InLine(j) /\ IsConnection(j)
    BY <1>1, <1>3, TokenJobs, Growth DEF CoreInv
  <2>2. jobs[j].invalidated => jobs'[j].invalidated
    BY <1>3, <2>1, MarksKept
  <2>4. ~jobs[j].finished
    BY <1>3, <2>1 DEF LineInv, LineUnclaimed
  <2>3. j \in Connections
    BY <1>3, <2>1 DEF Connections
  <2> QED
    BY <1>1, <1>3, <2>1, <2>2, <2>3, <2>4 DEF AttemptsCanBeCalledOff, PassOn
<1> QED
  BY <1>2, <1>3


\* What holds besides when no dialog is opened inside a handler.
FlatOwners == FlatInv /\ UnmadeInLine /\ AttemptsCanBeCalledOff

\* What holds without dialogs holds before the first call.
LEMMA FlatInitially ==
  ASSUME Init
  PROVE  FlatOwners
<1>1. jobs = <<>> /\ stack = <<>>
  BY DEF Init
<1>2. JobIds = {}
  BY <1>1 DEF JobIds
<1>3. \A S : Only(stack, S)
  BY <1>1 DEF Only, Has
<1> QED
  BY <1>2, <1>3 DEF FlatOwners, FlatInv, NothingDue, UnmadeInLine, AttemptsCanBeCalledOff

\* Without dialogs every step keeps a flat stack and the owners.
LEMMA FlatOwnersKept ==
  ASSUME ~NestedDialogs, Inv, Inv', FlatOwners, [Next]_vars
  PROVE  FlatOwners' /\ TokenStep /\ PassOn
<1>1. CoreInv /\ AgreeInv /\ AgreeInv' /\ LineInv /\ HeldInv
  BY DEF Inv
<1>2. FlatInv'
  BY <1>1, FlatKept DEF FlatOwners
<1>3. TokenStep /\ PassOn
  BY <1>1, TokenSteps, PassSteps DEF FlatOwners
<1> QED
  BY <1>1, <1>2, <1>3, UnmadeKept, AttemptsKept DEF FlatOwners

\* Without dialogs both hold in every reachable state.
LEMMA FlatAlways ==
  ASSUME ~NestedDialogs
  PROVE  Spec => [](Inv /\ FlatOwners)
<1>1. Init => Inv /\ FlatOwners
  BY InvInitially, FlatInitially
<1>2. Inv /\ FlatOwners /\ [Next]_vars => (Inv /\ FlatOwners)'
  BY InvKept, FlatOwnersKept
<1> QED
  BY <1>1, <1>2, PTL DEF Spec

\* Without the window's dialogs the session, its jobs and its tokens agree, whatever the calls,
\* the answers and the late results; and no attempt escapes that may still make a manager.
THEOREM SessionMatchesJobsAlways ==
  ASSUME ~NestedDialogs
  PROVE  Spec => []SessionMatchesJobs
<1>1. Inv /\ FlatOwners => SessionMatchesJobs
  <2>1. SUFFICES ASSUME Inv, FlatOwners PROVE SessionMatchesJobs
    OBVIOUS
  <2> QED
    BY <2>1, InvForgetsNothing DEF SessionMatchesJobs, DialogsForgetNothingElse, Inv, FlatOwners
<1> QED
  BY <1>1, FlatAlways, PTL


-----------------------------------------------------------------------------
(* No open connection is forgotten, and none is left by a clean shutdown.   *)

\* Who answers for the open connection of j.
Owned(j) ==
    /\ IsConnection(j)
    /\ \/ InLine(j)
       \/ session.manager = j
       \/ j \in tokens
       \/ session.attempt = j /\ Queued(j, "succeeded")

OpenInv == \A j \in JobIds : jobs[j].socket = "open" => Owned(j)

\* What a worker opens it keeps, hands on or closes.
LEMMA OpenWorked ==
  ASSUME CoreInv, LineInv, HeldInv, FlatOwners, OpenInv, NEW k \in JobIds,
         NEW signal \in {"succeeded", "failed"}, NEW result \in Results, WorkStep(k, signal, result),
         NEW j \in JobIds, jobs'[j].socket = "open"
  PROVE  Owned(j)'
<1>1. TypeInv /\ session' = session /\ line # <<>> /\ k = Head(line) /\ InLine(k)
      /\ SameJobs(jobs') /\ jobs'[j].op = jobs[j].op
  BY HeadFacts DEF CoreInv, WorkStep, worker_only, SameJobs
<1>2. KeepsSuccess
  <2>1. CASE Ends(k, jobs', signal, result)
    BY <1>1, <2>1, EndsFacts DEF KeepsSuccess
  <2>2. CASE events' = events
    BY <2>2 DEF KeepsSuccess, Queued
  <2> QED
    BY <2>1, <2>2 DEF WorkStep
<1>3. IsConnection(j)' <=> IsConnection(j)
  BY <1>1 DEF IsConnection
<1>4. ASSUME jobs'[j] = jobs[j], ~InLine(j), j \in tokens => j \in tokens'
      PROVE  Owned(j)'
  BY <1>1, <1>2, <1>3, <1>4 DEF OpenInv, Owned, KeepsSuccess
<1>5. CASE step = "waiting"
  <2>1. jobs' = DisconnectAll(jobs[k].closes \cap tokens) /\ tokens' = tokens \ jobs[k].closes
    BY <1>5 DEF WorkStep
  <2>2. jobs'[j] = jobs[j] /\ (j \in tokens => j \in tokens')
    BY <1>1, <2>1, DisconnectFacts
  <2>3. ~InLine(j)
    BY <1>5, <2>2 DEF FlatOwners, UnmadeInLine
  <2> QED
    BY <1>4, <2>2, <2>3
<1>6. CASE step # "waiting" /\ (j # k \/ ~IsConnection(k))
  <2>1. jobs'[j] = jobs[j] /\ tokens' = tokens
    BY <1>6 DEF WorkStep
  <2>2. ~InLine(j)
    <3>1. InLine(j) => j = k
      BY <1>1, <2>1 DEF FlatOwners, UnmadeInLine
    <3>2. IsConnection(j)
      BY <2>1 DEF OpenInv, Owned
    <3> QED
      BY <1>6, <3>1, <3>2
  <2> QED
    BY <1>4, <2>1, <2>2
<1>7. CASE step # "waiting" /\ j = k /\ IsConnection(k)
  <2>1. ConnectionStep(j, signal)
    BY <1>7 DEF WorkStep
  <2>2. ~jobs[j].claimed /\ ~jobs[j].finished
    BY <1>1, <1>7 DEF LineInv, LineUnclaimed
  <2>3. CASE line' = line
    BY <1>1, <1>3, <1>7, <2>3 DEF Owned, InLine
  <2>4. CASE line' # line
    <3>1. Ends(j, jobs', signal, result)
      BY <1>7, <2>4 DEF WorkStep
    <3>2. signal = "succeeded"
      <4>1. SUFFICES ASSUME signal = "failed" PROVE FALSE
        OBVIOUS
      <4>2. step = "made" => jobs[j].socket = "open"
        BY <1>1, <1>7 DEF LineInv, OpenWhenMade
      <4>3. jobs[j].socket = "open" => step = "made"
        BY <1>1, <1>7 DEF FlatOwners, UnmadeInLine
      <4> QED
        BY <2>1, <2>2, <2>4, <4>1, <4>2, <4>3 DEF ConnectionStep
    <3>3. session.attempt = j
      BY <1>1, <1>7, <2>1, <2>2, <2>4, <3>2 DEF ConnectionStep, FlatOwners, AttemptsCanBeCalledOff
    <3>4. Queued(j, "succeeded")'
      <4>1. IsPublic(j)
        BY <1>7 DEF IsPublic, IsConnection, ConnectionOps
      <4> QED
        BY <1>1, <1>7, <3>1, <3>2, <4>1, EndsFacts
    <3> QED
      BY <1>1, <1>3, <1>7, <3>3, <3>4 DEF Owned
  <2> QED
    BY <2>3, <2>4
<1> QED
  BY <1>5, <1>6, <1>7

\* Whoever had it, if no worker moves, has it or passes it on.
LEMMA OpenPassed ==
  ASSUME CoreInv, HeldInv, OpenInv, PassOn, NEW j \in JobIds, jobs[j].socket = "open",
         IsConnection(j)' <=> IsConnection(j),
         InLine(j) => InLine(j)', j \in tokens => j \in tokens'
  PROVE  Owned(j)'
<1>1. Owned(j)
  BY DEF OpenInv
<1>2. j \in Connections
  BY <1>1 DEF Owned, Connections
<1>3. CASE session.attempt = j /\ Queued(j, "succeeded")
  <2>1. j # None
    BY <1>2, TokenTypes DEF CoreInv
  <2>2. Claimable(j)
    BY <1>2, <1>3, <2>1 DEF Claimable, HeldInv, ResultManagers, OwnAttempt
  <2> QED
    BY <1>1, <1>2, <1>3, <2>2 DEF PassOn, Owned
<1>4. CASE session.manager = j
  BY <1>1, <1>2, <1>4 DEF PassOn, Owned
<1> QED
  BY <1>1, <1>3, <1>4 DEF Owned

\* Without dialogs every step keeps each open manager with an owner.
LEMMA OpenKept ==
  ASSUME CoreInv, LineInv, HeldInv, FlatOwners, OpenInv, TokenStep, PassOn
  PROVE  OpenInv'
<1>1. TypeInv
  BY DEF CoreInv
<1>2. SUFFICES ASSUME NEW j \in JobIds', jobs'[j].socket = "open" PROVE Owned(j)'
  BY DEF OpenInv
<1>3. j \in JobIds
  BY <1>2, Fates DEF NewComer
<1>4. IsConnection(j)' <=> IsConnection(j)
  BY <1>1, <1>3, TokenJobs, Growth
<1>5. ASSUME NEW history, SameJobs(history), SameManagers(history),
             jobs' = history, UNCHANGED <<line, step, tokens>>
      PROVE  Owned(j)'
  <2>1. jobs[j].socket = "open" /\ (InLine(j) => InLine(j)') /\ tokens' = tokens
    BY <1>2, <1>3, <1>5 DEF SameManagers, InLine
  <2> QED
    BY <1>3, <1>4, <2>1, OpenPassed
<1>6. ASSUME NEW history, NEW job \in JobType, SameJobs(history), SameManagers(history),
             Enqueue(job, history, line), tokens' = tokens \/ Closes(job)
      PROVE  Owned(j)'
  <2>1. jobs[j].socket = "open" /\ (InLine(j) => InLine(j)')
    BY <1>1, <1>2, <1>3, <1>6, SubmitFacts DEF SameManagers
  <2>2. j \in tokens => j \in tokens'
    BY <1>6 DEF Closes
  <2> QED
    BY <1>3, <1>4, <2>1, <2>2, OpenPassed
<1>7. ASSUME NEW history, NEW job \in JobType, NEW submits \in BOOLEAN,
             SameJobs(history), SameManagers(history), Cancels(history, job, submits),
             IF submits THEN Closes(job) ELSE tokens = {} /\ tokens' = {}
      PROVE  Owned(j)'
  <2>1. jobs[j].socket = "open"
    BY <1>1, <1>2, <1>3, <1>7, CancelFacts DEF SameManagers
  <2>2. j \in tokens => j \in tokens'
    BY <1>7 DEF Closes
  <2>3. InLine(j) => InLine(j)'
    <3>1. SUFFICES ASSUME InLine(j) PROVE InLine(j)'
      OBVIOUS
    <3>2. j = Head(line) /\ step = "made"
      BY <1>3, <2>1, <3>1 DEF FlatOwners, UnmadeInLine
    <3>3. PICK kept \in Survivors :
            IF submits THEN Enqueue(job, history, kept) ELSE line' = kept
      BY <1>7 DEF Cancels
    <3>4. /\ kept \in Seq(JobIds) /\ (kept = <<>> => line = <<>> \/ step = "waiting")
          /\ kept # <<>> => Head(kept) = Head(line)
      BY <1>1, SurvivorFacts
    <3>5. line # <<>>
      BY <3>1 DEF InLine
    <3>6. Has(kept, j)
      BY <3>2, <3>4, <3>5, HasTail
    <3>7. CASE submits
      BY <1>1, <1>7, <3>3, <3>4, <3>6, <3>7, EnqueueFacts DEF SameJobs
    <3>8. CASE ~submits
      BY <3>3, <3>6, <3>8 DEF InLine, Has
    <3> QED
      BY <3>7, <3>8
  <2> QED
    BY <1>3, <1>4, <2>1, <2>2, <2>3, OpenPassed
<1> QED
  BY <1>2, <1>3, <1>5, <1>6, <1>7, OpenWorked DEF TokenStep


\* After a clean shutdown nothing waits, nothing is to close and nothing is on record.
CleanInv == down = "clean" => line = <<>> /\ tokens = {} /\ records = {}

\* Without dialogs every step keeps a clean shutdown clean.
LEMMA CleanKept ==
  ASSUME ~NestedDialogs, CoreInv, AgreeInv, FlatInv, CleanInv, [Next]_vars
  PROVE  CleanInv'
<1>1. TypeInv /\ TopicInv /\ StackInv /\ BusyInv /\ DecisionInv
  BY DEF CoreInv, AgreeInv
<1>2. ASSUME down' = down, down = "clean" =>
               line' = line /\ tokens' = tokens /\ records' \in SUBSET records
      PROVE  CleanInv'
  BY <1>2 DEF CleanInv
<1>3. ASSUME down = "clean"
      PROVE  session.manager = None /\ session.status = "disconnected" /\ line = <<>> /\ records = {}
  BY <1>1, <1>3 DEF BusyInv, GoneSession, CleanInv
<1>4. CASE Calls
  <2>1. down' \in {down, "draining"} /\ down = "no"
    BY <1>4 DEF Calls, Connect, Disconnect, Reconnect, StartRead, StartMutation, ProvideSudoPassword,
                Select, ReloadChanged, ReloadRemoved, ReloadAdded, Shutdown, Request
  <2> QED
    BY <2>1 DEF CleanInv
<1>5. CASE Work
  <2>1. line # <<>> /\ down' = down
    BY <1>1, <1>5, WorkSteps DEF WorkStep, worker_only
  <2> QED
    BY <1>3, <2>1 DEF CleanInv
<1>6. CASE ShutdownReturns
  BY <1>6 DEF ShutdownReturns, Clean, CleanInv
<1>7. CASE OnSucceeded
  <2>1. down' = down /\ records' = records
    BY <1>7 DEF OnSucceeded
  <2>2. ASSUME down = "clean" PROVE line' = line /\ tokens' = tokens
    <3>1. \A j : ~Recorded(j)
      BY <1>3, <2>2 DEF Recorded
    <3>2. PICK j : DiscardSucceeded(j)
      BY <1>1, <1>7, <3>1, SucceededCases
    <3> QED
      BY <3>1, <3>2 DEF DiscardSucceeded
  <2> QED
    BY <1>2, <2>1, <2>2
<1>8. CASE OnFailed
  BY <1>1, <1>2, <1>8, FailedCases
<1>9. CASE RestOfApplyFailure
  <2>1. UNCHANGED <<records, down>> /\ (session.manager = None => tokens' = tokens /\ line' = line)
    BY <1>1, <1>9, RestFacts
  <2> QED
    BY <1>2, <1>3, <2>1
<1>10. CASE OnFinished
  <2>1. PICK j : j = Head(events).job
    OBVIOUS
  <2>2. PICK key : key = KeyOf(j)
    OBVIOUS
  <2>3. PICK s : s = IF Current(j) /\ session.busy = key.op
                     THEN [session EXCEPT !.busy = None] ELSE session
    OBVIOUS
  <2>4. PICK r : r = {k \in records : KeyOf(k) # key}
    OBVIOUS
  <2>5. /\ UNCHANGED <<tokens, down>>
        /\ \E p \in DecisionsType, l \in Seq(LogicalType) :
             \/ NoRetry(s, p, r, l)
             \/ key \in pending.trusted /\ TrustedRetry(s, p, r, l, key)
             \/ key \in Keys /\ key \in pending.accepted /\ SudoRetry(s, p, r, l, key)
    BY <1>1, <1>10, <2>1, <2>2, <2>3, <2>4, FinishedCases
  <2>6. /\ s.status = session.status /\ s.present = session.present
        /\ s.generation = session.generation
    BY <1>1, <2>3, SessionParts DEF SessionType
  <2>7. ASSUME down = "clean" PROVE line' = line /\ records' = r
    <3>1. PICK p \in DecisionsType, l \in Seq(LogicalType) :
             \/ NoRetry(s, p, r, l)
             \/ key \in pending.trusted /\ TrustedRetry(s, p, r, l, key)
             \/ key \in Keys /\ key \in pending.accepted /\ SudoRetry(s, p, r, l, key)
      BY <2>5
    <3>2. CASE NoRetry(s, p, r, l)
      BY <3>2 DEF NoRetry
    <3>3. CASE TrustedRetry(s, p, r, l, key)
      <4>1. ~TrustedRetryAllowed(s, key)
        BY <1>3, <2>6, <2>7 DEF TrustedRetryAllowed
      <4> QED
        BY <3>3, <4>1 DEF TrustedRetry, NoRetry
    <3>4. CASE key \in Keys /\ key \in pending.accepted /\ SudoRetry(s, p, r, l, key)
      <4>1. ~OfSession(key)
        BY <1>1, <2>7, <3>4, NoneIsNoKey DEF DecisionInv, SudoDecisions, Undecided
      <4>2. ~SudoRetryAllowed(s, l, key)
        BY <2>6, <4>1 DEF SudoRetryAllowed, OfSession
      <4> QED
        BY <3>4, <4>2 DEF SudoRetry, NoRetry
    <3> QED
      BY <3>1, <3>2, <3>3, <3>4
  <2> QED
    BY <1>2, <2>4, <2>5, <2>7
<1>11. CASE EmitSucceeded \/ EmitFailed \/ DismissError \/ UNCHANGED vars
  BY <1>2, <1>11 DEF EmitSucceeded, EmitFailed, DismissError, vars
<1>12. CASE DeclineHostKey \/ ConfirmHostKey \/ HostKeyStoreFails \/ DeclineSudo \/ AcceptSudo
  <2>1. down = "no" /\ down' = down
    BY <1>12 DEF DeclineHostKey, ConfirmHostKey, HostKeyStoreFails, DeclineSudo, AcceptSudo, CanAnswer
  <2> QED
    BY <2>1 DEF CleanInv
<1> QED
  BY <1>4, <1>5, <1>6, <1>7, <1>8, <1>9, <1>10, <1>11, <1>12 DEF Next, Handlers, Answers

\* All that holds without dialogs.
FlatAll == Inv /\ FlatOwners /\ OpenInv /\ CleanInv

\* All that holds without dialogs holds before the first call.
LEMMA FlatAllInitially ==
  ASSUME Init
  PROVE  FlatAll
<1>1. jobs = <<>> /\ down = "no"
  BY DEF Init
<1>2. JobIds = {}
  BY <1>1 DEF JobIds
<1> QED
  BY <1>1, <1>2, InvInitially, FlatInitially DEF FlatAll, OpenInv, CleanInv

\* Without dialogs every step keeps all of it.
LEMMA FlatAllKept ==
  ASSUME ~NestedDialogs, FlatAll, [Next]_vars
  PROVE  FlatAll' /\ TokenStep /\ PassOn
<1>1. Inv /\ FlatOwners /\ OpenInv /\ CleanInv /\ CoreInv /\ AgreeInv /\ LineInv /\ HeldInv /\ FlatInv
  BY DEF FlatAll, Inv, FlatOwners
<1>2. Inv'
  BY <1>1, InvKept
<1>3. FlatOwners' /\ TokenStep /\ PassOn
  BY <1>1, <1>2, FlatOwnersKept
<1>4. OpenInv'
  BY <1>1, <1>3, OpenKept
<1>5. CleanInv'
  BY <1>1, CleanKept
<1> QED
  BY <1>2, <1>3, <1>4, <1>5 DEF FlatAll

\* Without dialogs all of it holds in every reachable state.
LEMMA FlatAllAlways ==
  ASSUME ~NestedDialogs
  PROVE  Spec => []FlatAll
<1>1. Init => FlatAll
  BY FlatAllInitially
<1>2. FlatAll /\ [Next]_vars => FlatAll'
  BY FlatAllKept
<1> QED
  BY <1>1, <1>2, PTL DEF Spec

\* Without the window's dialogs, shutdown() returns True only when every connection the
\* program ever opened is closed.
THEOREM ShutdownClosesAllAlways ==
  ASSUME ~NestedDialogs
  PROVE  Spec => []ShutdownClosesAll
<1>1. FlatAll => ShutdownClosesAll
  <2>1. SUFFICES ASSUME FlatAll, down = "clean", NEW j \in JobIds, jobs[j].socket = "open"
                 PROVE  FALSE
    BY DEF ShutdownClosesAll
  <2>2. TypeInv /\ BusyInv /\ line = <<>> /\ tokens = {} /\ Owned(j)
    BY <2>1 DEF FlatAll, Inv, CoreInv, AgreeInv, CleanInv, OpenInv
  <2>3. session.manager = None /\ session.attempt = None
    BY <2>1, <2>2 DEF BusyInv, GoneSession
  <2>4. ~InLine(j)
    BY <2>2 DEF InLine
  <2>5. j # None
    BY <2>1, <2>2, TokenTypes
  <2> QED
    BY <2>2, <2>3, <2>4, <2>5 DEF Owned
<1> QED
  BY <1>1, FlatAllAlways, PTL


-----------------------------------------------------------------------------
(* A connection is closed once.                                             *)

\* What is to be closed is open, and nothing is closed a second time.
TokensOpen == \A j \in tokens : jobs[j].socket = "open"
ClosedOnce == \A j \in JobIds : jobs[j].socket # "twice"

\* The pool's thread closes a manager once.
LEMMA OnceWorked ==
  ASSUME CoreInv, LineInv, HeldInv, TokensOpen, ClosedOnce, NEW k \in JobIds,
         NEW signal \in {"succeeded", "failed"}, NEW result \in Results, WorkStep(k, signal, result)
  PROVE  TokensOpen' /\ ClosedOnce'
<1>1. TypeInv /\ line # <<>> /\ k = Head(line) /\ InLine(k) /\ JobIds' = JobIds /\ tokens \subseteq JobIds
  BY HeadFacts, TokenTypes, WorkFates DEF CoreInv, WorkStep
<1>2. CASE step = "waiting"
  <2>1. PICK batch : batch = jobs[k].closes \cap tokens
    OBVIOUS
  <2>2. jobs' = DisconnectAll(batch) /\ tokens' = tokens \ jobs[k].closes
    BY <1>2, <2>1 DEF WorkStep
  <2>3. \A j \in JobIds : /\ j \notin batch => jobs'[j] = jobs[j]
                          /\ j \in batch => jobs'[j].socket = "closed"
    BY <1>1, <2>1, <2>2, DisconnectFacts DEF TokensOpen
  <2>4. \A j \in tokens' : j \in tokens /\ j \notin batch
    BY <2>1, <2>2
  <2>5. TokensOpen'
    BY <1>1, <2>3, <2>4 DEF TokensOpen
  <2>6. ASSUME NEW j \in JobIds PROVE jobs'[j].socket # "twice"
    <3>1. CASE j \in batch
      BY <2>3, <3>1
    <3>2. CASE j \notin batch
      BY <2>3, <3>2 DEF ClosedOnce
    <3> QED
      BY <3>1, <3>2
  <2>7. ClosedOnce'
    BY <1>1, <2>6 DEF ClosedOnce
  <2> QED
    BY <2>5, <2>7
<1>3. CASE step # "waiting"
  <2>1. tokens' = tokens /\ \A j \in JobIds : j # k => jobs'[j] = jobs[j]
    BY <1>3 DEF WorkStep
  <2>2. CASE ~IsConnection(k)
    <3>1. jobs' = jobs
      BY <1>3, <2>2 DEF WorkStep
    <3> QED
      BY <1>1, <2>1, <3>1 DEF TokensOpen, ClosedOnce
  <2>3. CASE IsConnection(k)
    <3>1. ConnectionStep(k, signal)
      BY <1>3, <2>3 DEF WorkStep
    <3>2. ~jobs[k].claimed /\ (step = "made" => jobs[k].socket = "open")
      BY <1>1 DEF LineInv, LineUnclaimed, OpenWhenMade
    <3>3. k \notin tokens
      BY <1>1, <2>3, <3>2, HeldIsNoToken DEF Held, Connections
    <3>4. jobs'[k].socket \in {"open", "closed", jobs[k].socket}
      BY <3>1, <3>2 DEF ConnectionStep
    <3> QED
      BY <1>1, <2>1, <3>3, <3>4 DEF TokensOpen, ClosedOnce
  <2> QED
    BY <2>2, <2>3
<1> QED
  BY <1>2, <1>3

\* So do all steps: the thread's are the only ones that touch a socket.
LEMMA OnceKept ==
  ASSUME CoreInv, LineInv, HeldInv, TokensOpen, ClosedOnce, TokenStep
  PROVE  TokensOpen' /\ ClosedOnce'
<1>1. TypeInv /\ tokens \subseteq JobIds
  BY TokenTypes DEF CoreInv
<1>2. ASSUME \A j \in JobIds : jobs'[j].socket = jobs[j].socket,
             tokens' \subseteq tokens \/ \E job : Closes(job)
      PROVE  TokensOpen' /\ ClosedOnce'
  <2>1. ClosedOnce'
    <3>1. ASSUME NEW n \in JobIds', n \notin JobIds PROVE jobs'[n].socket # "twice"
      BY <3>1, Fates DEF NewComer
    <3> QED
      BY <1>2, <3>1 DEF ClosedOnce
  <2>2. ASSUME NEW j \in tokens' PROVE jobs'[j].socket = "open"
    <3>1. CASE j \in tokens
      BY <1>1, <1>2, <3>1 DEF TokensOpen
    <3>2. CASE j \notin tokens
      <4>1. j \in Connections /\ ~jobs[j].claimed /\ Held(j) /\ jobs[j].socket # "unmade"
        BY <1>2, <2>2, <3>2 DEF Closes
      <4>2. jobs[j].socket = "open"
        BY <4>1 DEF HeldInv, HeldManagers
      <4> QED
        BY <1>2, <4>1, <4>2 DEF Connections
    <3> QED
      BY <3>1, <3>2
  <2> QED
    BY <2>1, <2>2 DEF TokensOpen
<1>3. ASSUME NEW history, SameManagers(history), jobs' = history, UNCHANGED tokens
      PROVE  TokensOpen' /\ ClosedOnce'
  BY <1>2, <1>3 DEF SameManagers
<1>4. ASSUME NEW history, NEW job \in JobType, SameJobs(history), SameManagers(history),
             Enqueue(job, history, line), tokens' = tokens \/ Closes(job)
      PROVE  TokensOpen' /\ ClosedOnce'
  <2>1. \A j \in JobIds : jobs'[j].socket = jobs[j].socket
    BY <1>1, <1>4, SubmitFacts DEF SameManagers
  <2> QED
    BY <1>2, <1>4, <2>1
<1>5. ASSUME NEW history, NEW job \in JobType, NEW submits \in BOOLEAN,
             SameJobs(history), SameManagers(history), Cancels(history, job, submits),
             IF submits THEN Closes(job) ELSE tokens = {} /\ tokens' = {}
      PROVE  TokensOpen' /\ ClosedOnce'
  <2>1. \A j \in JobIds : jobs'[j].socket = jobs[j].socket
    BY <1>1, <1>5, CancelFacts DEF SameManagers
  <2> QED
    BY <1>2, <1>5, <2>1
<1> QED
  BY <1>3, <1>4, <1>5, OnceWorked DEF TokenStep

\* Every step keeps open tokens open and sockets closed once.
LEMMA OnceSteps ==
  ASSUME Inv, TokensOpen, ClosedOnce, [Next]_vars
  PROVE  TokensOpen' /\ ClosedOnce'
<1>1. CoreInv /\ AgreeInv /\ AgreeInv' /\ LineInv /\ HeldInv
  BY InvKept DEF Inv
<1> QED
  BY <1>1, TokenSteps, OnceKept

\* With or without dialogs, no connection is closed twice, and what a close token names
\* is open until its closer has it.
THEOREM ClosedOnceAlways == Spec => [](TokensOpen /\ ClosedOnce)
<1>1. Init => Inv /\ TokensOpen /\ ClosedOnce
  BY InvInitially DEF Init, TokensOpen, ClosedOnce, JobIds
<1>2. Inv /\ TokensOpen /\ ClosedOnce /\ [Next]_vars => (Inv /\ TokensOpen /\ ClosedOnce)'
  BY InvKept, OnceSteps
<1> QED
  BY <1>1, <1>2, PTL DEF Spec


-----------------------------------------------------------------------------
(* The session implements the promise about its managers.                   *)

\* Who is responsible for the manager of j.
Whose(j) ==
    IF jobs[j].socket # "open" THEN jobs[j].socket
    ELSE IF session.manager = j THEN "session"
    ELSE IF j \in tokens THEN "closer"
    ELSE IF InLine(j) THEN "worker"
    ELSE "result"

\* At most one holds it, and what is undelivered is the success of the session's attempt.
OwnersInv ==
    \A j \in Connections :
      /\ jobs[j].socket \in {"unmade", "open", "closed"}
      /\ session.manager = j \/ j \in tokens => jobs[j].socket = "open"
      /\ session.manager = j => j \notin tokens /\ ~InLine(j) /\ ~jobs[j].claimed
      /\ InLine(j) => j \notin tokens /\ ~jobs[j].claimed /\ ~jobs[j].finished
      /\ InLine(j) => ~Queued(j, "succeeded")
      /\ InLine(j) /\ jobs[j].socket = "open" => j = Head(line) /\ step = "made"
      /\ Whose(j) = "result" => /\ session.attempt = j /\ Queued(j, "succeeded")
                                /\ Current(j) /\ ~jobs[j].claimed

\* Without dialogs a manager has one owner at most.
LEMMA OneOwner ==
  ASSUME FlatAll, TokensOpen, ClosedOnce
  PROVE  OwnersInv
<1>1. /\ TypeInv /\ LineUnclaimed /\ LineInv /\ HeldInv /\ UnmadeInLine
      /\ tokens \subseteq JobIds /\ Connections \subseteq JobIds /\ None \notin JobIds
  BY TokenTypes DEF FlatAll, Inv, CoreInv, LineInv, FlatOwners
<1>2. ASSUME NEW j \in Connections
      PROVE  /\ jobs[j].socket \in {"unmade", "open", "closed"}
             /\ session.manager = j \/ j \in tokens => jobs[j].socket = "open"
             /\ session.manager = j => j \notin tokens /\ ~InLine(j) /\ ~jobs[j].claimed
             /\ InLine(j) => j \notin tokens /\ ~jobs[j].claimed /\ ~jobs[j].finished
             /\ InLine(j) => ~Queued(j, "succeeded")
             /\ InLine(j) /\ jobs[j].socket = "open" => j = Head(line) /\ step = "made"
             /\ Whose(j) = "result" => /\ session.attempt = j /\ Queued(j, "succeeded")
                                       /\ Current(j) /\ ~jobs[j].claimed
  <2>1. j \in JobIds /\ j # None
    BY <1>1, <1>2
  <2>2. jobs[j].socket \in {"unmade", "open", "closed"}
    <3>1. jobs[j] \in JobType
      BY <1>1, <2>1, ElementOfSeq, JobIdsRange DEF TypeInv
    <3>2. jobs[j].socket # "twice"
      BY <2>1 DEF ClosedOnce
    <3> QED
      BY <3>1, <3>2 DEF JobType
  <2>3. ~jobs[j].claimed /\ Held(j) => j \notin tokens
    BY <1>1, <1>2, HeldIsNoToken
  <2>4. session.manager = j => jobs[j].socket = "open" /\ ~jobs[j].claimed /\ ~InLine(j)
    BY <1>1, <2>1 DEF HeldInv, OwnManager
  <2>5. session.manager = j => j \notin tokens
    BY <2>3, <2>4 DEF Held
  <2>6. j \in tokens => jobs[j].socket = "open"
    BY DEF TokensOpen
  <2>7. InLine(j) => ~jobs[j].claimed /\ ~jobs[j].finished
    BY <1>1, <2>1 DEF LineUnclaimed
  <2>8. InLine(j) => j \notin tokens
    BY <2>3, <2>7 DEF Held
  <2>9. InLine(j) => ~Queued(j, "succeeded")
    BY <1>1, <2>7 DEF HeldInv, ResultManagers
  <2>10. InLine(j) /\ jobs[j].socket = "open" => j = Head(line) /\ step = "made"
    BY <1>1, <2>1 DEF UnmadeInLine
  <2>11. ASSUME Whose(j) = "result"
         PROVE  session.attempt = j /\ Queued(j, "succeeded") /\ Current(j) /\ ~jobs[j].claimed
    <3>1. jobs[j].socket = "open" /\ session.manager # j /\ j \notin tokens /\ ~InLine(j)
      BY <2>2, <2>11 DEF Whose
    <3>2. session.attempt = j /\ Queued(j, "succeeded")
      BY <2>1, <3>1 DEF FlatAll, OpenInv, Owned
    <3>3. Current(j)
      BY <1>1, <2>1, <3>2 DEF HeldInv, OwnAttempt
    <3>4. ~jobs[j].claimed
      BY <1>1, <3>2, <3>3 DEF HeldInv, ResultManagers
    <3> QED
      BY <3>2, <3>3, <3>4
  <2> QED
    BY <2>2, <2>4, <2>5, <2>6, <2>7, <2>8, <2>9, <2>10, <2>11
<1> QED
  BY <1>2 DEF OwnersInv

\* The mapping says the same.
LEMMA OwnerIsWhose ==
  ASSUME TypeInv, OwnersInv
  PROVE  \A j : OwnerOf(j) = IF j \in Connections THEN Whose(j) ELSE "unmade"
<1>1. ASSUME NEW j, j \notin Connections PROVE OwnerOf(j) = "unmade"
  BY <1>1 DEF OwnerOf, Connections
<1>2. ASSUME NEW j \in Connections PROVE OwnerOf(j) = Whose(j)
  <2>1. j \in JobIds /\ IsConnection(j)
    BY <1>2 DEF Connections
  <2>2. /\ jobs[j].socket \in {"unmade", "open", "closed"}
        /\ session.manager = j \/ j \in tokens => jobs[j].socket = "open"
        /\ session.manager = j => j \notin tokens /\ ~InLine(j) /\ ~jobs[j].claimed
        /\ InLine(j) => ~Queued(j, "succeeded")
        /\ Whose(j) = "result" => Queued(j, "succeeded") /\ ~jobs[j].claimed
    BY <1>2 DEF OwnersInv
  <2>3. CASE jobs[j].socket # "open"
    BY <2>1, <2>2, <2>3 DEF OwnerOf, Whose
  <2>4. CASE jobs[j].socket = "open" /\ session.manager = j
    BY <2>1, <2>2, <2>4 DEF OwnerOf, Whose
  <2>5. CASE jobs[j].socket = "open" /\ session.manager # j /\ j \in tokens
    BY <2>1, <2>2, <2>5 DEF OwnerOf, Whose
  <2>6. CASE jobs[j].socket = "open" /\ session.manager # j /\ j \notin tokens /\ InLine(j)
    BY <2>1, <2>2, <2>6 DEF OwnerOf, Whose
  <2>7. CASE jobs[j].socket = "open" /\ session.manager # j /\ j \notin tokens /\ ~InLine(j)
    BY <2>1, <2>2, <2>7 DEF OwnerOf, Whose
  <2> QED
    BY <2>3, <2>4, <2>5, <2>6, <2>7
<1> QED
  BY <1>1, <1>2


\* The managers that change hands go from one of from to to.
Passes(from, to) ==
    /\ Connections \in SUBSET (Connections')
    /\ \A j \in Connections' :
         IF j \in Connections
         THEN Whose(j)' # Whose(j) => Whose(j) \in from /\ Whose(j)' = to
         ELSE Whose(j)' = "unmade"

\* What is left alone stays whose it was.
LEMMA SameOwner ==
  ASSUME NEW j, jobs'[j].socket = jobs[j].socket, session'.manager = session.manager,
         j \in tokens' <=> j \in tokens,
         jobs[j].socket = "open" => (InLine(j)' <=> InLine(j))
  PROVE  Whose(j)' = Whose(j)
BY SMTT(30) DEF Whose

\* A worker makes, hands on or closes its own manager, or closes those it was given.
LEMMA WorkPasses ==
  ASSUME CoreInv, LineInv, UnmadeInLine, OwnersInv, OwnersInv', NEW k \in JobIds,
         NEW signal \in {"succeeded", "failed"}, NEW result \in Results, WorkStep(k, signal, result)
  PROVE  \/ Passes({"unmade"}, "worker") \/ Passes({"worker"}, "result")
         \/ Passes({"closer", "worker"}, "closed")
<1>1. TypeInv /\ session' = session /\ line # <<>> /\ k = Head(line) /\ InLine(k)
      /\ JobIds' = JobIds /\ \A j : InLine(j)' => InLine(j)
  BY HeadFacts, WorkFates DEF CoreInv, WorkStep, worker_only
<1>2. Connections' = Connections /\ Connections \subseteq JobIds
  <2>1. SameJobs(jobs')
    BY DEF WorkStep
  <2>2. \A j \in JobIds : IsConnection(j)' <=> IsConnection(j)
    BY <2>1 DEF SameJobs, IsConnection
  <2> QED
    BY <1>1, <2>2 DEF Connections
<1>3. CASE step = "waiting"
  <2>1. PICK batch : batch = jobs[k].closes \cap tokens
    OBVIOUS
  <2>2. jobs' = DisconnectAll(batch) /\ tokens' = tokens \ jobs[k].closes
    BY <1>3, <2>1 DEF WorkStep
  <2>3. ASSUME NEW j \in Connections, Whose(j)' # Whose(j)
        PROVE  Whose(j) = "closer" /\ Whose(j)' = "closed"
    <3>1. j \in batch
      <4>1. SUFFICES ASSUME j \notin batch PROVE FALSE
        OBVIOUS
      <4>2. jobs'[j] = jobs[j] /\ (j \in tokens' <=> j \in tokens)
        BY <1>1, <1>2, <2>1, <2>2, <4>1, DisconnectFacts
      <4>3. jobs[j].socket = "open" => ~InLine(j)
        BY <1>3 DEF OwnersInv
      <4> QED
        BY <1>1, <2>3, <4>2, <4>3, SameOwner
    <3>2. j \in tokens /\ jobs[j].socket = "open" /\ session.manager # j
      BY <2>1, <3>1 DEF OwnersInv
    <3>3. jobs'[j].socket = "closed"
      BY <1>1, <1>2, <2>2, <3>1, <3>2, DisconnectFacts
    <3> QED
      BY <3>2, <3>3 DEF Whose
  <2> QED
    BY <1>2, <2>3 DEF Passes
<1>4. ASSUME step # "waiting", NEW j \in Connections, j # k \/ ~IsConnection(k)
      PROVE  Whose(j)' = Whose(j)
  <2>1. jobs'[j] = jobs[j] /\ tokens' = tokens
    BY <1>2, <1>4 DEF WorkStep
  <2>2. jobs[j].socket = "open" => ~InLine(j)
    <3>1. InLine(j) /\ jobs[j].socket = "open" => j = k
      BY <1>1, <1>4 DEF OwnersInv
    <3>2. IsConnection(j)
      BY <1>4 DEF Connections
    <3> QED
      BY <1>4, <3>1, <3>2
  <2> QED
    BY <1>1, <2>1, <2>2, SameOwner
<1>5. CASE step # "waiting" /\ ~IsConnection(k)
  BY <1>2, <1>4, <1>5 DEF Passes
<1>6. CASE step # "waiting" /\ IsConnection(k)
  <2>1. ConnectionStep(k, signal) /\ tokens' = tokens /\ k \in Connections
    BY <1>6 DEF WorkStep, Connections
  <2>2. /\ k \notin tokens /\ session.manager # k /\ ~jobs[k].claimed /\ ~jobs[k].finished
        /\ jobs[k].socket = "open" => step = "made"
        /\ jobs[k].socket \in {"unmade", "open", "closed"}
    BY <1>1, <2>1 DEF OwnersInv
  <2>3. step = "made" => jobs[k].socket = "open"
    BY <1>1 DEF LineInv, OpenWhenMade
  <2>4. CASE line' = line /\ step = "begun" /\ jobs'[k].socket = "open"
    <3>1. jobs[k].socket = "unmade"
      BY <1>1, <1>6, <2>2, <2>4 DEF UnmadeInLine
    <3>2. InLine(k)'
      BY <1>1, <2>4 DEF InLine
    <3>3. Whose(k) = "unmade" /\ Whose(k)' = "worker"
      BY <1>1, <2>1, <2>2, <2>4, <3>1, <3>2 DEF Whose
    <3>4. Passes({"unmade"}, "worker")
      BY <1>2, <1>4, <1>6, <3>3 DEF Passes
    <3> QED
      BY <3>4
  <2>5. CASE jobs'[k].finished /\ jobs'[k].socket = "closed" /\ step = "made"
    <3>1. Whose(k) = "worker" /\ Whose(k)' = "closed"
      BY <1>1, <2>2, <2>3, <2>5 DEF Whose
    <3>2. Passes({"closer", "worker"}, "closed")
      BY <1>2, <1>4, <1>6, <3>1 DEF Passes
    <3> QED
      BY <3>2
  <2>6. CASE jobs'[k].finished /\ jobs'[k].socket = jobs[k].socket /\ jobs[k].socket = "open"
    <3>1. ~InLine(k)'
      BY <1>2, <2>1, <2>6 DEF OwnersInv
    <3>2. Whose(k) = "worker" /\ Whose(k)' = "result"
      BY <1>1, <2>1, <2>2, <2>6, <3>1 DEF Whose
    <3>3. Passes({"worker"}, "result")
      BY <1>2, <1>4, <1>6, <3>2 DEF Passes
    <3> QED
      BY <3>3
  <2>7. CASE jobs'[k].socket = jobs[k].socket /\ jobs[k].socket # "open"
    <3>1. Whose(k)' = Whose(k)
      BY <2>7 DEF Whose
    <3>2. Passes({"worker"}, "result")
      BY <1>2, <1>4, <1>6, <3>1 DEF Passes
    <3> QED
      BY <3>2
  <2> QED
    BY <2>1, <2>2, <2>3, <2>4, <2>5, <2>6, <2>7 DEF ConnectionStep
<1> QED
  BY <1>3, <1>5, <1>6 DEF WorkStep


\* A step of the Qt thread opens and closes nothing, takes no token back, and leaves the
\* worker that has a manager at its work.
Calm ==
    /\ \A j \in JobIds : jobs'[j].socket = jobs[j].socket
    /\ \A j \in JobIds : j \in tokens => j \in tokens'
    /\ \A j \in JobIds : InLine(j)' => InLine(j)
    /\ \A j \in Connections : InLine(j) /\ jobs[j].socket = "open" => InLine(j)'

\* A step that leaves the sockets and the tokens alone, or one of the pool's thread.
LEMMA CalmOrWork ==
  ASSUME CoreInv, LineInv, OwnersInv, TokenStep
  PROVE  \/ Calm
         \/ \E j \in JobIds : \E signal \in {"succeeded", "failed"} : \E result \in Results :
              WorkStep(j, signal, result)
<1>1. TypeInv /\ \A k \in JobIds : InLine(k)' => InLine(k)
  BY TokenJobs DEF CoreInv
<1>2. Connections \subseteq JobIds
  BY DEF Connections
<1>3. ASSUME NEW history, SameManagers(history), jobs' = history, UNCHANGED <<line, step, tokens>>
      PROVE  Calm
  BY <1>1, <1>2, <1>3 DEF Calm, SameManagers, InLine
<1>4. ASSUME NEW history, NEW job \in JobType, SameJobs(history), SameManagers(history),
             Enqueue(job, history, line), tokens' = tokens \/ Closes(job)
      PROVE  Calm
  <2>1. /\ \A j \in JobIds : jobs'[j].socket = jobs[j].socket
        /\ \A j : InLine(j) => InLine(j)'
    BY <1>1, <1>4, SubmitFacts DEF SameManagers
  <2>2. \A j : j \in tokens => j \in tokens'
    BY <1>4 DEF Closes
  <2> QED
    BY <1>1, <2>1, <2>2 DEF Calm
<1>5. ASSUME NEW history, NEW job \in JobType, NEW submits \in BOOLEAN,
             SameJobs(history), SameManagers(history), Cancels(history, job, submits),
             IF submits THEN Closes(job) ELSE tokens = {} /\ tokens' = {}
      PROVE  Calm
  <2>1. \A j \in JobIds : jobs'[j].socket = jobs[j].socket
    BY <1>1, <1>5, CancelFacts DEF SameManagers
  <2>2. \A j : j \in tokens => j \in tokens'
    BY <1>5 DEF Closes
  <2>3. ASSUME NEW j \in Connections, InLine(j), jobs[j].socket = "open" PROVE InLine(j)'
    <3>2. j = Head(line) /\ step = "made"
      BY <2>3 DEF OwnersInv
    <3>3. PICK kept \in Survivors :
            IF submits THEN Enqueue(job, history, kept) ELSE line' = kept
      BY <1>5 DEF Cancels
    <3>4. /\ kept \in Seq(JobIds) /\ (kept = <<>> => line = <<>> \/ step = "waiting")
          /\ kept # <<>> => Head(kept) = Head(line)
      BY <1>1, SurvivorFacts
    <3>5. line # <<>>
      BY <2>3 DEF InLine
    <3>6. Has(kept, j)
      BY <3>2, <3>4, <3>5, HasTail
    <3>7. CASE submits
      BY <1>1, <1>5, <3>3, <3>4, <3>6, <3>7, EnqueueFacts DEF SameJobs
    <3>8. CASE ~submits
      BY <3>3, <3>6, <3>8 DEF InLine, Has
    <3> QED
      BY <3>7, <3>8
  <2> QED
    BY <1>1, <2>1, <2>2, <2>3 DEF Calm
<1> QED
  BY <1>3, <1>4, <1>5 DEF TokenStep

\* The session adopts the success of its one attempt, or gives managers up to the closer.
LEMMA CalmPasses ==
  ASSUME CoreInv, PhaseInv, OwnersInv, OwnersInv', TokenStep, PassOn, Calm
  PROVE  \/ Passes({"result"}, "session")
         \/ Passes({"worker", "result", "session"}, "closer")
<1>1. TypeInv /\ Connections \subseteq JobIds /\ None \notin JobIds
  BY TokenTypes DEF CoreInv
<1>2. \A j \in JobIds : j \in JobIds' /\ (IsConnection(j)' <=> IsConnection(j))
  BY <1>1, TokenJobs, Growth
<1>3. Connections \in SUBSET (Connections')
  BY <1>2 DEF Connections
<1>4. ASSUME NEW j \in Connections', j \notin Connections PROVE Whose(j)' = "unmade"
  <2>1. j \in JobIds' /\ j \notin JobIds
    BY <1>2, <1>4 DEF Connections
  <2>2. jobs'[j].socket = "unmade"
    BY <2>1, Fates DEF NewComer
  <2> QED
    BY <2>2 DEF Whose
<1>5. ASSUME NEW j \in Connections, Whose(j)' # Whose(j)
      PROVE  \/ Whose(j) = "result" /\ Whose(j)' = "session"
             \/ Whose(j) \in {"result", "session"} /\ Whose(j)' = "closer"
  <2>1. j \in JobIds /\ j \in Connections'
    BY <1>1, <1>3
  <2>2. jobs'[j].socket = jobs[j].socket /\ (j \in tokens => j \in tokens')
    BY <2>1 DEF Calm
  <2>3. jobs[j].socket = "open"
    BY <1>5, <2>2 DEF Whose
  <2>4. /\ session'.manager = j => j \notin tokens' /\ ~InLine(j)'
        /\ InLine(j)' => j \notin tokens'
    BY <2>1 DEF OwnersInv
  <2>5. /\ session.manager = j => j \notin tokens
        /\ InLine(j) <=> InLine(j)'
    BY <2>1, <2>3 DEF OwnersInv, Calm
  <2>6. session.manager = j => session'.manager = j \/ j \in tokens'
    BY DEF PassOn
  <2> QED
    BY <1>5, <2>2, <2>3, <2>4, <2>5, <2>6 DEF Whose
<1>6. CASE \E j \in Connections : Whose(j) = "result" /\ Whose(j)' = "session"
  <2>1. PICK j \in Connections : Whose(j) = "result" /\ Whose(j)' = "session"
    BY <1>6
  <2>2. /\ session.attempt = j /\ Queued(j, "succeeded") /\ Current(j)
        /\ j \in JobIds /\ IsConnection(j)
    BY <2>1 DEF OwnersInv, Connections
  <2>3. session.manager = None
    BY <2>2 DEF PhaseInv, Unreported
  <2>4. ASSUME NEW i \in Connections, i # j PROVE Whose(i)' = Whose(i)
    <3>1. Whose(i) # "result"
      BY <2>2, <2>4 DEF OwnersInv
    <3>2. Whose(i) # "session"
      <4>1. i # None /\ jobs[i].socket \in {"unmade", "open", "closed"}
        BY <1>1 DEF OwnersInv
      <4> QED
        BY <2>3, <4>1 DEF Whose
    <3> QED
      BY <1>5, <3>1, <3>2
  <2>5. Passes({"result"}, "session")
    BY <1>3, <1>4, <2>1, <2>4 DEF Passes
  <2> QED
    BY <2>5
<1>7. CASE ~\E j \in Connections : Whose(j) = "result" /\ Whose(j)' = "session"
  <2>1. Passes({"worker", "result", "session"}, "closer")
    BY <1>3, <1>4, <1>5, <1>7 DEF Passes
  <2> QED
    BY <2>1
<1> QED
  BY <1>6, <1>7

\* Every step passes managers on as the abstract specification allows.
LEMMA AllPass ==
  ASSUME FlatAll, OwnersInv, OwnersInv', TokenStep, PassOn
  PROVE  \/ Passes({"unmade"}, "worker") \/ Passes({"worker"}, "result")
         \/ Passes({"closer", "worker"}, "closed") \/ Passes({"result"}, "session")
         \/ Passes({"worker", "result", "session"}, "closer")
<1>1. CoreInv /\ LineInv /\ UnmadeInLine /\ PhaseInv
  BY DEF FlatAll, Inv, FlatOwners, AgreeInv
<1> QED
  BY <1>1, CalmOrWork, CalmPasses, WorkPasses

-----------------------------------------------------------------------------

\* The mapping and the owners agree.
OwnerSays ==
    /\ \A j : OwnerOf(j) = IF j \in Connections THEN Whose(j) ELSE "unmade"
    /\ \A j \in Connections : Whose(j) \in Ownership!Owners

\* The owner the mapping names is the one who has the manager.
LEMMA OwnersKnown ==
  ASSUME FlatAll, TokensOpen, ClosedOnce
  PROVE  OwnersInv /\ OwnerSays
<1>1. OwnersInv /\ TypeInv
  BY OneOwner DEF FlatAll, Inv, CoreInv
<1>2. \A j \in Connections : Whose(j) \in Ownership!Owners
  BY <1>1 DEF OwnersInv, Whose, Ownership!Owners
<1> QED
  BY <1>1, <1>2, OwnerIsWhose DEF OwnerSays

\* A hand-over of ours is one of the promise's.
LEMMA PassesIsPass ==
  ASSUME OwnerSays, OwnerSays', NEW from, NEW to, Passes(from, to)
  PROVE  Ownership!Pass(from, to)
<1> DEFINE owner == [j \in 1 .. MaxJobs |-> OwnerOf(j)]
<1>1. ASSUME NEW j \in 1 .. MaxJobs PROVE OwnerOf(j)' \in Ownership!Owners
  BY DEF OwnerSays, Ownership!Owners
<1>2. owner' = [j \in 1 .. MaxJobs |-> OwnerOf(j)']
  OBVIOUS
<1>3. ASSUME NEW j \in 1 .. MaxJobs, OwnerOf(j)' # OwnerOf(j)
      PROVE  OwnerOf(j) \in from /\ OwnerOf(j)' = to
  BY <1>3 DEF OwnerSays, Passes
<1> QED
  BY <1>1, <1>2, <1>3 DEF Ownership!Pass

\* Every step is one of the abstract specification or leaves the owners alone.
LEMMA OwnersStep ==
  ASSUME FlatAll, OwnersInv, OwnerSays, OwnersInv', OwnerSays', TokenStep, PassOn
  PROVE  Ownership!Next
<1>1. ASSUME Passes({"result"}, "session")
      PROVE  Ownership!Adopt
  <2>1. ASSUME NEW m \in 1 .. MaxJobs, NEW n \in 1 .. MaxJobs,
               OwnerOf(m)' = "session", OwnerOf(n)' = "session"
        PROVE  m = n
    <3>1. ASSUME NEW j, OwnerOf(j)' = "session" PROVE session'.manager = j
      <4>1. j \in Connections' /\ Whose(j)' = "session"
        BY <3>1 DEF OwnerSays
      <4>2. jobs'[j].socket \in {"unmade", "open", "closed"}
        BY <4>1 DEF OwnersInv
      <4> QED
        BY <4>1, <4>2 DEF Whose
    <3> QED
      BY <2>1, <3>1
  <2> QED
    BY <1>1, <2>1, PassesIsPass DEF Ownership!Adopt
<1>2. \/ Passes({"unmade"}, "worker") \/ Passes({"worker"}, "result")
      \/ Passes({"closer", "worker"}, "closed") \/ Passes({"result"}, "session")
      \/ Passes({"worker", "result", "session"}, "closer")
  BY AllPass
<1> QED
  BY <1>1, <1>2, PassesIsPass
  DEF Ownership!Next, Ownership!Make, Ownership!Offer, Ownership!Retire, Ownership!Close

\* Without the window's dialogs the server controller keeps the promise about its SSH managers:
\* an open one has one owner, it goes from worker to result to session and to the closer as
\* ManagerOwnership says, and it is closed once and never forgotten.
THEOREM ImplementsOwnership ==
  ASSUME ~NestedDialogs
  PROVE  Spec => ImplementsManagerOwnership
<1>1. Init => Ownership!Init
  <2>1. SUFFICES ASSUME Init PROVE Ownership!Init
    OBVIOUS
  <2>2. jobs = <<>>
    BY <2>1 DEF Init
  <2>3. JobIds = {}
    BY <2>2 DEF JobIds
  <2> QED
    BY <2>3 DEF OwnerOf, Ownership!Init
<1>2. FlatAll /\ TokensOpen /\ ClosedOnce => OwnersInv /\ OwnerSays
  BY OwnersKnown
<1>3. FlatAll /\ OwnersInv /\ OwnerSays /\ OwnersInv' /\ OwnerSays' /\ [Next]_vars
        => [Ownership!Next]_([j \in 1 .. MaxJobs |-> OwnerOf(j)])
  BY FlatAllKept, OwnersStep
<1> QED
  BY <1>1, <1>2, <1>3, FlatAllAlways, ClosedOnceAlways, PTL
  DEF Spec, ImplementsManagerOwnership, Ownership!Spec


-----------------------------------------------------------------------------
(* The type invariant as the runs check it. Its bound on the jobs is where  *)
(* the actions' guards stop, and that one stays with the runs.              *)

\* The values the type invariant of the runs admits, of any number of jobs.
LEMMA TypesAgree == ASSUME TypeInv, Len(jobs) <= MaxJobs PROVE TypeOK
<1>1. /\ session.present \in BOOLEAN /\ session.generation \in Nat
      /\ session.sudo \in BOOLEAN /\ session.status \in Statuses
      /\ session.busy \in {None, "disconnect"} \cup Reads \cup Mutations \cup ConnectionOps
      /\ session.manager \in {None} \cup Connections
      /\ session.attempt \in {None} \cup Connections
      /\ session.snapshot \in {None} \cup [stale : BOOLEAN, job : JobIds]
  BY DEF TypeInv, SessionType
<1>2. Connections \subseteq JobIds
  BY DEF Connections
<1>3. session = [present |-> session.present, generation |-> session.generation,
                 status |-> session.status, busy |-> session.busy,
                 manager |-> session.manager, attempt |-> session.attempt,
                 sudo |-> session.sudo, snapshot |-> session.snapshot]
  BY DEF TypeInv, SessionType
<1>4. session \in [present : BOOLEAN, generation : Nat, sudo : BOOLEAN,
                   status : Statuses,
                   busy : {None, "disconnect"} \cup Reads \cup Mutations \cup ConnectionOps,
                   manager : {None} \cup JobIds, attempt : {None} \cup JobIds,
                   snapshot : {None} \cup [stale : BOOLEAN, job : JobIds]]
  BY <1>1, <1>2, <1>3
<1>5. /\ pending.key \in Keys \cup {None} /\ pending.sudo \in Keys \cup {None}
      /\ pending.trusted \subseteq Keys /\ pending.accepted \subseteq Keys
      /\ pending.retried \subseteq Keys
  BY DEF TypeInv, DecisionsType
<1>6. records \subseteq {j \in JobIds : IsPublic(j)}
  BY DEF TypeInv
<1>7. \A keys \in {pending.trusted, pending.accepted, pending.retried} : keys \subseteq Keys
  BY <1>5
<1>8. pending.key \in Keys \cup {None} /\ pending.sudo \in Keys \cup {None}
  BY <1>5
<1>9. \A i \in 1 .. Len(line) : line[i] \in JobIds
  BY DEF TypeInv
<1>10. \A i \in 1 .. Len(events) : events[i].job \in JobIds
  <2>1. \A i \in 1 .. Len(events) : events[i] \in EventType
    BY DEF TypeInv
  <2> QED
    BY <2>1 DEF EventType
<1>11. tokens \subseteq {j \in JobIds : IsConnection(j)}
  BY DEF TypeInv, Connections
<1>12. step \in {"waiting", "begun", "made"} /\ known \in BOOLEAN /\ remote \in {0} \cup JobIds
  BY DEF TypeInv
<1>13. down \in {"no", "draining", "clean", "incomplete"}
  BY DEF TypeInv
<1> QED
  BY ONLY Len(jobs) <= MaxJobs,
          <1>4, <1>6, <1>7, <1>8, <1>9, <1>10, <1>11, <1>12, <1>13, Zenon DEF TypeOK, Statuses

\* The session, the decisions, the jobs and the records have their types in every
\* reachable state whose jobs are within the runs' bound.
THEOREM TypesAlways == Spec => [](Len(jobs) <= MaxJobs => TypeOK)
<1>1. CoreInv => (Len(jobs) <= MaxJobs => TypeOK)
  BY TypesAgree DEF CoreInv
<1> QED
  BY <1>1, CoreAlways, PTL


-----------------------------------------------------------------------------
(* The order of the jobs and of their generations.                          *)

\* Taking an outcome, and what follows a failure, goes on with the jobs there are.
LEMMA OutcomesContinue ==
  ASSUME CoreInv, OnSucceeded \/ OnFailed \/ RestOfApplyFailure \/ HostKeyStoreFails
  PROVE  Continues /\ JobStep
<1>1. TypeInv /\ TopicInv /\ session \in SessionType /\ SameJobs(jobs)
  BY SessionParts, JobsAreSame DEF CoreInv
<1>2. CASE OnSucceeded
  <2> DEFINE j == Head(events).job
  <2>1. /\ events # <<>> /\ Head(events).signal = "succeeded" /\ Received
        /\ j \in JobIds /\ UNCHANGED <<pending, records, down>> /\ EventsKeep
    BY <1>1, <1>2, SucceededCases DEF EventsKeep
  <2>2. CASE DiscardSucceeded(j)
    <3>1. session' = session
      BY <1>1, <2>1, <2>2, DiscardCases
    <3>2. \E history : \E open \in SUBSET Connections : SameJobs(history) /\ MayClose(history, open)
      <4>1. CASE UNCHANGED <<jobs, tokens, line, step>>
        <5>1. MayClose(jobs, {})
          BY <4>1 DEF MayClose
        <5> QED
          BY <1>1, <5>1
      <4>2. CASE /\ IsConnection(j) /\ SameJobs(Invalidated(j))
                 /\ SubmitClose(Invalidated(j), tokens \cup {j})
        <5>1. tokens \cup {j} \in SUBSET Connections
          BY <1>1, <2>1, <4>2 DEF TypeInv, Connections
        <5> QED
          BY <4>2, <5>1 DEF MayClose
      <4>3. CASE SameJobs(Invalidated(j)) /\ jobs' = Invalidated(j) /\ UNCHANGED <<line, step>>
        <5>1. MayClose(Invalidated(j), {})
          BY <4>3 DEF MayClose
        <5> QED
          BY <4>3, <5>1
      <4> QED
        BY <1>1, <2>1, <2>2, <4>1, <4>2, <4>3, DiscardCases
    <3> QED
      BY <2>1, <3>1, <3>2, HandlersContinue
  <2>3. CASE MutationSucceeded(j, Head(events).result)
    <3> DEFINE lost == Head(events).result = "refresh_transport" /\ session.manager # None
               open == tokens \cup {m \in {session.manager} : lost}
    <3>1. /\ session'.generation = session.generation /\ session'.present = session.present
          /\ session'.busy = session.busy
      BY <1>1, <2>3 DEF MutationSucceeded, SessionType
    <3>2. IF lost THEN SubmitClose(jobs, open) ELSE UNCHANGED <<jobs, line, step>>
      BY <2>3 DEF MutationSucceeded
    <3>3. open \in SUBSET Connections
      BY <1>1, TokenTypes
    <3>4. MayClose(jobs, open)
      BY <3>2 DEF MayClose
    <3> QED
      BY <1>1, <2>1, <3>1, <3>3, <3>4, HandlersContinue
  <2>4. CASE UNCHANGED <<jobs, tokens, line, step>>
             /\ session' = IF IsConnection(j)
                           THEN [session EXCEPT !.manager = j, !.attempt = None,
                                   !.snapshot = Snapshot(j), !.status = "connected"]
                           ELSE IF jobs[j].op = "refresh"
                           THEN [session EXCEPT !.snapshot = Snapshot(j)]
                           ELSE session
    <3>1. /\ session'.generation = session.generation /\ session'.present = session.present
          /\ session'.busy = session.busy
      BY <1>1, <2>4 DEF SessionType
    <3> QED
      BY <2>1, <2>4, <3>1, QuietContinues
  <2> QED
    BY <1>1, <1>2, <2>2, <2>3, <2>4, SucceededCases
<1>3. ASSUME NEW j \in JobIds, IsPublic(j), NEW result \in Results, NEW rest,
             ApplyFailure(j, result, rest), UNCHANGED <<jobs, line, step, records, down>>,
             EventsKeep, events' # events => Head(events).signal # "finished"
      PROVE  Continues /\ JobStep
  <2>1. PICK sudo \in BOOLEAN : \E status \in Statuses : FailedSession(j, result, sudo, status)
    BY <1>1, <1>3, FailureFacts
  <2>2. PICK status \in Statuses : FailedSession(j, result, sudo, status)
    BY <2>1
  <2>3. /\ session'.generation = session.generation /\ session'.present = session.present
        /\ session'.busy = session.busy
    BY <1>1, <1>3, <2>2, FailedParts
  <2> QED
    BY <1>3, <2>3, QuietContinues
<1>4. CASE OnFailed
  <2>1. /\ UNCHANGED <<jobs, line, step, records, down>> /\ EventsKeep
        /\ Head(events).signal = "failed"
        /\ Head(events).job \in JobIds /\ Head(events).result \in Results
        /\ \/ session' = session
           \/ /\ IsPublic(Head(events).job)
              /\ ApplyFailure(Head(events).job, Head(events).result,
                              <<Frame("emit_failed", Head(events).job, Head(events).result)>> \o stack)
    BY <1>1, <1>4, FailedCases DEF EventsKeep
  <2>2. CASE session' = session
    BY <2>1, <2>2, QuietContinues
  <2> QED
    BY <1>3, <2>1, <2>2
<1>5. CASE HostKeyStoreFails
  <2>1. PICK j \in JobIds : /\ IsPublic(j) /\ ApplyFailure(j, "store_error", Answered)
                            /\ UNCHANGED <<jobs, line, step, records, down, events>>
    BY <1>1, <1>5, StoreFailsCases
  <2> QED
    BY <1>3, <2>1 DEF Results, EventsKeep
<1>6. CASE RestOfApplyFailure
  <2>1. /\ UNCHANGED <<records, events, down>>
        /\ \E attempt \in {session.attempt, None},
              snapshot \in {session.snapshot, Staled(session.snapshot)},
              manager \in {session.manager, None}, sudo \in BOOLEAN :
             /\ session' = [session EXCEPT !.attempt = attempt, !.snapshot = snapshot,
                                           !.manager = manager, !.sudo = sudo]
             /\ \/ UNCHANGED <<jobs, line, step>>
                \/ session.manager # None /\ tokens' = tokens \cup {session.manager}
                   /\ SubmitClose(jobs, tokens')
    BY <1>1, <1>6, RestFacts
  <2>2. /\ session'.generation = session.generation /\ session'.present = session.present
        /\ session'.busy = session.busy
    BY <1>1, <2>1 DEF SessionType
  <2>3. \E open \in SUBSET Connections : MayClose(jobs, open)
    <3>1. CASE UNCHANGED <<jobs, line, step>>
      <4>1. MayClose(jobs, {})
        BY <3>1 DEF MayClose
      <4> QED
        BY <4>1
    <3>2. CASE session.manager # None /\ tokens' = tokens \cup {session.manager} /\ SubmitClose(jobs, tokens')
      <4>1. tokens' \in SUBSET Connections
        BY <1>1, <3>2, TokenTypes
      <4> QED
        BY <3>2, <4>1 DEF MayClose
    <3> QED
      BY <2>1, <3>1, <3>2
  <2> QED
    BY <1>1, <2>1, <2>2, <2>3, HandlersContinue DEF EventsKeep
<1> QED
  BY <1>2, <1>4, <1>5, <1>6


\* What is submitted belongs to the session as it is then.
NewOfNow == \A n \in JobIds' : n \notin JobIds => jobs'[n].generation = session'.generation

\* Nothing is submitted.
LEMMA NoneNew == ASSUME JobIds' = JobIds PROVE NewOfNow
  BY DEF NewOfNow

\* One job of the session is submitted.
LEMMA LaunchNow ==
  ASSUME TypeInv, NEW op \in JobOps, NEW generation \in Nat, NEW sudo \in BOOLEAN,
         NEW closes \in SUBSET Nat, NEW logical \in Nat,
         Enqueue(NewJob(op, generation, sudo, closes, logical), jobs, line),
         session'.generation = generation
  PROVE  NewOfNow
<1>1. PICK job : job = NewJob(op, generation, sudo, closes, logical)
  OBVIOUS
<1>2. job \in JobType /\ job.generation = generation
  BY <1>1 DEF NewJob, JobType
<1>3. PICK n : n = NextJob
  OBVIOUS
<1>4. JobIds' = JobIds \cup {n} /\ jobs'[n] = job
  BY <1>1, <1>2, <1>3, SubmitFacts, JobsAreSame
<1> QED
  BY <1>2, <1>4 DEF NewOfNow

\* A session that is given up submits at most the job of the next generation.
LEMMA GiveUpNow ==
  ASSUME TypeInv, NEW op \in {"disconnect", "reconnect", "close"}, NEW next,
         next.generation \in Nat, next.sudo \in BOOLEAN, GiveUp(op, next)
  PROVE  NewOfNow
<1>1. PICK submits \in BOOLEAN : submits = ~(op = "close" /\ TokensGivenUp = {})
  OBVIOUS
<1>2. PICK job : job = NewJob(op, next.generation, next.sudo, TokensGivenUp, 0)
  OBVIOUS
<1>3. /\ session' = next /\ Cancels(JobsGivenUp, job, submits)
      /\ job \in JobType /\ job.generation = next.generation
  BY <1>1, <1>2, GiveUpFacts
<1>4. PICK n : n = NextJob
  OBVIOUS
<1>5. /\ JobIds' = IF submits THEN JobIds \cup {n} ELSE JobIds
      /\ submits => jobs'[n] = job
  BY <1>3, <1>4, GivenUpFacts, CancelFacts
<1> QED
  BY <1>3, <1>5 DEF NewOfNow

\* A retry is of the generation it restarts or repeats.
LEMMA RetryNow ==
  ASSUME TypeInv, NEW s \in SessionType, NEW p, NEW r, NEW l \in Seq(LogicalType),
         NEW key \in Keys, Retries(s, p, r, l, key)
  PROVE  NewOfNow
<1>1. CASE NoRetry(s, p, r, l)
  BY <1>1, NoneNew DEF NoRetry, JobIds
<1>2. s.generation + 1 \in Nat /\ s.sudo \in BOOLEAN /\ key.generation \in Nat
  BY DEF SessionType, Keys
<1>3. ASSUME NEW with_sudo \in BOOLEAN, key.op \in ConnectionOps, Restart(s, p, r, key, with_sudo)
      PROVE  NewOfNow
  <2>1. Enqueue(NewJob(key.op, s.generation + 1, s.sudo, {}, 0), jobs, line) /\ key.op \in JobOps
    BY <1>3 DEF Restart, JobOps
  <2>2. session'.generation = s.generation + 1
    BY <1>3 DEF Restart, SessionType
  <2> QED
    BY <1>2, <2>1, <2>2, LaunchNow
<1>4. CASE s.generation = key.generation /\ key.op \in Reads \cup Mutations /\ Relaunch(s, p, r, l, key)
  <2>1. /\ Enqueue(NewJob(key.op, key.generation, s.sudo, {}, OpenLogical(l, key)), jobs, line)
        /\ key.op \in JobOps /\ OpenLogical(l, key) \in Nat
    BY <1>4, LogicalIds DEF Relaunch, JobOps
  <2>2. session'.generation = key.generation
    BY <1>4 DEF Relaunch, SessionType
  <2> QED
    BY <1>2, <2>1, <2>2, LaunchNow
<1> QED
  BY <1>1, <1>3, <1>4 DEF Retries

\* So it is with every call of the window.
LEMMA CallsNow ==
  ASSUME TypeInv, Calls
  PROVE  NewOfNow
<1>0. session.generation \in Nat /\ session.sudo \in BOOLEAN /\ session \in SessionType
  BY SessionParts
<1>1. CASE Connect
  <2>1. CASE OwnsSession
    BY <1>1, <2>1, NoneNew DEF Connect, JobIds
  <2>2. CASE ~OwnsSession
    <3>1. /\ Enqueue(NewJob("connect", session.generation, session.sudo, {}, 0), jobs, line)
          /\ "connect" \in JobOps
      BY <1>1, <2>2 DEF Connect, JobOps, ConnectionOps
    <3>2. session'.generation = session.generation
      BY <1>0, <1>1, <2>2 DEF Connect, SessionType
    <3> QED
      BY <1>0, <3>1, <3>2, LaunchNow
  <2> QED
    BY <2>1, <2>2
<1>2. ASSUME NEW op \in Reads \cup Mutations, NEW logical \in Nat,
             session' = [session EXCEPT !.busy = op],
             Enqueue(NewJob(op, session.generation, session.sudo, {}, logical), jobs, line)
      PROVE  NewOfNow
  <2>1. op \in JobOps /\ session'.generation = session.generation
    BY <1>0, <1>2 DEF JobOps, SessionType
  <2> QED
    BY <1>0, <1>2, <2>1, LaunchNow
<1>3. ASSUME NEW op \in Reads, StartRead(op) PROVE NewOfNow
  BY <1>2, <1>3 DEF StartRead
<1>4. ASSUME NEW op \in Mutations, StartMutation(op) PROVE NewOfNow
  <2>1. Len(logicals) + 1 \in Nat
    BY SessionParts
  <2> QED
    BY <1>2, <1>4, <2>1 DEF StartMutation
<1>5. /\ Detached("disconnected", "disconnect") \in SessionType
      /\ Detached("disconnected", None) \in SessionType
      /\ Detached("connecting", "reconnect") \in SessionType
  BY DetachedFacts DEF ConnectionOps
<1>6. CASE Disconnect
  <2>1. GiveUp("disconnect", Detached("disconnected", "disconnect"))
    BY <1>6 DEF Disconnect
  <2>2. Detached("disconnected", "disconnect").generation \in Nat
        /\ Detached("disconnected", "disconnect").sudo \in BOOLEAN
    BY <1>5 DEF SessionType
  <2> QED
    BY <2>1, <2>2, GiveUpNow
<1>7. CASE Reconnect
  <2>1. CASE session.status # "disconnected" /\ Idle
    <3> DEFINE next == [Detached("connecting", "reconnect") EXCEPT !.attempt = NextJob]
    <3>1. GiveUp("reconnect", next)
      BY <1>7, <2>1 DEF Reconnect
    <3>2. next.generation \in Nat /\ next.sudo \in BOOLEAN
      BY <1>5 DEF SessionType
    <3> HIDE DEF next
    <3> QED
      BY <3>1, <3>2, GiveUpNow
  <2>2. CASE ~(session.status # "disconnected" /\ Idle)
    BY <1>7, <2>2, NoneNew DEF Reconnect, JobIds
  <2> QED
    BY <2>1, <2>2
<1>8. CASE ReloadChanged \/ (Shutdown /\ session.present)
  <2>1. GiveUp("close", Detached("disconnected", None))
    BY <1>8 DEF ReloadChanged, Shutdown
  <2>2. Detached("disconnected", None).generation \in Nat
        /\ Detached("disconnected", None).sudo \in BOOLEAN
    BY <1>5 DEF SessionType
  <2> QED
    BY <2>1, <2>2, GiveUpNow
<1>9. CASE ReloadRemoved
  <2> DEFINE next == [Detached("disconnected", None) EXCEPT !.present = FALSE]
  <2>1. GiveUp("close", next)
    BY <1>9 DEF ReloadRemoved
  <2>2. next.generation \in Nat /\ next.sudo \in BOOLEAN
    BY <1>5 DEF SessionType
  <2> HIDE DEF next
  <2> QED
    BY <2>1, <2>2, GiveUpNow
<1>10. CASE Shutdown /\ ~session.present
  <2>1. PICK job : job = NewJob("close", session.generation, FALSE, tokens, 0)
    OBVIOUS
  <2>2. job \in JobType /\ job.generation = session.generation
    BY <1>0, <2>1, TokenTypes DEF NewJob, JobType, JobOps
  <2>3. session' = session /\ (UNCHANGED jobs \/ Cancels(jobs, job, TRUE))
    BY <1>10, <2>1 DEF Shutdown, Cancels
  <2>4. PICK n : n = NextJob
    OBVIOUS
  <2>5. CASE Cancels(jobs, job, TRUE)
    <3>1. JobIds' = JobIds \cup {n} /\ jobs'[n] = job
      BY <2>2, <2>4, <2>5, JobsAreSame, CancelFacts
    <3> QED
      BY <2>2, <2>3, <3>1 DEF NewOfNow
  <2> QED
    BY <2>3, <2>5, NoneNew DEF JobIds
<1>11. CASE ProvideSudoPassword \/ Select \/ ReloadAdded
  BY <1>11, NoneNew DEF ProvideSudoPassword, Select, ReloadAdded, JobIds
<1> QED
  BY <1>1, <1>3, <1>4, <1>6, <1>7, <1>8, <1>9, <1>10, <1>11 DEF Calls

\* So it is with every step.
LEMMA StepsNow ==
  ASSUME CoreInv, [Next]_vars
  PROVE  NewOfNow
<1>1. TypeInv /\ TopicInv
  BY DEF CoreInv
<1>2. ASSUME Continues PROVE NewOfNow
  BY <1>2 DEF Continues, NewOfNow
<1>3. CASE Work
  BY <1>2, <1>3, WorkContinues
<1>4. CASE OnSucceeded \/ OnFailed \/ RestOfApplyFailure \/ HostKeyStoreFails
  BY <1>2, <1>4, OutcomesContinue
<1>5. CASE OnFinished
  <2> DEFINE j   == Head(events).job
             key == KeyOf(j)
             s   == IF Current(j) /\ session.busy = key.op
                    THEN [session EXCEPT !.busy = None] ELSE session
             r   == {k \in records : KeyOf(k) # key}
  <2>1. s \in SessionType
    BY <1>1, <1>5, FinishedCases
  <2>2. PICK p \in DecisionsType, l \in Seq(LogicalType) :
        \/ NoRetry(s, p, r, l)
        \/ /\ key \in Keys
           /\ key \in pending.trusted => key.op \in ConnectionOps
           /\ \/ key \in pending.trusted /\ TrustedRetry(s, p, r, l, key)
              \/ key \in pending.accepted /\ SudoRetry(s, p, r, l, key)
    BY <1>1, <1>5, FinishedCases
  <2> HIDE DEF s, r, key
  <2>3. CASE NoRetry(s, p, r, l)
    BY <2>3, NoneNew DEF NoRetry, JobIds
  <2>4. CASE key \in Keys /\ Retries(s, p, r, l, key)
    BY <1>1, <2>1, <2>4, RetryNow
  <2> QED
    BY <2>2, <2>3, <2>4, RetryCases
<1>6. CASE ConfirmHostKey \/ AcceptSudo
  <2>1. PICK key \in Keys, s \in SessionType, p \in DecisionsType : Answering(key, s, p)
    BY <1>1, <1>6, AnswerCases
  <2>2. \/ NoRetry(s, [p EXCEPT !.trusted = @ \cup {key}], records, logicals)
        \/ NoRetry(s, [p EXCEPT !.accepted = @ \cup {key}], records, logicals)
        \/ key.op \in ConnectionOps /\ TrustedRetry(s, p, records, logicals, key)
        \/ SudoRetry(s, p, records, logicals, key)
    BY <2>1 DEF Answering
  <2>3. logicals \in Seq(LogicalType)
    BY <1>1 DEF TypeInv
  <2>4. ASSUME NEW q, NoRetry(s, q, records, logicals) PROVE NewOfNow
    BY <2>4, NoneNew DEF NoRetry, JobIds
  <2>5. CASE Retries(s, p, records, logicals, key)
    BY <1>1, <2>3, <2>5, RetryNow
  <2> QED
    BY <2>2, <2>4, <2>5, RetryCases
<1>7. CASE EmitSucceeded \/ EmitFailed \/ ShutdownReturns
           \/ DeclineHostKey \/ DeclineSudo \/ DismissError \/ UNCHANGED vars
  BY <1>7, NoneNew DEF EmitSucceeded, EmitFailed, ShutdownReturns, DeclineHostKey, DeclineSudo,
     DismissError, vars, JobIds
<1> QED
  BY <1>1, <1>3, <1>4, <1>5, <1>6, <1>7, CallsNow DEF Next, Handlers, Answers


\* Jobs are numbered in the order of their generations.
Ordered == \A i \in JobIds : \A j \in JobIds : i < j => jobs[i].generation <= jobs[j].generation

\* An outcome of this session that is still to come is of the last change or of a later job.
Newest == \A j \in JobIds : Mine(j) /\ Unreported(j) => remote <= j

\* An outcome that was delivered, or cancelled, does not come back.
LEMMA OldUnreported ==
  ASSUME TypeInv, JobStep, NEW j \in JobIds, Unreported(j)'
  PROVE  Unreported(j)
<1>1. ASSUME EventsKeep, NEW k, NEW s, Queued(k, s)' PROVE Queued(k, s)
  <2>1. CASE events' = events
    BY <1>1, <2>1 DEF Queued
  <2>2. CASE events # <<>> /\ Received
    BY <1>1, <2>2, ReceivedFacts
  <2> QED
    BY <1>1, <2>1, <2>2 DEF EventsKeep
<1>2. CASE line' = line /\ EventsKeep
  BY <1>1, <1>2 DEF Unreported, InLine
<1>3. ASSUME NEW history, NEW job \in JobType, SameJobs(history), Enqueue(job, history, line), EventsKeep
      PROVE  Unreported(j)
  <2>1. PICK n : n = NextJob
    OBVIOUS
  <2>2. n \notin JobIds /\ \A k : InLine(k)' <=> InLine(k) \/ k = n
    BY <1>3, <2>1, SubmitFacts
  <2> QED
    BY <1>1, <1>3, <2>2 DEF Unreported
<1>4. ASSUME NEW history, NEW job \in JobType, NEW submits \in BOOLEAN, SameJobs(history),
             Cancels(history, job, submits)
      PROVE  Unreported(j)
  <2>1. /\ InLine(j)' => InLine(j)
        /\ \A k, s : Queued(k, s)' => Queued(k, s) \/ s = "finished"
    BY <1>4, CancelFacts
  <2> QED
    BY <2>1 DEF Unreported
<1>5. ASSUME NEW k \in JobIds, NEW signal \in {"succeeded", "failed"}, NEW result \in Results,
             WorkStep(k, signal, result)
      PROVE  Unreported(j)
  <2>1. CASE Ends(k, jobs', signal, result)
    <3>1. /\ \A m : InLine(m) <=> InLine(m)' \/ m = k
          /\ \A m, s : Queued(m, s)' => Queued(m, s) \/ m = k
          /\ InLine(k)
      BY <1>5, <2>1, EndsFacts DEF WorkStep
    <3> QED
      BY <3>1 DEF Unreported
  <2>2. CASE line' = line /\ events' = events
    BY <2>2 DEF Unreported, InLine, Queued
  <2> QED
    BY <1>5, <2>1, <2>2 DEF WorkStep
<1> QED
  BY <1>2, <1>3, <1>4, <1>5 DEF JobStep

\* A job of an earlier generation does not become the session's.
LEMMA OldMine ==
  ASSUME TypeInv, JobStep, SessionStep, OldGenerations, NEW j \in JobIds, Mine(j)'
  PROVE  Mine(j) /\ session'.generation = session.generation
<1>1. /\ session.generation \in Nat /\ jobs[j].generation \in Nat
      /\ jobs[j].generation <= session.generation
  <2>1. jobs[j] \in JobType
    BY SessionParts, ElementOfSeq DEF TypeInv
  <2> QED
    BY <2>1, SessionParts DEF JobType, OldGenerations
<1>2. IsPublic(j) /\ jobs'[j].generation = jobs[j].generation
  BY Growth DEF Mine
<1>3. session'.present /\ session'.generation = jobs[j].generation
  BY <1>2 DEF Mine, Current
<1>4. SessionGoesOn
  BY <1>1, <1>3 DEF SessionStep, SessionBegins
<1> QED
  BY <1>2, <1>3, <1>4 DEF SessionGoesOn, Mine, Current

\* The generations of the jobs rise.
LEMMA OrderedKept ==
  ASSUME TypeInv, OldGenerations, Ordered, JobStep, SessionStep, NewOfNow, TypeInv'
  PROVE  Ordered'
<1>1. /\ session.generation \in Nat /\ session'.generation \in Nat
      /\ session'.generation >= session.generation
  BY SessionParts DEF TypeInv, SessionType, SessionStep, SessionGoesOn, SessionBegins
<1>2. /\ JobIds \subseteq JobIds' /\ JobIds = 1 .. Len(jobs) /\ Len(jobs) \in Nat
      /\ JobIds' = 1 .. Len(jobs') /\ Len(jobs') \in Nat
      /\ \A j \in JobIds : jobs'[j].generation = jobs[j].generation
  BY Growth, JobIdsRange DEF TypeInv, JobIds
<1>3. \A j \in JobIds : jobs[j].generation \in Nat /\ jobs[j].generation <= session.generation
  <2>1. \A j \in JobIds : jobs[j] \in JobType
    BY SessionParts, ElementOfSeq DEF TypeInv
  <2> QED
    BY <2>1 DEF JobType, OldGenerations
<1>4. SUFFICES ASSUME NEW i \in JobIds', NEW j \in JobIds', i < j
               PROVE  jobs'[i].generation <= jobs'[j].generation
  BY DEF Ordered
<1>5. CASE j \in JobIds
  <2>1. i \in JobIds
    BY <1>2, <1>4, <1>5
  <2> QED
    BY <1>2, <1>4, <1>5, <2>1 DEF Ordered
<1>6. CASE j \notin JobIds
  <2>1. jobs'[j].generation = session'.generation
    BY <1>6 DEF NewOfNow
  <2>2. CASE i \in JobIds
    BY <1>1, <1>2, <1>3, <2>1, <2>2
  <2>3. CASE i \notin JobIds
    BY <1>1, <2>1, <2>3 DEF NewOfNow
  <2> QED
    BY <2>2, <2>3
<1> QED
  BY <1>5, <1>6

\* Only the end of a change changes the server.
LEMMA RemoteSteps ==
  ASSUME [Next]_vars
  PROVE  remote' = remote \/ \E j \in JobIds : FinishMutation(j) /\ remote' = j
<1>1. ASSUME Calls PROVE remote' = remote
  BY <1>1 DEF Calls, Connect, Disconnect, Reconnect, StartRead, StartMutation, ProvideSudoPassword,
     Select, ReloadChanged, ReloadRemoved, ReloadAdded, Shutdown
<1>2. ASSUME Handlers PROVE remote' = remote
  BY <1>2 DEF Handlers, OnSucceeded, OnFailed, OnFinished, EmitSucceeded, EmitFailed,
     RestOfApplyFailure, ShutdownReturns
<1>3. ASSUME Answers PROVE remote' = remote
  BY <1>3 DEF Answers, DeclineHostKey, ConfirmHostKey, HostKeyStoreFails, DeclineSudo, AcceptSudo,
     DismissError
<1>4. CASE Work
  <2>1. ASSUME NEW j \in DOMAIN jobs, FinishMutation(j)
        PROVE  remote' = remote \/ remote' = j
    BY <2>1 DEF FinishMutation
  <2>2. ASSUME NEW j \in DOMAIN jobs, MakeManager(j) \/ FinishConnection(j) \/ FinishRead(j)
        PROVE  remote' = remote
    BY <2>2 DEF MakeManager, FinishConnection, FinishRead
  <2>3. Begin => remote' = remote
    BY DEF Begin
  <2> QED
    BY <1>4, <2>1, <2>2, <2>3 DEF Work, JobIds
<1> QED
  BY <1>1, <1>2, <1>3, <1>4 DEF Next, vars


\* The job of this session that is still at work is the one it is busy with.
LEMMA OneAtWork ==
  ASSUME TypeInv, BusyInv, NEW i \in JobIds, NEW j \in JobIds, Mine(i), Open(i), Mine(j), Open(j)
  PROVE  i = j
<1>1. i \in records /\ j \in records
  BY DEF BusyInv, RecordedWork
<1> QED
  BY <1>1 DEF BusyInv, OneRecord, Mine

\* What the end of a change leaves.
LEMMA MutationEnds ==
  ASSUME TypeInv, NEW j \in JobIds, FinishMutation(j)
  PROVE  /\ jobs[j].op \in Mutations /\ IsPublic(j) /\ InLine(j)
         /\ UNCHANGED <<session, pending, records, logicals, stack, known, requests, down, jobs>>
         /\ \E signal \in {"succeeded", "failed"} : \E result \in Results :
              /\ Ends(j, jobs, signal, result)
              /\ WorkStep(j, signal, result)
              /\ remote' \in {remote, j}
              /\ remote' # remote /\ signal = "failed" => result \in {"transport", "remote_error", "post"}
<1>1. /\ line # <<>> /\ j = Head(line) /\ step = "begun" /\ jobs[j].op \in Mutations
      /\ tokens' = tokens /\ UNCHANGED worker_only
  BY DEF FinishMutation, Running
<1>2. jobs[j] \in JobType /\ SameJobs(jobs) /\ InLine(j)
  BY <1>1, HeadFacts, JobsAreSame
<1>3. IsPublic(j) /\ ~IsConnection(j)
  BY <1>1 DEF IsPublic, IsConnection, Mutations, ConnectionOps
<1>4. \E signal \in {"succeeded", "failed"} : \E result \in Results :
        /\ Ends(j, jobs, signal, result) /\ remote' \in {remote, j}
        /\ result \notin {"unknown_key", "changed_key"}
        /\ remote' # remote /\ signal = "failed" => result \in {"transport", "remote_error", "post"}
  <2>1. CASE \E result \in MutationResults : Ends(j, jobs, "succeeded", result) /\ remote' = j
    <3>1. PICK result \in MutationResults : Ends(j, jobs, "succeeded", result) /\ remote' = j
      BY <2>1
    <3>2. result \in Results /\ result \notin {"unknown_key", "changed_key"}
      BY DEF MutationResults, Results
    <3>3. PICK signal \in {"succeeded", "failed"} : signal = "succeeded"
      OBVIOUS
    <3> QED
      BY <3>1, <3>2, <3>3
  <2>2. CASE \E result \in {"transport", "remote_error", "post"} : Ends(j, jobs, "failed", result) /\ remote' = j
    <3>1. PICK result \in {"transport", "remote_error", "post"} : Ends(j, jobs, "failed", result) /\ remote' = j
      BY <2>2
    <3>2. result \in Results /\ result \notin {"unknown_key", "changed_key"}
      BY DEF Results
    <3> QED
      BY <3>1, <3>2
  <2>3. CASE \E result \in {"command"} \cup SudoErrors(j) : Ends(j, jobs, "failed", result) /\ remote' = remote
    <3>1. PICK result \in {"command"} \cup SudoErrors(j) : Ends(j, jobs, "failed", result) /\ remote' = remote
      BY <2>3
    <3>2. result \in Results /\ result \notin {"unknown_key", "changed_key"}
      BY DEF Results, SudoErrors
    <3> QED
      BY <3>1, <3>2
  <2> QED
    BY <2>1, <2>2, <2>3 DEF FinishMutation
<1>5. PICK signal \in {"succeeded", "failed"} : \E result \in Results :
        /\ Ends(j, jobs, signal, result) /\ remote' \in {remote, j}
        /\ result \notin {"unknown_key", "changed_key"}
        /\ remote' # remote /\ signal = "failed" => result \in {"transport", "remote_error", "post"}
  BY <1>4
<1>6. PICK result \in Results :
        /\ Ends(j, jobs, signal, result) /\ remote' \in {remote, j}
        /\ result \notin {"unknown_key", "changed_key"}
        /\ remote' # remote /\ signal = "failed" => result \in {"transport", "remote_error", "post"}
  BY <1>5
<1>7. jobs' = jobs /\ step' = "waiting"
  BY <1>6 DEF Ends
<1>8. WorkStep(j, signal, result)
  BY <1>1, <1>2, <1>3, <1>6, <1>7 DEF WorkStep
<1> QED
  BY <1>1, <1>2, <1>3, <1>6, <1>7, <1>8 DEF worker_only

\* Outcomes of the session go on coming after the last change.
LEMMA NewestKept ==
  ASSUME CoreInv, CoreInv', BusyInv, Ordered, Newest, JobStep, SessionStep, [Next]_vars
  PROVE  Newest'
<1>1. TypeInv /\ TypeInv' /\ OldGenerations /\ JobIds = 1 .. Len(jobs) /\ JobIds' = 1 .. Len(jobs')
      /\ Len(jobs) \in Nat /\ Len(jobs') \in Nat /\ remote \in {0} \cup JobIds
  BY JobIdsRange DEF CoreInv, BusyInv, TypeInv, JobIds
<1>2. SUFFICES ASSUME NEW j \in JobIds', Mine(j)', Unreported(j)' PROVE remote' <= j
  BY DEF Newest
<1>3. CASE remote' = remote
  <2>1. CASE j \in JobIds
    <3>1. Mine(j) /\ Unreported(j)
      BY <1>1, <1>2, <2>1, OldMine, OldUnreported
    <3> QED
      BY <1>3, <2>1, <3>1 DEF Newest
  <2>2. CASE j \notin JobIds
    BY <1>1, <1>3, <2>2
  <2> QED
    BY <2>1, <2>2
<1>4. ASSUME NEW k \in JobIds, FinishMutation(k), remote' = k PROVE remote' <= j
  <2>1. IsPublic(k) /\ InLine(k) /\ UNCHANGED <<session, jobs>>
    BY <1>1, <1>4, MutationEnds
  <2>2. j \in JobIds /\ JobIds' = JobIds
    BY <2>1 DEF JobIds
  <2>3. Mine(j) /\ Unreported(j)
    BY <1>1, <1>2, <2>2, OldMine, OldUnreported
  <2>4. CASE Mine(k)
    BY <1>1, <1>4, <2>1, <2>2, <2>3, <2>4, OneAtWork DEF Open, Unreported
  <2>5. CASE ~Mine(k)
    <3>1. /\ session.present /\ session.generation = jobs[j].generation
          /\ jobs[k].generation # session.generation
      BY <2>1, <2>3, <2>5 DEF Mine, Current
    <3>2. /\ jobs[k].generation <= session.generation
          /\ jobs[k].generation \in Nat /\ session.generation \in Nat
      <4>1. jobs[k] \in JobType
        BY <1>1, ElementOfSeq DEF TypeInv
      <4> QED
        BY <1>1, <4>1, SessionParts DEF JobType, OldGenerations
    <3>3. ~(j < k)
      BY <2>2, <3>1, <3>2 DEF Ordered
    <3> QED
      BY <1>1, <1>4, <2>2, <3>3
  <2> QED
    BY <2>4, <2>5
<1> QED
  BY <1>3, <1>4, RemoteSteps

\* The last change was a change.
ChangedByMutation == remote # 0 => jobs[remote].op \in Mutations

\* The last change goes on being one.
LEMMA ChangedKept ==
  ASSUME TypeInv, ChangedByMutation, JobStep, [Next]_vars
  PROVE  ChangedByMutation'
<1>1. CASE remote' = remote
  BY <1>1, Growth DEF TypeInv, ChangedByMutation
<1>2. ASSUME NEW k \in JobIds, FinishMutation(k), remote' = k PROVE ChangedByMutation'
  <2>1. jobs[k].op \in Mutations /\ jobs' = jobs
    BY <1>2, MutationEnds
  <2>2. jobs'[remote'].op \in Mutations
    BY <1>2, <2>1
  <2> QED
    BY <2>2 DEF ChangedByMutation
<1> QED
  BY <1>1, <1>2, RemoteSteps


-----------------------------------------------------------------------------
(* A change is planned on what was loaded after the last change.            *)

Unsure == {"transport", "remote_error", "post"}

\* The outcome of the last change is on its way, ...
Decisive(e) == e.signal = "succeeded" \/ (e.signal = "failed" /\ e.result \in Unsure)
DueEvent(r) == \E i \in 1 .. Len(events) : events[i].job = r /\ Decisive(events[i])

\* ... its failure is about to make the snapshot stale, ...
DueRest(r) ==
    /\ stack # <<>> /\ Head(stack).fn = "rest_of_apply_failure"
    /\ Head(stack).job = r /\ Head(stack).result = "post"

\* ... or the session is in error and nothing brings it back but a new connection.
Settled ==
    session.status = "error" /\ NoneWaits /\ \A j \in JobIds : Mine(j) => ~Unreported(j)

Excused(r) == r \in JobIds /\ Mine(r) /\ (DueEvent(r) \/ DueRest(r) \/ Settled)

\* A snapshot that is not marked stale is of the last change or later, or its excuse is due.
FreshIsCurrent ==
    session.present /\ session.snapshot # None =>
      session.snapshot.stale \/ session.snapshot.job >= remote \/ Excused(remote)

PlanInv == FreshIsCurrent /\ Ordered /\ Newest /\ ChangedByMutation

\* What a step that is not the end of a change does to the snapshot.
Refreshed ==
    \/ ~session'.present \/ session'.snapshot = None
    \/ session'.snapshot.stale \/ session'.snapshot.job >= remote
Untouched ==
    /\ session'.present => session.present
    /\ session'.snapshot = session.snapshot
    /\ \A r : r = remote /\ Excused(r) => Excused(r)'
PlanStep == remote' = remote /\ (Refreshed \/ Untouched)

\* Such a step keeps what is shown current.
LEMMA PlanKept ==
  ASSUME FreshIsCurrent, PlanStep
  PROVE  FreshIsCurrent'
<1>1. PICK r : r = remote
  OBVIOUS
<1>2. remote' = r /\ remote = r
  BY <1>1 DEF PlanStep
<1>3. Excused(remote) <=> Excused(r)
  BY <1>2
<1>4. Excused(remote)' <=> Excused(r)'
  BY <1>2
<1>5. CASE Refreshed
  BY <1>2, <1>5 DEF Refreshed, FreshIsCurrent
<1>6. CASE Untouched
  <2>1. SUFFICES ASSUME session'.present, session'.snapshot # None, ~session'.snapshot.stale,
                        ~(session'.snapshot.job >= remote')
                 PROVE  Excused(r)'
    BY <1>4 DEF FreshIsCurrent
  <2>2. session.present /\ session'.snapshot = session.snapshot
    BY <1>6, <2>1 DEF Untouched
  <2>3. Excused(r)
    BY <1>2, <1>3, <2>1, <2>2 DEF FreshIsCurrent
  <2> QED
    BY <1>1, <1>6, <2>3 DEF Untouched
<1> QED
  BY <1>5, <1>6 DEF PlanStep

\* A decisive outcome stays due until it is delivered, ...
LEMMA DueDelivered ==
  ASSUME TypeInv, NEW r, DueEvent(r), EventsKeep,
         events' # events => Head(events).job # r \/ Head(events).signal = "finished"
  PROVE  DueEvent(r)'
<1>1. PICK i \in 1 .. Len(events) : events[i].job = r /\ Decisive(events[i])
  BY DEF DueEvent
<1>2. CASE events' = events
  BY <1>1, <1>2 DEF DueEvent, Decisive
<1>3. CASE events' # events
  <2>1. events # <<>> /\ events' = Tail(events) /\ events \in Seq(EventType)
    BY <1>3 DEF EventsKeep, Received, TypeInv
  <2>2. i # 1
    <3>1. Head(events) = events[1]
      BY <2>1, HasTail
    <3> QED
      BY <1>1, <1>3, <3>1 DEF Decisive
  <2>3. /\ Len(events) \in Nat /\ Len(Tail(events)) = Len(events) - 1
        /\ \A k \in 1 .. Len(Tail(events)) : Tail(events)[k] = events[k + 1]
    BY <2>1, HasTail
  <2>4. PICK k \in 1 .. Len(Tail(events)) : k + 1 = i
    <3>1. i - 1 \in 1 .. Len(Tail(events)) /\ (i - 1) + 1 = i
      BY <2>2, <2>3
    <3> QED
      BY <3>1
  <2>5. events'[k].job = r /\ Decisive(events'[k])
    BY <1>1, <2>1, <2>3, <2>4
  <2> QED
    BY <2>1, <2>4, <2>5 DEF DueEvent, Decisive
<1> QED
  BY <1>2, <1>3

\* ... also when more is queued behind it.
LEMMA DueBehind ==
  ASSUME TypeInv, NEW r, NEW notices \in Seq(EventType), events' = events \o notices
  PROVE  /\ DueEvent(r) => DueEvent(r)'
         /\ \A i \in 1 .. Len(notices) :
              notices[i].job = r /\ Decisive(notices[i]) => DueEvent(r)'
<1>1. events \in Seq(EventType)
  BY DEF TypeInv
<1>2. /\ Len(events) \in Nat /\ Len(notices) \in Nat
      /\ Len(events') = Len(events) + Len(notices)
      /\ \A i \in 1 .. Len(events) : events'[i] = events[i]
      /\ \A i \in 1 .. Len(notices) : events'[Len(events) + i] = notices[i]
  <2>1. /\ events \o notices \in Seq(EventType) /\ Len(events) \in Nat /\ Len(notices) \in Nat
        /\ Len(events \o notices) = Len(events) + Len(notices)
        /\ \A i \in 1 .. Len(events) : (events \o notices)[i] = events[i]
        /\ \A i \in 1 .. Len(notices) : (events \o notices)[Len(events) + i] = notices[i]
        /\ \A i \in 1 .. Len(events \o notices) :
             i \in 1 .. Len(events) \/ (\E k \in 1 .. Len(notices) : i = Len(events) + k)
        /\ \A y : Has(events \o notices, y) <=> Has(events, y) \/ Has(notices, y)
    BY <1>1, HasConcat
  <2> QED
    BY <2>1
<1>3. ASSUME NEW i \in 1 .. Len(events), events[i].job = r, Decisive(events[i])
      PROVE  DueEvent(r)'
  <2>1. i \in 1 .. Len(events') /\ events'[i] = events[i]
    BY <1>2
  <2> QED
    BY <1>3, <2>1 DEF DueEvent, Decisive
<1>4. ASSUME NEW i \in 1 .. Len(notices), notices[i].job = r, Decisive(notices[i])
      PROVE  DueEvent(r)'
  <2>1. PICK k : k = Len(events) + i
    OBVIOUS
  <2>2. k \in 1 .. Len(events') /\ events'[k] = notices[i]
    BY <1>2, <2>1
  <2> QED
    BY <1>4, <2>2 DEF DueEvent, Decisive
<1> QED
  BY <1>3, <1>4 DEF DueEvent


\* What was settled stays so.
LEMMA SettledStays ==
  ASSUME TypeInv, JobStep, Settled, session'.status = "error", Drops,
         session'.generation = session.generation, session'.present = session.present,
         \A j \in JobIds' : j \notin JobIds => ~IsPublic(j)'
  PROVE  Settled'
<1>1. NoneWaits'
  BY DEF NoneWaits, Waiting, Drops, OfSession, Settled
<1>2. ASSUME NEW j \in JobIds', Mine(j)', Unreported(j)' PROVE FALSE
  <2>1. j \in JobIds
    BY <1>2 DEF Mine
  <2>2. Mine(j)
    BY <1>2, <2>1, Growth DEF Mine, Current
  <2>3. Unreported(j)
    BY <1>2, <2>1, OldUnreported
  <2> QED
    BY <2>1, <2>2, <2>3 DEF Settled
<1> QED
  BY <1>1, <1>2 DEF Settled

\* An excuse is good until its outcome is handled.
LEMMA ExcuseStays ==
  ASSUME TypeInv, JobStep, Drops, session'.status = session.status,
         session'.generation = session.generation, session'.present = session.present,
         \A j \in JobIds' : j \notin JobIds => ~IsPublic(j)',
         NEW r, Excused(r), DueEvent(r) => DueEvent(r)', DueRest(r) => stack' = stack
  PROVE  Excused(r)'
<1>1. r \in JobIds' /\ Mine(r)'
  BY Growth DEF Excused, Mine, Current
<1>2. CASE DueEvent(r)
  BY <1>1, <1>2 DEF Excused
<1>3. CASE DueRest(r)
  BY <1>1, <1>3 DEF Excused, DueRest
<1>4. CASE Settled
  <2>1. session'.status = "error"
    BY <1>4 DEF Settled
  <2>2. Settled'
    BY <1>4, <2>1, SettledStays
  <2> QED
    BY <1>1, <2>2 DEF Excused
<1> QED
  BY <1>2, <1>3, <1>4 DEF Excused

\* What forgets decisions and nothing else owes the session what it owed.
LEMMA QuietPlans ==
  ASSUME CoreInv,
         \/ ProvideSudoPassword \/ Select \/ EmitSucceeded \/ EmitFailed
         \/ DeclineHostKey \/ DeclineSudo \/ DismissError \/ UNCHANGED vars
  PROVE  PlanStep
<1>1. /\ Drops
      /\ UNCHANGED <<jobs, line, step, events, records, down, remote>>
      /\ session' = session \/ session' = [session EXCEPT !.sudo = TRUE]
  BY QuietDrops DEF CoreInv
<1>2. /\ session'.generation = session.generation /\ session'.present = session.present
      /\ session'.status = session.status /\ session'.busy = session.busy
      /\ session'.snapshot = session.snapshot
  BY <1>1, SessionParts DEF CoreInv, SessionType
<1>3. TypeInv /\ JobStep /\ \A j \in JobIds' : j \notin JobIds => ~IsPublic(j)'
  BY <1>1, <1>2, QuietContinues DEF CoreInv, EventsKeep, JobIds
<1>4. \A r : DueEvent(r) => DueEvent(r)'
  BY <1>1 DEF DueEvent, Decisive
<1>5. \A r : DueRest(r) => stack' = stack
  <2>1. CASE ProvideSudoPassword \/ Select \/ UNCHANGED vars
    BY <2>1 DEF ProvideSudoPassword, Select, vars
  <2>2. CASE EmitSucceeded \/ EmitFailed \/ DismissError
    BY <2>2 DEF EmitSucceeded, EmitFailed, DismissError, DueRest
  <2>3. CASE DeclineHostKey
    BY <2>3 DEF DeclineHostKey, CanAnswer, Answered, DueRest
  <2>4. CASE DeclineSudo
    BY <2>4 DEF DeclineSudo, CanAnswer, Answered, DueRest
  <2> QED
    BY <2>1, <2>2, <2>3, <2>4
<1>6. ASSUME NEW r, Excused(r) PROVE Excused(r)'
  BY <1>1, <1>2, <1>3, <1>4, <1>5, <1>6, ExcuseStays
<1> QED
  BY <1>1, <1>2, <1>6 DEF PlanStep, Untouched

\* The worker's steps, but for the end of a change.
LEMMA WorkPlans ==
  ASSUME CoreInv, Work, remote' = remote
  PROVE  PlanStep
<1>1. TypeInv /\ JobStep /\ \A j \in JobIds' : j \notin JobIds => ~IsPublic(j)'
  BY WorkContinues DEF CoreInv, Continues
<1>2. PICK j \in JobIds, signal \in {"succeeded", "failed"}, result \in Results :
        WorkStep(j, signal, result)
  BY <1>1, WorkSteps
<1>3. UNCHANGED <<session, pending, stack>>
  BY <1>2 DEF WorkStep, worker_only
<1>4. ASSUME NEW r, DueEvent(r) PROVE DueEvent(r)'
  <2>1. CASE events' = events
    BY <1>4, <2>1 DEF DueEvent, Decisive
  <2>2. CASE Ends(j, jobs', signal, result)
    <3>1. events' = events \o Notices(j, signal, result)
      BY <2>2 DEF Ends
    <3>2. Event(j, signal, result) \in EventType /\ Event(j, "finished", result) \in EventType
      BY DEF Event, EventType, Signals
    <3>3. Notices(j, signal, result) \in Seq(EventType)
      BY <3>2 DEF Notices
    <3> QED
      BY <1>1, <1>4, <3>1, <3>3, DueBehind
  <2> QED
    BY <1>2, <2>1, <2>2 DEF WorkStep
<1>5. ASSUME NEW r, Excused(r) PROVE Excused(r)'
  <2>1. Drops
    BY <1>3 DEF Drops
  <2> QED
    BY <1>1, <1>3, <1>4, <1>5, <2>1, ExcuseStays
<1> QED
  BY <1>3, <1>5 DEF PlanStep, Untouched


\* The end of a change leaves an outcome that is due, or is not the session's.
LEMMA ChangePlans ==
  ASSUME CoreInv, OldGenerations, SnapshotOfThisSession, Ordered, NEW k \in JobIds,
         FinishMutation(k), remote' = k, remote' # remote
  PROVE  FreshIsCurrent'
<1>0. TypeInv
  BY DEF CoreInv
<1>1. IsPublic(k) /\ UNCHANGED <<session, jobs>>
  BY <1>0, MutationEnds
<1>2. PICK signal \in {"succeeded", "failed"}, result \in Results :
        /\ Ends(k, jobs, signal, result)
        /\ signal = "failed" => result \in Unsure
  BY <1>0, MutationEnds DEF Unsure
<1>3. SUFFICES ASSUME session.present, session.snapshot # None,
                      ~(session.snapshot.job >= k)
               PROVE  Excused(k)'
  BY <1>1 DEF FreshIsCurrent
<1>4. CASE Mine(k)
  <2>1. events' = events \o Notices(k, signal, result)
    BY <1>2 DEF Ends
  <2>2. PICK e \in EventType : e = Event(k, signal, result)
    BY DEF Event, EventType, Signals
  <2>3. PICK f \in EventType : f = Event(k, "finished", result)
    BY DEF Event, EventType, Signals
  <2>4. Notices(k, signal, result) = <<e, f>>
    <3>1. Notices(k, signal, result) = <<Event(k, signal, result), Event(k, "finished", result)>>
      BY <1>1, Zenon DEF Notices
    <3> QED
      BY <2>2, <2>3, <3>1, Zenon
  <2>5. PICK notices \in Seq(EventType) : notices = <<e, f>>
    <3>1. <<e, f>> \in Seq(EventType)
      OBVIOUS
    <3> QED
      BY <3>1
  <2>6. 1 \in 1 .. Len(notices) /\ notices[1] = e
    BY <2>5
  <2>7. e.job = k /\ Decisive(e)
    BY <1>2, <2>2 DEF Event, Decisive
  <2>8. DueEvent(k)'
    BY <1>0, <2>1, <2>4, <2>5, <2>6, <2>7, DueBehind
  <2>9. k \in JobIds' /\ Mine(k)'
    BY <1>1, <1>4 DEF JobIds, Mine, Current, IsPublic
  <2> QED
    BY <2>8, <2>9 DEF Excused
<1>5. CASE ~Mine(k)
  <2>1. PICK i \in JobIds : i = session.snapshot.job
    BY <1>0, <1>3, SessionParts
  <2>2. jobs[i].generation = session.generation /\ jobs[k].generation # session.generation
    BY <1>1, <1>3, <1>5, <2>1 DEF SnapshotOfThisSession, Mine, Current
  <2>3. jobs[k].generation <= session.generation
    BY DEF OldGenerations
  <2>4. jobs[k].generation \in Nat /\ session.generation \in Nat
    <3>1. jobs[k] \in JobType
      BY <1>0, ElementOfSeq DEF TypeInv, JobIds
    <3> QED
      BY <1>0, <3>1, SessionParts DEF JobType
  <2>5. i \in Nat /\ k \in Nat
    BY <1>0, SessionParts
  <2>6. i < k
    BY <1>3, <2>1, <2>5
  <2>7. jobs[i].generation <= jobs[k].generation
    BY <2>6 DEF Ordered
  <2> QED
    BY <2>2, <2>3, <2>4, <2>7
<1> QED
  BY <1>4, <1>5

\* A call is refused, or made of a session that is owed nothing.
LEMMA CallPlans ==
  ASSUME CoreInv, AgreeInv, Calls
  PROVE  PlanStep
<1>0. /\ TypeInv /\ BusyInv /\ session \in SessionType /\ pending \in DecisionsType
  BY SessionParts DEF CoreInv, AgreeInv
<1>1. remote' = remote
  BY DEF Calls, Connect, Disconnect, Reconnect, StartRead, StartMutation, ProvideSudoPassword,
     Select, ReloadChanged, ReloadRemoved, ReloadAdded, Shutdown
<1>2. ASSUME session'.snapshot = None PROVE PlanStep
  BY <1>1, <1>2 DEF PlanStep, Refreshed
<1>3. ASSUME session' = session, Drops, UNCHANGED <<jobs, line, step, events, records, down, stack>>
      PROVE  PlanStep
  <2>1. JobStep /\ \A j \in JobIds' : j \notin JobIds => ~IsPublic(j)'
    BY <1>3, QuietContinues DEF EventsKeep, JobIds
  <2>2. \A r : DueEvent(r) => DueEvent(r)'
    BY <1>3 DEF DueEvent, Decisive
  <2>3. ASSUME NEW r, Excused(r) PROVE Excused(r)'
    BY <1>0, <1>3, <2>1, <2>2, <2>3, ExcuseStays
  <2> QED
    BY <1>1, <1>3, <2>3 DEF PlanStep, Untouched
<1>4. CASE Connect
  <2>1. CASE OwnsSession
    <3>1. /\ session' = session /\ pending' = NoDecisions
          /\ UNCHANGED <<jobs, line, step, events, records, down, stack>>
      BY <1>4, <2>1 DEF Connect, ClearPendingDecisions
    <3>2. Drops
      BY <3>1 DEF Drops, NoDecisions
    <3> QED
      BY <1>3, <3>1, <3>2
  <2>2. CASE ~OwnsSession
    <3>1. session'.snapshot = None
      BY <1>0, <1>4, <2>2 DEF Connect, SessionType
    <3> QED
      BY <1>2, <3>1
  <2> QED
    BY <2>1, <2>2
<1>5. ASSUME NEW op, session' = [session EXCEPT !.busy = op], LiveIdle, stack = <<>>
      PROVE  PlanStep
  <2>1. \A j \in JobIds : Mine(j) => ~Open(j)
    BY <1>0, <1>5, NoneOnRecord DEF LiveIdle, Idle
  <2>2. ASSUME NEW r, Excused(r) PROVE FALSE
    <3>1. ~DueRest(r) /\ ~Settled
      BY <1>5 DEF DueRest, Settled, LiveIdle
    <3>2. ASSUME DueEvent(r) PROVE Open(r)
      BY <3>2 DEF DueEvent, Decisive, Open, Unreported, Queued
    <3> QED
      BY <2>1, <2>2, <3>1, <3>2 DEF Excused
  <2>3. session'.snapshot = session.snapshot /\ session.present
    BY <1>0, <1>5 DEF SessionType, LiveIdle
  <2> QED
    BY <1>1, <2>2, <2>3 DEF PlanStep, Untouched
<1>6. ASSUME NEW op \in Reads, StartRead(op) PROVE PlanStep
  BY <1>5, <1>6 DEF StartRead, Request
<1>7. ASSUME NEW op \in Mutations, StartMutation(op) PROVE PlanStep
  BY <1>5, <1>7 DEF StartMutation, Request
<1>8. CASE Reconnect
  <2>1. CASE session.status # "disconnected" /\ Idle
    <3>1. session' = [Detached("connecting", "reconnect") EXCEPT !.attempt = NextJob]
      BY <1>8, <2>1 DEF Reconnect, GiveUp
    <3>2. session'.snapshot = None
      BY <3>1 DEF Detached, NewSession
    <3> QED
      BY <1>2, <3>2
  <2>2. CASE ~(session.status # "disconnected" /\ Idle)
    <3>1. /\ session' = session /\ pending' = [pending EXCEPT !.trusted = {}]
          /\ UNCHANGED <<jobs, line, step, events, records, down, stack>>
      BY <1>8, <2>2 DEF Reconnect
    <3>2. Drops
      BY <1>0, <3>1 DEF Drops, DecisionsType
    <3> QED
      BY <1>3, <3>1, <3>2
  <2> QED
    BY <2>1, <2>2
<1>9. CASE Disconnect
  <2>1. session'.snapshot = None
    BY <1>9 DEF Disconnect, GiveUp, Detached, NewSession
  <2> QED
    BY <1>2, <2>1
<1>10. CASE ReloadChanged \/ ReloadRemoved \/ ReloadAdded
  <2>1. ReloadChanged => session' = Detached("disconnected", None)
    BY DEF ReloadChanged, GiveUp
  <2>2. ReloadRemoved => session' = [Detached("disconnected", None) EXCEPT !.present = FALSE]
    BY DEF ReloadRemoved, GiveUp
  <2>3. ReloadAdded => session' = NewSession(session.generation + 1)
    BY DEF ReloadAdded
  <2>4. CASE ReloadAdded
    <3>1. session'.snapshot = None
      BY <2>3, <2>4 DEF NewSession
    <3> QED
      BY <1>2, <3>1
  <2>5. CASE ReloadChanged
    <3>1. session'.snapshot = None
      BY <1>0, <2>1, <2>5, DetachedFacts
    <3> QED
      BY <1>2, <3>1
  <2>6. CASE ReloadRemoved
    <3>1. PICK s \in SessionType : s = Detached("disconnected", None) /\ s.snapshot = None
      BY <1>0, DetachedFacts
    <3>2. session' = [s EXCEPT !.present = FALSE]
      BY <2>2, <2>6, <3>1
    <3>3. session'.snapshot = None
      BY <3>1, <3>2 DEF SessionType
    <3> QED
      BY <1>2, <3>3
  <2> QED
    BY <1>10, <2>4, <2>5, <2>6
<1>11. CASE Shutdown
  <2>1. session'.snapshot = None \/ ~session'.present
    BY <1>11 DEF Shutdown, GiveUp, Detached, NewSession
  <2> QED
    BY <1>1, <2>1 DEF PlanStep, Refreshed
<1>12. CASE ProvideSudoPassword \/ Select
  BY <1>12, QuietPlans
<1> QED
  BY <1>4, <1>6, <1>7, <1>8, <1>9, <1>10, <1>11, <1>12 DEF Calls


\* While an outcome of the session is delivered, it is the only excuse.
LEMMA OnlyExcuse ==
  ASSUME TypeInv, BusyInv, Looping, NEW j \in JobIds, Mine(j), Unreported(j), NEW r, Excused(r)
  PROVE  r = j /\ DueEvent(r)
<1>1. ~DueRest(r) /\ ~Settled
  BY DEF Looping, Dialogs, DueRest, Settled
<1>2. DueEvent(r) /\ r \in JobIds /\ Mine(r)
  BY <1>1 DEF Excused
<1>3. Open(r) /\ Open(j)
  BY <1>2 DEF DueEvent, Decisive, Open, Unreported, Queued
<1> QED
  BY <1>2, <1>3, OneAtWork

\* An outcome that nobody waits for is no excuse.
LEMMA DiscardedPlans ==
  ASSUME CoreInv, BusyInv, Looping, events # <<>>, Received, Continues, JobStep,
         Head(events).signal # "finished", UNCHANGED <<session, pending, stack, remote>>,
         NEW j, j = Head(events).job,
         ~(Recorded(j) /\ Current(j) /\ session.busy = jobs[j].op)
  PROVE  PlanStep
<1>1. TypeInv
  BY DEF CoreInv
<1>2. Queued(j, Head(events).signal) /\ Head(events).signal \in Signals
  BY <1>1, ReceivedFacts
<1>3. ASSUME NEW r, Excused(r) PROVE Excused(r)'
  <2>1. r # j
    <3>1. SUFFICES ASSUME r = j PROVE FALSE
      OBVIOUS
    <3>2. Open(r)
      BY <1>2, <3>1 DEF Open, Unreported, Signals
    <3>3. r \in records /\ Current(r)
      BY <1>3, <3>2 DEF Excused, BusyInv, RecordedWork, Mine
    <3>4. jobs[r].op = session.busy
      BY <3>3 DEF BusyInv, BusyRecords
    <3> QED
      BY <3>1, <3>3, <3>4 DEF Recorded
  <2>2. DueEvent(r) => DueEvent(r)'
    BY <1>1, <2>1, DueDelivered DEF EventsKeep
  <2>3. Drops /\ \A k \in JobIds' : k \notin JobIds => ~IsPublic(k)'
    BY DEF Drops, Continues
  <2> QED
    BY <1>1, <1>3, <2>2, <2>3, ExcuseStays
<1> QED
  BY <1>3 DEF PlanStep, Untouched

\* A success that is delivered brings a newer snapshot, makes it stale, or changes nothing.
LEMMA SucceededPlans ==
  ASSUME CoreInv, AgreeInv, Newest, ChangedByMutation, OnSucceeded
  PROVE  PlanStep
<1>1. TypeInv /\ BusyInv /\ OrderInv /\ Looping /\ session \in SessionType
  BY SessionParts DEF CoreInv, AgreeInv, OnSucceeded
<1>2. PICK j \in JobIds : j = Head(events).job
  BY <1>1, SucceededCases
<1>3. /\ events # <<>> /\ Head(events).signal = "succeeded" /\ Received
      /\ Queued(j, "succeeded") /\ UNCHANGED <<pending, remote>>
      /\ \/ ~(Recorded(j) /\ Current(j) /\ session.busy = jobs[j].op) /\ DiscardSucceeded(j)
         \/ Current(j) /\ jobs[j].op \in Mutations /\ MutationSucceeded(j, Head(events).result)
         \/ /\ Current(j) /\ jobs[j].op \notin Mutations
            /\ session' = IF IsConnection(j)
                          THEN [session EXCEPT !.manager = j, !.attempt = None,
                                  !.snapshot = Snapshot(j), !.status = "connected"]
                          ELSE IF jobs[j].op = "refresh"
                          THEN [session EXCEPT !.snapshot = Snapshot(j)]
                          ELSE session
  BY <1>1, <1>2, SucceededCases
<1>4. Unreported(j) /\ IsPublic(j)
  BY <1>1, <1>3 DEF Unreported, OrderInv, Queued
<1>5. ASSUME Current(j), session'.snapshot = Snapshot(j) PROVE PlanStep
  <2>1. remote <= j
    BY <1>4, <1>5 DEF Newest, Mine
  <2>2. session'.snapshot.job = j /\ j \in Nat /\ remote \in Nat
    BY <1>1, <1>5, SessionParts DEF Snapshot, TypeInv
  <2>3. session'.snapshot.job >= remote
    BY <2>1, <2>2
  <2> QED
    BY <1>3, <2>3 DEF PlanStep, Refreshed
<1>6. CASE ~(Recorded(j) /\ Current(j) /\ session.busy = jobs[j].op) /\ DiscardSucceeded(j)
  <2>1. UNCHANGED <<session, stack>>
    BY <1>6 DEF DiscardSucceeded
  <2>2. Continues /\ JobStep
    BY OutcomesContinue
  <2> QED
    BY <1>1, <1>2, <1>3, <1>6, <2>1, <2>2, DiscardedPlans
<1>7. CASE Current(j) /\ MutationSucceeded(j, Head(events).result)
  <2>1. session'.snapshot = Snapshot(j) \/ session'.snapshot = Staled(session.snapshot)
    BY <1>1, <1>7 DEF MutationSucceeded, SessionType
  <2>2. CASE session'.snapshot = Staled(session.snapshot)
    <3>1. session'.snapshot = None \/ session'.snapshot.stale
      BY <1>1, <2>2 DEF Staled, SessionType
    <3> QED
      BY <1>3, <3>1 DEF PlanStep, Refreshed
  <2> QED
    BY <1>5, <1>7, <2>1, <2>2
<1>8. CASE Current(j) /\ session' = [session EXCEPT !.manager = j, !.attempt = None,
                                       !.snapshot = Snapshot(j), !.status = "connected"]
  <2>1. session'.snapshot = Snapshot(j)
    BY <1>1, <1>8 DEF SessionType
  <2> QED
    BY <1>5, <1>8, <2>1
<1>9. CASE Current(j) /\ session' = [session EXCEPT !.snapshot = Snapshot(j)]
  <2>1. session'.snapshot = Snapshot(j)
    BY <1>1, <1>9 DEF SessionType
  <2> QED
    BY <1>5, <1>9, <2>1
<1>10. CASE Current(j) /\ jobs[j].op \notin Mutations /\ session' = session
  <2>1. ASSUME NEW r, r = remote, Excused(r) PROVE FALSE
    <3>1. r = j
      BY <1>1, <1>4, <1>10, <2>1, OnlyExcuse DEF Mine
    <3>2. remote # 0
      BY <1>1, <2>1, SessionParts DEF Excused
    <3>3. jobs[remote].op \in Mutations
      BY <3>2 DEF ChangedByMutation
    <3> QED
      BY <1>10, <2>1, <3>1, <3>3
  <2> QED
    BY <1>3, <1>10, <2>1 DEF PlanStep, Untouched
<1> QED
  BY <1>3, <1>6, <1>7, <1>8, <1>9, <1>10

\* A change that failed on the way makes the session one in error, ...
LEMMA FailedSettles ==
  ASSUME TypeInv, NEW j, NEW result \in {"transport", "remote_error"}, NEW rest,
         ApplyFailure(j, result, rest)
  PROVE  session'.status = "error" /\ Drops
<1>1. session \in SessionType /\ pending \in DecisionsType
  BY SessionParts
<1>2. PICK s, p : session' = [session EXCEPT !.sudo = s, !.status = "error"]
                  /\ pending' = [pending EXCEPT !.key = pending.key, !.sudo = p]
                  /\ p = pending.sudo
  BY <1>1, Zenon DEF ApplyFailure
<1> QED
  BY <1>1, <1>2 DEF SessionType, DecisionsType, Drops

\* ... and one that failed after it makes the snapshot stale next.
LEMMA FailedRest ==
  ASSUME NEW j, NEW rest \in Seq(FrameType), ApplyFailure(j, "post", rest),
         Frame("rest_of_apply_failure", j, "post") \in FrameType
  PROVE  DueRest(j)'
<1>1. PICK f \in FrameType : f = Frame("rest_of_apply_failure", j, "post")
  OBVIOUS
<1>2. stack' = <<>> \o <<Frame("rest_of_apply_failure", j, "post")>> \o rest
  BY DEF ApplyFailure
<1>3. PICK q \in Seq(FrameType) : q = <<f>>
  <2>1. <<f>> \in Seq(FrameType)
    OBVIOUS
  <2> QED
    BY <2>1
<1>4. stack' = q \o rest
  BY <1>1, <1>2, <1>3
<1>5. stack' # <<>> /\ Head(stack') = f
  BY <1>3, <1>4
<1>6. f.fn = "rest_of_apply_failure" /\ f.job = j /\ f.result = "post"
  BY <1>1 DEF Frame
<1> QED
  BY <1>5, <1>6 DEF DueRest


\* A failure that is delivered is followed by what makes the snapshot stale, or by an error.
LEMMA FailedPlans ==
  ASSUME CoreInv, AgreeInv, OnFailed
  PROVE  PlanStep
<1>1. /\ TypeInv /\ TopicInv /\ BusyInv /\ DecisionInv /\ OrderInv /\ Looping
      /\ session \in SessionType /\ events \in Seq(EventType)
  BY SessionParts DEF CoreInv, AgreeInv, OnFailed, TypeInv
<1>2. PICK j \in JobIds, result \in Results : j = Head(events).job /\ result = Head(events).result
  BY <1>1, FailedCases
<1>3. /\ events # <<>> /\ Head(events).signal = "failed" /\ Received
      /\ Queued(j, "failed") /\ UNCHANGED <<records, logicals, jobs, line, step, tokens, remote>>
      /\ \/ UNCHANGED <<session, pending, stack>>
         \/ /\ Current(j) /\ session.busy = jobs[j].op /\ IsPublic(j)
            /\ ApplyFailure(j, result, <<Frame("emit_failed", j, result)>> \o stack)
  BY <1>1, <1>2, FailedCases
<1>4. Continues /\ JobStep
  BY OutcomesContinue
<1>5. CASE Recorded(j) /\ Current(j) /\ session.busy = jobs[j].op /\ IsPublic(j)
           /\ ApplyFailure(j, result, <<Frame("emit_failed", j, result)>> \o stack)
  <2>1. Mine(j) /\ Unreported(j)
    BY <1>3, <1>5 DEF Mine, Unreported
  <2>2. PICK sudo \in BOOLEAN : \E status \in Statuses : FailedSession(j, result, sudo, status)
    BY <1>1, <1>5, FailureFacts
  <2>3. PICK status \in Statuses : FailedSession(j, result, sudo, status)
    BY <2>2
  <2>4. /\ session'.generation = session.generation /\ session'.present = session.present
        /\ session'.snapshot = session.snapshot
    BY <1>1, <2>3, FailedParts
  <2>5. ASSUME NEW r, Excused(r) PROVE Excused(r)'
    <3>1. r = j /\ DueEvent(r)
      BY <1>1, <2>1, <2>5, OnlyExcuse
    <3>2. result \in Unsure
      <4>1. PICK i \in 1 .. Len(events) : events[i].job = j /\ Decisive(events[i])
        BY <3>1 DEF DueEvent
      <4>2. events[1].job = j /\ events[1] = Head(events) /\ Len(events) \in Nat
        BY <1>1, <1>2, <1>3, HasTail
      <4>3. i = 1
        <5>1. SUFFICES ASSUME 1 < i PROVE FALSE
          BY <4>1, <4>2
        <5>2. 1 \in 1 .. Len(events)
          BY <4>1, <4>2
        <5>3. events[i].signal = "finished"
          BY <1>1, <4>1, <4>2, <5>1, <5>2 DEF OrderInv, Paired
        <5> QED
          BY <4>1, <5>3 DEF Decisive
      <4> QED
        BY <1>2, <1>3, <4>1, <4>2, <4>3 DEF Decisive
    <3>3. j \in JobIds' /\ Mine(j)'
      BY <1>1, <1>4, <2>1, <2>4, Growth DEF Mine, Current
    <3>4. CASE result \in {"transport", "remote_error"}
      <4>1. session'.status = "error" /\ Drops
        BY <1>1, <1>5, <3>4, FailedSettles
      <4>2. NoneWaits
        BY <1>1, <2>1, NothingAsked
      <4>3. NoneWaits'
        BY <2>4, <4>1, <4>2 DEF NoneWaits, Waiting, Drops, OfSession
      <4>4. \A k \in JobIds : Mine(k) => ~Unreported(k)'
        <5>1. \A k \in JobIds : InLine(k)' => InLine(k)
          BY <1>3 DEF InLine
        <5> QED
          BY <1>1, <1>2, <1>3, <2>1, <5>1, OneOutcome
      <4>5. \A k \in JobIds' : Mine(k)' => k \in JobIds /\ Mine(k)
        BY <1>3, <2>4 DEF JobIds, Mine, Current, IsPublic
      <4>6. Settled'
        BY <4>1, <4>3, <4>4, <4>5 DEF Settled
      <4> QED
        BY <3>1, <3>3, <4>6 DEF Excused
    <3>5. CASE result = "post"
      <4>1. stack \in Seq(FrameType)
        BY DEF CoreInv, StackInv
      <4>2. /\ Frame("rest_of_apply_failure", j, "post") \in FrameType
            /\ Frame("emit_failed", j, "post") \in FrameType
        BY <1>1, <1>2, <3>5, SessionParts DEF Frame, FrameType
      <4>3. PICK rest \in Seq(FrameType) : rest = <<Frame("emit_failed", j, "post")>> \o stack
        <5>1. <<Frame("emit_failed", j, "post")>> \o stack \in Seq(FrameType)
          BY <4>1, <4>2
        <5> QED
          BY <5>1
      <4>4. ApplyFailure(j, "post", rest)
        BY <1>5, <3>5, <4>3
      <4>5. DueRest(j)'
        BY <4>2, <4>4, FailedRest
      <4> QED
        BY <3>1, <3>3, <4>5 DEF Excused
    <3> QED
      BY <3>2, <3>4, <3>5 DEF Unsure
  <2> QED
    BY <1>3, <2>4, <2>5 DEF PlanStep, Untouched
<1>6. CASE ~(Recorded(j) /\ Current(j) /\ session.busy = jobs[j].op)
  <2>1. UNCHANGED <<session, pending, stack>>
    BY <1>2, <1>6, FailedCases, <1>1
  <2> QED
    BY <1>1, <1>2, <1>3, <1>4, <1>6, <2>1, DiscardedPlans
<1>7. CASE Recorded(j) /\ Current(j) /\ session.busy = jobs[j].op
  <2>1. IsPublic(j)
    BY <1>1, <1>3 DEF OrderInv, Queued
  <2> QED
    BY <1>1, <1>2, <1>3, <1>5, <1>7, <2>1 DEF OnFailed
<1> QED
  BY <1>6, <1>7


\* The rest of a failure makes the snapshot stale where it must.
LEMMA RestPlans ==
  ASSUME CoreInv, ChangedByMutation, RestOfApplyFailure
  PROVE  PlanStep
<1>1. TypeInv /\ session \in SessionType
  BY SessionParts DEF CoreInv
<1>2. /\ UNCHANGED <<pending, events, remote>> /\ Head(stack).fn = "rest_of_apply_failure"
      /\ \E attempt \in {session.attempt, None},
            snapshot \in {session.snapshot, Staled(session.snapshot)},
            manager \in {session.manager, None}, sudo \in BOOLEAN :
           session' = [session EXCEPT !.attempt = attempt, !.snapshot = snapshot,
                                      !.manager = manager, !.sudo = sudo]
  BY <1>1, RestFacts
<1>3. /\ session'.generation = session.generation /\ session'.present = session.present
      /\ session'.snapshot \in {session.snapshot, Staled(session.snapshot)}
      /\ session'.status = session.status
  BY <1>1, <1>2 DEF SessionType
<1>4. Continues /\ JobStep
  BY OutcomesContinue
<1>5. CASE session'.snapshot = Staled(session.snapshot)
  <2>1. session'.snapshot = None \/ session'.snapshot.stale
    BY <1>1, <1>5 DEF Staled, SessionType
  <2> QED
    BY <1>2, <2>1 DEF PlanStep, Refreshed
<1>6. CASE session'.snapshot # Staled(session.snapshot)
  <2>1. ASSUME NEW r, r = remote, Excused(r) PROVE Excused(r)'
    <3>1. ASSUME DueRest(r) PROVE FALSE
      <4>1. jobs[r].op \in Mutations
        <5>1. r # 0
          BY <1>1, <2>1, SessionParts DEF Excused
        <5> QED
          BY <2>1, <5>1 DEF ChangedByMutation
      <4>2. Head(stack).job = r /\ Head(stack).result = "post"
        BY <3>1 DEF DueRest
      <4>3. PICK attempt, manager, sudo :
              session' = [session EXCEPT !.attempt = attempt, !.snapshot = Staled(@),
                                         !.manager = manager, !.sudo = sudo]
        BY <4>1, <4>2 DEF RestOfApplyFailure
      <4>4. session'.snapshot = Staled(session.snapshot)
        BY <1>1, <4>3 DEF SessionType
      <4> QED
        BY <1>6, <4>4
    <3>2. DueEvent(r) => DueEvent(r)'
      BY <1>2 DEF DueEvent, Decisive
    <3>3. Drops /\ \A k \in JobIds' : k \notin JobIds => ~IsPublic(k)'
      BY <1>2, <1>4 DEF Drops, Continues
    <3> QED
      BY <1>1, <1>3, <1>4, <2>1, <3>1, <3>2, <3>3, ExcuseStays
  <2> QED
    BY <1>2, <1>3, <1>6, <2>1 DEF PlanStep, Untouched
<1> QED
  BY <1>5, <1>6

\* While a question of the session waits, nothing else is owed.
LEMMA AskedIsNoExcuse ==
  ASSUME TypeInv, DecisionInv, NEW key \in Waiting(pending), key # None, OfSession(key),
         NEW r, Excused(r)
  PROVE  DueRest(r)
<1>1. \A j \in JobIds : Mine(j) => ~Unreported(j)
  BY DEF DecisionInv, KeyDecision, SudoDecisions, Undecided, Waiting
<1>2. ~Settled
  BY DEF Settled, NoneWaits
<1>3. DueEvent(r) => Unreported(r)
  BY DEF DueEvent, Decisive, Unreported, Queued
<1> QED
  BY <1>1, <1>2, <1>3 DEF Excused

\* A retry starts from what the session shows, or from nothing.
LEMMA RetryPlans ==
  ASSUME NEW s \in SessionType, NEW p, NEW r, NEW l, NEW key, Retries(s, p, r, l, key),
         s.present = session.present, s.snapshot = session.snapshot, remote' = remote,
         \A x : x = remote => ~Excused(x)
  PROVE  PlanStep
<1>1. CASE NoRetry(s, p, r, l)
  <2>1. session' = s
    BY <1>1 DEF NoRetry
  <2> QED
    BY <2>1 DEF PlanStep, Untouched
<1>2. ASSUME NEW with_sudo, Restart(s, p, r, key, with_sudo) PROVE PlanStep
  <2>1. session'.snapshot = None
    BY <1>2 DEF Restart, SessionType
  <2> QED
    BY <2>1 DEF PlanStep, Refreshed
<1>3. CASE Relaunch(s, p, r, l, key)
  <2>1. session'.snapshot = s.snapshot /\ session'.present = s.present
    BY <1>3 DEF Relaunch, SessionType
  <2> QED
    BY <2>1 DEF PlanStep, Untouched
<1> QED
  BY <1>1, <1>2, <1>3 DEF Retries

\* An answer comes when no outcome of the session is owed.
LEMMA AnswerPlans ==
  ASSUME CoreInv, AgreeInv, ConfirmHostKey \/ AcceptSudo \/ HostKeyStoreFails
  PROVE  PlanStep
<1>1. /\ TypeInv /\ TopicInv /\ DecisionInv /\ session \in SessionType
  BY SessionParts DEF CoreInv, AgreeInv
<1>2. ASSUME NEW key \in Keys, key \in {pending.key, pending.sudo}, OfSession(key),
             CanAnswer("host_key", pending.key) \/ CanAnswer("sudo", pending.sudo)
      PROVE  \A x : x = remote => ~Excused(x)
  <2>1. key \in Waiting(pending) /\ key # None
    BY <1>2, NoneIsNoKey DEF Waiting
  <2>2. \A x : ~DueRest(x)
    BY <1>2 DEF CanAnswer, DueRest
  <2> QED
    BY <1>1, <1>2, <2>1, <2>2, AskedIsNoExcuse
<1>3. CASE ConfirmHostKey \/ AcceptSudo
  <2>1. PICK key \in Keys, s \in SessionType, p \in DecisionsType : Answering(key, s, p)
    BY <1>1, <1>3, AnswerCases
  <2>2. /\ key \in {pending.key, pending.sudo} /\ OfSession(key) /\ remote' = remote
        /\ CanAnswer("host_key", pending.key) \/ CanAnswer("sudo", pending.sudo)
        /\ s = session \/ s = [session EXCEPT !.sudo = TRUE]
    BY <2>1 DEF Answering, OfSession
  <2>3. s.present = session.present /\ s.snapshot = session.snapshot
    BY <1>1, <2>2 DEF SessionType
  <2>4. \A x : x = remote => ~Excused(x)
    BY <1>2, <2>2
  <2>5. \/ NoRetry(s, [p EXCEPT !.trusted = @ \cup {key}], records, logicals)
        \/ NoRetry(s, [p EXCEPT !.accepted = @ \cup {key}], records, logicals)
        \/ key.op \in ConnectionOps /\ TrustedRetry(s, p, records, logicals, key)
        \/ SudoRetry(s, p, records, logicals, key)
    BY <2>1 DEF Answering
  <2>6. ASSUME NEW q, NoRetry(s, q, records, logicals) PROVE PlanStep
    BY <2>2, <2>3, <2>4, <2>6, RetryPlans DEF Retries
  <2>7. CASE Retries(s, p, records, logicals, key)
    BY <2>2, <2>3, <2>4, <2>7, RetryPlans
  <2> QED
    BY <2>5, <2>6, <2>7, RetryCases
<1>4. CASE HostKeyStoreFails
  <2>1. PICK j \in JobIds :
          /\ IsPublic(j) /\ Current(j) /\ pending.key # None
          /\ KeyOf(j) = pending.key /\ CanAnswer("host_key", pending.key)
          /\ ApplyFailure(j, "store_error", Answered) /\ UNCHANGED remote
    BY <1>1, <1>4, StoreFailsCases
  <2>2. "store_error" \in Results
    BY DEF Results
  <2>3. PICK sudo \in BOOLEAN : \E status \in Statuses : FailedSession(j, "store_error", sudo, status)
    BY <1>1, <2>1, <2>2, FailureFacts
  <2>4. PICK status \in Statuses : FailedSession(j, "store_error", sudo, status)
    BY <2>3
  <2>5. session'.snapshot = session.snapshot /\ session'.present = session.present
    BY <1>1, <2>4, FailedParts
  <2>6. pending.key \in Keys /\ OfSession(pending.key)
    BY <1>1, <2>1, SessionParts DEF DecisionsType, KeyOf, Key, OfSession, Current
  <2>7. \A x : x = remote => ~Excused(x)
    BY <1>2, <2>1, <2>6
  <2> QED
    BY <2>1, <2>5, <2>7 DEF PlanStep, Untouched
<1> QED
  BY <1>3, <1>4


\* The end of a job, and the retry that starts with it, owe the session what was owed.
LEMMA FinishedPlans ==
  ASSUME CoreInv, AgreeInv, OnFinished
  PROVE  PlanStep
<1>1. /\ TypeInv /\ TopicInv /\ DecisionInv /\ session \in SessionType /\ pending \in DecisionsType
      /\ Looping /\ JobStep
  BY SessionParts, JobSteps DEF CoreInv, AgreeInv, OnFinished, Next, Handlers
<1>2. PICK j \in JobIds : j = Head(events).job
  BY <1>1, FinishedCases
<1>3. PICK s, key, r :
        /\ s \in SessionType
        /\ key = KeyOf(j)
        /\ s = IF Current(j) /\ session.busy = key.op THEN [session EXCEPT !.busy = None] ELSE session
        /\ r = {k \in records : KeyOf(k) # key}
  BY <1>1, <1>2, FinishedCases
<1>4. /\ events # <<>> /\ Head(events).signal = "finished" /\ Received
      /\ UNCHANGED <<stack, remote>>
      /\ \E p \in DecisionsType, l \in Seq(LogicalType) :
           /\ p.key = pending.key /\ p.sudo = pending.sudo
           /\ p.accepted = pending.accepted \ {key}
           /\ \/ NoRetry(s, p, r, l)
              \/ key \in Keys /\ TrustedRetry(s, p, r, l, key)
              \/ key \in Keys /\ key \in pending.accepted /\ SudoRetry(s, p, r, l, key)
  BY <1>1, <1>2, <1>3, FinishedCases
<1>5. PICK p \in DecisionsType, l \in Seq(LogicalType) :
        /\ p.key = pending.key /\ p.sudo = pending.sudo
        /\ p.accepted = pending.accepted \ {key}
        /\ \/ NoRetry(s, p, r, l)
           \/ key \in Keys /\ TrustedRetry(s, p, r, l, key)
           \/ key \in Keys /\ key \in pending.accepted /\ SudoRetry(s, p, r, l, key)
  BY <1>4
<1>6. /\ s.generation = session.generation /\ s.present = session.present
      /\ s.status = session.status /\ s.snapshot = session.snapshot
  BY <1>1, <1>3 DEF SessionType
<1>7. CASE NoRetry(s, p, r, l)
  <2>1. session' = s /\ pending' = p /\ UNCHANGED jobs
    BY <1>7 DEF NoRetry
  <2>2. Drops /\ \A k \in JobIds' : k \notin JobIds => ~IsPublic(k)'
    BY <1>5, <2>1 DEF Drops, JobIds
  <2>3. ASSUME NEW x, Excused(x) PROVE Excused(x)'
    <3>1. DueEvent(x) => DueEvent(x)'
      BY <1>1, <1>4, DueDelivered DEF EventsKeep
    <3> QED
      BY <1>1, <1>4, <1>6, <2>1, <2>2, <2>3, <3>1, ExcuseStays
  <2> QED
    BY <1>4, <1>6, <2>1, <2>3 DEF PlanStep, Untouched
<1>8. ASSUME NEW with_sudo, Restart(s, p, r, key, with_sudo) PROVE PlanStep
  <2>1. session'.snapshot = None
    BY <1>8 DEF Restart, SessionType
  <2> QED
    BY <1>4, <2>1 DEF PlanStep, Refreshed
<1>9. ASSUME key \in Keys, key \in pending.accepted, OfSession(key), Relaunch(s, p, r, l, key)
      PROVE  PlanStep
  <2>1. session'.snapshot = s.snapshot /\ session'.present = s.present
    BY <1>9 DEF Relaunch, SessionType
  <2>2. key \in Waiting(pending) /\ key # None
    BY <1>9, NoneIsNoKey DEF Waiting
  <2>3. \A x : ~DueRest(x)
    BY <1>1 DEF Looping, Dialogs, DueRest
  <2>4. \A x : ~Excused(x)
    BY <1>1, <1>9, <2>2, <2>3, AskedIsNoExcuse
  <2> QED
    BY <1>4, <1>6, <2>1, <2>4 DEF PlanStep, Untouched
<1>10. CASE TrustedRetry(s, p, r, l, key)
  BY <1>7, <1>8, <1>10 DEF TrustedRetry
<1>11. CASE key \in Keys /\ key \in pending.accepted /\ SudoRetry(s, p, r, l, key)
  <2>1. CASE ~SudoRetryAllowed(s, l, key)
    BY <1>7, <1>11, <2>1 DEF SudoRetry
  <2>2. CASE SudoRetryAllowed(s, l, key) /\ key.op \in ConnectionOps
    BY <1>8, <1>11, <2>2 DEF SudoRetry
  <2>3. CASE SudoRetryAllowed(s, l, key) /\ key.op \notin ConnectionOps
    <3>1. OfSession(key)
      BY <1>6, <2>3 DEF SudoRetryAllowed, OfSession
    <3> QED
      BY <1>9, <1>11, <2>3, <3>1 DEF SudoRetry
  <2> QED
    BY <2>1, <2>2, <2>3
<1> QED
  BY <1>5, <1>7, <1>10, <1>11

\* A session that was shut down is owed nothing.
LEMMA ReturnPlans ==
  ASSUME BusyInv, ShutdownReturns
  PROVE  PlanStep
<1>1. \A j \in JobIds : ~Mine(j)
  BY DEF ShutdownReturns, BusyInv, GoneSession
<1> QED
  BY <1>1 DEF ShutdownReturns, PlanStep, Untouched, Excused

\* Every step leaves a snapshot that is current, stale or excused.
LEMMA FreshKept ==
  ASSUME Inv, PlanInv, [Next]_vars
  PROVE  FreshIsCurrent'
<1>1. CoreInv /\ AgreeInv /\ BusyInv /\ OldGenerations /\ SnapshotOfThisSession
  BY DEF Inv, AgreeInv, BusyInv
<1>2. FreshIsCurrent /\ Ordered /\ Newest /\ ChangedByMutation
  BY DEF PlanInv
<1>3. CASE Work
  <2>1. CASE remote' = remote
    <3>1. PlanStep
      BY <1>1, <1>3, <2>1, WorkPlans
    <3> QED
      BY <1>2, <3>1, PlanKept
  <2>2. CASE remote' # remote
    <3>1. PICK k \in JobIds : FinishMutation(k) /\ remote' = k
      BY <2>2, RemoteSteps
    <3> QED
      BY <1>1, <1>2, <2>2, <3>1, ChangePlans
  <2> QED
    BY <2>1, <2>2
<1>4. CASE Calls
  BY <1>1, <1>2, <1>4, CallPlans, PlanKept
<1>5. CASE OnSucceeded
  BY <1>1, <1>2, <1>5, SucceededPlans, PlanKept
<1>6. CASE OnFailed
  BY <1>1, <1>2, <1>6, FailedPlans, PlanKept
<1>7. CASE RestOfApplyFailure
  BY <1>1, <1>2, <1>7, RestPlans, PlanKept
<1>8. CASE OnFinished
  BY <1>1, <1>2, <1>8, FinishedPlans, PlanKept
<1>9. CASE ConfirmHostKey \/ AcceptSudo \/ HostKeyStoreFails
  BY <1>1, <1>2, <1>9, AnswerPlans, PlanKept
<1>10. CASE ShutdownReturns
  BY <1>1, <1>2, <1>10, ReturnPlans, PlanKept
<1>11. CASE EmitSucceeded \/ EmitFailed \/ DeclineHostKey \/ DeclineSudo \/ DismissError
            \/ UNCHANGED vars
  BY <1>1, <1>2, <1>11, QuietPlans, PlanKept
<1> QED
  BY <1>3, <1>4, <1>5, <1>6, <1>7, <1>8, <1>9, <1>10, <1>11 DEF Next, Handlers, Answers

\* At first nothing is shown, and nothing was changed.
LEMMA PlanInvInitially ==
  ASSUME Init
  PROVE  PlanInv
<1>1. JobIds = {} /\ remote = 0 /\ session.snapshot = None
  BY DEF Init, JobIds, NewSession
<1> QED
  BY <1>1 DEF PlanInv, FreshIsCurrent, Ordered, Newest, ChangedByMutation

\* Every step keeps the four parts of the invariant.
LEMMA PlanInvKept ==
  ASSUME Inv, PlanInv, [Next]_vars
  PROVE  PlanInv'
<1>1. /\ CoreInv /\ TypeInv /\ TopicInv /\ BusyInv /\ OldGenerations
  BY DEF Inv, CoreInv, AgreeInv, BusyInv
<1>2. Ordered /\ Newest /\ ChangedByMutation
  BY DEF PlanInv
<1>3. CoreInv' /\ TypeInv'
  BY <1>1, CoreKept DEF CoreInv
<1>4. JobStep
  BY <1>1, JobSteps
<1>5. SessionStep
  BY <1>1, SessionSteps
<1>6. NewOfNow
  BY <1>1, StepsNow
<1>7. FreshIsCurrent'
  BY FreshKept
<1>8. Ordered'
  BY <1>1, <1>2, <1>3, <1>4, <1>5, <1>6, OrderedKept
<1>9. Newest'
  BY <1>1, <1>2, <1>3, <1>4, <1>5, NewestKept
<1>10. ChangedByMutation'
  BY <1>1, <1>2, <1>4, ChangedKept
<1> QED
  BY <1>7, <1>8, <1>9, <1>10 DEF PlanInv

\* Nothing is due when a change can be planned.
LEMMA PlansFollow ==
  ASSUME Inv, PlanInv
  PROVE  PlansAreCurrent
<1>1. TypeInv /\ BusyInv /\ FreshIsCurrent
  BY DEF Inv, CoreInv, AgreeInv, PlanInv
<1>2. SUFFICES ASSUME Plannable PROVE session.snapshot.job >= remote
  BY DEF PlansAreCurrent
<1>3. \A j \in JobIds : Mine(j) => ~Open(j)
  BY <1>1, <1>2, NoneOnRecord DEF Plannable
<1>4. \A r : DueEvent(r) => Open(r)
  BY DEF DueEvent, Decisive, Open, Unreported, Queued
<1>5. ~Settled /\ \A r : ~DueRest(r)
  BY <1>2 DEF Plannable, Settled, DueRest
<1>6. ~Excused(remote)
  BY <1>3, <1>4, <1>5 DEF Excused
<1> QED
  BY <1>1, <1>2, <1>6 DEF Plannable, FreshIsCurrent

\* A change can only be planned on a snapshot loaded after the last change this program may
\* have made, whatever is late, failed half-way or answered in a nested dialog.
THEOREM PlansAreCurrentAlways == Spec => []PlansAreCurrent
<1>1. Init => Inv /\ PlanInv
  BY InvInitially, PlanInvInitially
<1>2. Inv /\ PlanInv /\ [Next]_vars => Inv' /\ PlanInv'
  BY InvKept, PlanInvKept
<1>3. Inv /\ PlanInv => PlansAreCurrent
  BY PlansFollow
<1> QED
  BY <1>1, <1>2, <1>3, PTL DEF Spec

=============================================================================
