-------------------------- MODULE ServerSessionProofs --------------------------
(***************************************************************************)
(* The controller's session for any calls, with and without the window's   *)
(* dialogs, and for any number of them: its jobs, its decisions and its    *)
(* secrets.                                                                *)
(*                                                                         *)
(* A step is seen in two ways, each with its lemma for every action:       *)
(* JobStep, what it does to the jobs, the line and the events, and         *)
(* SessionStep, to the session's generation, snapshot and password.  The   *)
(* invariants are built on these:                                          *)
(*   CoreInv   types, topics and the order of the line and the events      *)
(*   AgreeInv  the session and its records, decisions and phases agree     *)
(*   CopiesInv the passwords in the line are the session's; it needs       *)
(*             BreakInv: when a connection is found broken, no job of the  *)
(*             session is in line                                          *)
(***************************************************************************)
EXTENDS ServerController, SequenceTheorems, FiniteSetTheorems, TLAPS

Signals  == {"succeeded", "failed", "finished"}
Statuses == {"disconnected", "connecting", "connected", "host_key_error", "error"}
JobOps   == Reads \cup Mutations \cup ConnectionOps \cup {"disconnect", "close"}
Results  == {"ok", "ok_rejected", "refresh_failed", "refresh_transport", "refresh_rejected",
             "command", "transport", "auth", "remote_error", "post", "changed_key",
             "unknown_key", "sudo_required", "sudo_rejected", "store_error", "cancelled"}

JobType == [op : JobOps, generation : Nat, sudo : BOOLEAN, closes : SUBSET Nat,
            logical : Nat, invalidated : BOOLEAN, finished : BOOLEAN, claimed : BOOLEAN,
            socket : {"unmade", "open", "closed", "twice"}]

LogicalType == [key : Keys, attempt : Nat, outcomes : Seq({"succeeded", "failed"}),
                error : {None} \cup Results, completed : BOOLEAN]

Connections == {j \in JobIds : IsConnection(j)}

SessionType ==
    [present : BOOLEAN, generation : Nat, status : Statuses,
     busy : {None, "disconnect"} \cup Reads \cup Mutations \cup ConnectionOps,
     manager : {None} \cup Connections, attempt : {None} \cup Connections, sudo : BOOLEAN,
     snapshot : {None} \cup [stale : BOOLEAN, job : JobIds]]

DecisionsType == [key : {None} \cup Keys, sudo : {None} \cup Keys,
                  trusted : SUBSET Keys, accepted : SUBSET Keys, retried : SUBSET Keys]

EventType == [job : JobIds, signal : Signals, result : Results]

TypeInv ==
    /\ session  \in SessionType
    /\ pending  \in DecisionsType
    /\ records  \in SUBSET {j \in JobIds : IsPublic(j)}
    /\ logicals \in Seq(LogicalType)
    /\ jobs     \in Seq(JobType)
    /\ line     \in Seq(JobIds)
    /\ step     \in {"waiting", "begun", "made"}
    /\ tokens   \in SUBSET Connections
    /\ events   \in Seq(EventType)
    /\ known    \in BOOLEAN
    /\ remote   \in {0} \cup JobIds
    /\ requests \in Nat
    /\ down     \in {"no", "draining", "clean", "incomplete"}

-----------------------------------------------------------------------------
(* Lines and queues.                                                        *)

Has(q, x) == \E i \in 1 .. Len(q) : q[i] = x

\* Job ids are the positions of `jobs`.
LEMMA JobIdsRange == ASSUME TypeInv PROVE JobIds = 1 .. Len(jobs) /\ Len(jobs) \in Nat
  BY DEF TypeInv, JobIds

\* What stands in a sequence after an append, behind the head, in front, together.
LEMMA HasAppend ==
  ASSUME NEW S, NEW q \in Seq(S), NEW x
  PROVE  /\ Len(Append(q, x)) = Len(q) + 1 /\ Len(q) \in Nat
         /\ Append(q, x)[Len(q) + 1] = x
         /\ \A i \in 1 .. Len(q) : Append(q, x)[i] = q[i]
         /\ \A y : Has(Append(q, x), y) <=> Has(q, y) \/ y = x
<1>1. Len(q) \in Nat
  OBVIOUS
<1>2. /\ Len(Append(q, x)) = Len(q) + 1
      /\ Append(q, x)[Len(q) + 1] = x
      /\ \A i \in 1 .. Len(q) : Append(q, x)[i] = q[i]
  <2>1. q \in Seq(S \cup {x}) /\ x \in S \cup {x}
    BY SeqMonotonic
  <2> QED
    BY <2>1, AppendProperties
<1>3. ASSUME NEW y, Has(q, y) \/ y = x PROVE Has(Append(q, x), y)
  <2>1. CASE Has(q, y)
    <3>1. PICK i \in 1 .. Len(q) : q[i] = y
      BY <2>1 DEF Has
    <3>2. i \in 1 .. Len(Append(q, x)) /\ Append(q, x)[i] = y
      BY <1>1, <1>2, <3>1
    <3> QED
      BY <3>2 DEF Has
  <2>2. CASE y = x
    <3>1. Len(q) + 1 \in 1 .. Len(Append(q, x)) /\ Append(q, x)[Len(q) + 1] = y
      BY <1>1, <1>2, <2>2
    <3> QED
      BY <3>1 DEF Has
  <2> QED
    BY <1>3, <2>1, <2>2
<1>4. ASSUME NEW y, Has(Append(q, x), y) PROVE Has(q, y) \/ y = x
  <2>1. PICK i \in 1 .. Len(q) + 1 : Append(q, x)[i] = y
    BY <1>2, <1>4 DEF Has
  <2>2. CASE i \in 1 .. Len(q)
    BY <1>2, <2>1, <2>2 DEF Has
  <2>3. CASE i = Len(q) + 1
    BY <1>2, <2>1, <2>3
  <2> QED
    BY <1>1, <2>2, <2>3
<1> QED
  BY <1>1, <1>2, <1>3, <1>4

\* What stands behind the head of a sequence.
LEMMA HasTail ==
  ASSUME NEW S, NEW q \in Seq(S), q # <<>>
  PROVE  /\ Head(q) = q[1] /\ Head(q) \in S /\ Tail(q) \in Seq(S)
         /\ Len(q) \in Nat \ {0} /\ Len(Tail(q)) = Len(q) - 1
         /\ \A i \in 1 .. Len(Tail(q)) : i + 1 \in 1 .. Len(q) /\ Tail(q)[i] = q[i + 1]
         /\ \A y : Has(q, y) <=> Has(Tail(q), y) \/ y = Head(q)
<1>1. /\ Head(q) = q[1] /\ Head(q) \in S /\ Tail(q) \in Seq(S)
      /\ Len(q) \in Nat \ {0} /\ Len(Tail(q)) = Len(q) - 1
      /\ \A i \in 1 .. Len(Tail(q)) : Tail(q)[i] = q[i + 1]
  BY HeadTailProperties, EmptySeq, ElementOfSeq
<1>2. \A i \in 1 .. Len(Tail(q)) : i + 1 \in 1 .. Len(q)
  BY <1>1
<1>3. ASSUME NEW y, Has(q, y) PROVE Has(Tail(q), y) \/ y = Head(q)
  <2>1. PICK i \in 1 .. Len(q) : q[i] = y
    BY <1>3 DEF Has
  <2>2. CASE i = 1
    BY <1>1, <2>1, <2>2
  <2>3. CASE i # 1
    <3>1. PICK k \in 1 .. Len(Tail(q)) : k + 1 = i
      <4>1. i - 1 \in 1 .. Len(Tail(q)) /\ (i - 1) + 1 = i
        BY <1>1, <2>3
      <4> QED
        BY <4>1
    <3> QED
      BY <1>1, <2>1, <3>1 DEF Has
  <2> QED
    BY <2>2, <2>3
<1>4. ASSUME NEW y, Has(Tail(q), y) \/ y = Head(q) PROVE Has(q, y)
  BY <1>1, <1>2, <1>4 DEF Has
<1> QED
  BY <1>1, <1>2, <1>3, <1>4

\* What stands in two sequences put together.
LEMMA HasConcat ==
  ASSUME NEW S, NEW q \in Seq(S), NEW r \in Seq(S)
  PROVE  /\ q \o r \in Seq(S) /\ Len(q) \in Nat /\ Len(r) \in Nat
         /\ Len(q \o r) = Len(q) + Len(r)
         /\ \A i \in 1 .. Len(q) : (q \o r)[i] = q[i]
         /\ \A i \in 1 .. Len(r) : (q \o r)[Len(q) + i] = r[i]
         /\ \A i \in 1 .. Len(q \o r) :
              i \in 1 .. Len(q) \/ (\E k \in 1 .. Len(r) : i = Len(q) + k)
         /\ \A y : Has(q \o r, y) <=> Has(q, y) \/ Has(r, y)
<1>1. /\ q \o r \in Seq(S) /\ Len(q) \in Nat /\ Len(r) \in Nat
      /\ Len(q \o r) = Len(q) + Len(r)
      /\ \A i \in 1 .. Len(q) + Len(r) :
           (q \o r)[i] = IF i <= Len(q) THEN q[i] ELSE r[i - Len(q)]
  BY ConcatProperties
<1>2. \A i \in 1 .. Len(q) : i \in 1 .. Len(q) + Len(r) /\ (q \o r)[i] = q[i]
  BY <1>1
<1>3. ASSUME NEW i \in 1 .. Len(r)
      PROVE  Len(q) + i \in 1 .. Len(q) + Len(r) /\ (q \o r)[Len(q) + i] = r[i]
  <2>1. Len(q) + i \in 1 .. Len(q) + Len(r) /\ ~(Len(q) + i <= Len(q)) /\ Len(q) + i - Len(q) = i
    BY <1>1
  <2> QED
    BY <1>1, <2>1
<1>4. ASSUME NEW i \in 1 .. Len(q) + Len(r)
      PROVE  i \in 1 .. Len(q) \/ (\E k \in 1 .. Len(r) : i = Len(q) + k)
  <2>1. CASE i \notin 1 .. Len(q)
    <3>1. i - Len(q) \in 1 .. Len(r) /\ i = Len(q) + (i - Len(q))
      BY <1>1, <2>1
    <3> QED
      BY <3>1
  <2> QED
    BY <2>1
<1>5. ASSUME NEW y, Has(q, y) \/ Has(r, y) PROVE Has(q \o r, y)
  BY <1>1, <1>2, <1>3, <1>5 DEF Has
<1>6. ASSUME NEW y, Has(q \o r, y) PROVE Has(q, y) \/ Has(r, y)
  BY <1>1, <1>2, <1>3, <1>4, <1>6 DEF Has
<1> QED
  BY <1>1, <1>2, <1>3, <1>4, <1>5, <1>6


-----------------------------------------------------------------------------
(* Submitting, cancelling and giving up.                                    *)

\* What is the same in every job from its submission on.
SameJobs(history) ==
    /\ history \in Seq(JobType) /\ Len(history) = Len(jobs)
    /\ \A j \in JobIds : /\ history[j].op = jobs[j].op
                         /\ history[j].generation = jobs[j].generation
                         /\ history[j].closes = jobs[j].closes
                         /\ history[j].sudo = jobs[j].sudo

\* Submitting adds one job, the highest, at the end of the line (_begin_job, _submit).
LEMMA EnqueueFacts ==
  ASSUME TypeInv, NEW job \in JobType, NEW history \in Seq(JobType),
         Len(history) = Len(jobs), NEW rest \in Seq(JobIds), Enqueue(job, history, rest)
  PROVE  /\ jobs' \in Seq(JobType) /\ JobIds' = JobIds \cup {NextJob}
         /\ NextJob \in Nat /\ NextJob \notin JobIds
         /\ \A j \in JobIds : jobs'[j] = history[j] /\ j < NextJob
         /\ jobs'[NextJob] = job
         /\ line' \in Seq(JobIds') /\ line' = Append(rest, NextJob)
         /\ \A j : InLine(j)' <=> Has(rest, j) \/ j = NextJob
         /\ step' \in {"waiting", "begun", "made"}
<1>1. /\ JobIds = 1 .. Len(jobs) /\ Len(jobs) \in Nat
      /\ jobs' = Append(history, job) /\ line' = Append(rest, NextJob)
  BY JobIdsRange DEF Enqueue
<1>2. /\ jobs' \in Seq(JobType) /\ Len(jobs') = Len(jobs) + 1
      /\ \A j \in JobIds : jobs'[j] = history[j]
      /\ jobs'[Len(jobs) + 1] = job
  BY <1>1, HasAppend, AppendProperties
<1>3. JobIds' = 1 .. Len(jobs) + 1
  BY <1>2 DEF JobIds
<1>4. NextJob = Len(jobs) + 1
  BY DEF NextJob
<1>5. line' \in Seq(JobIds')
  <2>1. rest \in Seq(JobIds') /\ NextJob \in JobIds'
    BY <1>1, <1>3, <1>4, SeqMonotonic
  <2> QED
    BY <1>1, <2>1, AppendProperties
<1>6. \A j : InLine(j)' <=> Has(rest, j) \/ j = NextJob
  BY <1>1, HasAppend DEF InLine, Has
<1>7. step' \in {"waiting", "begun", "made"}
  BY DEF Enqueue, TypeInv
<1> QED
  BY <1>1, <1>2, <1>3, <1>4, <1>5, <1>6, <1>7

\* What survives a cancellation is the head or nothing.
LEMMA SurvivorFacts ==
  ASSUME TypeInv, NEW kept \in Survivors
  PROVE  /\ kept \in Seq(JobIds)
         /\ \A i \in 1 .. Len(kept) : i = 1 /\ 1 \in 1 .. Len(line) /\ kept[i] = line[1]
         /\ \A j : Has(kept, j) => InLine(j)
         /\ Len(kept) \in {0, 1}
         /\ kept = <<>> => line = <<>> \/ step = "waiting"
         /\ kept # <<>> => line # <<>> /\ Head(kept) = Head(line)
<1>1. line \in Seq(JobIds)
  BY DEF TypeInv
<1>2. CASE kept = <<>>
  BY <1>2, EmptySeq DEF Survivors, Has
<1>3. CASE line # <<>> /\ kept = SubSeq(line, 1, 1)
  <2>1. Len(line) \in Nat \ {0} /\ line[1] \in JobIds /\ Head(line) = line[1]
    BY <1>1, <1>3, HasTail, ElementOfSeq
  <2>2. kept \in Seq(JobIds) /\ Len(kept) = 1 /\ kept[1] = line[1]
    <3>1. PICK n \in Nat : n = 1
      OBVIOUS
    <3>2. n \in Int /\ \A i \in n .. n : line[i] \in JobIds
      BY <2>1, <3>1
    <3>3. /\ SubSeq(line, n, n) \in Seq(JobIds)
          /\ Len(SubSeq(line, n, n)) = IF n <= n THEN n - n + 1 ELSE 0
          /\ \A i \in 1 .. n - n + 1 : SubSeq(line, n, n)[i] = line[n + i - 1]
      BY <3>2, SubSeqProperties
    <3>4. kept = SubSeq(line, n, n)
      BY <1>3, <3>1
    <3> HIDE DEF InLine
    <3>5. Len(kept) = 1 /\ kept[1] = line[n + 1 - 1]
      BY <3>1, <3>3, <3>4
    <3> QED
      BY <3>1, <3>3, <3>4, <3>5
  <2>3. kept \in Seq(JobIds) /\ Len(kept) = 1 /\ kept[1] = line[1] /\ Head(kept) = line[1]
    <3>1. kept # <<>>
      <4>1. Len(kept) # 0
        BY <2>2
      <4> QED
        BY <2>2, <4>1, EmptySeq
    <3> QED
      BY <2>2, <3>1, HeadTailProperties
  <2>4. \A j : Has(kept, j) => InLine(j)
    BY <2>1, <2>3 DEF Has, InLine
  <2> QED
    BY <1>3, <2>1, <2>3, <2>4
<1> QED
  BY <1>2, <1>3 DEF Survivors

\* The finish signals of the dropped jobs are of different jobs that were in line.
LEMMA NoticeFacts ==
  ASSUME TypeInv, NEW kept \in Survivors, NEW notices \in CancelNotices(kept)
  PROVE  /\ notices \in Seq(EventType)
         /\ \A i \in 1 .. Len(notices) :
              /\ notices[i].signal = "finished" /\ notices[i].result = "cancelled"
              /\ IsPublic(notices[i].job)
              /\ \E k \in Len(kept) + 1 .. Len(line) : line[k] = notices[i].job
         /\ \A i, k \in 1 .. Len(notices) : i < k => notices[i].job # notices[k].job
<1> DEFINE places  == {k \in Len(kept) + 1 .. Len(line) : IsPublic(line[k])}
           dropped == {line[i] : i \in places}
           n       == Cardinality(dropped)
<1>1. line \in Seq(JobIds) /\ Len(line) \in Nat /\ Len(kept) \in Nat
  BY SurvivorFacts DEF TypeInv
<1>2. IsFiniteSet(dropped)
  <2>1. JobIds = 1 .. Len(jobs) /\ Len(jobs) \in Nat
    BY JobIdsRange
  <2>2. dropped \in SUBSET JobIds
    <3>1. \A k \in places : k \in 1 .. Len(line)
      BY <1>1
    <3> QED
      BY <1>1, <3>1, ElementOfSeq
  <2>3. IsFiniteSet(1 .. Len(jobs))
    BY <2>1, FS_Interval
  <2> HIDE DEF dropped
  <2> QED
    BY <2>1, <2>2, <2>3, FS_Subset
<1>3. n \in Nat
  BY <1>2, FS_CardinalityType
<1>4. \A j \in dropped : j \in JobIds /\ j \in Nat /\ IsPublic(j)
                         /\ \E k \in Len(kept) + 1 .. Len(line) : line[k] = j
  BY <1>1, ElementOfSeq, JobIdsRange
<1>5. PICK order \in [1 .. n -> dropped] :
         /\ \A i, k \in 1 .. n : i < k => order[i] < order[k]
         /\ notices = [i \in 1 .. n |-> Event(order[i], "finished", "cancelled")]
  BY DEF CancelNotices
<1> HIDE DEF n, dropped
<1>6. \A i \in 1 .. n : notices[i] = [job |-> order[i], signal |-> "finished", result |-> "cancelled"]
                        /\ notices[i] \in EventType
  BY <1>4, <1>5 DEF Event, EventType, Signals, Results
<1>7. notices \in Seq(EventType) /\ Len(notices) = n
  <2>1. notices \in [1 .. n -> EventType]
    BY <1>5, <1>6
  <2> QED
    BY <1>3, <2>1
<1>8. \A i \in 1 .. n : order[i] \in dropped
  BY <1>5
<1>9. \A i, k \in 1 .. n : i < k => order[i] # order[k]
  BY <1>4, <1>5, <1>8
<1>11. \A i \in 1 .. n : IsPublic(order[i]) /\ \E k \in Len(kept) + 1 .. Len(line) : line[k] = order[i]
  BY <1>4, <1>8
<1>10. \A i \in 1 .. n : /\ notices[i].job = order[i] /\ notices[i].signal = "finished"
                        /\ notices[i].result = "cancelled"
  <2> SUFFICES ASSUME NEW i \in 1 .. n
               PROVE  /\ notices[i].job = order[i] /\ notices[i].signal = "finished"
                      /\ notices[i].result = "cancelled"
    OBVIOUS
  <2>1. notices[i] = [job |-> order[i], signal |-> "finished", result |-> "cancelled"]
    BY <1>6
  <2> QED
    BY <2>1
<1> QED
  BY <1>7, <1>9, <1>10, <1>11

\* Giving an attempt up changes no more than its mark and its claim.
LEMMA InvalidatedFacts ==
  ASSUME TypeInv, NEW a \in JobIds
  PROVE  /\ SameJobs(Invalidated(a))
         /\ \A j \in JobIds : /\ Invalidated(a)[j].socket = jobs[j].socket
                              /\ Invalidated(a)[j].finished = jobs[j].finished
                              /\ j # a => Invalidated(a)[j] = jobs[j]
         /\ Invalidated(a)[a].claimed = (jobs[a].claimed \/ Claimable(a))
         /\ Invalidated(a)[a].invalidated = TRUE
<1>1. JobIds = 1 .. Len(jobs) /\ Len(jobs) \in Nat /\ jobs \in Seq(JobType)
  BY JobIdsRange DEF TypeInv
<1>2. jobs[a] \in JobType /\ Claimable(a) \in BOOLEAN
  BY <1>1, ElementOfSeq DEF Claimable, JobType
<1> DEFINE new == [jobs[a] EXCEPT !.invalidated = TRUE, !.claimed = @ \/ Claimable(a)]
<1>3. /\ new \in JobType /\ new.op = jobs[a].op /\ new.generation = jobs[a].generation
      /\ new.closes = jobs[a].closes /\ new.sudo = jobs[a].sudo /\ new.socket = jobs[a].socket
      /\ new.finished = jobs[a].finished
      /\ new.claimed = (jobs[a].claimed \/ Claimable(a)) /\ new.invalidated = TRUE
  BY <1>2 DEF JobType
<1>4. Invalidated(a) = [jobs EXCEPT ![a] = new]
  BY <1>1, <1>2 DEF Invalidated
<1> HIDE DEF new
<1>5. /\ Invalidated(a) \in Seq(JobType) /\ Len(Invalidated(a)) = Len(jobs)
      /\ \A j \in JobIds : Invalidated(a)[j] = IF j = a THEN new ELSE jobs[j]
  BY <1>1, <1>3, <1>4, ExceptSeq
<1> QED
  BY <1>3, <1>5 DEF SameJobs

\* Giving up the attempt invalidates and claims the attempt's job and touches no other.
LEMMA GivenUpFacts ==
  ASSUME TypeInv
  PROVE  /\ SameJobs(JobsGivenUp)
         /\ \A j \in JobIds : /\ JobsGivenUp[j].socket = jobs[j].socket
                              /\ JobsGivenUp[j].finished = jobs[j].finished
                              /\ j # session.attempt => JobsGivenUp[j] = jobs[j]
                              /\ j = session.attempt =>
                                   /\ JobsGivenUp[j].invalidated
                                   /\ JobsGivenUp[j].claimed = (jobs[j].claimed \/ Claimable(j))
<1>1. CASE session.attempt = None
  <2>1. None \notin JobIds
    BY NoneAssumption, JobIdsRange
  <2> QED
    BY <1>1, <2>1 DEF JobsGivenUp, SameJobs, TypeInv
<1>2. CASE session.attempt # None
  <2>1. session.attempt \in JobIds
    BY <1>2 DEF TypeInv, SessionType, Connections
  <2> QED
    BY <1>2, <2>1, InvalidatedFacts DEF JobsGivenUp
<1> QED
  BY <1>1, <1>2

\* A new job has its type, and has not been invalidated, claimed, finished or connected.
LEMMA NewJobType ==
  ASSUME NEW op \in JobOps, NEW generation \in Nat, NEW sudo \in BOOLEAN,
         NEW closes \in SUBSET Nat, NEW logical \in Nat
  PROVE  /\ NewJob(op, generation, sudo, closes, logical) \in JobType
         /\ NewJob(op, generation, sudo, closes, logical).op = op
         /\ NewJob(op, generation, sudo, closes, logical).generation = generation
         /\ NewJob(op, generation, sudo, closes, logical).closes = closes
         /\ NewJob(op, generation, sudo, closes, logical).socket = "unmade"
         /\ NewJob(op, generation, sudo, closes, logical).claimed = FALSE
         /\ NewJob(op, generation, sudo, closes, logical).finished = FALSE
         /\ NewJob(op, generation, sudo, closes, logical).invalidated = FALSE
  BY DEF NewJob, JobType


-----------------------------------------------------------------------------
(* Types.                                                                   *)

\* More jobs, with the same operations, leave every type as large as it was.
LEMMA TypesGrow ==
  ASSUME TypeInv, JobIds \subseteq JobIds', \A j \in JobIds : jobs'[j].op = jobs[j].op
  PROVE  /\ SessionType \subseteq SessionType'
         /\ \A j \in JobIds : IsPublic(j)' = IsPublic(j) /\ IsConnection(j)' = IsConnection(j)
         /\ Seq(JobIds) \subseteq Seq(JobIds')
         /\ Seq(EventType) \subseteq Seq(EventType')
         /\ {0} \cup JobIds \subseteq {0} \cup JobIds'
         /\ records \in SUBSET {j \in JobIds' : IsPublic(j)'}
         /\ tokens \in SUBSET Connections' /\ Connections \subseteq Connections'
         /\ session \in SessionType' /\ events \in Seq(EventType') /\ remote \in {0} \cup JobIds'
         /\ line \in Seq(JobIds')
<1>2. \A j \in JobIds : IsPublic(j)' = IsPublic(j) /\ IsConnection(j)' = IsConnection(j)
  BY DEF IsPublic, IsConnection
<1>5. Connections \subseteq Connections'
  BY <1>2 DEF Connections
<1>1. SessionType \subseteq SessionType'
  BY <1>5 DEF SessionType
<1>3. Seq(JobIds) \subseteq Seq(JobIds')
  BY SeqMonotonic
<1>4. Seq(EventType) \subseteq Seq(EventType')
  <2>1. EventType \subseteq EventType'
    BY DEF EventType
  <2> QED
    BY <2>1, SeqMonotonic
<1> QED
  BY <1>1, <1>2, <1>3, <1>4, <1>5 DEF TypeInv

\* Decisions that are cleared or answered.
LEMMA ClearingTypes ==
  ASSUME TypeInv
  PROVE  NoDecisions \in DecisionsType /\ LogicalsCancelled \in Seq(LogicalType)
<1>1. NoDecisions \in DecisionsType
  BY DEF NoDecisions, DecisionsType
<1>2. ASSUME NEW i \in 1 .. Len(logicals)
      PROVE  [logicals[i] EXCEPT !.outcomes = Append(@, "failed"), !.completed = TRUE]
               \in LogicalType
  <2>1. logicals[i] \in LogicalType
    BY ElementOfSeq DEF TypeInv
  <2>2. Append(logicals[i].outcomes, "failed") \in Seq({"succeeded", "failed"})
    BY <2>1, AppendProperties DEF LogicalType
  <2> QED
    BY <2>1, <2>2 DEF LogicalType
<1>3. logicals \in Seq(LogicalType)
  BY DEF TypeInv
<1>4. PICK n \in Nat : n = Len(logicals)
  BY <1>3
<1>5. DOMAIN logicals = 1 .. n /\ \A i \in 1 .. n : logicals[i] \in LogicalType
  BY <1>3, <1>4, ElementOfSeq
<1>6. LogicalsCancelled \in [1 .. n -> LogicalType]
  BY <1>2, <1>4, <1>5 DEF LogicalsCancelled
<1> QED
  BY <1>1, <1>6

\* The open logical job of a key is one of the logical jobs, or 0.
LEMMA LogicalIds ==
  ASSUME NEW l \in Seq(LogicalType), NEW key
  PROVE  /\ OpenLogical(l, key) \in Nat
         /\ OpenLogical(l, key) # 0 => OpenLogical(l, key) \in 1 .. Len(l)
<1> DEFINE found == {i \in DOMAIN l : ~l[i].completed /\ l[i].key = key}
<1>1. found \subseteq 1 .. Len(l) /\ Len(l) \in Nat
  OBVIOUS
<1>2. CASE found = {}
  BY <1>2 DEF OpenLogical
<1>3. CASE found # {}
  <2>1. (CHOOSE i \in found : TRUE) \in found
    BY <1>3
  <2> QED
    BY <1>1, <1>3, <2>1 DEF OpenLogical
<1> QED
  BY <1>2, <1>3

\* The jobs a submission needs: which tokens there are to close.
LEMMA TokenTypes ==
  ASSUME TypeInv
  PROVE  /\ tokens \subseteq JobIds /\ JobIds \in SUBSET Nat
         /\ Connections \subseteq JobIds /\ tokens \subseteq Connections
         /\ TokensGivenUp \subseteq Connections /\ ClosingBatch = TokensGivenUp
         /\ session.manager # None => session.manager \in Connections
         /\ session.attempt # None => session.attempt \in Connections
         /\ None \notin JobIds
<1>1. /\ session.manager # None => session.manager \in Connections
      /\ session.attempt # None => session.attempt \in Connections
  BY DEF TypeInv, SessionType
<1>2. JobIds \in SUBSET Nat /\ Connections \subseteq JobIds /\ tokens \subseteq Connections
  BY JobIdsRange DEF TypeInv, Connections
<1>3. TokensGivenUp \subseteq Connections
  BY <1>1, <1>2 DEF TokensGivenUp
<1> QED
  BY <1>1, <1>2, <1>3, NoneAssumption DEF ClosingBatch


-----------------------------------------------------------------------------
(* What the steps are made of.                                              *)

\* cancel_pending, and then perhaps one more job.
Cancels(history, job, submits) ==
    \E kept \in Survivors :
      \E notices \in CancelNotices(kept) :
        /\ events' = events \o notices
        /\ IF submits THEN Enqueue(job, history, kept)
           ELSE /\ jobs' = history /\ line' = kept
                /\ step' = IF kept = <<>> THEN "waiting" ELSE step

\* Cancelling the session's jobs takes them out of the line and queues their finished
\* signals, and at most one job, the close or the reconnect, comes after them.
LEMMA CancelFacts ==
  ASSUME TypeInv, NEW history, SameJobs(history), NEW job \in JobType, NEW submits \in BOOLEAN,
         Cancels(history, job, submits)
  PROVE  /\ jobs' \in Seq(JobType)
         /\ JobIds' = IF submits THEN JobIds \cup {NextJob} ELSE JobIds
         /\ NextJob \in Nat /\ NextJob \notin JobIds
         /\ \A j \in JobIds : /\ jobs'[j] = history[j] /\ jobs'[j].op = jobs[j].op
                              /\ jobs'[j].generation = jobs[j].generation
                              /\ jobs'[j].closes = jobs[j].closes
                              /\ jobs'[j].sudo = jobs[j].sudo
         /\ \A n : submits /\ n = NextJob => jobs'[n] = job /\ InLine(n)'
         /\ line' \in Seq(JobIds') /\ events' \in Seq(EventType')
         /\ step' \in {"waiting", "begun", "made"}
         /\ \A j \in JobIds : InLine(j)' => InLine(j)
         /\ \A j, s : Queued(j, s)' => /\ j \in JobIds
                                       /\ Queued(j, s) \/ (s = "finished" /\ InLine(j))
         /\ \A j, s : Queued(j, s) => Queued(j, s)'
<1>10. PICK kept \in Survivors : \E notices \in CancelNotices(kept) :
        /\ events' = events \o notices
        /\ IF submits THEN Enqueue(job, history, kept)
           ELSE /\ jobs' = history /\ line' = kept
                /\ step' = IF kept = <<>> THEN "waiting" ELSE step
  BY DEF Cancels
<1>1. PICK notices \in CancelNotices(kept) :
        /\ events' = events \o notices
        /\ IF submits THEN Enqueue(job, history, kept)
           ELSE /\ jobs' = history /\ line' = kept
                /\ step' = IF kept = <<>> THEN "waiting" ELSE step
  BY <1>10
<1>2. /\ kept \in Seq(JobIds) /\ \A j : Has(kept, j) => InLine(j)
      /\ notices \in Seq(EventType)
      /\ \A i \in 1 .. Len(notices) : /\ notices[i].signal = "finished"
                                      /\ InLine(notices[i].job)
  <2>1. kept \in Seq(JobIds) /\ \A j : Has(kept, j) => InLine(j)
    BY SurvivorFacts
  <2>2. line \in Seq(JobIds) /\ Len(line) \in Nat /\ Len(kept) \in Nat
    BY <2>1 DEF TypeInv
  <2>3. \A k \in Len(kept) + 1 .. Len(line) : k \in 1 .. Len(line)
    BY <2>2
  <2>4. /\ notices \in Seq(EventType)
        /\ \A i \in 1 .. Len(notices) :
             /\ notices[i].signal = "finished"
             /\ \E k \in Len(kept) + 1 .. Len(line) : line[k] = notices[i].job
    BY NoticeFacts
  <2> QED
    BY <2>1, <2>3, <2>4 DEF InLine
<1>3. JobIds = 1 .. Len(jobs) /\ Len(jobs) \in Nat /\ NextJob = Len(jobs) + 1
  BY JobIdsRange DEF NextJob
<1>4. history \in Seq(JobType) /\ Len(history) = Len(jobs)
  BY DEF SameJobs
<1>5. /\ jobs' \in Seq(JobType)
      /\ JobIds' = IF submits THEN JobIds \cup {NextJob} ELSE JobIds
      /\ NextJob \in Nat /\ NextJob \notin JobIds
      /\ \A j \in JobIds : jobs'[j] = history[j]
      /\ \A n : submits /\ n = NextJob => jobs'[n] = job /\ InLine(n)'
      /\ line' \in Seq(JobIds')
      /\ step' \in {"waiting", "begun", "made"}
      /\ \A j \in JobIds : InLine(j)' => InLine(j)
  <2>1. CASE submits
    <3>1. Enqueue(job, history, kept)
      BY <1>1, <2>1
    <3>2. /\ jobs' \in Seq(JobType) /\ JobIds' = JobIds \cup {NextJob}
          /\ NextJob \in Nat /\ NextJob \notin JobIds
          /\ \A j \in JobIds : jobs'[j] = history[j]
          /\ jobs'[NextJob] = job
          /\ line' \in Seq(JobIds')
          /\ \A j : InLine(j)' <=> Has(kept, j) \/ j = NextJob
          /\ step' \in {"waiting", "begun", "made"}
      BY <1>2, <1>4, <3>1, EnqueueFacts
    <3>3. \A j \in JobIds : InLine(j)' => InLine(j)
      BY <1>2, <3>2
    <3>4. \A n : n = NextJob => jobs'[n] = job /\ InLine(n)'
      BY <3>2
    <3>5. JobIds' = IF submits THEN JobIds \cup {NextJob} ELSE JobIds
      BY <2>1, <3>2
    <3> QED
      BY <3>2, <3>3, <3>4, <3>5
  <2>2. CASE ~submits
    <3>1. jobs' = history /\ line' = kept /\ step' = IF kept = <<>> THEN "waiting" ELSE step
      BY <1>1, <2>2
    <3>2. JobIds' = JobIds
      BY <1>3, <1>4, <3>1 DEF JobIds
    <3>3. \A j : InLine(j)' <=> Has(kept, j)
      BY <3>1 DEF InLine, Has
    <3> QED
      BY <1>2, <1>3, <1>4, <2>2, <3>1, <3>2, <3>3 DEF TypeInv
  <2> QED
    BY <2>1, <2>2
<1>6. \A j \in JobIds : /\ jobs'[j].op = jobs[j].op
                        /\ jobs'[j].generation = jobs[j].generation
                        /\ jobs'[j].closes = jobs[j].closes
                        /\ jobs'[j].sudo = jobs[j].sudo
  BY <1>5 DEF SameJobs
<1>7. events' \in Seq(EventType')
  <2>1. events \in Seq(EventType) /\ events' \in Seq(EventType)
    BY <1>1, <1>2, HasConcat DEF TypeInv
  <2>2. EventType \subseteq EventType'
    BY <1>5 DEF EventType
  <2> QED
    BY <2>1, <2>2, SeqMonotonic
<1>8. ASSUME NEW j, NEW s, Queued(j, s)'
      PROVE  j \in JobIds /\ (Queued(j, s) \/ (s = "finished" /\ InLine(j)))
  <2>1. events \in Seq(EventType)
    BY DEF TypeInv
  <2>2. PICK i \in 1 .. Len(events \o notices) :
           (events \o notices)[i].job = j /\ (events \o notices)[i].signal = s
    BY <1>1, <1>8 DEF Queued
  <2>3. CASE i \in 1 .. Len(events)
    <3>1. events[i].job = j /\ events[i].signal = s /\ events[i] \in EventType
      BY <1>2, <2>1, <2>2, <2>3, HasConcat, ElementOfSeq
    <3> QED
      BY <2>3, <3>1 DEF Queued, EventType
  <2>4. CASE \E k \in 1 .. Len(notices) : i = Len(events) + k
    <3>1. PICK k \in 1 .. Len(notices) : i = Len(events) + k
      BY <2>4
    <3>2. notices[k].job = j /\ notices[k].signal = s /\ notices[k] \in EventType
      BY <1>2, <2>1, <2>2, <3>1, HasConcat, ElementOfSeq
    <3> QED
      BY <1>2, <3>2 DEF EventType
  <2> QED
    BY <1>2, <2>1, <2>2, <2>3, <2>4, HasConcat
<1>9. ASSUME NEW j, NEW s, Queued(j, s) PROVE Queued(j, s)'
  <2>1. events \in Seq(EventType)
    BY DEF TypeInv
  <2>2. PICK i \in 1 .. Len(events) : events[i].job = j /\ events[i].signal = s
    BY <1>9 DEF Queued
  <2>3. i \in 1 .. Len(events \o notices) /\ (events \o notices)[i] = events[i]
    BY <1>2, <2>1, <2>2, HasConcat
  <2> QED
    BY <1>1, <2>2, <2>3 DEF Queued
<1> QED
  BY <1>5, <1>6, <1>7, <1>8, <1>9

\* The head's work is over.
LEMMA EndsFacts ==
  ASSUME TypeInv, line # <<>>, NEW j, j = Head(line), NEW history, SameJobs(history),
         NEW signal \in {"succeeded", "failed"}, NEW result \in Results,
         Ends(j, history, signal, result)
  PROVE  /\ jobs' \in Seq(JobType) /\ jobs' = history /\ JobIds' = JobIds
         /\ j \in JobIds /\ InLine(j)
         /\ line' = Tail(line) /\ line' \in Seq(JobIds') /\ step' = "waiting"
         /\ \A k : InLine(k) <=> InLine(k)' \/ k = j
         /\ events' \in Seq(EventType')
         /\ \A k, s : Queued(k, s)' <=>
                        Queued(k, s) \/ (IsPublic(j) /\ k = j /\ s \in {signal, "finished"})
<1>1. /\ jobs' = history /\ line' = Tail(line) /\ step' = "waiting"
      /\ events' = events \o Notices(j, signal, result)
  BY DEF Ends
<1>2. line \in Seq(JobIds) /\ events \in Seq(EventType)
  BY DEF TypeInv
<1>3. /\ j \in JobIds /\ line' \in Seq(JobIds)
      /\ \A k : InLine(k) <=> InLine(k)' \/ k = j
  <2>1. /\ j \in JobIds /\ line' \in Seq(JobIds)
        /\ \A k : Has(line, k) <=> Has(line', k) \/ k = j
    BY <1>1, <1>2, HasTail
  <2> QED
    BY <2>1 DEF InLine, Has
<1>4. JobIds' = JobIds /\ jobs' \in Seq(JobType)
  BY <1>1, JobIdsRange DEF SameJobs, JobIds
<1>5. EventType' = EventType
  BY <1>4 DEF EventType
<1>6. CASE ~IsPublic(j)
  <2>1. events' = events
    BY <1>1, <1>2, <1>6 DEF Notices
  <2> QED
    BY <1>1, <1>2, <1>3, <1>4, <1>5, <1>6, <2>1 DEF Queued
<1>7. CASE IsPublic(j)
  <2> DEFINE a == Event(j, signal, result)
             b == Event(j, "finished", result)
  <2>1. /\ a \in EventType /\ a.job = j /\ a.signal = signal
        /\ b \in EventType /\ b.job = j /\ b.signal = "finished"
    BY <1>3 DEF Event, EventType, Signals
  <2>2. events' = events \o <<a, b>>
    BY <1>1, <1>7 DEF Notices
  <2> HIDE DEF a, b
  <2>3. <<a, b>> \in Seq(EventType) /\ \A y : Has(<<a, b>>, y) <=> y = a \/ y = b
    BY <2>1 DEF Has
  <2>4. events' \in Seq(EventType) /\ \A y : Has(events', y) <=> Has(events, y) \/ y = a \/ y = b
    BY <1>2, <2>2, <2>3, HasConcat
  <2>5. ASSUME NEW k, NEW s
        PROVE  Queued(k, s)' <=> Queued(k, s) \/ (k = j /\ s \in {signal, "finished"})
    <3>1. Queued(k, s)' <=> \E y : Has(events', y) /\ y.job = k /\ y.signal = s
      BY DEF Queued, Has
    <3>2. Queued(k, s) <=> \E y : Has(events, y) /\ y.job = k /\ y.signal = s
      BY DEF Queued, Has
    <3> QED
      BY <2>1, <2>4, <3>1, <3>2
  <2> QED
    BY <1>1, <1>3, <1>4, <1>5, <1>7, <2>4, <2>5
<1> QED
  BY <1>6, <1>7

\* The oldest signal is taken from the queue.
LEMMA ReceivedFacts ==
  ASSUME TypeInv, events # <<>>, Received
  PROVE  LET e == Head(events)
         IN  /\ e \in EventType /\ e = events[1] /\ 1 \in 1 .. Len(events)
             /\ e.job \in JobIds /\ e.signal \in Signals /\ e.result \in Results
             /\ Queued(e.job, e.signal)
             /\ events' \in Seq(EventType) /\ events' = Tail(events)
             /\ \A k, s : Queued(k, s)' => Queued(k, s)
             /\ \A k, s : Queued(k, s) => Queued(k, s)' \/ (k = e.job /\ s = e.signal)
<1>1. events \in Seq(EventType) /\ events' = Tail(events)
  BY DEF TypeInv, Received
<1>2. /\ Head(events) \in EventType /\ Head(events) = events[1] /\ 1 \in 1 .. Len(events)
      /\ events' \in Seq(EventType)
      /\ \A y : Has(events, y) <=> Has(events', y) \/ y = Head(events)
  BY <1>1, HasTail
<1>3. \A k, s : Queued(k, s)' <=> \E y : Has(events', y) /\ y.job = k /\ y.signal = s
  BY DEF Queued, Has
<1>4. \A k, s : Queued(k, s) <=> \E y : Has(events, y) /\ y.job = k /\ y.signal = s
  BY DEF Queued, Has
<1>5. Has(events, Head(events))
  BY <1>2
<1> QED
  BY <1>1, <1>2, <1>3, <1>4, <1>5 DEF EventType

\* One more job, behind those in line.
LEMMA SubmitFacts ==
  ASSUME TypeInv, NEW job \in JobType, NEW history, SameJobs(history), Enqueue(job, history, line)
  PROVE  /\ jobs' \in Seq(JobType) /\ JobIds' = JobIds \cup {NextJob}
         /\ NextJob \in Nat /\ NextJob \notin JobIds
         /\ \A j \in JobIds : /\ jobs'[j] = history[j] /\ jobs'[j].op = jobs[j].op
                              /\ jobs'[j].generation = jobs[j].generation
                              /\ jobs'[j].closes = jobs[j].closes
                              /\ jobs'[j].sudo = jobs[j].sudo
         /\ jobs'[NextJob] = job
         /\ line' \in Seq(JobIds')
         /\ \A j : InLine(j)' <=> InLine(j) \/ j = NextJob
         /\ step' = IF line = <<>> THEN "waiting" ELSE step
<1>1. line \in Seq(JobIds) /\ history \in Seq(JobType) /\ Len(history) = Len(jobs)
  BY DEF TypeInv, SameJobs
<1>2. \A j : Has(line, j) <=> InLine(j)
  BY DEF Has, InLine
<1>3. /\ jobs' \in Seq(JobType) /\ JobIds' = JobIds \cup {NextJob}
      /\ NextJob \in Nat /\ NextJob \notin JobIds
      /\ \A j \in JobIds : jobs'[j] = history[j]
      /\ jobs'[NextJob] = job
      /\ line' \in Seq(JobIds')
      /\ \A j : InLine(j)' <=> Has(line, j) \/ j = NextJob
  BY <1>1, EnqueueFacts
<1>4. step' = IF line = <<>> THEN "waiting" ELSE step
  BY DEF Enqueue
<1> QED
  BY <1>2, <1>3, <1>4 DEF SameJobs

\* The jobs as they are differ in nothing a cancel may change.
LEMMA JobsAreSame == ASSUME TypeInv PROVE SameJobs(jobs)
  BY DEF TypeInv, SameJobs

\* disconnect() of some managers.
LEMMA DisconnectFacts ==
  ASSUME TypeInv, NEW S
  PROVE  /\ SameJobs(DisconnectAll(S))
         /\ \A j \in JobIds : /\ j \notin S => DisconnectAll(S)[j] = jobs[j]
                              /\ j \in S => DisconnectAll(S)[j].socket \in {"closed", "twice"}
                              /\ j \in S /\ jobs[j].socket = "open"
                                   => DisconnectAll(S)[j].socket = "closed"
                              /\ DisconnectAll(S)[j].claimed = jobs[j].claimed
                              /\ DisconnectAll(S)[j].finished = jobs[j].finished
                              /\ DisconnectAll(S)[j].invalidated = jobs[j].invalidated
<1>1. PICK n \in Nat : n = Len(jobs) /\ JobIds = 1 .. n
  BY JobIdsRange
<1>2. \A j \in 1 .. n : jobs[j] \in JobType
  BY <1>1, ElementOfSeq DEF TypeInv
<1>3. \A j \in 1 .. n : /\ DisconnectAll(S)[j] \in JobType
                        /\ j \notin S => DisconnectAll(S)[j] = jobs[j]
                        /\ j \in S => DisconnectAll(S)[j].socket
                                        = IF jobs[j].socket = "open" THEN "closed" ELSE "twice"
                        /\ DisconnectAll(S)[j].op = jobs[j].op
                        /\ DisconnectAll(S)[j].generation = jobs[j].generation
                        /\ DisconnectAll(S)[j].closes = jobs[j].closes
                        /\ DisconnectAll(S)[j].sudo = jobs[j].sudo
                        /\ DisconnectAll(S)[j].claimed = jobs[j].claimed
                        /\ DisconnectAll(S)[j].finished = jobs[j].finished
                        /\ DisconnectAll(S)[j].invalidated = jobs[j].invalidated
  BY <1>1, <1>2 DEF DisconnectAll, JobType, JobIds
<1>4. DisconnectAll(S) \in [1 .. n -> JobType]
  BY <1>1, <1>3 DEF DisconnectAll, JobIds
<1>5. DisconnectAll(S) \in Seq(JobType) /\ Len(DisconnectAll(S)) = n
  BY <1>4
<1> QED
  BY <1>1, <1>3, <1>5 DEF SameJobs


-----------------------------------------------------------------------------
(* The worker.                                                              *)

\* What a connection job does to its manager once it has begun.
ConnectionStep(j, signal) ==
    \/ /\ line' = line /\ step = "begun" /\ step' = "made"
       /\ jobs'[j].socket = "open"
       /\ jobs'[j].claimed = jobs[j].claimed /\ jobs'[j].finished = jobs[j].finished
    \/ /\ line' = Tail(line) /\ step' = "waiting" /\ jobs'[j].finished
       /\ \/ /\ jobs'[j].claimed /\ signal = "failed" /\ step = "made"
             /\ jobs[j].claimed \/ jobs[j].socket # "open" \/ jobs'[j].socket = "closed"
          \/ /\ jobs'[j].claimed = jobs[j].claimed /\ jobs'[j].socket = jobs[j].socket
             /\ signal = "failed" => step = "begun"
       /\ signal = "succeeded" => step = "made" /\ ~jobs[j].invalidated

\* One statement of the worker of the head: it begins, goes on or ends.
WorkStep(j, signal, result) ==
    /\ line # <<>> /\ j = Head(line)
    /\ SameJobs(jobs')
    /\ \/ Ends(j, jobs', signal, result)
       \/ line' = line /\ events' = events /\ step' \in {"begun", "made"}
    /\ tokens' = IF step = "waiting" THEN tokens \ jobs[j].closes ELSE tokens
    /\ step = "waiting" =>
         /\ jobs' = DisconnectAll(jobs[j].closes \cap tokens)
         /\ step' # "made"
         /\ IsConnection(j) /\ step' = "waiting" => signal = "failed"
    /\ step # "waiting" =>
         /\ \A k \in JobIds : k # j => jobs'[k] = jobs[k]
         /\ jobs'[j].invalidated = jobs[j].invalidated
         /\ IF IsConnection(j) THEN ConnectionStep(j, signal)
            ELSE jobs' = jobs /\ step' = "waiting"
    /\ remote' \in {j, remote}
    /\ result \in {"unknown_key", "changed_key"} => signal = "failed" /\ IsConnection(j)
    /\ result = "sudo_required" => jobs[j].op \in Reads \cup Mutations \cup ConnectionOps
    /\ UNCHANGED worker_only

\* The job at the head of the line is a job that waits in it.
LEMMA HeadFacts ==
  ASSUME TypeInv, line # <<>>
  PROVE  /\ Head(line) \in JobIds /\ jobs[Head(line)] \in JobType /\ InLine(Head(line))
         /\ Tail(line) # line
<1>1. line \in Seq(JobIds) /\ jobs \in Seq(JobType) /\ JobIds = 1 .. Len(jobs)
  BY JobIdsRange DEF TypeInv
<1>2. /\ Head(line) = line[1] /\ Head(line) \in JobIds /\ Len(line) \in Nat \ {0}
      /\ Len(Tail(line)) = Len(line) - 1
  BY <1>1, HasTail
<1>3. InLine(Head(line))
  BY <1>2 DEF InLine
<1>4. Tail(line) # line
  <2>1. SUFFICES ASSUME Tail(line) = line PROVE FALSE
    OBVIOUS
  <2>2. Len(Tail(line)) = Len(line)
    BY <2>1
  <2> QED
    BY <1>2, <2>2
<1> QED
  BY <1>1, <1>2, <1>3, <1>4, ElementOfSeq

\* One job changes what a worker may change.
LEMMA OneJobChanges ==
  ASSUME TypeInv, NEW history, SameJobs(history), NEW j \in JobIds, NEW job \in JobType,
         job.op = jobs[j].op, job.generation = jobs[j].generation, job.closes = jobs[j].closes,
         job.sudo = jobs[j].sudo
  PROVE  /\ SameJobs([history EXCEPT ![j] = job])
         /\ [history EXCEPT ![j] = job][j] = job
         /\ \A k \in JobIds : k # j => [history EXCEPT ![j] = job][k] = history[k]
<1>1. /\ JobIds = 1 .. Len(jobs) /\ Len(jobs) \in Nat
      /\ history \in Seq(JobType) /\ Len(history) = Len(jobs)
  BY JobIdsRange DEF SameJobs
<1>2. /\ [history EXCEPT ![j] = job] \in Seq(JobType)
      /\ Len([history EXCEPT ![j] = job]) = Len(history)
      /\ \A k \in JobIds : [history EXCEPT ![j] = job][k] = IF k = j THEN job ELSE history[k]
  BY <1>1, ExceptSeq
<1> QED
  BY <1>1, <1>2 DEF SameJobs

\* Beginning the job at the head is a step of the pool's thread.
LEMMA BeginSteps ==
  ASSUME TypeInv, Begin
  PROVE  \E j \in JobIds, signal \in {"succeeded", "failed"}, result \in Results :
           WorkStep(j, signal, result)
<1> DEFINE j == Head(line)
           batch == jobs[j].closes \cap tokens
           history == DisconnectAll(batch)
<1>1. j \in JobIds /\ line # <<>> /\ step = "waiting" /\ jobs[j] \in JobType
  BY HeadFacts DEF Begin
<1>2. SameJobs(history)
  BY DisconnectFacts
<1>3. /\ tokens' = tokens \ jobs[j].closes
      /\ remote' = remote /\ UNCHANGED worker_only
  BY <1>1 DEF Begin
<1>4. \/ \E failed \in BOOLEAN :
           /\ jobs[j].op \in {"disconnect", "close"}
           /\ Ends(j, history, IF failed THEN "failed" ELSE "succeeded", "command")
      \/ jobs' = history /\ step' = "begun" /\ UNCHANGED <<line, events>>
      \/ Ends(j, history, "failed", "command")
  BY <1>1 DEF Begin
<1>5. jobs' = history
  BY <1>4 DEF Ends
<1>6. jobs[j].op \in {"disconnect", "close"} => ~IsConnection(j)
  BY DEF IsConnection, ConnectionOps
<1> HIDE DEF batch
<1>7. "command" \in Results
  BY DEF Results
<1>8. CASE \E failed \in BOOLEAN :
             /\ jobs[j].op \in {"disconnect", "close"}
             /\ Ends(j, history, IF failed THEN "failed" ELSE "succeeded", "command")
  <2>1. PICK signal \in {"succeeded", "failed"} :
            jobs[j].op \in {"disconnect", "close"} /\ Ends(j, history, signal, "command")
    BY <1>8
  <2>2. step' = "waiting"
    BY <2>1 DEF Ends
  <2>3. WorkStep(j, signal, "command")
    BY <1>1, <1>2, <1>3, <1>5, <1>6, <2>1, <2>2 DEF WorkStep, batch
  <2> QED
    BY <1>1, <1>7, <2>3
<1>9. CASE jobs' = history /\ step' = "begun" /\ UNCHANGED <<line, events>>
  <2>1. WorkStep(j, "failed", "command")
    BY <1>1, <1>2, <1>3, <1>5, <1>9 DEF WorkStep, batch
  <2> QED
    BY <1>1, <1>7, <2>1
<1>10. CASE Ends(j, history, "failed", "command")
  <2>1. step' = "waiting"
    BY <1>10 DEF Ends
  <2>2. WorkStep(j, "failed", "command")
    BY <1>1, <1>2, <1>3, <1>5, <1>10, <2>1 DEF WorkStep, batch
  <2> QED
    BY <1>1, <1>7, <2>2
<1> QED
  BY <1>4, <1>8, <1>9, <1>10

\* Making the manager, or failing to, is a step of the pool's thread.
LEMMA MakeSteps ==
  ASSUME TypeInv, NEW j \in JobIds, MakeManager(j)
  PROVE  WorkStep(j, "failed", "command")
<1>1. /\ line # <<>> /\ j = Head(line) /\ step = "begun" /\ IsConnection(j)
      /\ tokens' = tokens /\ remote' = remote /\ UNCHANGED worker_only
  BY DEF MakeManager, Running
<1>2. jobs[j] \in JobType /\ SameJobs(jobs)
  BY <1>1, HeadFacts, JobsAreSame
<1>3. CASE jobs[j].invalidated
  <2> DEFINE job == [jobs[j] EXCEPT !.finished = TRUE]
  <2>1. Ends(j, [jobs EXCEPT ![j] = job], "failed", "command")
    BY <1>1, <1>3 DEF MakeManager
  <2>2. /\ job \in JobType /\ job.op = jobs[j].op /\ job.generation = jobs[j].generation
        /\ job.closes = jobs[j].closes /\ job.sudo = jobs[j].sudo
        /\ job.finished /\ job.claimed = jobs[j].claimed
        /\ job.socket = jobs[j].socket /\ job.invalidated = jobs[j].invalidated
    BY <1>2 DEF JobType
  <2> HIDE DEF job
  <2>3. /\ jobs' = [jobs EXCEPT ![j] = job] /\ line' = Tail(line) /\ step' = "waiting"
    BY <2>1 DEF Ends
  <2>4. /\ SameJobs(jobs') /\ jobs'[j] = job
        /\ \A k \in JobIds : k # j => jobs'[k] = jobs[k]
    BY <1>2, <2>2, <2>3, OneJobChanges DEF SameJobs
  <2> QED
    BY <1>1, <2>1, <2>2, <2>3, <2>4 DEF WorkStep, ConnectionStep
<1>4. CASE ~jobs[j].invalidated
  <2> DEFINE job == [jobs[j] EXCEPT !.socket = "open"]
  <2>1. /\ jobs' = [jobs EXCEPT ![j] = job] /\ step' = "made" /\ UNCHANGED <<line, events>>
    BY <1>1, <1>4 DEF MakeManager
  <2>2. /\ job \in JobType /\ job.op = jobs[j].op /\ job.generation = jobs[j].generation
        /\ job.closes = jobs[j].closes /\ job.sudo = jobs[j].sudo /\ job.finished = jobs[j].finished
        /\ job.claimed = jobs[j].claimed
        /\ job.socket = "open" /\ job.invalidated = jobs[j].invalidated
    BY <1>2 DEF JobType
  <2> HIDE DEF job
  <2>4. /\ SameJobs(jobs') /\ jobs'[j] = job
        /\ \A k \in JobIds : k # j => jobs'[k] = jobs[k]
    BY <1>2, <2>1, <2>2, OneJobChanges DEF SameJobs
  <2> QED
    BY <1>1, <2>1, <2>2, <2>4 DEF WorkStep, ConnectionStep
<1> QED
  BY <1>3, <1>4

\* A connection attempt that ends is a step of the pool's thread.
LEMMA FinishConnectionSteps ==
  ASSUME TypeInv, NEW j \in JobIds, FinishConnection(j)
  PROVE  \E signal \in {"succeeded", "failed"}, result \in Results : WorkStep(j, signal, result)
<1>1. /\ line # <<>> /\ j = Head(line) /\ step = "made" /\ IsConnection(j)
      /\ tokens' = tokens /\ remote' = remote /\ UNCHANGED worker_only
  BY DEF FinishConnection, Running
<1>2. jobs[j] \in JobType /\ SameJobs(jobs)
  BY <1>1, HeadFacts, JobsAreSame
<1>3. PICK base \in {jobs, DisconnectAll({j})}, claim \in BOOLEAN,
           signal \in {"succeeded", "failed"}, result \in Results :
         /\ Ends(j, [base EXCEPT ![j].finished = TRUE, ![j].claimed = IF claim THEN TRUE ELSE @],
                 signal, result)
         /\ claim => signal = "failed"
         /\ ~claim => base = jobs /\ signal = "succeeded" /\ ~jobs[j].invalidated
         /\ claim => jobs[j].claimed \/ base = DisconnectAll({j})
         /\ signal = "succeeded" => result = "ok"
  <2>1. CASE jobs[j].invalidated /\
             Ends(j, [DisconnectAll({j}) EXCEPT ![j].finished = TRUE, ![j].claimed = TRUE],
                  "failed", "command")
    BY <2>1 DEF Results
  <2>2. CASE ~jobs[j].invalidated /\ Ends(j, [jobs EXCEPT ![j].finished = TRUE], "succeeded", "ok")
    <3>1. [jobs EXCEPT ![j].finished = TRUE]
            = [jobs EXCEPT ![j].finished = TRUE, ![j].claimed = IF FALSE THEN TRUE ELSE @]
      <4>1. [jobs[j] EXCEPT !.finished = TRUE]
              = [jobs[j] EXCEPT !.finished = TRUE, !.claimed = IF FALSE THEN TRUE ELSE @]
        BY <1>2 DEF JobType
      <4>2. j \in DOMAIN jobs
        BY DEF JobIds
      <4>3. [jobs EXCEPT ![j] = [jobs[j] EXCEPT !.finished = TRUE]]
              = [jobs EXCEPT ![j] = [jobs[j] EXCEPT !.finished = TRUE, !.claimed = IF FALSE THEN TRUE ELSE @]]
        BY <4>1
      <4> QED
        BY <4>2, <4>3
    <3> QED
      BY <2>2, <3>1 DEF Results
  <2>3. ASSUME NEW result \in IF jobs[j].invalidated THEN {"command"} ELSE ConnectErrors(j),
               Ends(j, [(IF jobs[j].claimed THEN jobs ELSE DisconnectAll({j}))
                          EXCEPT ![j].finished = TRUE, ![j].claimed = TRUE],
                    "failed", result)
        PROVE  \E base \in {jobs, DisconnectAll({j})}, claim \in BOOLEAN,
                  signal \in {"succeeded", "failed"}, out \in Results :
                 /\ Ends(j, [base EXCEPT ![j].finished = TRUE, ![j].claimed = IF claim THEN TRUE ELSE @],
                         signal, out)
                 /\ claim => signal = "failed"
                 /\ ~claim => base = jobs /\ signal = "succeeded" /\ ~jobs[j].invalidated
                 /\ claim => jobs[j].claimed \/ base = DisconnectAll({j})
                 /\ signal = "succeeded" => out = "ok"
    <3>1. result \in Results
      BY DEF ConnectErrors, SudoErrors, Results
    <3> QED
      BY <2>3, <3>1
  <2> QED
    BY <2>1, <2>2, <2>3 DEF FinishConnection
<1>4. SameJobs(base)
  BY <1>2, DisconnectFacts
<1>5. /\ base[j] \in JobType /\ base[j].op = jobs[j].op /\ base[j].closes = jobs[j].closes
      /\ base[j].sudo = jobs[j].sudo
      /\ base[j].generation = jobs[j].generation /\ base[j].invalidated = jobs[j].invalidated
      /\ base[j].claimed = jobs[j].claimed
      /\ base = DisconnectAll({j}) /\ jobs[j].socket = "open" => base[j].socket = "closed"
      /\ \A k \in JobIds : k # j => base[k] = jobs[k]
  <2>1. base[j] \in JobType
    BY <1>4, JobIdsRange, ElementOfSeq DEF SameJobs
  <2> QED
    BY <1>2, <1>4, <2>1, DisconnectFacts DEF SameJobs
<1> DEFINE job == [base[j] EXCEPT !.finished = TRUE, !.claimed = IF claim THEN TRUE ELSE @]
<1>6. /\ job \in JobType /\ job.op = jobs[j].op /\ job.generation = jobs[j].generation
      /\ job.closes = jobs[j].closes /\ job.sudo = jobs[j].sudo
      /\ job.finished /\ job.invalidated = jobs[j].invalidated
      /\ claim => job.claimed
      /\ ~claim => job.claimed = jobs[j].claimed
      /\ job.socket = base[j].socket
  BY <1>5 DEF JobType
<1>7. [base EXCEPT ![j].finished = TRUE, ![j].claimed = IF claim THEN TRUE ELSE @]
        = [base EXCEPT ![j] = job]
  BY <1>4 DEF SameJobs
<1> HIDE DEF job
<1>8. /\ jobs' = [base EXCEPT ![j] = job] /\ line' = Tail(line) /\ step' = "waiting"
      /\ Ends(j, jobs', signal, result)
  BY <1>3, <1>7 DEF Ends
<1>9. /\ SameJobs(jobs') /\ jobs'[j] = job
      /\ \A k \in JobIds : k # j => jobs'[k] = jobs[k]
  BY <1>4, <1>5, <1>6, <1>8, OneJobChanges DEF SameJobs
<1>10. ConnectionStep(j, signal)
  <2>1. CASE claim
    <3>1. jobs'[j].claimed /\ signal = "failed" /\ jobs'[j].socket = base[j].socket
      BY <1>3, <1>6, <1>9, <2>1
    <3>2. jobs[j].claimed \/ jobs[j].socket # "open" \/ base[j].socket = "closed"
      BY <1>3, <1>5, <2>1
    <3> QED
      BY <1>1, <1>6, <1>8, <1>9, <3>1, <3>2 DEF ConnectionStep
  <2>2. CASE ~claim
    <3>1. /\ jobs'[j].claimed = jobs[j].claimed /\ jobs'[j].socket = jobs[j].socket
          /\ signal = "succeeded" /\ ~jobs[j].invalidated
      BY <1>3, <1>6, <1>9, <2>2
    <3> QED
      BY <1>1, <1>6, <1>8, <1>9, <3>1 DEF ConnectionStep
  <2> QED
    BY <2>1, <2>2
<1>11. result \in {"unknown_key", "changed_key"} => signal = "failed" /\ IsConnection(j)
  BY <1>1, <1>3
<1>13. jobs[j].op \in Reads \cup Mutations \cup ConnectionOps
  BY <1>1 DEF IsConnection
<1>12. WorkStep(j, signal, result)
  BY <1>1, <1>6, <1>8, <1>9, <1>10, <1>11, <1>13 DEF WorkStep
<1> QED
  BY <1>12

\* A read or a change that ends is a step of the pool's thread.
LEMMA FinishOthersSteps ==
  ASSUME TypeInv, NEW j \in JobIds, FinishRead(j) \/ FinishMutation(j)
  PROVE  \E signal \in {"succeeded", "failed"}, result \in Results : WorkStep(j, signal, result)
<1>1. /\ line # <<>> /\ j = Head(line) /\ step = "begun" /\ ~IsConnection(j)
      /\ tokens' = tokens /\ UNCHANGED worker_only
  BY DEF FinishRead, FinishMutation, Running, IsConnection, ConnectionOps, Reads, Mutations
<1>2. jobs[j] \in JobType /\ SameJobs(jobs)
  BY <1>1, HeadFacts, JobsAreSame
<1>3. PICK signal \in {"succeeded", "failed"}, result \in Results \ {"unknown_key", "changed_key"} :
         Ends(j, jobs, signal, result) /\ remote' \in {j, remote}
  <2>1. CASE FinishRead(j)
    <3>1. ReadErrors(j) \subseteq Results \ {"unknown_key", "changed_key"}
      BY DEF ReadErrors, SudoErrors, Results
    <3>2. remote' = remote
      BY <2>1 DEF FinishRead
    <3>3. "ok" \in Results \ {"unknown_key", "changed_key"}
      BY DEF Results
    <3> QED
      BY <2>1, <3>1, <3>2, <3>3 DEF FinishRead
  <2>2. CASE FinishMutation(j)
    <3>1. MutationResults \cup {"transport", "remote_error", "post", "command"} \cup SudoErrors(j)
            \subseteq Results \ {"unknown_key", "changed_key"}
      BY DEF MutationResults, SudoErrors, Results
    <3> QED
      BY <2>2, <3>1 DEF FinishMutation
  <2> QED
    BY <2>1, <2>2
<1>4. jobs' = jobs /\ step' = "waiting"
  BY <1>3 DEF Ends
<1>5. jobs[j].op \in Reads \cup Mutations \cup ConnectionOps
  BY DEF FinishRead, FinishMutation
<1>6. WorkStep(j, signal, result)
  BY <1>1, <1>2, <1>3, <1>4, <1>5 DEF WorkStep
<1> QED
  BY <1>6

\* Everything the pool's thread does is one kind of step: see WorkStep.
LEMMA WorkSteps ==
  ASSUME TypeInv, Work
  PROVE  \E j \in JobIds, signal \in {"succeeded", "failed"}, result \in Results :
           WorkStep(j, signal, result)
<1>1. CASE Begin
  BY <1>1, BeginSteps
<1>2. ASSUME NEW j \in JobIds, MakeManager(j) PROVE WorkStep(j, "failed", "command")
  BY <1>2, MakeSteps
<1>3. "command" \in Results
  BY DEF Results
<1>4. ASSUME NEW j \in JobIds, FinishConnection(j) \/ FinishRead(j) \/ FinishMutation(j)
      PROVE  \E signal \in {"succeeded", "failed"}, result \in Results : WorkStep(j, signal, result)
  BY <1>4, FinishConnectionSteps, FinishOthersSteps
<1> QED
  BY <1>1, <1>2, <1>3, <1>4 DEF Work, JobIds


-----------------------------------------------------------------------------
(* The types are kept.                                                      *)

\* All that a step may rely on when it submits one more job.
LEMMA LaunchTypes ==
  ASSUME TypeInv, NEW job \in JobType, NEW history, SameJobs(history), Enqueue(job, history, line)
  PROVE  /\ jobs' \in Seq(JobType) /\ line' \in Seq(JobIds')
         /\ step' \in {"waiting", "begun", "made"}
         /\ SessionType \subseteq SessionType' /\ Seq(EventType) \subseteq Seq(EventType')
         /\ {0} \cup JobIds \subseteq {0} \cup JobIds'
         /\ SUBSET Connections \subseteq SUBSET Connections'
         /\ \A r \in SUBSET records :
              /\ r \in SUBSET {j \in JobIds' : IsPublic(j)'}
              /\ job.op # "close" => r \cup {NextJob} \in SUBSET {j \in JobIds' : IsPublic(j)'}
         /\ job.op \in ConnectionOps => NextJob \in Connections'
<1>1. PICK n : n = NextJob
  OBVIOUS
<1>2. /\ jobs' \in Seq(JobType) /\ JobIds' = JobIds \cup {n}
      /\ \A j \in JobIds : jobs'[j].op = jobs[j].op
      /\ jobs'[n] = job /\ line' \in Seq(JobIds')
      /\ step' = IF line = <<>> THEN "waiting" ELSE step
  BY <1>1, SubmitFacts
<1>3. /\ SessionType \subseteq SessionType' /\ Seq(EventType) \subseteq Seq(EventType')
      /\ {0} \cup JobIds \subseteq {0} \cup JobIds' /\ Connections \subseteq Connections'
      /\ records \in SUBSET {j \in JobIds' : IsPublic(j)'}
  BY <1>2, TypesGrow
<1>4. job.op # "close" => n \in {j \in JobIds' : IsPublic(j)'}
  BY <1>2 DEF IsPublic
<1>5. job.op \in ConnectionOps => n \in Connections'
  BY <1>2 DEF Connections, IsConnection
<1>6. step' \in {"waiting", "begun", "made"}
  BY <1>2 DEF TypeInv
<1> QED
  BY <1>1, <1>2, <1>3, <1>4, <1>5, <1>6

\* The logical jobs after a change of some.
LEMMA LogicalsMapped ==
  ASSUME NEW l \in Seq(LogicalType), NEW f \in [DOMAIN l -> LogicalType]
  PROVE  f \in Seq(LogicalType)
<1>1. PICK n \in Nat : n = Len(l)
  OBVIOUS
<1>2. f \in [1 .. n -> LogicalType]
  BY <1>1
<1> QED
  BY <1>1, <1>2

\* What the handlers do to a logical job keeps its type.
LEMMA LogicalParts ==
  ASSUME NEW logical \in LogicalType
  PROVE  /\ \A outcome \in {"succeeded", "failed"} : WithOutcome(logical, outcome) \in LogicalType
         /\ [logical EXCEPT !.completed = TRUE] \in LogicalType
         /\ \A result \in Results : [logical EXCEPT !.error = result] \in LogicalType
         /\ \A n \in Nat : [logical EXCEPT !.attempt = n] \in LogicalType
         /\ logical.key \in Keys
<1>1. ASSUME NEW outcome \in {"succeeded", "failed"}
      PROVE  WithOutcome(logical, outcome) \in LogicalType
  <2>1. Append(logical.outcomes, outcome) \in Seq({"succeeded", "failed"})
    BY AppendProperties DEF LogicalType
  <2> QED
    BY <2>1 DEF LogicalType, WithOutcome
<1> QED
  BY <1>1 DEF LogicalType

\* A snapshot marked stale is a snapshot, of the job it was of.
LEMMA StaledType ==
  ASSUME TypeInv
  PROVE  /\ Staled(session.snapshot) \in {None} \cup [stale : BOOLEAN, job : JobIds]
         /\ Staled(session.snapshot) # None => session.snapshot # None
                                               /\ Staled(session.snapshot).job = session.snapshot.job
<1>1. session.snapshot \in {None} \cup [stale : BOOLEAN, job : JobIds]
  BY DEF TypeInv, SessionType
<1>2. CASE session.snapshot = None
  BY <1>2 DEF Staled
<1>3. CASE session.snapshot # None
  BY <1>1, <1>3 DEF Staled
<1> QED
  BY <1>2, <1>3

\* A detached session has nothing of the one before.
LEMMA DetachedFacts ==
  ASSUME TypeInv, NEW status \in {"disconnected", "connecting"},
         NEW busy \in {None, "disconnect"} \cup ConnectionOps
  PROVE  /\ Detached(status, busy) \in SessionType
         /\ Detached(status, busy).present /\ Detached(status, busy).status = status
         /\ Detached(status, busy).generation = session.generation + 1
         /\ Detached(status, busy).busy = busy /\ ~Detached(status, busy).sudo
         /\ Detached(status, busy).manager = None /\ Detached(status, busy).attempt = None
         /\ Detached(status, busy).snapshot = None
<1>1. session.generation + 1 \in Nat
  BY DEF TypeInv, SessionType
<1> QED
  BY <1>1 DEF Detached, NewSession, SessionType, Statuses, ConnectionOps

\* The pool's thread keeps the types.
LEMMA WorkTypes ==
  ASSUME TypeInv, Work
  PROVE  TypeInv'
<1>1. PICK j \in JobIds, signal \in {"succeeded", "failed"}, result \in Results :
         WorkStep(j, signal, result)
  BY WorkSteps
<1>2. /\ line # <<>> /\ j = Head(line) /\ UNCHANGED worker_only /\ remote' \in {j, remote}
      /\ jobs' \in Seq(JobType) /\ Len(jobs') = Len(jobs)
      /\ \A k \in JobIds : jobs'[k].op = jobs[k].op
      /\ tokens' = IF step = "waiting" THEN tokens \ jobs[j].closes ELSE tokens
      /\ \/ Ends(j, jobs', signal, result)
         \/ line' = line /\ events' = events /\ step' \in {"begun", "made"}
  BY <1>1 DEF WorkStep, SameJobs
<1>3. JobIds' = JobIds
  BY <1>2, JobIdsRange DEF JobIds
<1>4. /\ session \in SessionType'
      /\ records \in SUBSET {k \in JobIds' : IsPublic(k)'}
      /\ tokens \in SUBSET Connections'
      /\ line \in Seq(JobIds') /\ events \in Seq(EventType')
  BY <1>2, <1>3, TypesGrow
<1>5. /\ line' \in Seq(JobIds') /\ events' \in Seq(EventType')
      /\ step' \in {"waiting", "begun", "made"}
  <2>1. CASE Ends(j, jobs', signal, result)
    <3>1. SameJobs(jobs')
      BY <1>1 DEF WorkStep
    <3> QED
      BY <1>2, <2>1, <3>1, EndsFacts
  <2>2. CASE line' = line /\ events' = events /\ step' \in {"begun", "made"}
    BY <1>4, <2>2
  <2> QED
    BY <1>2, <2>1, <2>2
<1>6. remote' \in {0} \cup JobIds'
  BY <1>2, <1>3 DEF TypeInv
<1>7. tokens' \in SUBSET Connections'
  BY <1>2, <1>4
<1> QED
  BY <1>2, <1>4, <1>5, <1>6, <1>7 DEF TypeInv, worker_only

\* What GiveUp does to the jobs.
LEMMA GiveUpFacts ==
  ASSUME TypeInv, NEW op \in {"disconnect", "reconnect", "close"}, NEW next,
         next.generation \in Nat, next.sudo \in BOOLEAN, GiveUp(op, next)
  PROVE  LET submits == ~(op = "close" /\ TokensGivenUp = {})
             job     == NewJob(op, next.generation, next.sudo, TokensGivenUp, 0)
         IN  /\ session' = next /\ tokens' = TokensGivenUp /\ pending' = NoDecisions
             /\ logicals' = LogicalsCancelled
             /\ Cancels(JobsGivenUp, job, submits)
             /\ job \in JobType /\ job.op = op /\ job.generation = next.generation
             /\ job.closes = TokensGivenUp /\ job.socket = "unmade"
             /\ job.claimed = FALSE /\ job.finished = FALSE
<1>1. op \in JobOps
  BY DEF JobOps, ConnectionOps
<1>2. TokensGivenUp \in SUBSET Nat /\ ClosingBatch = TokensGivenUp
  BY TokenTypes
<1>3. LET job == NewJob(op, next.generation, next.sudo, TokensGivenUp, 0)
      IN  /\ job \in JobType /\ job.op = op /\ job.generation = next.generation
          /\ job.closes = TokensGivenUp /\ job.socket = "unmade"
          /\ job.claimed = FALSE /\ job.finished = FALSE
  BY <1>1, <1>2 DEF NewJob, JobType
<1>4. Cancels(JobsGivenUp, NewJob(op, next.generation, next.sudo, TokensGivenUp, 0),
              ~(op = "close" /\ TokensGivenUp = {}))
  BY <1>2 DEF GiveUp, Cancels
<1> QED
  BY <1>3, <1>4 DEF GiveUp, ClearPendingDecisions

\* Giving up the session's work keeps the types of what it touches.
LEMMA GiveUpTypes ==
  ASSUME TypeInv, NEW op \in {"disconnect", "reconnect", "close"}, NEW next \in SessionType,
         NEW final, final \in {next, [next EXCEPT !.attempt = NextJob]},
         final # next => op = "reconnect",
         GiveUp(op, final)
  PROVE  /\ session' \in SessionType' /\ pending' \in DecisionsType
         /\ logicals' \in Seq(LogicalType) /\ jobs' \in Seq(JobType)
         /\ line' \in Seq(JobIds') /\ step' \in {"waiting", "begun", "made"}
         /\ tokens' \in SUBSET Connections' /\ events' \in Seq(EventType')
         /\ {0} \cup JobIds \subseteq {0} \cup JobIds'
         /\ records \in SUBSET {j \in JobIds' : IsPublic(j)'}
         /\ op # "close" => records \cup {NextJob} \in SUBSET {j \in JobIds' : IsPublic(j)'}
<1>1. next.generation \in Nat /\ next.sudo \in BOOLEAN
      /\ final.generation = next.generation /\ final.sudo = next.sudo
  BY DEF SessionType
<1> DEFINE submits == ~(op = "close" /\ TokensGivenUp = {})
           job     == NewJob(op, final.generation, final.sudo, TokensGivenUp, 0)
<1>2. /\ session' = final /\ tokens' = TokensGivenUp /\ pending' = NoDecisions
      /\ logicals' = LogicalsCancelled
      /\ Cancels(JobsGivenUp, job, submits)
      /\ job \in JobType /\ job.op = op
  BY ZenonT(30), <1>1, GiveUpFacts
<1> HIDE DEF job, submits
<1>3. PICK n : n = NextJob
  OBVIOUS
<1>4. SameJobs(JobsGivenUp) /\ submits \in BOOLEAN
  BY GivenUpFacts DEF submits
<1>5. /\ jobs' \in Seq(JobType)
      /\ JobIds' = IF submits THEN JobIds \cup {n} ELSE JobIds
      /\ \A j \in JobIds : jobs'[j].op = jobs[j].op
      /\ submits => jobs'[n] = job
      /\ line' \in Seq(JobIds') /\ events' \in Seq(EventType')
      /\ step' \in {"waiting", "begun", "made"}
  BY <1>2, <1>3, <1>4, CancelFacts
<1>6. /\ SessionType \subseteq SessionType' /\ Connections \subseteq Connections'
      /\ {0} \cup JobIds \subseteq {0} \cup JobIds'
      /\ records \in SUBSET {j \in JobIds' : IsPublic(j)'}
  BY <1>5, TypesGrow
<1>7. op # "close" => /\ n \in {j \in JobIds' : IsPublic(j)'}
                      /\ op = "reconnect" => n \in Connections'
  BY <1>2, <1>5 DEF submits, IsPublic, Connections, IsConnection, ConnectionOps
<1>8. final \in SessionType'
  <2>1. CASE final = next
    BY <1>6, <2>1
  <2>2. CASE final # next
    <3>1. final = [next EXCEPT !.attempt = n] /\ n \in Connections' /\ next \in SessionType'
      BY <1>3, <1>6, <1>7, <2>2
    <3> QED
      BY <3>1 DEF SessionType
  <2> QED
    BY <2>1, <2>2
<1>9. tokens' \in SUBSET Connections'
  BY <1>2, <1>6, TokenTypes
<1> QED
  BY <1>2, <1>3, <1>5, <1>6, <1>7, <1>8, <1>9, ClearingTypes


\* Where no job changes, the types do not.
LEMMA StillTypes ==
  ASSUME TypeInv, jobs' = jobs
  PROVE  /\ JobIds' = JobIds /\ SessionType' = SessionType /\ Connections' = Connections
         /\ EventType' = EventType
         /\ {j \in JobIds' : IsPublic(j)'} = {j \in JobIds : IsPublic(j)}
  BY DEF JobIds, SessionType, Connections, EventType, IsPublic, IsConnection

\* The types of the session's fields, one by one.
LEMMA SessionParts ==
  ASSUME TypeInv
  PROVE  /\ session \in SessionType /\ session.generation \in Nat /\ session.sudo \in BOOLEAN
         /\ session.generation + 1 \in Nat /\ session.present \in BOOLEAN
         /\ session.status \in Statuses
         /\ session.busy \in {None, "disconnect"} \cup Reads \cup Mutations \cup ConnectionOps
         /\ session.manager \in {None} \cup Connections
         /\ session.attempt \in {None} \cup Connections
         /\ session.snapshot \in {None} \cup [stale : BOOLEAN, job : JobIds]
         /\ pending \in DecisionsType /\ NextJob \in Nat /\ Len(logicals) \in Nat
         /\ JobIds = 1 .. Len(jobs) /\ NextJob \notin JobIds
  BY JobIdsRange DEF TypeInv, SessionType, NextJob

\* connect_server keeps the types.
LEMMA ConnectTypes ==
  ASSUME TypeInv, Connect
  PROVE  TypeInv'
<1>1. /\ requests' \in Nat /\ pending' \in DecisionsType /\ logicals' \in Seq(LogicalType)
      /\ UNCHANGED <<tokens, events, known, remote, down>>
  BY ClearingTypes DEF Connect, Request, ClearPendingDecisions, TypeInv
<1>2. CASE OwnsSession
  <2>1. UNCHANGED <<session, jobs, line, step, records>>
    BY <1>2 DEF Connect
  <2> QED
    BY <1>1, <2>1, StillTypes DEF TypeInv
<1>3. CASE ~OwnsSession
  <2> DEFINE job == NewJob("connect", session.generation, session.sudo, {}, 0)
  <2>1. /\ Enqueue(job, jobs, line) /\ records' = records \cup {NextJob}
        /\ session' = [session EXCEPT !.status = "connecting", !.snapshot = None,
                                      !.busy = "connect", !.attempt = NextJob]
    BY <1>3 DEF Connect
  <2>2. "connect" \in JobOps /\ "connect" \in ConnectionOps
    BY DEF JobOps, ConnectionOps
  <2>3. job \in JobType /\ job.op = "connect"
    BY <2>2, SessionParts DEF NewJob, JobType
  <2> HIDE DEF job
  <2>4. /\ jobs' \in Seq(JobType) /\ line' \in Seq(JobIds') /\ step' \in {"waiting", "begun", "made"}
        /\ SessionType \subseteq SessionType' /\ Seq(EventType) \subseteq Seq(EventType')
        /\ {0} \cup JobIds \subseteq {0} \cup JobIds'
        /\ SUBSET Connections \subseteq SUBSET Connections'
        /\ records \cup {NextJob} \in SUBSET {j \in JobIds' : IsPublic(j)'}
        /\ NextJob \in Connections'
    BY <2>1, <2>2, <2>3, JobsAreSame, LaunchTypes
  <2>5. session' \in SessionType'
    <3>1. session \in SessionType'
      BY <2>4, SessionParts
    <3> QED
      BY <2>1, <2>2, <2>4, <3>1 DEF SessionType, Statuses
  <2> QED
    BY <1>1, <2>1, <2>4, <2>5 DEF TypeInv
<1> QED
  BY <1>2, <1>3

\* The calls and the retries that submit the next operation of a session s.
LEMMA LaunchingTypes ==
  ASSUME TypeInv, NEW op \in Reads \cup Mutations \cup ConnectionOps, NEW generation \in Nat,
         NEW sudo \in BOOLEAN, NEW logical \in Nat, NEW r \in SUBSET records, NEW s \in SessionType,
         Enqueue(NewJob(op, generation, sudo, {}, logical), jobs, line),
         records' = r \cup {NextJob}, tokens' = tokens,
         session' = s \/ (op \in ConnectionOps /\ session' = [s EXCEPT !.attempt = NextJob]),
         events' = events \/ (events # <<>> /\ Received),
         known' \in BOOLEAN, UNCHANGED remote
  PROVE  /\ session' \in SessionType' /\ jobs' \in Seq(JobType) /\ line' \in Seq(JobIds')
         /\ step' \in {"waiting", "begun", "made"} /\ events' \in Seq(EventType')
         /\ tokens' \in SUBSET Connections' /\ remote' \in {0} \cup JobIds'
         /\ records' \in SUBSET {j \in JobIds' : IsPublic(j)'}
<1> DEFINE job == NewJob(op, generation, sudo, {}, logical)
<1>2. op \in JobOps /\ op # "close"
  BY DEF JobOps, ConnectionOps, Reads, Mutations
<1>3. job \in JobType /\ job.op = op /\ Enqueue(job, jobs, line)
  BY <1>2 DEF NewJob, JobType
<1> HIDE DEF job
<1>4. /\ jobs' \in Seq(JobType) /\ line' \in Seq(JobIds') /\ step' \in {"waiting", "begun", "made"}
      /\ SessionType \subseteq SessionType' /\ Seq(EventType) \subseteq Seq(EventType')
      /\ {0} \cup JobIds \subseteq {0} \cup JobIds'
      /\ SUBSET Connections \subseteq SUBSET Connections'
      /\ r \cup {NextJob} \in SUBSET {j \in JobIds' : IsPublic(j)'}
      /\ op \in ConnectionOps => NextJob \in Connections'
  BY <1>2, <1>3, JobsAreSame, LaunchTypes
<1>5. session' \in SessionType'
  <2>1. s \in SessionType'
    BY <1>4
  <2> QED
    BY <1>4, <2>1 DEF SessionType
<1>6. events' \in Seq(EventType)
  BY ReceivedFacts DEF TypeInv
<1> QED
  BY <1>4, <1>5, <1>6 DEF TypeInv

\* Starting a read or a change keeps the types.
LEMMA StartTypes ==
  ASSUME TypeInv, NEW op, (op \in Reads /\ StartRead(op)) \/ (op \in Mutations /\ StartMutation(op))
  PROVE  TypeInv'
<1>1. PICK logical \in Nat :
        /\ op \in Reads \cup Mutations \cup ConnectionOps
        /\ Enqueue(NewJob(op, session.generation, session.sudo, {}, logical), jobs, line)
        /\ records' = records \cup {NextJob} /\ session' = [session EXCEPT !.busy = op]
        /\ UNCHANGED <<pending, tokens, events, known, remote, down>> /\ requests' \in Nat
  <2>1. 0 \in Nat /\ Len(logicals) + 1 \in Nat /\ requests \in Nat
    BY SessionParts DEF TypeInv
  <2>2. CASE op \in Reads /\ StartRead(op)
    BY <2>1, <2>2 DEF StartRead, Request
  <2>3. CASE op \in Mutations /\ StartMutation(op)
    BY <2>1, <2>3 DEF StartMutation, Request
  <2> QED
    BY <2>2, <2>3
<1>2. [session EXCEPT !.busy = op] \in SessionType
  BY <1>1, SessionParts DEF SessionType
<1>3. /\ session' \in SessionType' /\ jobs' \in Seq(JobType) /\ line' \in Seq(JobIds')
      /\ step' \in {"waiting", "begun", "made"} /\ events' \in Seq(EventType')
      /\ tokens' \in SUBSET Connections' /\ remote' \in {0} \cup JobIds'
      /\ records' \in SUBSET {j \in JobIds' : IsPublic(j)'}
  BY <1>1, <1>2, SessionParts, LaunchingTypes DEF TypeInv
<1>4. logicals' \in Seq(LogicalType)
  <2>1. CASE StartRead(op)
    BY <2>1 DEF StartRead, TypeInv
  <2>2. CASE op \in Mutations /\ StartMutation(op)
    <3> DEFINE new == [key |-> Key(session.generation, op), attempt |-> NextJob,
                       outcomes |-> <<>>, error |-> None, completed |-> FALSE]
    <3>1. new \in LogicalType
      <4>1. Key(session.generation, op) \in Keys
        BY <2>2, SessionParts DEF Key, Keys
      <4>2. <<>> \in Seq({"succeeded", "failed"})
        OBVIOUS
      <4> QED
        BY <4>1, <4>2, SessionParts DEF LogicalType
    <3>2. logicals' = Append(logicals, new)
      BY <2>2 DEF StartMutation
    <3> QED
      BY <3>1, <3>2, AppendProperties DEF TypeInv
  <2> QED
    BY <2>1, <2>2, <1>1 DEF Reads, Mutations
<1> QED
  BY <1>1, <1>3, <1>4 DEF TypeInv

\* The calls that give up the session's work keep the types.
LEMMA GiveUpCallTypes ==
  ASSUME TypeInv, Disconnect \/ Reconnect \/ ReloadChanged \/ ReloadRemoved
  PROVE  TypeInv'
<1>1. requests' \in Nat /\ UNCHANGED <<known, remote, down>>
  BY DEF Disconnect, Reconnect, ReloadChanged, ReloadRemoved, Request, TypeInv
<1>2. /\ Detached("disconnected", "disconnect") \in SessionType
      /\ Detached("connecting", "reconnect") \in SessionType
      /\ Detached("disconnected", None) \in SessionType
      /\ [Detached("disconnected", None) EXCEPT !.present = FALSE] \in SessionType
  <2>1. Detached("disconnected", None) \in SessionType
    BY DetachedFacts
  <2>2. [Detached("disconnected", None) EXCEPT !.present = FALSE] \in SessionType
    BY <2>1 DEF SessionType
  <2> QED
    BY <2>1, <2>2, DetachedFacts DEF ConnectionOps
<1>3. ASSUME NEW op \in {"disconnect", "reconnect", "close"}, NEW next \in SessionType,
             NEW final, final \in {next, [next EXCEPT !.attempt = NextJob]},
             final # next => op = "reconnect", GiveUp(op, final),
             IF op = "close" THEN records' = records ELSE records' = records \cup {NextJob}
      PROVE  TypeInv'
  <2>1. /\ session' \in SessionType' /\ pending' \in DecisionsType
        /\ logicals' \in Seq(LogicalType) /\ jobs' \in Seq(JobType)
        /\ line' \in Seq(JobIds') /\ step' \in {"waiting", "begun", "made"}
        /\ tokens' \in SUBSET Connections' /\ events' \in Seq(EventType')
        /\ {0} \cup JobIds \subseteq {0} \cup JobIds'
        /\ records \in SUBSET {j \in JobIds' : IsPublic(j)'}
        /\ op # "close" => records \cup {NextJob} \in SUBSET {j \in JobIds' : IsPublic(j)'}
    BY <1>3, GiveUpTypes
  <2>2. records' \in SUBSET {j \in JobIds' : IsPublic(j)'}
    BY <1>3, <2>1
  <2>3. remote' \in {0} \cup JobIds' /\ known' \in BOOLEAN
        /\ down' \in {"no", "draining", "clean", "incomplete"}
    BY <1>1, <2>1 DEF TypeInv
  <2> QED
    BY <1>1, <2>1, <2>2, <2>3 DEF TypeInv
<1>4. CASE Disconnect
  BY <1>2, <1>3, <1>4 DEF Disconnect
<1>5. CASE ReloadChanged
  BY <1>2, <1>3, <1>5 DEF ReloadChanged
<1>6. CASE ReloadRemoved
  BY <1>2, <1>3, <1>6 DEF ReloadRemoved
<1>7. CASE Reconnect
  <2>1. CASE session.status # "disconnected" /\ Idle
    BY <1>2, <1>3, <1>7, <2>1 DEF Reconnect
  <2>2. CASE ~(session.status # "disconnected" /\ Idle)
    <3>1. /\ pending' = [pending EXCEPT !.trusted = {}]
          /\ UNCHANGED <<session, logicals, jobs, line, step, tokens, events, records>>
      BY <1>7, <2>2 DEF Reconnect
    <3>2. pending' \in DecisionsType
      BY <3>1, SessionParts DEF DecisionsType
    <3> QED
      BY <1>1, <3>1, <3>2, StillTypes DEF TypeInv
  <2> QED
    BY <2>1, <2>2
<1> QED
  BY <1>4, <1>5, <1>6, <1>7


\* shutdown keeps the types.
LEMMA ShutdownTypes ==
  ASSUME TypeInv, Shutdown
  PROVE  TypeInv'
<1>1. /\ requests' \in Nat /\ UNCHANGED <<records, known, remote>> /\ down' = "draining"
  BY DEF Shutdown, Request, TypeInv
<1>2. CASE session.present
  <2>1. GiveUp("close", Detached("disconnected", None))
    BY <1>2 DEF Shutdown
  <2>2. Detached("disconnected", None) \in SessionType
    BY DetachedFacts
  <2>3. /\ session' \in SessionType' /\ pending' \in DecisionsType
        /\ logicals' \in Seq(LogicalType) /\ jobs' \in Seq(JobType)
        /\ line' \in Seq(JobIds') /\ step' \in {"waiting", "begun", "made"}
        /\ tokens' \in SUBSET Connections' /\ events' \in Seq(EventType')
        /\ {0} \cup JobIds \subseteq {0} \cup JobIds'
        /\ records \in SUBSET {j \in JobIds' : IsPublic(j)'}
    BY <2>1, <2>2, GiveUpTypes
  <2>4. remote' \in {0} \cup JobIds' /\ known' \in BOOLEAN /\ records' = records
    BY <1>1, <2>3 DEF TypeInv
  <2> QED
    BY <1>1, <2>3, <2>4 DEF TypeInv
<1>3. CASE ~session.present
  <2> DEFINE job == NewJob("close", session.generation, FALSE, tokens, 0)
  <2>1. /\ UNCHANGED <<session, pending, logicals, tokens>>
        /\ (UNCHANGED <<jobs, line, step, events>> \/ Cancels(jobs, job, TRUE))
    BY <1>3 DEF Shutdown, Cancels
  <2>2. job \in JobType
    BY SessionParts, TokenTypes DEF NewJob, JobType, JobOps
  <2> HIDE DEF job
  <2>3. CASE UNCHANGED <<jobs, line, step, events>>
    BY <1>1, <2>1, <2>3, StillTypes DEF TypeInv
  <2>4. CASE Cancels(jobs, job, TRUE)
    <3>1. /\ jobs' \in Seq(JobType) /\ JobIds \subseteq JobIds'
          /\ \A j \in JobIds : jobs'[j].op = jobs[j].op
          /\ line' \in Seq(JobIds') /\ events' \in Seq(EventType')
          /\ step' \in {"waiting", "begun", "made"}
      BY <2>2, <2>4, JobsAreSame, CancelFacts
    <3>2. /\ session \in SessionType' /\ tokens \in SUBSET Connections'
          /\ remote \in {0} \cup JobIds'
          /\ records \in SUBSET {j \in JobIds' : IsPublic(j)'}
      BY <3>1, TypesGrow
    <3> QED
      BY <1>1, <2>1, <3>1, <3>2 DEF TypeInv
  <2> QED
    BY <2>1, <2>3, <2>4
<1> QED
  BY <1>2, <1>3

\* A handler may submit a job that closes what is open.
MayClose(history, open) ==
    \/ SubmitClose(history, open)
    \/ jobs' = history /\ line' = line /\ step' = step

\* A handler's session, with the old managers, fits the new jobs.
LEMMA HandlerTypes ==
  ASSUME TypeInv, NEW history, SameJobs(history), NEW open \in SUBSET Connections,
         session' \in SessionType, tokens' = open, MayClose(history, open),
         events' = events \/ (events # <<>> /\ Received), records' \in SUBSET records,
         UNCHANGED remote
  PROVE  /\ session' \in SessionType' /\ jobs' \in Seq(JobType) /\ line' \in Seq(JobIds')
         /\ step' \in {"waiting", "begun", "made"} /\ events' \in Seq(EventType')
         /\ tokens' \in SUBSET Connections' /\ remote' \in {0} \cup JobIds'
         /\ records' \in SUBSET {j \in JobIds' : IsPublic(j)'}
<1> DEFINE job == NewJob("close", session.generation, FALSE, open, 0)
<1>1. events' \in Seq(EventType)
  BY ReceivedFacts DEF TypeInv
<1>2. CASE SubmitClose(history, open)
  <2>1. job \in JobType /\ Enqueue(job, history, line)
    BY <1>2, SessionParts, TokenTypes DEF NewJob, JobType, JobOps, SubmitClose
  <2> HIDE DEF job
  <2>2. /\ jobs' \in Seq(JobType) /\ line' \in Seq(JobIds')
        /\ step' \in {"waiting", "begun", "made"}
        /\ SessionType \subseteq SessionType' /\ Seq(EventType) \subseteq Seq(EventType')
        /\ {0} \cup JobIds \subseteq {0} \cup JobIds'
        /\ SUBSET Connections \subseteq SUBSET Connections'
        /\ \A r \in SUBSET records : r \in SUBSET {j \in JobIds' : IsPublic(j)'}
    BY <2>1, LaunchTypes
  <2>3. remote' \in {0} \cup JobIds'
    BY <2>2 DEF TypeInv
  <2> QED
    BY <1>1, <2>2, <2>3
<1>3. CASE jobs' = history /\ line' = line /\ step' = step
  <2>1. jobs' \in Seq(JobType) /\ JobIds' = JobIds /\ \A j \in JobIds : jobs'[j].op = jobs[j].op
    BY <1>3, JobIdsRange DEF SameJobs, JobIds
  <2>2. /\ SessionType \subseteq SessionType' /\ Seq(EventType) \subseteq Seq(EventType')
        /\ Connections \subseteq Connections'
        /\ records \in SUBSET {j \in JobIds' : IsPublic(j)'}
        /\ remote \in {0} \cup JobIds' /\ line \in Seq(JobIds')
    BY <2>1, TypesGrow
  <2>3. step' \in {"waiting", "begun", "made"} /\ events' \in Seq(EventType')
    BY <1>1, <1>3, <2>2 DEF TypeInv
  <2> QED
    BY <1>3, <2>1, <2>2, <2>3
<1> QED
  BY <1>2, <1>3 DEF MayClose

\* Steps that leave jobs, line and tokens alone.
LEMMA QuietTypes ==
  ASSUME TypeInv, session' \in SessionType, pending' \in DecisionsType,
         logicals' \in Seq(LogicalType), records' \in SUBSET records,
         known' \in BOOLEAN, requests' \in Nat, down' \in {"no", "draining", "clean", "incomplete"},
         UNCHANGED <<jobs, line, step, tokens, remote>>,
         events' = events \/ (events # <<>> /\ Received)
  PROVE  TypeInv'
<1>1. SameJobs(jobs) /\ tokens \in SUBSET Connections /\ MayClose(jobs, tokens) /\ tokens' = tokens
  BY JobsAreSame DEF TypeInv, MayClose
<1>2. /\ session' \in SessionType' /\ jobs' \in Seq(JobType) /\ line' \in Seq(JobIds')
      /\ step' \in {"waiting", "begun", "made"} /\ events' \in Seq(EventType')
      /\ tokens' \in SUBSET Connections' /\ remote' \in {0} \cup JobIds'
      /\ records' \in SUBSET {j \in JobIds' : IsPublic(j)'}
  BY <1>1, HandlerTypes
<1> QED
  BY <1>2 DEF TypeInv

\* The calls that start no job keep the types.
LEMMA OtherCallTypes ==
  ASSUME TypeInv, ProvideSudoPassword \/ Select \/ ReloadAdded \/ ShutdownReturns
  PROVE  TypeInv'
<1>1. /\ UNCHANGED <<logicals, jobs, line, step, tokens, events, known, remote>>
      /\ records' \in SUBSET records /\ requests' \in Nat
      /\ down' \in {"no", "draining", "clean", "incomplete"}
  BY DEF ProvideSudoPassword, Select, ReloadAdded, ShutdownReturns, Request, TypeInv
<1>2. session' \in SessionType
  <2>1. session' \in {session, [session EXCEPT !.sudo = TRUE], NewSession(session.generation + 1)}
    BY DEF ProvideSudoPassword, Select, ReloadAdded, ShutdownReturns
  <2>2. [session EXCEPT !.sudo = TRUE] \in SessionType
    BY SessionParts DEF SessionType
  <2>3. NewSession(session.generation + 1) \in SessionType
    BY SessionParts DEF NewSession, SessionType, Statuses
  <2> QED
    BY <2>1, <2>2, <2>3, SessionParts
<1>3. pending' \in DecisionsType
  <2>1. pending' \in {pending, [pending EXCEPT !.trusted = {}]}
    BY DEF ProvideSudoPassword, Select, ReloadAdded, ShutdownReturns
  <2> QED
    BY <2>1, SessionParts DEF DecisionsType
<1> QED
  BY <1>1, <1>2, <1>3, QuietTypes DEF TypeInv

\* Every call of the window keeps the types.
LEMMA CallTypes ==
  ASSUME TypeInv, Calls
  PROVE  TypeInv'
  BY ConnectTypes, StartTypes, GiveUpCallTypes, ShutdownTypes, OtherCallTypes DEF Calls

-----------------------------------------------------------------------------
(* ... by the handlers.                                                     *)

\* The three ways a success is delivered.
LEMMA SucceededCases ==
  ASSUME TypeInv, OnSucceeded
  PROVE  LET j == Head(events).job IN
         /\ events # <<>> /\ Head(events).signal = "succeeded" /\ Received
         /\ j \in JobIds /\ Queued(j, "succeeded") /\ Head(events).result \in Results
         /\ UNCHANGED <<pending, records, logicals, known, remote, requests, down>>
         /\ \/ /\ ~(Recorded(j) /\ Current(j) /\ session.busy = jobs[j].op)
               /\ DiscardSucceeded(j)
            \/ /\ Recorded(j) /\ Current(j) /\ session.busy = jobs[j].op
               /\ jobs[j].op \in Mutations /\ MutationSucceeded(j, Head(events).result)
            \/ /\ Recorded(j) /\ Current(j) /\ session.busy = jobs[j].op
               /\ jobs[j].op \notin Mutations
               /\ session' = IF IsConnection(j)
                             THEN [session EXCEPT !.manager = j, !.attempt = None,
                                     !.snapshot = Snapshot(j), !.status = "connected"]
                             ELSE IF jobs[j].op = "refresh"
                             THEN [session EXCEPT !.snapshot = Snapshot(j)]
                             ELSE session
               /\ UNCHANGED <<jobs, tokens, line, step>>
<1>1. events # <<>> /\ Head(events).signal = "succeeded" /\ Received
  BY DEF OnSucceeded
<1>2. /\ Head(events).job \in JobIds /\ Queued(Head(events).job, "succeeded")
      /\ Head(events).result \in Results
  BY <1>1, ReceivedFacts
<1> QED
  BY <1>1, <1>2 DEF OnSucceeded, IsConnection, ConnectionOps

\* A manager that is no longer wanted.
LEMMA DiscardCases ==
  ASSUME TypeInv, NEW j \in JobIds, DiscardSucceeded(j)
  PROVE  /\ session' = session
         /\ \/ UNCHANGED <<jobs, tokens, line, step>>
            \/ /\ ~Current(j) /\ IsConnection(j) /\ SameJobs(Invalidated(j))
               /\ \/ /\ Claimable(j) /\ tokens' = tokens \cup {j}
                     /\ SubmitClose(Invalidated(j), tokens \cup {j})
                  \/ /\ ~Claimable(j) /\ jobs' = Invalidated(j)
                     /\ UNCHANGED <<tokens, line, step>>
<1>1. SameJobs(Invalidated(j))
  BY InvalidatedFacts
<1> QED
  BY <1>1 DEF DiscardSucceeded

\* _on_job_succeeded keeps the types.
LEMMA SucceededTypes ==
  ASSUME TypeInv, OnSucceeded
  PROVE  TypeInv'
<1> DEFINE j == Head(events).job
           result == Head(events).result
<1>1. /\ events # <<>> /\ Received /\ j \in JobIds
      /\ UNCHANGED <<pending, records, logicals, known, remote, requests, down>>
  BY SucceededCases
<1>2. SameJobs(jobs) /\ tokens \in SUBSET Connections
  BY JobsAreSame, TokenTypes
<1>3. SUFFICES \E history : \E open \in SUBSET Connections :
         SameJobs(history) /\ session' \in SessionType /\ tokens' = open /\ MayClose(history, open)
  <2>4. PICK history : \E open \in SUBSET Connections :
         SameJobs(history) /\ session' \in SessionType /\ tokens' = open /\ MayClose(history, open)
    BY <1>3
  <2>1. PICK open \in SUBSET Connections :
         SameJobs(history) /\ session' \in SessionType /\ tokens' = open /\ MayClose(history, open)
    BY <2>4
  <2>2. /\ session' \in SessionType' /\ jobs' \in Seq(JobType) /\ line' \in Seq(JobIds')
        /\ step' \in {"waiting", "begun", "made"} /\ events' \in Seq(EventType')
        /\ tokens' \in SUBSET Connections' /\ remote' \in {0} \cup JobIds'
        /\ records' \in SUBSET {k \in JobIds' : IsPublic(k)'}
    BY <1>1, <2>1, HandlerTypes
  <2> QED
    BY <1>1, <2>2 DEF TypeInv
<1>4. CASE DiscardSucceeded(j)
  <2>4. session \in SessionType
    BY SessionParts
  <2>1. CASE UNCHANGED <<session, jobs, tokens, line, step>>
    <3>1. MayClose(jobs, tokens) /\ session' \in SessionType /\ tokens' = tokens
      BY <2>1, <2>4 DEF MayClose
    <3> QED
      BY <1>2, <3>1
  <2>2. CASE /\ session' = session /\ IsConnection(j) /\ SameJobs(Invalidated(j))
             /\ tokens' = tokens \cup {j} /\ SubmitClose(Invalidated(j), tokens \cup {j})
    <3>1. tokens \cup {j} \in SUBSET Connections
      BY <1>1, <1>2, <2>2 DEF Connections
    <3>2. MayClose(Invalidated(j), tokens \cup {j}) /\ session' \in SessionType
      BY <2>2, <2>4 DEF MayClose
    <3> QED
      BY <2>2, <3>1, <3>2
  <2>3. CASE /\ session' = session /\ SameJobs(Invalidated(j))
             /\ jobs' = Invalidated(j) /\ UNCHANGED <<tokens, line, step>>
    <3>1. MayClose(Invalidated(j), tokens) /\ session' \in SessionType /\ tokens' = tokens
      BY <2>3, <2>4 DEF MayClose
    <3> QED
      BY <1>2, <2>3, <3>1
  <2> QED
    BY <1>1, <1>4, <2>1, <2>2, <2>3, DiscardCases
<1>5. CASE MutationSucceeded(j, result)
  <2> DEFINE lost == result = "refresh_transport" /\ session.manager # None
             open == tokens \cup {m \in {session.manager} : lost}
  <2>1. /\ session' = [session EXCEPT
             !.snapshot = IF result \in {"ok", "ok_rejected"} THEN Snapshot(j) ELSE Staled(@),
             !.sudo     = @ /\ result \notin {"ok_rejected", "refresh_rejected"} /\ ~lost,
             !.manager  = IF lost THEN None ELSE @,
             !.status   = IF lost THEN "error" ELSE @]
        /\ tokens' = open /\ MayClose(jobs, open)
    BY <1>5 DEF MutationSucceeded, MayClose
  <2>2. open \in SUBSET Connections
    BY <1>2, SessionParts
  <2>3. session' \in SessionType
    <3>1. Snapshot(j) \in [stale : BOOLEAN, job : JobIds]
      BY <1>1 DEF Snapshot
    <3>2. (IF result \in {"ok", "ok_rejected"} THEN Snapshot(j) ELSE Staled(session.snapshot))
             \in {None} \cup [stale : BOOLEAN, job : JobIds]
      BY <3>1, StaledType
    <3>3. PICK snapshot \in {None} \cup [stale : BOOLEAN, job : JobIds], sudo \in BOOLEAN,
               manager \in {None} \cup Connections, status \in Statuses :
            session' = [session EXCEPT !.snapshot = snapshot, !.sudo = sudo,
                                       !.manager = manager, !.status = status]
      <4>1. (session.sudo /\ result \notin {"ok_rejected", "refresh_rejected"} /\ ~lost) \in BOOLEAN
        BY SessionParts
      <4>2. (IF lost THEN None ELSE session.manager) \in {None} \cup Connections
        BY SessionParts
      <4>3. (IF lost THEN "error" ELSE session.status) \in Statuses
        BY SessionParts DEF Statuses
      <4> HIDE DEF result, lost
      <4> QED
        BY <2>1, <3>2, <4>1, <4>2, <4>3
    <3> QED
      BY <3>3, SessionParts DEF SessionType
  <2> HIDE DEF open
  <2> QED
    BY <1>2, <2>1, <2>2, <2>3
<1>6. CASE /\ session' = IF IsConnection(j)
                         THEN [session EXCEPT !.manager = j, !.attempt = None,
                                 !.snapshot = Snapshot(j), !.status = "connected"]
                         ELSE IF jobs[j].op = "refresh"
                         THEN [session EXCEPT !.snapshot = Snapshot(j)]
                         ELSE session
           /\ UNCHANGED <<jobs, tokens, line, step>>
  <2>1. Snapshot(j) \in [stale : BOOLEAN, job : JobIds]
    BY <1>1 DEF Snapshot
  <2>2. IsConnection(j) => j \in Connections
    BY <1>1 DEF Connections
  <2>3. session' \in SessionType
    <3>1. CASE IsConnection(j)
      <4>1. "connected" \in Statuses
        BY DEF Statuses
      <4>2. PICK k \in Connections, snapshot \in [stale : BOOLEAN, job : JobIds] :
              session' = [session EXCEPT !.manager = k, !.attempt = None,
                                 !.snapshot = snapshot, !.status = "connected"]
        BY <1>6, <2>1, <2>2, <3>1
      <4> QED
        BY <4>1, <4>2, SessionParts DEF SessionType
    <3>2. CASE ~IsConnection(j)
      <4>1. PICK snapshot \in [stale : BOOLEAN, job : JobIds] :
              session' \in {session, [session EXCEPT !.snapshot = snapshot]}
        BY <1>6, <2>1, <3>2
      <4> QED
        BY <4>1, SessionParts DEF SessionType
    <3> QED
      BY <3>1, <3>2
  <2>4. MayClose(jobs, tokens) /\ tokens' = tokens
    BY <1>6 DEF MayClose
  <2> QED
    BY <1>2, <2>3, <2>4
<1> QED
  BY <1>4, <1>5, <1>6, SucceededCases


\* What a failure changes: the password goes, the status tells, a prompt may be due.
FailedSession(j, result, sudo, status) ==
    /\ session' = [session EXCEPT !.sudo = sudo, !.status = status]
    /\ sudo => session.sudo
    /\ status = "host_key_error" =>
         session.status = status \/ result \in {"unknown_key", "changed_key"}
    /\ status # session.status => status \in {"error", "host_key_error"}
    /\ result = "unknown_key" => status = "host_key_error"
    /\ result = "sudo_required" => status = "error"
    /\ result = "store_error" /\ IsConnection(j) => status = "error"

FailedDecisions(key, result, decision, prompt) ==
    /\ pending' = [pending EXCEPT !.key = decision, !.sudo = prompt]
    /\ decision \in {None, pending.key, key}
    /\ prompt \in {None, pending.sudo, key}
    /\ decision \notin {None, pending.key} => result = "unknown_key"
    /\ prompt \notin {None, pending.sudo} => result = "sudo_required"

\* What _apply_failure does to the session and the decisions.
LEMMA FailureFacts ==
  ASSUME TypeInv, NEW j \in JobIds, IsPublic(j), NEW result \in Results, NEW rest,
         ApplyFailure(j, result, rest)
  PROVE  LET key == Key(session.generation, jobs[j].op) IN
         /\ key \in Keys
         /\ \E sudo \in BOOLEAN : \E status \in Statuses : FailedSession(j, result, sudo, status)
         /\ \E decision \in {None} \cup Keys : \E prompt \in {None} \cup Keys :
              FailedDecisions(key, result, decision, prompt)
         /\ session' \in SessionType /\ pending' \in DecisionsType
<1> DEFINE op   == jobs[j].op
           key  == Key(session.generation, op)
           again == key \in pending.retried
           errs == result \in {"auth", "sudo_rejected", "sudo_required", "transport", "remote_error"}
                   \/ (result \in {"command", "store_error"} /\ IsConnection(j))
           sudo0 == session.sudo /\ result \notin {"auth", "sudo_rejected", "post"}
                                 /\ ~(result = "sudo_required" /\ again)
           status0 == CASE result \in {"unknown_key", "changed_key"} -> "host_key_error"
                        [] errs  -> "error"
                        [] OTHER -> session.status
           decision0 == CASE result = "unknown_key" -> key
                          [] result \in {"changed_key", "store_error"} -> None
                          [] OTHER -> pending.key
           prompt0 == CASE result = "sudo_required" /\ ~again -> key
                        [] result = "sudo_required" /\ again -> None
                        [] result \in {"unknown_key", "auth", "sudo_rejected", "post"} -> None
                        [] OTHER -> pending.sudo
<1>1. key \in Keys
  <2>1. jobs[j] \in JobType
    BY SessionParts, ElementOfSeq DEF TypeInv
  <2>2. op \in Reads \cup Mutations \cup ConnectionOps \cup {"disconnect"}
    BY <2>1 DEF JobType, JobOps, IsPublic
  <2> QED
    BY <2>2, SessionParts DEF Key, Keys
<1>2. /\ session' = [session EXCEPT !.sudo = sudo0, !.status = status0]
      /\ pending' = [pending EXCEPT !.key = decision0, !.sudo = prompt0]
  BY DEF ApplyFailure
<1>3. sudo0 \in BOOLEAN /\ (sudo0 => session.sudo)
  BY SessionParts
<1>4. /\ status0 \in Statuses
      /\ status0 = "host_key_error" =>
           session.status = status0 \/ result \in {"unknown_key", "changed_key"}
      /\ status0 # session.status => status0 \in {"error", "host_key_error"}
      /\ result = "sudo_required" => status0 = "error"
      /\ result = "unknown_key" => status0 = "host_key_error"
      /\ result = "store_error" /\ IsConnection(j) => status0 = "error"
  <2> HIDE DEF again, key
  <2>1. CASE result \in {"unknown_key", "changed_key"}
    BY <2>1 DEF Statuses
  <2>2. CASE result \notin {"unknown_key", "changed_key"} /\ errs
    <3>1. status0 = "error"
      BY <2>2
    <3> HIDE DEF status0, errs
    <3> QED
      BY <2>2, <3>1 DEF Statuses
  <2>3. CASE result \notin {"unknown_key", "changed_key"} /\ ~errs
    <3>1. status0 = session.status /\ result # "sudo_required"
          /\ ~(result = "store_error" /\ IsConnection(j))
      BY <2>3
    <3> HIDE DEF status0, errs
    <3> QED
      BY <2>3, <3>1, SessionParts
  <2> QED
    BY <2>1, <2>2, <2>3
<1>5. /\ decision0 \in {None} \cup Keys /\ decision0 \in {None, pending.key, key}
      /\ prompt0 \in {None} \cup Keys /\ prompt0 \in {None, pending.sudo, key}
      /\ decision0 \notin {None, pending.key} => result = "unknown_key"
      /\ prompt0 \notin {None, pending.sudo} => result = "sudo_required"
  <2>1. pending.key \in {None} \cup Keys /\ pending.sudo \in {None} \cup Keys
    BY SessionParts DEF DecisionsType
  <2> HIDE DEF again, key
  <2> QED
    BY <1>1, <2>1
<1> HIDE DEF sudo0, status0, decision0, prompt0
<1>6. session' \in SessionType
  BY <1>2, <1>3, <1>4, SessionParts DEF SessionType
<1>7. pending' \in DecisionsType
  BY <1>2, <1>5, SessionParts DEF DecisionsType
<1> HIDE DEF key
<1>8. FailedSession(j, result, sudo0, status0)
  BY <1>2, <1>3, <1>4 DEF FailedSession
<1>9. FailedDecisions(key, result, decision0, prompt0)
  BY <1>2, <1>5 DEF FailedDecisions
<1>10. \E sudo \in BOOLEAN : \E status \in Statuses : FailedSession(j, result, sudo, status)
  BY <1>3, <1>4, <1>8
<1>11. \E decision \in {None} \cup Keys : \E prompt \in {None} \cup Keys :
         FailedDecisions(key, result, decision, prompt)
  BY <1>5, <1>9
<1> QED
  BY <1>1, <1>6, <1>7, <1>10, <1>11 DEF key

\* A failed signal is dropped, or _apply_failure takes it for the session's job.
LEMMA FailedCases ==
  ASSUME TypeInv, OnFailed
  PROVE  LET j == Head(events).job IN
         /\ events # <<>> /\ Head(events).signal = "failed" /\ Received
         /\ j \in JobIds /\ Queued(j, "failed") /\ Head(events).result \in Results
         /\ UNCHANGED <<records, logicals, jobs, line, step, tokens, known, remote, requests, down>>
         /\ \/ UNCHANGED <<session, pending, stack>>
            \/ /\ Recorded(j) /\ Current(j) /\ session.busy = jobs[j].op /\ IsPublic(j)
               /\ ApplyFailure(j, Head(events).result,
                               <<Frame("emit_failed", j, Head(events).result)>> \o stack)
<1>1. events # <<>> /\ Head(events).signal = "failed" /\ Received
  BY DEF OnFailed
<1>2. /\ Head(events).job \in JobIds /\ Queued(Head(events).job, "failed")
      /\ Head(events).result \in Results
  BY <1>1, ReceivedFacts
<1>3. Recorded(Head(events).job) => IsPublic(Head(events).job)
  BY DEF Recorded, KeyOf, Key, IsPublic, TypeInv
<1> QED
  BY <1>1, <1>2, <1>3 DEF OnFailed

\* _on_job_failed keeps the types.
LEMMA FailedTypes ==
  ASSUME TypeInv, OnFailed
  PROVE  TypeInv'
<1> DEFINE j == Head(events).job
           result == Head(events).result
<1>1. /\ events # <<>> /\ Received /\ j \in JobIds /\ result \in Results
      /\ UNCHANGED <<records, logicals, jobs, line, step, tokens, known, remote, requests, down>>
      /\ \/ UNCHANGED <<session, pending, stack>>
         \/ IsPublic(j) /\ ApplyFailure(j, result, <<Frame("emit_failed", j, result)>> \o stack)
  BY FailedCases
<1>2. session' \in SessionType /\ pending' \in DecisionsType
  BY <1>1, FailureFacts, SessionParts
<1>3. /\ logicals' \in Seq(LogicalType) /\ records' \in SUBSET records
      /\ known' \in BOOLEAN /\ requests' \in Nat
      /\ down' \in {"no", "draining", "clean", "incomplete"}
  BY <1>1 DEF TypeInv
<1> QED
  BY <1>1, <1>2, <1>3, QuietTypes

\* The Qt thread's stack: prompts, the rest of handlers, or the end of shutdown().
FrameType == [fn : Dialogs \cup {"emit_succeeded", "emit_failed", "rest_of_apply_failure"},
              job : Nat, result : {None} \cup Results]
             \cup [fn : {"wait_for_done"}]

StackInv == stack \in Seq(FrameType)

\* The end of a handler tells the public handle, and with it the logical job.
LEMMA EmitTypes ==
  ASSUME TypeInv, StackInv, EmitSucceeded \/ EmitFailed
  PROVE  TypeInv'
<1> DEFINE j == Head(stack).job
           result == Head(stack).result
<1>1. UNCHANGED <<session, records, jobs, line, step, tokens, events, known, remote, requests, down>>
  BY DEF EmitSucceeded, EmitFailed
<1>2. pending' \in DecisionsType
  <2>1. pending' = [pending EXCEPT !.retried = @ \ {KeyOf(j)}]
    BY DEF EmitSucceeded, EmitFailed
  <2> QED
    BY <2>1, SessionParts DEF DecisionsType
<1>3. logicals \in Seq(LogicalType) /\ \A i \in DOMAIN logicals : logicals[i] \in LogicalType
  <2>1. logicals \in Seq(LogicalType)
    BY DEF TypeInv
  <2> QED
    BY <2>1, ElementOfSeq
<1>4. logicals' \in Seq(LogicalType)
  <2>1. CASE EmitSucceeded
    <3>1. logicals' = [i \in DOMAIN logicals |->
                           IF i \in Attempted(j) THEN WithOutcome(logicals[i], "succeeded")
                           ELSE logicals[i]]
      BY <2>1 DEF EmitSucceeded
    <3>2. \A i \in DOMAIN logicals : WithOutcome(logicals[i], "succeeded") \in LogicalType
      BY <1>3, LogicalParts
    <3>3. logicals' \in [DOMAIN logicals -> LogicalType]
      BY <1>3, <3>1, <3>2
    <3> QED
      BY <1>3, <3>3, LogicalsMapped
  <2>2. CASE EmitFailed
    <3>1. result \in {None} \cup Results
      <4>1. stack # <<>> /\ Head(stack).fn = "emit_failed"
        BY <2>2 DEF EmitFailed
      <4>2. Head(stack) \in FrameType
        BY <4>1, HasTail DEF StackInv
      <4> QED
        BY <4>1, <4>2 DEF FrameType
    <3> DEFINE failed(logical) == [logical EXCEPT !.error = result]
    <3>2. logicals' = [i \in DOMAIN logicals |->
                IF i \notin Attempted(j) THEN logicals[i]
                ELSE IF result = "sudo_required" /\ Awaited(KeyOf(j))
                THEN failed(logicals[i])
                ELSE WithOutcome(failed(logicals[i]), "failed")]
      BY <2>2 DEF EmitFailed
    <3>3. ASSUME NEW i \in DOMAIN logicals
          PROVE  failed(logicals[i]) \in LogicalType
      BY <1>3, <3>1 DEF LogicalType
    <3>4. \A i \in DOMAIN logicals : WithOutcome(failed(logicals[i]), "failed") \in LogicalType
      BY <3>3, LogicalParts
    <3> HIDE DEF failed, result
    <3>5. logicals' \in [DOMAIN logicals -> LogicalType]
      BY <1>3, <3>2, <3>3, <3>4
    <3> QED
      BY <1>3, <3>5, LogicalsMapped
  <2> QED
    BY <2>1, <2>2
<1>5. /\ records' \in SUBSET records /\ session' \in SessionType
      /\ known' \in BOOLEAN /\ requests' \in Nat
      /\ down' \in {"no", "draining", "clean", "incomplete"}
  BY <1>1 DEF TypeInv
<1> QED
  BY <1>1, <1>2, <1>4, <1>5, QuietTypes

\* The rest of _apply_failure: the manager may be lost, and is then to be closed.
LEMMA RestFacts ==
  ASSUME TypeInv, RestOfApplyFailure
  PROVE  LET j == Head(stack).job IN
         /\ stack # <<>> /\ Head(stack).fn = "rest_of_apply_failure"
         /\ UNCHANGED <<pending, records, logicals, events, known, remote, requests, down>>
         /\ \E attempt \in {session.attempt, None},
               snapshot \in {session.snapshot, Staled(session.snapshot)},
               manager \in {session.manager, None}, sudo \in BOOLEAN :
              /\ session' = [session EXCEPT !.attempt = attempt, !.snapshot = snapshot,
                                            !.manager = manager, !.sudo = sudo]
              /\ attempt = IF IsConnection(j) THEN None ELSE session.attempt
              /\ sudo => session.sudo
              /\ \/ /\ manager = session.manager /\ tokens' = tokens /\ UNCHANGED <<jobs, line, step>>
                 \/ /\ session.manager # None /\ manager = None
                    /\ tokens' = tokens \cup {session.manager}
                    /\ SubmitClose(jobs, tokens')
         /\ session' \in SessionType
<1> DEFINE j      == Head(stack).job
           result == Head(stack).result
           broken == result \in {"transport", "auth"}
           lost   == broken /\ session.manager # None
           unsure == \/ jobs[j].op \in {"refresh", "reload_firewalld"}
                     \/ jobs[j].op \in Mutations /\ (broken \/ result = "post")
           open   == tokens \cup {m \in {session.manager} : lost}
           attempt  == IF IsConnection(j) THEN None ELSE session.attempt
           snapshot == IF unsure THEN Staled(session.snapshot) ELSE session.snapshot
           manager  == IF lost THEN None ELSE session.manager
           sudo     == session.sudo /\ ~lost
<1>1. /\ stack # <<>> /\ Head(stack).fn = "rest_of_apply_failure"
      /\ UNCHANGED <<pending, records, logicals, events, known, remote, requests, down>>
  BY DEF RestOfApplyFailure
<1>2. /\ session' = [session EXCEPT !.attempt = attempt, !.snapshot = snapshot,
                                    !.manager = manager, !.sudo = sudo]
      /\ tokens' = open
      /\ IF lost THEN SubmitClose(jobs, open) ELSE UNCHANGED <<jobs, line, step>>
  BY DEF RestOfApplyFailure
<1>3. /\ attempt \in {session.attempt, None} /\ manager \in {session.manager, None}
      /\ snapshot \in {session.snapshot, Staled(session.snapshot)}
      /\ sudo \in BOOLEAN /\ (sudo => session.sudo)
      /\ attempt = IF IsConnection(j) THEN None ELSE session.attempt
  BY SessionParts
<1>4. \/ manager = session.manager /\ tokens' = tokens /\ UNCHANGED <<jobs, line, step>>
      \/ /\ session.manager # None /\ manager = None
         /\ tokens' = tokens \cup {session.manager}
         /\ SubmitClose(jobs, tokens')
  <2>1. CASE lost
    <3>1. open = tokens \cup {session.manager} /\ session.manager # None
      BY <2>1
    <3> QED
      BY <1>2, <2>1, <3>1
  <2>2. CASE ~lost
    <3>1. open = tokens
      BY <2>2
    <3> QED
      BY <1>2, <2>2, <3>1
  <2> QED
    BY <2>1, <2>2
<1>5. session' \in SessionType
  <2>1. snapshot \in {None} \cup [stale : BOOLEAN, job : JobIds]
    BY <1>3, StaledType, SessionParts
  <2>2. attempt \in {None} \cup Connections /\ manager \in {None} \cup Connections
    BY <1>3, SessionParts
  <2> HIDE DEF attempt, snapshot, manager, sudo
  <2>3. PICK a, m \in {None} \cup Connections, secret \in BOOLEAN,
             p \in {None} \cup [stale : BOOLEAN, job : JobIds] :
          session' = [session EXCEPT !.attempt = a, !.snapshot = p, !.manager = m, !.sudo = secret]
    BY <1>2, <1>3, <2>1, <2>2
  <2> QED
    BY <2>3, SessionParts DEF SessionType
<1> HIDE DEF attempt, snapshot, manager, sudo
<1> QED
  BY <1>1, <1>2, <1>3, <1>4, <1>5

\* What _apply_failure does after its signal keeps the types.
LEMMA RestTypes ==
  ASSUME TypeInv, RestOfApplyFailure
  PROVE  TypeInv'
<1>1. /\ session' \in SessionType
      /\ UNCHANGED <<pending, records, logicals, events, known, remote, requests, down>>
      /\ \/ tokens' = tokens /\ UNCHANGED <<jobs, line, step>>
         \/ /\ session.manager # None /\ tokens' = tokens \cup {session.manager}
            /\ SubmitClose(jobs, tokens')
  BY RestFacts
<1>2. tokens' \in SUBSET Connections /\ SameJobs(jobs)
  BY <1>1, TokenTypes, JobsAreSame
<1>3. MayClose(jobs, tokens')
  BY <1>1 DEF MayClose
<1>4. PICK open \in SUBSET Connections : open = tokens'
  BY <1>2
<1>5. /\ session' \in SessionType' /\ jobs' \in Seq(JobType) /\ line' \in Seq(JobIds')
      /\ step' \in {"waiting", "begun", "made"} /\ events' \in Seq(EventType')
      /\ tokens' \in SUBSET Connections' /\ remote' \in {0} \cup JobIds'
      /\ records' \in SUBSET {j \in JobIds' : IsPublic(j)'}
  <2>1. records' \in SUBSET records /\ MayClose(jobs, open)
    BY <1>1, <1>3, <1>4
  <2> QED
    BY <1>1, <1>2, <1>4, <2>1, HandlerTypes
<1> QED
  BY <1>1, <1>5 DEF TypeInv


-----------------------------------------------------------------------------
(* ... and by what follows a finish or an answer.                           *)

\* What a signal and a decision can be about.
TopicInv ==
    /\ \A i \in 1 .. Len(events) :
         /\ events[i].result \in {"unknown_key", "changed_key"} =>
              events[i].signal # "succeeded" /\ IsConnection(events[i].job)
         /\ events[i].result = "sudo_required" =>
              jobs[events[i].job].op \in Reads \cup Mutations \cup ConnectionOps
    /\ \A key \in {pending.key} \cup pending.trusted : key # None => key.op \in ConnectionOps
    /\ \A key \in {pending.sudo} \cup pending.accepted :
         key # None => key.op \in Reads \cup Mutations \cup ConnectionOps

\* Nothing follows, or a connection is restarted, or a service operation repeated.
Retries(s, p, r, l, key) ==
    \/ NoRetry(s, p, r, l)
    \/ /\ s.present /\ s.generation = key.generation
       /\ \/ \E with_sudo \in BOOLEAN :
               /\ key.op \in ConnectionOps
               /\ ~with_sudo => s.status = "host_key_error" /\ s.busy = None
               /\ Restart(s, p, r, key, with_sudo) /\ logicals' = l
          \/ /\ key.op \in Reads \cup Mutations /\ s.manager # None
             /\ Relaunch(s, p, r, l, key)

\* Both kinds of retry do the same to the jobs and the records: see Retries.
LEMMA RetryCases ==
  ASSUME NEW s, NEW p, NEW r, NEW l, NEW key,
         \/ key.op \in ConnectionOps /\ TrustedRetry(s, p, r, l, key)
         \/ SudoRetry(s, p, r, l, key)
  PROVE  Retries(s, p, r, l, key)
<1>1. CASE key.op \in ConnectionOps /\ TrustedRetry(s, p, r, l, key)
  <2>1. CASE TrustedRetryAllowed(s, key)
    <3>1. Restart(s, p, r, key, FALSE) /\ logicals' = l
      BY <1>1, <2>1 DEF TrustedRetry
    <3> QED
      BY <1>1, <2>1, <3>1 DEF TrustedRetryAllowed, Retries
  <2>2. CASE ~TrustedRetryAllowed(s, key)
    BY <1>1, <2>2 DEF TrustedRetry, Retries
  <2> QED
    BY <2>1, <2>2
<1>2. CASE SudoRetry(s, p, r, l, key)
  <2>1. CASE ~SudoRetryAllowed(s, l, key)
    BY <1>2, <2>1 DEF SudoRetry, Retries
  <2>2. CASE SudoRetryAllowed(s, l, key) /\ key.op \in ConnectionOps
    <3>1. Restart(s, p, r, key, TRUE) /\ logicals' = l
      BY <1>2, <2>2 DEF SudoRetry
    <3> QED
      BY <2>2, <3>1 DEF SudoRetryAllowed, Retries
  <2>3. CASE SudoRetryAllowed(s, l, key) /\ key.op \notin ConnectionOps
    <3>1. Relaunch(s, p, r, l, key)
      BY <1>2, <2>3 DEF SudoRetry
    <3> QED
      BY <2>3, <3>1 DEF SudoRetryAllowed, Retries
  <2> QED
    BY <2>1, <2>2, <2>3
<1> QED
  BY <1>1, <1>2

\* A retry keeps the types.
LEMMA RetryTypes ==
  ASSUME TypeInv, NEW s \in SessionType, NEW p \in DecisionsType, NEW r \in SUBSET records,
         NEW l \in Seq(LogicalType), NEW key \in Keys,
         Retries(s, p, r, l, key), tokens' = tokens,
         events' = events \/ (events # <<>> /\ Received),
         known' \in BOOLEAN, UNCHANGED <<remote, requests, down>>
  PROVE  TypeInv'
<1>1. CASE NoRetry(s, p, r, l)
  <2>1. /\ session' = s /\ pending' = p /\ records' = r /\ logicals' = l
        /\ UNCHANGED <<jobs, line, step>>
    BY <1>1 DEF NoRetry
  <2>2. requests' \in Nat /\ down' \in {"no", "draining", "clean", "incomplete"}
    BY DEF TypeInv
  <2> QED
    BY <2>1, <2>2, QuietTypes
<1>2. ASSUME NEW with_sudo \in BOOLEAN, key.op \in ConnectionOps,
             Restart(s, p, r, key, with_sudo), logicals' = l
      PROVE  TypeInv'
  <2> DEFINE next == [s EXCEPT !.generation = @ + 1, !.status = "connecting",
                               !.snapshot = None, !.busy = key.op]
  <2>1. /\ Enqueue(NewJob(key.op, s.generation + 1, s.sudo, {}, 0), jobs, line)
        /\ records' = r \cup {NextJob}
        /\ session' = [next EXCEPT !.attempt = NextJob]
        /\ pending' = IF with_sudo
                      THEN [p EXCEPT !.retried = @ \cup {Key(s.generation + 1, key.op)}] ELSE p
    BY <1>2 DEF Restart
  <2>2. s.generation + 1 \in Nat /\ s.sudo \in BOOLEAN
    BY DEF SessionType
  <2>3. next \in SessionType
    BY <1>2, <2>2 DEF SessionType, Statuses
  <2> HIDE DEF next
  <2>4. /\ session' \in SessionType' /\ jobs' \in Seq(JobType) /\ line' \in Seq(JobIds')
        /\ step' \in {"waiting", "begun", "made"} /\ events' \in Seq(EventType')
        /\ tokens' \in SUBSET Connections' /\ remote' \in {0} \cup JobIds'
        /\ records' \in SUBSET {j \in JobIds' : IsPublic(j)'}
    BY <1>2, <2>1, <2>2, <2>3, LaunchingTypes
  <2>5. pending' \in DecisionsType
    <3>1. Key(s.generation + 1, key.op) \in Keys
      BY <1>2, <2>2 DEF Key, Keys
    <3> QED
      BY <2>1, <3>1 DEF DecisionsType
  <2> QED
    BY <1>2, <2>4, <2>5 DEF TypeInv
<1>3. CASE key.op \in Reads \cup Mutations /\ Relaunch(s, p, r, l, key)
  <2> DEFINE i == OpenLogical(l, key)
             next == [s EXCEPT !.status = "connected", !.busy = key.op]
  <2>1. /\ Enqueue(NewJob(key.op, key.generation, s.sudo, {}, i), jobs, line)
        /\ records' = r \cup {NextJob}
        /\ session' = next
        /\ pending' = [p EXCEPT !.retried = @ \cup {key}]
        /\ logicals' = IF i = 0 THEN l ELSE [l EXCEPT ![i].attempt = NextJob]
    BY <1>3 DEF Relaunch
  <2>2. i \in Nat /\ (i # 0 => i \in 1 .. Len(l))
    BY LogicalIds
  <2> HIDE DEF i
  <2>3. next \in SessionType /\ s.sudo \in BOOLEAN /\ key.generation \in Nat
    BY <1>3 DEF SessionType, Statuses, Keys
  <2> HIDE DEF next
  <2>4. /\ session' \in SessionType' /\ jobs' \in Seq(JobType) /\ line' \in Seq(JobIds')
        /\ step' \in {"waiting", "begun", "made"} /\ events' \in Seq(EventType')
        /\ tokens' \in SUBSET Connections' /\ remote' \in {0} \cup JobIds'
        /\ records' \in SUBSET {j \in JobIds' : IsPublic(j)'}
    BY <1>3, <2>1, <2>2, <2>3, LaunchingTypes
  <2>5. pending' \in DecisionsType
    BY <2>1 DEF DecisionsType
  <2>6. logicals' \in Seq(LogicalType)
    <3>1. CASE i = 0
      BY <2>1, <3>1
    <3>2. CASE i # 0
      <4> DEFINE new == [l[i] EXCEPT !.attempt = NextJob]
      <4>1. new \in LogicalType
        BY <2>2, <3>2, ElementOfSeq, LogicalParts, SessionParts
      <4>2. logicals' = [l EXCEPT ![i] = new]
        BY <2>1, <2>2, <3>2
      <4> HIDE DEF new
      <4> QED
        BY <2>2, <3>2, <4>1, <4>2, ExceptSeq
    <3> QED
      BY <3>1, <3>2
  <2> QED
    BY <2>4, <2>5, <2>6 DEF TypeInv
<1> QED
  BY <1>1, <1>2, <1>3 DEF Retries

\* None is not the key of a decision.
LEMMA NoneIsNoKey == None \notin Keys
  BY NoneAssumption DEF Keys, RequestKinds

\* What is left of the decisions, the records and the logical jobs by a finish.
LEMMA FinishedCases ==
  ASSUME TypeInv, TopicInv, OnFinished
  PROVE  LET j   == Head(events).job
             key == KeyOf(j)
             s   == IF Current(j) /\ session.busy = key.op
                    THEN [session EXCEPT !.busy = None] ELSE session
             r   == {k \in records : KeyOf(k) # key}
         IN  /\ events # <<>> /\ Head(events).signal = "finished" /\ Received
             /\ j \in JobIds /\ Queued(j, "finished") /\ s \in SessionType
             /\ UNCHANGED <<tokens, stack, known, remote, requests, down>>
             /\ r \in SUBSET records
             /\ \E p \in DecisionsType, l \in Seq(LogicalType) :
                  /\ p.key = pending.key /\ p.sudo = pending.sudo
                  /\ p.trusted \subseteq pending.trusted
                  /\ p.accepted = pending.accepted \ {key}
                  /\ \/ NoRetry(s, p, r, l) /\ key \notin p.accepted
                     \/ /\ key \in Keys /\ key \in pending.trusted \cup pending.accepted
                        /\ key \in pending.trusted => key.op \in ConnectionOps
                        /\ \/ key \in pending.trusted /\ TrustedRetry(s, p, r, l, key)
                           \/ key \in pending.accepted /\ SudoRetry(s, p, r, l, key)
<1> DEFINE j   == Head(events).job
           key == KeyOf(j)
           s   == IF Current(j) /\ session.busy = key.op
                  THEN [session EXCEPT !.busy = None] ELSE session
           p   == [pending EXCEPT !.trusted = IF Recorded(j) THEN @ \ {key} ELSE @,
                                  !.accepted = @ \ {key}]
           r   == {k \in records : KeyOf(k) # key}
           l   == [i \in DOMAIN logicals |->
                    IF Recorded(j) /\ i \in Attempted(j) THEN AttemptFinished(logicals[i])
                    ELSE logicals[i]]
           completed == {logicals[i].key : i \in {k \in DOMAIN l :
                            l[k].completed /\ ~logicals[k].completed}}
           q   == [p EXCEPT !.retried = @ \ completed]
<1>1. /\ events # <<>> /\ Head(events).signal = "finished" /\ Received
      /\ UNCHANGED <<tokens, stack, known, remote, requests, down>>
      /\ IF Recorded(j) /\ key \in pending.trusted THEN TrustedRetry(s, q, r, l, key)
         ELSE IF key \in pending.accepted THEN SudoRetry(s, q, r, l, key)
         ELSE NoRetry(s, q, r, l)
  BY DEF OnFinished
<1>2. j \in JobIds /\ Queued(j, "finished") /\ r \in SUBSET records
  BY <1>1, ReceivedFacts
<1>3. s \in SessionType
  BY SessionParts DEF SessionType
<1>4. l \in Seq(LogicalType)
  <2>1. logicals \in Seq(LogicalType) /\ \A i \in DOMAIN logicals : logicals[i] \in LogicalType
    <3>1. logicals \in Seq(LogicalType)
      BY DEF TypeInv
    <3> QED
      BY <3>1, ElementOfSeq
  <2>2. \A i \in DOMAIN logicals : AttemptFinished(logicals[i]) \in LogicalType
    BY <2>1, LogicalParts DEF AttemptFinished
  <2>3. l \in [DOMAIN logicals -> LogicalType]
    BY <2>1, <2>2
  <2> HIDE DEF l
  <2> QED
    BY <2>1, <2>3, LogicalsMapped
<1> HIDE DEF completed
<1>5. /\ q \in DecisionsType /\ q.key = pending.key /\ q.sudo = pending.sudo
      /\ q.trusted \subseteq pending.trusted /\ q.accepted = pending.accepted \ {key}
  <2>1. p \in DecisionsType /\ p.key = pending.key /\ p.sudo = pending.sudo
        /\ p.trusted \subseteq pending.trusted /\ p.accepted = pending.accepted \ {key}
    BY SessionParts DEF DecisionsType
  <2> HIDE DEF p
  <2> QED
    BY <2>1 DEF DecisionsType
<1>6. \A k \in pending.trusted \cup pending.accepted : k \in Keys
  BY SessionParts DEF DecisionsType
<1>7. \A k \in pending.trusted : k.op \in ConnectionOps
  BY <1>6, NoneIsNoKey DEF TopicInv
<1> HIDE DEF l, q, s, r
<1> QED
  BY <1>1, <1>2, <1>3, <1>4, <1>5, <1>6, <1>7 DEF s, r


\* _on_job_finished keeps the types.
LEMMA FinishedTypes ==
  ASSUME TypeInv, TopicInv, OnFinished
  PROVE  TypeInv'
<1> DEFINE j   == Head(events).job
           key == KeyOf(j)
           s   == IF Current(j) /\ session.busy = key.op
                  THEN [session EXCEPT !.busy = None] ELSE session
           r   == {k \in records : KeyOf(k) # key}
<1>1. /\ events # <<>> /\ Received /\ s \in SessionType
      /\ UNCHANGED <<tokens, known, remote, requests, down>> /\ r \in SUBSET records
  BY FinishedCases
<1>2. PICK p \in DecisionsType, l \in Seq(LogicalType) :
        \/ NoRetry(s, p, r, l)
        \/ /\ key \in Keys
           /\ key \in pending.trusted => key.op \in ConnectionOps
           /\ \/ key \in pending.trusted /\ TrustedRetry(s, p, r, l, key)
              \/ key \in pending.accepted /\ SudoRetry(s, p, r, l, key)
  BY FinishedCases
<1>3. known' \in BOOLEAN
  BY <1>1 DEF TypeInv
<1> HIDE DEF s, r, key
<1>4. CASE NoRetry(s, p, r, l)
  <2>1. /\ session' = s /\ pending' = p /\ records' = r /\ logicals' = l
        /\ UNCHANGED <<jobs, line, step>>
    BY <1>4 DEF NoRetry
  <2>2. requests' \in Nat /\ down' \in {"no", "draining", "clean", "incomplete"}
    BY <1>1 DEF TypeInv
  <2> QED
    BY <1>1, <1>2, <1>3, <2>1, <2>2, QuietTypes
<1>5. CASE key \in Keys /\ Retries(s, p, r, l, key)
  BY <1>1, <1>3, <1>5, RetryTypes
<1> QED
  BY <1>2, <1>4, <1>5, RetryCases

\* A confirmed key or a password is followed at once, or noted for the finish.
Answering(key, s, p) ==
    /\ session.present /\ session.generation = key.generation
    /\ UNCHANGED <<tokens, events, remote, requests, down>> /\ known' \in BOOLEAN
    /\ stack' = Answered
    /\ \/ /\ ConfirmHostKey /\ key = pending.key /\ key.op \in ConnectionOps /\ s = session
          /\ CanAnswer("host_key", pending.key)
          /\ p = [pending EXCEPT !.key = None]
          /\ \/ /\ HasRecord(key)
                /\ NoRetry(s, [p EXCEPT !.trusted = @ \cup {key}], records, logicals)
             \/ ~HasRecord(key) /\ TrustedRetry(s, p, records, logicals, key)
       \/ /\ AcceptSudo /\ key = pending.sudo
          /\ CanAnswer("sudo", pending.sudo)
          /\ key.op \in Reads \cup Mutations \cup ConnectionOps
          /\ session.status # "disconnected"
          /\ s = [session EXCEPT !.sudo = TRUE] /\ p = [pending EXCEPT !.sudo = None]
          /\ \/ /\ HasRecord(key)
                /\ NoRetry(s, [p EXCEPT !.accepted = @ \cup {key}], records, logicals)
             \/ ~HasRecord(key) /\ SudoRetry(s, p, records, logicals, key)

\* An accepted prompt answers a decision that was pending: see Answering.
LEMMA AnswerCases ==
  ASSUME TypeInv, TopicInv, ConfirmHostKey \/ AcceptSudo
  PROVE  \E key \in Keys, s \in SessionType, p \in DecisionsType : Answering(key, s, p)
<1>1. session \in SessionType /\ [session EXCEPT !.sudo = TRUE] \in SessionType
  BY SessionParts DEF SessionType
<1>2. [pending EXCEPT !.key = None] \in DecisionsType /\ [pending EXCEPT !.sudo = None] \in DecisionsType
      /\ pending.key \in {None} \cup Keys /\ pending.sudo \in {None} \cup Keys
  BY SessionParts DEF DecisionsType
<1>3. UNCHANGED <<tokens, events, remote, requests, down>> /\ known' \in BOOLEAN
  BY DEF ConfirmHostKey, AcceptSudo, TypeInv
<1>4. CASE ConfirmHostKey
  <2>1. /\ pending.key # None /\ OfSession(pending.key) /\ stack' = Answered
        /\ CanAnswer("host_key", pending.key)
        /\ IF HasRecord(pending.key)
           THEN NoRetry(session, [[pending EXCEPT !.key = None] EXCEPT !.trusted = @ \cup {pending.key}],
                        records, logicals)
           ELSE TrustedRetry(session, [pending EXCEPT !.key = None], records, logicals, pending.key)
    BY <1>4 DEF ConfirmHostKey, Exact
  <2>2. pending.key.op \in ConnectionOps
    BY <2>1 DEF TopicInv
  <2>3. Answering(pending.key, session, [pending EXCEPT !.key = None])
    BY <1>3, <1>4, <2>1, <2>2 DEF OfSession, Answering
  <2> QED
    BY <1>1, <1>2, <2>1, <2>3
<1>5. CASE AcceptSudo
  <2>1. /\ pending.sudo # None /\ OfSession(pending.sudo) /\ session.status # "disconnected"
        /\ stack' = Answered /\ CanAnswer("sudo", pending.sudo)
        /\ IF HasRecord(pending.sudo)
           THEN NoRetry([session EXCEPT !.sudo = TRUE],
                        [[pending EXCEPT !.sudo = None] EXCEPT !.accepted = @ \cup {pending.sudo}],
                        records, logicals)
           ELSE SudoRetry([session EXCEPT !.sudo = TRUE], [pending EXCEPT !.sudo = None],
                          records, logicals, pending.sudo)
    BY <1>5 DEF AcceptSudo, Exact
  <2>2. pending.sudo.op \in Reads \cup Mutations \cup ConnectionOps
    BY <2>1 DEF TopicInv
  <2>3. Answering(pending.sudo, [session EXCEPT !.sudo = TRUE], [pending EXCEPT !.sudo = None])
    BY <1>3, <1>5, <2>1, <2>2 DEF OfSession, Answering
  <2> QED
    BY <1>1, <1>2, <2>1, <2>3
<1> QED
  BY <1>4, <1>5

\* Accepting a prompt keeps the types.
LEMMA AcceptedTypes ==
  ASSUME TypeInv, TopicInv, ConfirmHostKey \/ AcceptSudo
  PROVE  TypeInv'
<1>1. PICK key \in Keys, s \in SessionType, p \in DecisionsType :
        /\ UNCHANGED <<tokens, events, remote, requests, down>> /\ known' \in BOOLEAN
        /\ \/ NoRetry(s, [p EXCEPT !.trusted = @ \cup {key}], records, logicals)
           \/ NoRetry(s, [p EXCEPT !.accepted = @ \cup {key}], records, logicals)
           \/ key.op \in ConnectionOps /\ TrustedRetry(s, p, records, logicals, key)
           \/ SudoRetry(s, p, records, logicals, key)
  <2>1. PICK key \in Keys, s \in SessionType, p \in DecisionsType : Answering(key, s, p)
    BY AnswerCases
  <2> QED
    BY <2>1 DEF Answering
<1>2. logicals \in Seq(LogicalType) /\ records \in SUBSET records
  BY DEF TypeInv
<1>3. ASSUME NEW q \in DecisionsType, NoRetry(s, q, records, logicals)
      PROVE  TypeInv'
  <2>1. /\ session' = s /\ pending' = q /\ records' = records /\ logicals' = logicals
        /\ UNCHANGED <<jobs, line, step>>
    BY <1>3 DEF NoRetry
  <2>2. requests' \in Nat /\ down' \in {"no", "draining", "clean", "incomplete"}
    BY <1>1 DEF TypeInv
  <2> QED
    BY <1>1, <1>2, <2>1, <2>2, QuietTypes
<1>4. CASE Retries(s, p, records, logicals, key)
  BY <1>1, <1>2, <1>4, RetryTypes
<1>5. /\ [p EXCEPT !.trusted = @ \cup {key}] \in DecisionsType
      /\ [p EXCEPT !.accepted = @ \cup {key}] \in DecisionsType
  BY DEF DecisionsType
<1> QED
  BY <1>1, <1>3, <1>4, <1>5, RetryCases

\* A declined prompt, a trust store that cannot be written, a dismissed error.
LEMMA StoreFailsCases ==
  ASSUME TypeInv, TopicInv, HostKeyStoreFails
  PROVE  \E j \in JobIds :
           /\ IsConnection(j) /\ IsPublic(j) /\ Current(j) /\ pending.key # None
           /\ KeyOf(j) = pending.key /\ CanAnswer("host_key", pending.key)
           /\ ApplyFailure(j, "store_error", Answered)
           /\ UNCHANGED <<records, logicals, jobs, line, step, tokens, events,
                          known, remote, requests, down>>
<1>1. /\ pending.key # None /\ OfSession(pending.key) /\ CanAnswer("host_key", pending.key)
      /\ UNCHANGED <<records, logicals, jobs, line, step, tokens, events,
                     known, remote, requests, down>>
  BY DEF HostKeyStoreFails, Exact
<1>2. PICK j \in JobIds : KeyOf(j) = pending.key /\ ApplyFailure(j, "store_error", Answered)
  BY DEF HostKeyStoreFails, JobIds
<1>3. pending.key.op \in ConnectionOps
  BY <1>1 DEF TopicInv
<1>4. jobs[j].op = pending.key.op /\ jobs[j].generation = pending.key.generation
  BY <1>2 DEF KeyOf, Key
<1>5. IsConnection(j) /\ IsPublic(j) /\ Current(j)
  BY <1>1, <1>3, <1>4 DEF IsConnection, IsPublic, Current, OfSession, ConnectionOps
<1> QED
  BY <1>1, <1>2, <1>5

\* Every other answer to a prompt keeps the types.
LEMMA OtherAnswerTypes ==
  ASSUME TypeInv, TopicInv, DeclineHostKey \/ HostKeyStoreFails \/ DeclineSudo \/ DismissError
  PROVE  TypeInv'
<1>1. /\ UNCHANGED <<records, jobs, line, step, tokens, events, known, remote, requests, down>>
  BY DEF DeclineHostKey, HostKeyStoreFails, DeclineSudo, DismissError
<1>2. session' \in SessionType /\ pending' \in DecisionsType
  <2>1. CASE HostKeyStoreFails
    <3>1. "store_error" \in Results
      BY DEF Results
    <3> QED
      BY <2>1, <3>1, StoreFailsCases, FailureFacts
  <2>2. CASE DeclineHostKey \/ DismissError
    <3>1. session' = session /\ pending' \in {pending, [pending EXCEPT !.key = None]}
      BY <2>2 DEF DeclineHostKey, DismissError
    <3> QED
      BY <3>1, SessionParts DEF DecisionsType
  <2>3. CASE DeclineSudo
    <3>1. /\ session' = session
          /\ \/ pending' = pending
             \/ \E retried \in {pending.retried, pending.retried \ {pending.sudo}} :
                  pending' = [pending EXCEPT !.sudo = None, !.retried = retried]
      BY <2>3 DEF DeclineSudo
    <3>2. ASSUME NEW retried \in {pending.retried, pending.retried \ {pending.sudo}}
          PROVE  [pending EXCEPT !.sudo = None, !.retried = retried] \in DecisionsType
      BY SessionParts DEF DecisionsType
    <3> QED
      BY <3>1, <3>2, SessionParts
  <2> QED
    BY <2>1, <2>2, <2>3
<1>3. logicals' \in Seq(LogicalType)
  <2>1. logicals \in Seq(LogicalType)
    BY DEF TypeInv
  <2>2. CASE logicals' = logicals
    BY <2>1, <2>2
  <2>3. CASE DeclineSudo /\ Exact(pending.sudo) /\ OpenLogical(logicals, pending.sudo) # 0
    <3> DEFINE i == OpenLogical(logicals, pending.sudo)
               new == [logicals[i] EXCEPT !.completed = TRUE, !.outcomes = Append(@, "failed")]
    <3>1. i \in 1 .. Len(logicals)
      BY <2>1, <2>3, LogicalIds
    <3>2. logicals[i] \in LogicalType
      BY <2>1, <3>1, ElementOfSeq
    <3>3. new \in LogicalType
      <4>1. Append(logicals[i].outcomes, "failed") \in Seq({"succeeded", "failed"})
        BY <3>2, AppendProperties DEF LogicalType
      <4> HIDE DEF i
      <4> QED
        BY <3>2, <4>1 DEF LogicalType
    <3>4. logicals' = [logicals EXCEPT ![i].completed = TRUE, ![i].outcomes = Append(@, "failed")]
      BY <2>3 DEF DeclineSudo
    <3> HIDE DEF i
    <3>5. logicals' = [logicals EXCEPT ![i] = new]
      BY <2>1, <3>1, <3>2, <3>4
    <3> HIDE DEF new
    <3> QED
      BY <2>1, <3>1, <3>3, <3>5, ExceptSeq
  <2>4. logicals' = logicals
        \/ (DeclineSudo /\ Exact(pending.sudo) /\ OpenLogical(logicals, pending.sudo) # 0)
    BY DEF DeclineHostKey, HostKeyStoreFails, DeclineSudo, DismissError
  <2> QED
    BY <2>2, <2>3, <2>4
<1>4. /\ records' \in SUBSET records /\ known' \in BOOLEAN /\ requests' \in Nat
      /\ down' \in {"no", "draining", "clean", "incomplete"}
  BY <1>1 DEF TypeInv
<1> QED
  BY <1>1, <1>2, <1>3, <1>4, QuietTypes

\* Every step keeps the types.
LEMMA TypesKept ==
  ASSUME TypeInv, StackInv, TopicInv, [Next]_vars
  PROVE  TypeInv'
<1>1. CASE UNCHANGED vars
  BY <1>1, StillTypes DEF vars, TypeInv
<1>2. CASE Handlers
  BY <1>2, SucceededTypes, FailedTypes, FinishedTypes, EmitTypes, RestTypes, OtherCallTypes
     DEF Handlers
<1>3. CASE Answers
  BY <1>3, AcceptedTypes, OtherAnswerTypes DEF Answers
<1> QED
  BY <1>1, <1>2, <1>3, CallTypes, WorkTypes DEF Next


-----------------------------------------------------------------------------
(* What a step does to the jobs, the line and the queued signals.           *)

EventsKeep == events' = events \/ (events # <<>> /\ Received)

JobStep ==
    \/ \E history :
         /\ SameJobs(history) /\ jobs' = history /\ UNCHANGED <<line, step>> /\ EventsKeep
    \/ \E history : \E job \in JobType :
         /\ SameJobs(history) /\ Enqueue(job, history, line) /\ EventsKeep
    \/ \E history : \E job \in JobType, submits \in BOOLEAN :
         /\ SameJobs(history) /\ Cancels(history, job, submits)
    \/ \E j \in JobIds, signal \in {"succeeded", "failed"}, result \in Results :
         WorkStep(j, signal, result)

\* A step that leaves the jobs and the line alone is a JobStep.
LEMMA QuietJobs ==
  ASSUME TypeInv, UNCHANGED <<jobs, line, step>>, EventsKeep
  PROVE  JobStep
  BY JobsAreSame DEF JobStep

\* Submitting one job is a JobStep.
LEMMA LaunchJobs ==
  ASSUME TypeInv, NEW op \in JobOps, NEW generation \in Nat, NEW sudo \in BOOLEAN,
         NEW closes \in SUBSET Nat, NEW logical \in Nat, NEW history, SameJobs(history),
         Enqueue(NewJob(op, generation, sudo, closes, logical), history, line), EventsKeep
  PROVE  JobStep
<1>1. NewJob(op, generation, sudo, closes, logical) \in JobType
  BY DEF NewJob, JobType
<1> QED
  BY <1>1 DEF JobStep

\* Giving up the session's work is a JobStep.
LEMMA GiveUpJobs ==
  ASSUME TypeInv, NEW op \in {"disconnect", "reconnect", "close"}, NEW next,
         next.generation \in Nat, next.sudo \in BOOLEAN, GiveUp(op, next)
  PROVE  JobStep
<1> DEFINE submits == ~(op = "close" /\ TokensGivenUp = {})
           job     == NewJob(op, next.generation, next.sudo, TokensGivenUp, 0)
<1>1. Cancels(JobsGivenUp, job, submits) /\ job \in JobType
  BY GiveUpFacts
<1>2. SameJobs(JobsGivenUp) /\ submits \in BOOLEAN
  BY GivenUpFacts
<1> HIDE DEF job, submits
<1> QED
  BY <1>1, <1>2 DEF JobStep

\* A handler that may submit a close is a JobStep.
LEMMA CloseJobs ==
  ASSUME TypeInv, NEW history, SameJobs(history), NEW open \in SUBSET Connections,
         MayClose(history, open), EventsKeep
  PROVE  JobStep
<1>1. CASE SubmitClose(history, open)
  <2>1. /\ Enqueue(NewJob("close", session.generation, FALSE, open, 0), history, line)
        /\ "close" \in JobOps /\ open \in SUBSET Nat
    BY <1>1, TokenTypes DEF SubmitClose, JobOps
  <2> QED
    BY <2>1, SessionParts, LaunchJobs
<1>2. CASE jobs' = history /\ line' = line /\ step' = step
  BY <1>2 DEF JobStep
<1> QED
  BY <1>1, <1>2 DEF MayClose

\* A retry is a JobStep.
LEMMA RetryJobs ==
  ASSUME TypeInv, NEW s \in SessionType, NEW p, NEW r, NEW l \in Seq(LogicalType),
         NEW key \in Keys, Retries(s, p, r, l, key), EventsKeep
  PROVE  JobStep
<1>1. CASE NoRetry(s, p, r, l)
  BY <1>1, QuietJobs DEF NoRetry
<1>2. s.generation + 1 \in Nat /\ s.sudo \in BOOLEAN /\ key.generation \in Nat
  BY DEF SessionType, Keys
<1>3. ASSUME NEW with_sudo \in BOOLEAN, key.op \in ConnectionOps, Restart(s, p, r, key, with_sudo)
      PROVE  JobStep
  <2>1. Enqueue(NewJob(key.op, s.generation + 1, s.sudo, {}, 0), jobs, line) /\ key.op \in JobOps
    BY <1>3 DEF Restart, JobOps
  <2> QED
    BY <1>2, <2>1, LaunchJobs, JobsAreSame
<1>4. CASE key.op \in Reads \cup Mutations /\ Relaunch(s, p, r, l, key)
  <2>1. /\ Enqueue(NewJob(key.op, key.generation, s.sudo, {}, OpenLogical(l, key)), jobs, line)
        /\ key.op \in JobOps /\ OpenLogical(l, key) \in Nat
    BY <1>4, LogicalIds DEF Relaunch, JobOps
  <2> QED
    BY <1>2, <2>1, LaunchJobs, JobsAreSame
<1> QED
  BY <1>1, <1>3, <1>4 DEF Retries

\* Every call of the window is a JobStep.
LEMMA CallJobs ==
  ASSUME TypeInv, Calls
  PROVE  JobStep
<1>1. CASE Connect
  <2>1. CASE OwnsSession
    BY <1>1, <2>1, QuietJobs DEF Connect, EventsKeep
  <2>2. CASE ~OwnsSession
    <3>1. /\ Enqueue(NewJob("connect", session.generation, session.sudo, {}, 0), jobs, line)
          /\ EventsKeep /\ "connect" \in JobOps
      BY <1>1, <2>2 DEF Connect, EventsKeep, JobOps, ConnectionOps
    <3> QED
      BY <3>1, SessionParts, LaunchJobs, JobsAreSame
  <2> QED
    BY <2>1, <2>2
<1>2. ASSUME NEW op \in Reads \cup Mutations, NEW logical \in Nat, events' = events,
             Enqueue(NewJob(op, session.generation, session.sudo, {}, logical), jobs, line)
      PROVE  JobStep
  <2>1. op \in JobOps /\ EventsKeep
    BY <1>2 DEF JobOps, EventsKeep
  <2> QED
    BY <1>2, <2>1, SessionParts, LaunchJobs, JobsAreSame
<1>3. ASSUME NEW op \in Reads, StartRead(op) PROVE JobStep
  BY <1>2, <1>3 DEF StartRead
<1>4. ASSUME NEW op \in Mutations, StartMutation(op) PROVE JobStep
  <2>1. Len(logicals) + 1 \in Nat
    BY SessionParts
  <2> QED
    BY <1>2, <1>4, <2>1 DEF StartMutation
<1>5. /\ Detached("disconnected", "disconnect") \in SessionType
      /\ Detached("disconnected", None) \in SessionType
      /\ Detached("connecting", "reconnect") \in SessionType
  BY DetachedFacts DEF ConnectionOps
<1>6. CASE Disconnect
  <2>1. GiveUp("disconnect", Detached("disconnected", "disconnect"))
    BY <1>6 DEF Disconnect
  <2>2. Detached("disconnected", "disconnect").generation \in Nat
        /\ Detached("disconnected", "disconnect").sudo \in BOOLEAN
    BY <1>5 DEF SessionType
  <2> QED
    BY <2>1, <2>2, GiveUpJobs
<1>7. CASE Reconnect
  <2>1. CASE session.status # "disconnected" /\ Idle
    <3> DEFINE next == [Detached("connecting", "reconnect") EXCEPT !.attempt = NextJob]
    <3>1. GiveUp("reconnect", next)
      BY <1>7, <2>1 DEF Reconnect
    <3>2. next.generation \in Nat /\ next.sudo \in BOOLEAN
      BY <1>5 DEF SessionType
    <3> HIDE DEF next
    <3> QED
      BY <3>1, <3>2, GiveUpJobs
  <2>2. CASE ~(session.status # "disconnected" /\ Idle)
    BY <1>7, <2>2, QuietJobs DEF Reconnect, EventsKeep
  <2> QED
    BY <2>1, <2>2
<1>8. CASE ReloadChanged \/ (Shutdown /\ session.present)
  <2>1. GiveUp("close", Detached("disconnected", None))
    BY <1>8 DEF ReloadChanged, Shutdown
  <2>2. Detached("disconnected", None).generation \in Nat
        /\ Detached("disconnected", None).sudo \in BOOLEAN
    BY <1>5 DEF SessionType
  <2> QED
    BY <2>1, <2>2, GiveUpJobs
<1>9. CASE ReloadRemoved
  <2> DEFINE next == [Detached("disconnected", None) EXCEPT !.present = FALSE]
  <2>1. GiveUp("close", next)
    BY <1>9 DEF ReloadRemoved
  <2>2. next.generation \in Nat /\ next.sudo \in BOOLEAN
    BY <1>5 DEF SessionType
  <2> HIDE DEF next
  <2> QED
    BY <2>1, <2>2, GiveUpJobs
<1>10. CASE Shutdown /\ ~session.present
  <2> DEFINE job == NewJob("close", session.generation, FALSE, tokens, 0)
  <2>1. UNCHANGED <<jobs, line, step, events>> \/ Cancels(jobs, job, TRUE)
    BY <1>10 DEF Shutdown, Cancels
  <2>2. job \in JobType
    BY SessionParts, TokenTypes DEF NewJob, JobType, JobOps
  <2> HIDE DEF job
  <2> QED
    BY <2>1, <2>2, QuietJobs, JobsAreSame DEF EventsKeep, JobStep
<1>11. CASE ProvideSudoPassword \/ Select \/ ReloadAdded
  BY <1>11, QuietJobs DEF ProvideSudoPassword, Select, ReloadAdded, EventsKeep
<1> QED
  BY <1>1, <1>3, <1>4, <1>6, <1>7, <1>8, <1>9, <1>10, <1>11 DEF Calls

\* Every handler of a signal is a JobStep.
LEMMA HandlerJobs ==
  ASSUME TypeInv, TopicInv, Handlers
  PROVE  JobStep
<1>1. CASE OnSucceeded
  <2> DEFINE j == Head(events).job
             result == Head(events).result
             lost == result = "refresh_transport" /\ session.manager # None
             open == tokens \cup {m \in {session.manager} : lost}
  <2>1. EventsKeep /\ j \in JobIds
    BY <1>1, SucceededCases DEF EventsKeep
  <2>2. CASE DiscardSucceeded(j)
    <3>1. CASE UNCHANGED <<jobs, tokens, line, step>>
      BY <2>1, <3>1, QuietJobs
    <3>2. CASE /\ IsConnection(j) /\ SameJobs(Invalidated(j))
               /\ \/ SubmitClose(Invalidated(j), tokens \cup {j})
                  \/ jobs' = Invalidated(j) /\ UNCHANGED <<tokens, line, step>>
      <4>1. tokens \cup {j} \in SUBSET Connections
        BY <2>1, <3>2, TokenTypes DEF Connections
      <4>2. MayClose(Invalidated(j), tokens \cup {j})
        BY <3>2 DEF MayClose
      <4> QED
        BY <2>1, <3>2, <4>1, <4>2, CloseJobs
    <3> QED
      BY <2>1, <2>2, <3>1, <3>2, DiscardCases
  <2>3. CASE MutationSucceeded(j, result)
    <3>1. MayClose(jobs, open)
      BY <2>3 DEF MutationSucceeded, MayClose
    <3>2. open \in SUBSET Connections
      BY TokenTypes, SessionParts
    <3> HIDE DEF open
    <3> QED
      BY <2>1, <3>1, <3>2, JobsAreSame, CloseJobs
  <2>4. CASE UNCHANGED <<jobs, tokens, line, step>>
    BY <2>1, <2>4, QuietJobs
  <2> QED
    BY <1>1, <2>2, <2>3, <2>4, SucceededCases
<1>2. CASE OnFailed
  BY <1>2, FailedCases, QuietJobs DEF EventsKeep
<1>3. CASE OnFinished
  <2> DEFINE j   == Head(events).job
             key == KeyOf(j)
             s   == IF Current(j) /\ session.busy = key.op
                    THEN [session EXCEPT !.busy = None] ELSE session
             r   == {k \in records : KeyOf(k) # key}
  <2>1. EventsKeep /\ s \in SessionType
    BY <1>3, FinishedCases DEF EventsKeep
  <2>2. PICK p \in DecisionsType, l \in Seq(LogicalType) :
        \/ NoRetry(s, p, r, l)
        \/ /\ key \in Keys
           /\ key \in pending.trusted => key.op \in ConnectionOps
           /\ \/ key \in pending.trusted /\ TrustedRetry(s, p, r, l, key)
              \/ key \in pending.accepted /\ SudoRetry(s, p, r, l, key)
    BY <1>3, FinishedCases
  <2> HIDE DEF s, r, key
  <2>3. CASE NoRetry(s, p, r, l)
    BY <2>1, <2>3, QuietJobs DEF NoRetry
  <2>4. CASE key \in Keys /\ Retries(s, p, r, l, key)
    BY <2>1, <2>4, RetryJobs
  <2> QED
    BY <2>2, <2>3, <2>4, RetryCases
<1>4. CASE EmitSucceeded \/ EmitFailed \/ ShutdownReturns
  BY <1>4, QuietJobs DEF EmitSucceeded, EmitFailed, ShutdownReturns, EventsKeep
<1>5. CASE RestOfApplyFailure
  <2>1. /\ events' = events
        /\ \/ UNCHANGED <<jobs, line, step>>
           \/ /\ session.manager # None /\ tokens' = tokens \cup {session.manager}
              /\ SubmitClose(jobs, tokens')
    BY <1>5, RestFacts
  <2>2. CASE session.manager # None /\ SubmitClose(jobs, tokens \cup {session.manager})
    <3>1. tokens \cup {session.manager} \in SUBSET Connections
      BY <2>2, TokenTypes
    <3>2. MayClose(jobs, tokens \cup {session.manager}) /\ EventsKeep
      BY <2>1, <2>2 DEF MayClose, EventsKeep
    <3> QED
      BY <3>1, <3>2, JobsAreSame, CloseJobs
  <2> QED
    BY <2>1, <2>2, QuietJobs DEF EventsKeep
<1> QED
  BY <1>1, <1>2, <1>3, <1>4, <1>5 DEF Handlers

\* Every answer to a prompt is a JobStep.
LEMMA AnswerJobs ==
  ASSUME TypeInv, TopicInv, Answers
  PROVE  JobStep
<1>1. CASE DeclineHostKey \/ HostKeyStoreFails \/ DeclineSudo \/ DismissError
  BY <1>1, QuietJobs DEF DeclineHostKey, HostKeyStoreFails, DeclineSudo, DismissError, EventsKeep
<1>2. CASE ConfirmHostKey \/ AcceptSudo
  <2>1. PICK key \in Keys, s \in SessionType, p \in DecisionsType :
        /\ events' = events
        /\ \/ NoRetry(s, [p EXCEPT !.trusted = @ \cup {key}], records, logicals)
           \/ NoRetry(s, [p EXCEPT !.accepted = @ \cup {key}], records, logicals)
           \/ key.op \in ConnectionOps /\ TrustedRetry(s, p, records, logicals, key)
           \/ SudoRetry(s, p, records, logicals, key)
    <3>1. PICK key \in Keys, s \in SessionType, p \in DecisionsType : Answering(key, s, p)
      BY <1>2, AnswerCases
    <3> QED
      BY <3>1 DEF Answering
  <2>2. EventsKeep /\ logicals \in Seq(LogicalType)
    BY <2>1 DEF EventsKeep, TypeInv
  <2>3. ASSUME NEW q, NoRetry(s, q, records, logicals) PROVE JobStep
    BY <2>2, <2>3, QuietJobs DEF NoRetry
  <2>4. CASE Retries(s, p, records, logicals, key)
    BY <2>2, <2>4, RetryJobs
  <2> QED
    BY <2>1, <2>3, <2>4, RetryCases
<1> QED
  BY <1>1, <1>2 DEF Answers

\* So every step treats the jobs, the line and the queue as JobStep says.
LEMMA JobSteps ==
  ASSUME TypeInv, TopicInv, [Next]_vars
  PROVE  JobStep
<1>1. CASE UNCHANGED vars
  BY <1>1, QuietJobs DEF vars, EventsKeep
<1>2. CASE Work
  BY <1>2, WorkSteps DEF JobStep
<1> QED
  BY <1>1, <1>2, CallJobs, HandlerJobs, AnswerJobs DEF Next


\* A job stays what it was submitted as.
LEMMA Growth ==
  ASSUME TypeInv, JobStep
  PROVE  /\ JobIds \subseteq JobIds'
         /\ \A j \in JobIds : /\ jobs'[j].op = jobs[j].op
                              /\ jobs'[j].generation = jobs[j].generation
                              /\ jobs'[j].closes = jobs[j].closes
                              /\ jobs'[j].sudo = jobs[j].sudo
                              /\ IsPublic(j)' = IsPublic(j) /\ IsConnection(j)' = IsConnection(j)
<1>1. SUFFICES /\ JobIds \subseteq JobIds'
               /\ \A j \in JobIds : /\ jobs'[j].op = jobs[j].op
                                    /\ jobs'[j].generation = jobs[j].generation
                                    /\ jobs'[j].closes = jobs[j].closes
                                    /\ jobs'[j].sudo = jobs[j].sudo
  BY DEF IsPublic, IsConnection
<1>2. ASSUME SameJobs(jobs')
      PROVE  /\ JobIds \subseteq JobIds'
             /\ \A j \in JobIds : /\ jobs'[j].op = jobs[j].op
                                  /\ jobs'[j].generation = jobs[j].generation
                                  /\ jobs'[j].closes = jobs[j].closes
                                  /\ jobs'[j].sudo = jobs[j].sudo
  BY <1>2, JobIdsRange DEF SameJobs, JobIds
<1>3. ASSUME NEW history, SameJobs(history), jobs' = history
      PROVE  SameJobs(jobs')
  BY <1>3 DEF SameJobs
<1> QED
  BY <1>2, <1>3, SubmitFacts, CancelFacts DEF JobStep, WorkStep

\* A queue that keeps its events stays as it is or loses its head.
LEMMA KeptEvents ==
  ASSUME TypeInv, EventsKeep
  PROVE  /\ events' \in Seq(EventType)
         /\ \/ events' = events
            \/ /\ Len(events) \in Nat \ {0} /\ Len(events') = Len(events) - 1
               /\ \A i \in 1 .. Len(events') : i + 1 \in 1 .. Len(events) /\ events'[i] = events[i + 1]
<1>1. events \in Seq(EventType)
  BY DEF TypeInv
<1>2. CASE events # <<>> /\ Received
  BY <1>1, <1>2, HasTail DEF Received
<1> QED
  BY <1>1, <1>2 DEF EventsKeep

\* The results of a queued signal fit its job, and go on doing so.
LEMMA TopicOfEvents ==
  ASSUME TypeInv, TopicInv, JobStep, NEW i \in 1 .. Len(events')
  PROVE  /\ events'[i].result \in {"unknown_key", "changed_key"} =>
              events'[i].signal # "succeeded" /\ jobs'[events'[i].job].op \in ConnectionOps
         /\ events'[i].result = "sudo_required" =>
              jobs'[events'[i].job].op \in Reads \cup Mutations \cup ConnectionOps
<1> DEFINE Fits(e) ==
         /\ e.result \in {"unknown_key", "changed_key"} =>
              e.signal # "succeeded" /\ jobs'[e.job].op \in ConnectionOps
         /\ e.result = "sudo_required" =>
              jobs'[e.job].op \in Reads \cup Mutations \cup ConnectionOps
<1>1. events \in Seq(EventType) /\ Len(events) \in Nat
  BY DEF TypeInv
<1>2. \A j \in JobIds : jobs'[j].op = jobs[j].op
  BY Growth
<1>3. ASSUME NEW k \in 1 .. Len(events) PROVE Fits(events[k])
  <2>1. events[k] \in EventType
    BY <1>1, <1>3, ElementOfSeq
  <2>2. events[k].job \in JobIds
    BY <2>1 DEF EventType
  <2>3. PICK e : e = events[k]
    OBVIOUS
  <2>4. /\ e.result \in {"unknown_key", "changed_key"} =>
              e.signal # "succeeded" /\ jobs[e.job].op \in ConnectionOps
        /\ e.result = "sudo_required" => jobs[e.job].op \in Reads \cup Mutations \cup ConnectionOps
    BY <1>3, <2>3 DEF TopicInv, IsConnection
  <2>5. jobs'[e.job].op = jobs[e.job].op
    BY <1>2, <2>2, <2>3
  <2> QED
    BY <2>3, <2>4, <2>5
<1> HIDE DEF Fits
<1>4. ASSUME EventsKeep PROVE Fits(events'[i])
  <2>1. CASE events' = events
    BY <1>3, <2>1
  <2>2. CASE i + 1 \in 1 .. Len(events) /\ events'[i] = events[i + 1]
    BY <1>3, <2>2
  <2> QED
    BY <1>4, <2>1, <2>2, KeptEvents
<1>5. ASSUME NEW kept \in Survivors, NEW notices \in CancelNotices(kept), events' = events \o notices
      PROVE  Fits(events'[i])
  <2>1. /\ notices \in Seq(EventType)
        /\ \A k \in 1 .. Len(notices) : notices[k].result = "cancelled"
    BY NoticeFacts
  <2>2. CASE i \in 1 .. Len(events)
    BY <1>1, <1>3, <1>5, <2>1, <2>2, HasConcat
  <2>3. ASSUME NEW k \in 1 .. Len(notices), i = Len(events) + k PROVE Fits(events'[i])
    <3>1. events'[i] = notices[k]
      BY <1>1, <1>5, <2>1, <2>3, HasConcat
    <3> QED
      BY <2>1, <3>1 DEF Fits
  <2> QED
    BY <1>1, <1>5, <2>1, <2>2, <2>3, HasConcat
<1>6. ASSUME NEW j \in JobIds, NEW signal \in {"succeeded", "failed"}, NEW result \in Results,
             WorkStep(j, signal, result)
      PROVE  Fits(events'[i])
  <2>1. CASE events' = events
    BY <1>3, <2>1
  <2>2. CASE events' = events \o <<Event(j, signal, result), Event(j, "finished", result)>>
    <3>1. /\ Event(j, signal, result) \in EventType /\ Event(j, "finished", result) \in EventType
          /\ Fits(Event(j, signal, result)) /\ Fits(Event(j, "finished", result))
      BY <1>2, <1>6 DEF WorkStep, Event, EventType, Signals, Fits, IsConnection
    <3> DEFINE a == Event(j, signal, result)
               b == Event(j, "finished", result)
    <3> HIDE DEF a, b
    <3>2. events' = events \o <<a, b>> /\ a \in EventType /\ b \in EventType /\ Fits(a) /\ Fits(b)
      BY <2>2, <3>1 DEF a, b
    <3>3. <<a, b>> \in Seq(EventType) /\ \A k \in 1 .. Len(<<a, b>>) : Fits(<<a, b>>[k])
      BY <3>2
    <3>4. PICK r \in Seq(EventType) : events' = events \o r /\ \A k \in 1 .. Len(r) : Fits(r[k])
      BY <3>2, <3>3
    <3>5. CASE i \in 1 .. Len(events)
      BY <1>1, <1>3, <3>4, <3>5, HasConcat
    <3>6. ASSUME NEW k \in 1 .. Len(r), i = Len(events) + k PROVE Fits(events'[i])
      BY <1>1, <3>4, <3>6, HasConcat
    <3> QED
      BY <1>1, <3>4, <3>5, <3>6, HasConcat
  <2>3. events' = events \o Notices(j, signal, result) \/ events' = events
    BY <1>6 DEF WorkStep, Ends
  <2>4. CASE IsPublic(j)
    BY <2>1, <2>2, <2>3, <2>4 DEF Notices
  <2>5. CASE ~IsPublic(j)
    <3>1. events \o <<>> = events
      BY <1>1
    <3> QED
      BY <2>1, <2>3, <2>5, <3>1 DEF Notices
  <2> QED
    BY <2>4, <2>5
<1>7. Fits(events'[i])
  <2>1. ASSUME NEW history, NEW job, NEW submits, Cancels(history, job, submits)
        PROVE  Fits(events'[i])
    BY <1>5, <2>1 DEF Cancels
  <2>2. \/ EventsKeep
        \/ \E history, job, submits : Cancels(history, job, submits)
        \/ \E j \in JobIds : \E signal \in {"succeeded", "failed"} : \E result \in Results :
             WorkStep(j, signal, result)
    BY DEF JobStep
  <2> QED
    BY <1>4, <1>6, <2>1, <2>2
<1> QED
  BY <1>7 DEF Fits

-----------------------------------------------------------------------------
(* The line and the queue of signals are in order.                          *)

Increasing(q) == \A i, k \in 1 .. Len(q) : i < k => q[i] < q[k]

\* A job's outcome comes once and before its finish.
Paired(q) ==
    \A i, k \in 1 .. Len(q) :
      i < k /\ q[i].job = q[k].job => q[i].signal # "finished" /\ q[k].signal = "finished"

\* Jobs wait in the order of their submission, and what is signalled has left the line.
OrderInv ==
    /\ Increasing(line)
    /\ Paired(events)
    /\ \A i \in 1 .. Len(events) : ~InLine(events[i].job) /\ IsPublic(events[i].job)

\* An increasing sequence stays so when something higher comes after it.
LEMMA AppendIncreases ==
  ASSUME NEW q \in Seq(Nat), Increasing(q), NEW n \in Nat, \A i \in 1 .. Len(q) : q[i] < n
  PROVE  Increasing(Append(q, n))
<1>1. /\ Len(Append(q, n)) = Len(q) + 1 /\ Append(q, n)[Len(q) + 1] = n /\ Len(q) \in Nat
      /\ \A i \in 1 .. Len(q) : Append(q, n)[i] = q[i]
  BY HasAppend
<1> DEFINE a == Append(q, n)
<1> HIDE DEF a
<1>2. ASSUME NEW i \in 1 .. Len(a), NEW k \in 1 .. Len(a), i < k PROVE a[i] < a[k]
  <2>1. i \in 1 .. Len(q) /\ a[i] = q[i] /\ (k \in 1 .. Len(q) \/ k = Len(q) + 1)
    BY <1>1, <1>2 DEF a
  <2>2. CASE k \in 1 .. Len(q)
    BY <1>1, <1>2, <2>1, <2>2 DEF Increasing, a
  <2>3. CASE k = Len(q) + 1
    BY <1>1, <2>1, <2>3 DEF a
  <2> QED
    BY <2>1, <2>2, <2>3
<1> QED
  BY <1>2 DEF Increasing, a

\* An increasing sequence holds its head once, and its tail increases.
LEMMA TailIncreases ==
  ASSUME NEW S, S \in SUBSET Nat, NEW q \in Seq(S), q # <<>>, Increasing(q)
  PROVE  Increasing(Tail(q)) /\ ~Has(Tail(q), Head(q))
<1>1. /\ Head(q) = q[1] /\ Tail(q) \in Seq(S)
      /\ Len(q) \in Nat \ {0} /\ Len(Tail(q)) = Len(q) - 1
      /\ \A i \in 1 .. Len(Tail(q)) : i + 1 \in 1 .. Len(q) /\ Tail(q)[i] = q[i + 1]
  BY HasTail
<1> DEFINE t == Tail(q)
<1> HIDE DEF t
<1>2. ASSUME NEW i \in 1 .. Len(t), NEW k \in 1 .. Len(t), i < k PROVE t[i] < t[k]
  <2>1. i + 1 \in 1 .. Len(q) /\ k + 1 \in 1 .. Len(q) /\ i + 1 < k + 1
        /\ t[i] = q[i + 1] /\ t[k] = q[k + 1]
    BY <1>1, <1>2 DEF t
  <2> QED
    BY <2>1 DEF Increasing
<1>3. ASSUME NEW i \in 1 .. Len(t), t[i] = Head(q) PROVE FALSE
  <2>1. i + 1 \in 1 .. Len(q) /\ 1 \in 1 .. Len(q) /\ 1 < i + 1 /\ t[i] = q[i + 1]
    BY <1>1 DEF t
  <2>2. q[1] < q[i + 1] /\ q[1] = q[i + 1]
    BY <1>1, <1>3, <2>1 DEF Increasing
  <2>3. q[1] \in S
    BY <2>1, ElementOfSeq
  <2>4. PICK n \in Nat : n = q[1]
    BY <2>3
  <2> QED
    BY <2>2, <2>4
<1> QED
  BY <1>2, <1>3 DEF Increasing, Has, t

\* The line stays in the order of submission.
LEMMA LineOrder ==
  ASSUME TypeInv, OrderInv, JobStep
  PROVE  Increasing(line')
<1>1. /\ JobIds \in SUBSET Nat /\ JobIds = 1 .. Len(jobs) /\ Len(jobs) \in Nat
      /\ line \in Seq(JobIds) /\ Increasing(line) /\ NextJob = Len(jobs) + 1
  BY TokenTypes, JobIdsRange DEF TypeInv, OrderInv, NextJob
<1>2. ASSUME NEW rest \in Seq(JobIds), Increasing(rest), line' = Append(rest, NextJob)
      PROVE  Increasing(line')
  <2>1. rest \in Seq(Nat)
    BY <1>1, SeqMonotonic
  <2>2. \A i \in 1 .. Len(rest) : rest[i] \in JobIds
    BY ElementOfSeq
  <2>3. \A i \in 1 .. Len(rest) : rest[i] < NextJob
    BY <1>1, <2>2
  <2> QED
    BY <1>1, <1>2, <2>1, <2>3, AppendIncreases
<1>3. ASSUME NEW history, NEW job, NEW submits \in BOOLEAN, Cancels(history, job, submits)
      PROVE  Increasing(line')
  <2>1. PICK kept \in Survivors : line' = kept \/ line' = Append(kept, NextJob)
    BY <1>3 DEF Cancels, Enqueue
  <2>2. kept \in Seq(JobIds) /\ Len(kept) \in {0, 1}
    BY SurvivorFacts
  <2>3. Increasing(kept)
    BY <2>2 DEF Increasing
  <2> QED
    BY <1>2, <2>1, <2>2, <2>3
<1>4. ASSUME NEW j, NEW signal, NEW result, WorkStep(j, signal, result)
      PROVE  Increasing(line')
  <2>1. line # <<>> /\ (line' = line \/ line' = Tail(line))
    BY <1>4 DEF WorkStep, Ends
  <2> QED
    BY <1>1, <2>1, TailIncreases
<1>5. ASSUME line' = line PROVE Increasing(line')
  BY <1>1, <1>5
<1>6. ASSUME NEW history, NEW job, Enqueue(job, history, line) PROVE Increasing(line')
  BY <1>1, <1>2, <1>6 DEF Enqueue
<1> QED
  BY <1>3, <1>4, <1>5, <1>6 DEF JobStep

\* The queue without its head.
LEMMA KeptPairs ==
  ASSUME TypeInv, Paired(events), EventsKeep
  PROVE  /\ Paired(events')
         /\ \A i \in 1 .. Len(events') : \E k \in 1 .. Len(events) : events'[i] = events[k]
<1>1. \/ events' = events
      \/ /\ Len(events) \in Nat \ {0} /\ Len(events') = Len(events) - 1
         /\ \A i \in 1 .. Len(events') : i + 1 \in 1 .. Len(events) /\ events'[i] = events[i + 1]
  BY KeptEvents
<1>2. CASE events' = events
  BY <1>2
<1> DEFINE e == events'
<1> HIDE DEF e
<1>3. CASE /\ Len(events) \in Nat \ {0} /\ Len(events') = Len(events) - 1
           /\ \A i \in 1 .. Len(events') : i + 1 \in 1 .. Len(events) /\ events'[i] = events[i + 1]
  <2>1. ASSUME NEW i \in 1 .. Len(e), NEW k \in 1 .. Len(e), i < k, e[i].job = e[k].job
        PROVE  e[i].signal # "finished" /\ e[k].signal = "finished"
    <3>1. i + 1 \in 1 .. Len(events) /\ k + 1 \in 1 .. Len(events) /\ i + 1 < k + 1
          /\ e[i] = events[i + 1] /\ e[k] = events[k + 1]
      BY <1>3, <2>1 DEF e
    <3> QED
      BY <2>1, <3>1 DEF Paired
  <2>2. Paired(e)
    BY <2>1 DEF Paired
  <2> QED
    BY <1>3, <2>2 DEF e
<1> QED
  BY <1>1, <1>2, <1>3

\* The queue with the signals of other jobs behind.
LEMMA MorePairs ==
  ASSUME TypeInv, Paired(events), NEW more \in Seq(EventType), Paired(more),
         events' = events \o more,
         \A i \in 1 .. Len(events), k \in 1 .. Len(more) : events[i].job # more[k].job
  PROVE  Paired(events')
<1>1. /\ events \in Seq(EventType) /\ Len(events) \in Nat /\ Len(more) \in Nat
      /\ Len(events') = Len(events) + Len(more)
      /\ \A i \in 1 .. Len(events) : events'[i] = events[i]
      /\ \A k \in 1 .. Len(more) : events'[Len(events) + k] = more[k]
      /\ \A i \in 1 .. Len(events') :
           i \in 1 .. Len(events) \/ (\E k \in 1 .. Len(more) : i = Len(events) + k)
  BY HasConcat DEF TypeInv
<1> DEFINE e == events'
<1> HIDE DEF e
<1>2. ASSUME NEW i \in 1 .. Len(e), NEW k \in 1 .. Len(e), i < k, e[i].job = e[k].job
      PROVE  e[i].signal # "finished" /\ e[k].signal = "finished"
  <2>1. CASE i \in 1 .. Len(events) /\ k \in 1 .. Len(events)
    BY <1>1, <1>2, <2>1 DEF Paired, e
  <2>2. ASSUME NEW a \in 1 .. Len(more), k = Len(events) + a, i \in 1 .. Len(events) PROVE FALSE
    BY <1>1, <1>2, <2>2 DEF e
  <2>3. ASSUME NEW a \in 1 .. Len(more), NEW b \in 1 .. Len(more),
               i = Len(events) + a, k = Len(events) + b
        PROVE  e[i].signal # "finished" /\ e[k].signal = "finished"
    <3>1. a < b /\ e[i] = more[a] /\ e[k] = more[b]
      BY <1>1, <1>2, <2>3 DEF e
    <3> QED
      BY <1>2, <3>1 DEF Paired
  <2>4. ASSUME NEW a \in 1 .. Len(more), i = Len(events) + a, k \in 1 .. Len(events) PROVE FALSE
    BY <1>1, <1>2, <2>4
  <2>5. /\ i \in 1 .. Len(events) \/ (\E a \in 1 .. Len(more) : i = Len(events) + a)
        /\ k \in 1 .. Len(events) \/ (\E a \in 1 .. Len(more) : k = Len(events) + a)
    BY <1>1 DEF e
  <2> QED
    BY <2>1, <2>2, <2>3, <2>4, <2>5
<1> QED
  BY <1>2 DEF Paired, e

\* What is dropped from the line does not come back.
LEMMA DroppedJobs ==
  ASSUME TypeInv, OrderInv, NEW history, SameJobs(history), NEW job \in JobType,
         NEW submits \in BOOLEAN, NEW kept \in Survivors, NEW notices \in CancelNotices(kept),
         IF submits THEN Enqueue(job, history, kept) ELSE line' = kept,
         NEW k \in 1 .. Len(notices)
  PROVE  notices[k].job \in JobIds /\ InLine(notices[k].job) /\ ~InLine(notices[k].job)'
<1>1. /\ notices \in Seq(EventType)
      /\ \E n \in Len(kept) + 1 .. Len(line) : line[n] = notices[k].job
  BY NoticeFacts
<1>2. PICK n \in Len(kept) + 1 .. Len(line) : line[n] = notices[k].job
  BY <1>1
<1>3. /\ kept \in Seq(JobIds) /\ Len(kept) \in {0, 1} /\ Len(line) \in Nat
      /\ \A i \in 1 .. Len(kept) : i = 1 /\ 1 \in 1 .. Len(line) /\ kept[i] = line[1]
  BY SurvivorFacts DEF TypeInv
<1>4. n \in 1 .. Len(line) /\ line[n] \in JobIds
  BY <1>3, ElementOfSeq DEF TypeInv
<1>5. ~Has(kept, line[n])
  <2>1. SUFFICES ASSUME NEW i \in 1 .. Len(kept), kept[i] = line[n] PROVE FALSE
    BY DEF Has
  <2>2. i = 1 /\ Len(kept) = 1 /\ 1 \in 1 .. Len(line) /\ line[1] = line[n] /\ 1 < n
    BY <1>2, <1>3, <2>1
  <2>3. line[1] < line[n]
    BY <1>4, <2>2 DEF OrderInv, Increasing
  <2>4. PICK m \in Nat : m = line[n]
    BY <1>4, TokenTypes
  <2> QED
    BY <2>2, <2>3, <2>4
<1>6. line[n] # NextJob
  BY <1>4, SessionParts
<1>7. CASE submits
  <2>1. \A j : InLine(j)' <=> Has(kept, j) \/ j = NextJob
    BY <1>3, <1>7, EnqueueFacts DEF SameJobs
  <2> QED
    BY <1>2, <1>4, <1>5, <1>6, <2>1 DEF InLine
<1>8. CASE ~submits
  BY <1>2, <1>4, <1>5, <1>8 DEF InLine, Has
<1> QED
  BY <1>7, <1>8

\* Every step keeps the order of the line and of each job's signals.
LEMMA OrderKept ==
  ASSUME TypeInv, OrderInv, JobStep
  PROVE  OrderInv'
<1>1. Increasing(line')
  BY LineOrder
<1>2. /\ events \in Seq(EventType) /\ Len(events) \in Nat /\ Paired(events)
      /\ \A j \in JobIds : IsPublic(j)' = IsPublic(j)
  BY Growth DEF TypeInv, OrderInv
<1>3. ASSUME NEW k \in 1 .. Len(events)
      PROVE  events[k].job \in JobIds /\ ~InLine(events[k].job) /\ IsPublic(events[k].job)
  <2>1. events[k] \in EventType
    BY <1>2, <1>3, ElementOfSeq
  <2> QED
    BY <1>3, <2>1 DEF EventType, OrderInv
<1> DEFINE Good(e) == e.job \in JobIds /\ ~Has(line', e.job) /\ jobs[e.job].op # "close"
           Goal == Paired(events') /\ \A i \in 1 .. Len(events') : Good(events'[i])
<1>4. ASSUME Goal PROVE OrderInv'
  <2>1. ASSUME NEW i \in 1 .. Len(events')
        PROVE  ~InLine(events[i].job)' /\ IsPublic(events[i].job)'
    <3>1. PICK j \in JobIds : j = events'[i].job /\ ~Has(line', j) /\ jobs[j].op # "close"
      BY <1>4, <2>1
    <3>2. jobs'[j].op # "close"
      BY <1>2, <3>1 DEF IsPublic
    <3> QED
      BY <3>1, <3>2 DEF InLine, IsPublic, Has
  <2> QED
    BY <1>1, <1>4, <2>1 DEF OrderInv
<1>5. ASSUME EventsKeep, \A j \in JobIds : InLine(j)' => InLine(j)
      PROVE  Goal
  <2>1. ASSUME NEW i \in 1 .. Len(events') PROVE Good(events'[i])
    <3>1. PICK k \in 1 .. Len(events) : events'[i] = events[k]
      BY <1>2, <1>5, KeptPairs
    <3>2. PICK j \in JobIds : j = events[k].job /\ ~InLine(j) /\ IsPublic(j)
      BY <1>3
    <3> QED
      BY <1>5, <3>1, <3>2 DEF InLine, Has, IsPublic
  <2> QED
    BY <1>2, <1>5, <2>1, KeptPairs
<1>6. ASSUME NEW more \in Seq(EventType), Paired(more), events' = events \o more,
             \A k \in 1 .. Len(more) : /\ InLine(more[k].job) /\ ~InLine(more[k].job)'
                                       /\ more[k].job \in JobIds /\ IsPublic(more[k].job),
             \A j \in JobIds : InLine(j)' => InLine(j)
      PROVE  Goal
  <2>1. Paired(events')
    BY <1>2, <1>3, <1>6, MorePairs
  <2>2. ASSUME NEW i \in 1 .. Len(events') PROVE Good(events'[i])
    <3>1. ASSUME i \in 1 .. Len(events) PROVE Good(events'[i])
      <4>1. events'[i] = events[i]
        BY <1>2, <1>6, <3>1, HasConcat
      <4>2. PICK j \in JobIds : j = events[i].job /\ ~InLine(j) /\ IsPublic(j)
        BY <1>3, <3>1
      <4> QED
        BY <1>6, <4>1, <4>2 DEF InLine, Has, IsPublic
    <3>2. ASSUME NEW k \in 1 .. Len(more), i = Len(events) + k PROVE Good(events'[i])
      <4>1. events'[i] = more[k]
        BY <1>2, <1>6, <3>2, HasConcat
      <4>2. PICK j \in JobIds : j = more[k].job /\ ~InLine(j)' /\ IsPublic(j)
        BY <1>6
      <4> QED
        BY <4>1, <4>2 DEF InLine, Has, IsPublic
    <3> QED
      BY SMTT(30), <1>2, <1>6, <2>2, <3>1, <3>2, HasConcat
  <2> QED
    BY <2>1, <2>2
<1> HIDE DEF Goal
<1>7. ASSUME NEW history, NEW job \in JobType, SameJobs(history), Enqueue(job, history, line),
             EventsKeep
      PROVE  Goal
  <2>1. \A j \in JobIds : InLine(j)' => InLine(j)
    BY <1>7, SubmitFacts
  <2> QED
    BY <1>5, <1>7, <2>1
<1>8. ASSUME NEW history, NEW job \in JobType, NEW submits \in BOOLEAN, SameJobs(history),
             Cancels(history, job, submits)
      PROVE  Goal
  <2>1. \A j \in JobIds : InLine(j)' => InLine(j)
    BY <1>8, CancelFacts
  <2>2. PICK kept \in Survivors : \E notices \in CancelNotices(kept) :
          /\ events' = events \o notices
          /\ IF submits THEN Enqueue(job, history, kept) ELSE line' = kept
    BY <1>8 DEF Cancels
  <2>3. PICK notices \in CancelNotices(kept) :
          /\ events' = events \o notices
          /\ IF submits THEN Enqueue(job, history, kept) ELSE line' = kept
    BY <2>2
  <2>4. /\ notices \in Seq(EventType)
        /\ \A i \in 1 .. Len(notices) : IsPublic(notices[i].job)
        /\ \A i, k \in 1 .. Len(notices) : i < k => notices[i].job # notices[k].job
    BY <2>3, NoticeFacts
  <2>5. Paired(notices)
    BY <2>4 DEF Paired
  <2>6. \A k \in 1 .. Len(notices) : /\ InLine(notices[k].job) /\ ~InLine(notices[k].job)'
                                     /\ notices[k].job \in JobIds
    BY <1>8, <2>2, <2>3, DroppedJobs
  <2> QED
    BY <1>6, <2>1, <2>3, <2>4, <2>5, <2>6
<1>9. ASSUME NEW j \in JobIds, NEW signal \in {"succeeded", "failed"}, NEW result \in Results,
             WorkStep(j, signal, result)
      PROVE  Goal
  <2>1. /\ line # <<>> /\ j = Head(line) /\ SameJobs(jobs')
        /\ \/ Ends(j, jobs', signal, result)
           \/ line' = line /\ events' = events
    BY <1>9 DEF WorkStep
  <2>2. CASE line' = line /\ events' = events
    BY <1>5, <2>2 DEF EventsKeep, InLine
  <2>3. CASE Ends(j, jobs', signal, result)
    <3>1. /\ \A k : InLine(k) <=> InLine(k)' \/ k = j
          /\ line' = Tail(line) /\ events' = events \o Notices(j, signal, result)
      BY <2>1, <2>3, EndsFacts DEF Ends
    <3>2. InLine(j) /\ ~InLine(j)'
      BY <2>1, <3>1, TailIncreases, TokenTypes DEF TypeInv, OrderInv, InLine, Has
    <3>3. CASE IsPublic(j)
      <4> DEFINE a == Event(j, signal, result)
                 b == Event(j, "finished", result)
      <4>1. /\ a \in EventType /\ b \in EventType /\ a.job = j /\ b.job = j
            /\ a.signal # "finished" /\ b.signal = "finished"
        BY <1>9 DEF Event, EventType, Signals
      <4>2. events' = events \o <<a, b>>
        BY <3>1, <3>3 DEF Notices
      <4> HIDE DEF a, b
      <4>3. <<a, b>> \in Seq(EventType) /\ Paired(<<a, b>>)
            /\ \A k \in 1 .. Len(<<a, b>>) : <<a, b>>[k].job = j
        BY <4>1 DEF Paired
      <4>4. PICK more \in Seq(EventType) : /\ events' = events \o more /\ Paired(more)
                                           /\ \A k \in 1 .. Len(more) : more[k].job = j
        BY <4>2, <4>3
      <4> QED
        BY <1>6, <3>1, <3>2, <3>3, <4>4
    <3>4. CASE ~IsPublic(j)
      <4>1. events \o <<>> = events
        BY <1>2
      <4>2. EventsKeep
        BY <3>1, <3>4, <4>1 DEF Notices, EventsKeep
      <4> QED
        BY <1>5, <3>1, <4>2
    <3> QED
      BY <3>3, <3>4
  <2> QED
    BY <2>1, <2>2, <2>3
<1>10. ASSUME EventsKeep, line' = line PROVE Goal
  BY <1>5, <1>10 DEF InLine
<1> QED
  BY <1>4, <1>7, <1>8, <1>9, <1>10 DEF JobStep

-----------------------------------------------------------------------------
(* What decisions are about.                                                *)

KeyTopics(p) == \A key \in {p.key} \cup p.trusted : key # None => key.op \in ConnectionOps

PromptTopics(p) ==
    \A key \in {p.sudo} \cup p.accepted :
      key # None => key.op \in Reads \cup Mutations \cup ConnectionOps

\* A retry leaves the decisions alone but for the keys retried.
LEMMA RetryPending ==
  ASSUME NEW s, NEW p \in DecisionsType, NEW r, NEW l, NEW key, Retries(s, p, r, l, key)
  PROVE  /\ pending'.key = p.key /\ pending'.sudo = p.sudo
         /\ pending'.trusted = p.trusted /\ pending'.accepted = p.accepted
<1>1. pending' = p \/ \E retried : pending' = [p EXCEPT !.retried = retried]
  BY DEF Retries, NoRetry, Restart, Relaunch
<1> QED
  BY <1>1 DEF DecisionsType

\* _apply_failure asks only for the decisions its result is about.
LEMMA FailureTopics ==
  ASSUME TypeInv, TopicInv, NEW j \in JobIds, IsPublic(j), NEW result \in Results, NEW rest,
         ApplyFailure(j, result, rest),
         result = "unknown_key" => IsConnection(j),
         result = "sudo_required" => jobs[j].op \in Reads \cup Mutations \cup ConnectionOps
  PROVE  KeyTopics(pending') /\ PromptTopics(pending')
<1> DEFINE key == Key(session.generation, jobs[j].op)
<1>1. PICK decision \in {None} \cup Keys : \E prompt \in {None} \cup Keys :
         FailedDecisions(key, result, decision, prompt)
  BY FailureFacts
<1>2. PICK prompt \in {None} \cup Keys : FailedDecisions(key, result, decision, prompt)
  BY <1>1
<1>3. /\ pending'.key = decision /\ pending'.sudo = prompt
      /\ pending'.trusted = pending.trusted /\ pending'.accepted = pending.accepted
  BY <1>2, SessionParts DEF DecisionsType, FailedDecisions
<1>4. key.op = jobs[j].op
  BY DEF Key
<1> HIDE DEF key
<1> QED
  BY <1>2, <1>3, <1>4 DEF TopicInv, KeyTopics, PromptTopics, IsConnection, FailedDecisions

\* Every step keeps results, decisions and prompts to their topics.
LEMMA TopicsKept ==
  ASSUME TypeInv, TopicInv, [Next]_vars
  PROVE  TopicInv'
<1>1. JobStep
  BY JobSteps
<1>2. ASSUME KeyTopics(pending'), PromptTopics(pending') PROVE TopicInv'
  BY <1>1, <1>2, TopicOfEvents DEF TopicInv, KeyTopics, PromptTopics, IsConnection
<1>3. /\ pending \in DecisionsType /\ KeyTopics(pending) /\ PromptTopics(pending)
  BY SessionParts DEF TopicInv, KeyTopics, PromptTopics
<1>4. ASSUME NEW p \in DecisionsType, p.trusted \subseteq pending.trusted,
             p.accepted \subseteq pending.accepted,
             p.key \in {None, pending.key}, p.sudo \in {None, pending.sudo}
      PROVE  KeyTopics(p) /\ PromptTopics(p)
  BY <1>3, <1>4 DEF KeyTopics, PromptTopics
<1>5. CASE pending' = pending
  BY <1>2, <1>3, <1>5
<1>6. CASE pending' = NoDecisions
  <2>1. KeyTopics(NoDecisions) /\ PromptTopics(NoDecisions)
    BY DEF NoDecisions, KeyTopics, PromptTopics
  <2> QED
    BY <1>2, <1>6, <2>1
<1>7. CASE \E keys : pending' = [pending EXCEPT !.retried = keys]
  <2>1. PICK keys : pending' = [pending EXCEPT !.retried = keys]
    BY <1>7
  <2>2. pending'.key = pending.key /\ pending'.sudo = pending.sudo
        /\ pending'.trusted = pending.trusted /\ pending'.accepted = pending.accepted
    BY <1>3, <2>1 DEF DecisionsType
  <2> QED
    BY <1>2, <1>3, <2>2 DEF KeyTopics, PromptTopics
<1>8. CASE pending' = [pending EXCEPT !.trusted = {}]
  BY <1>2, <1>3, <1>8 DEF KeyTopics, PromptTopics, DecisionsType
<1>9. CASE Calls
  <2>1. \/ pending' = pending \/ pending' = NoDecisions
        \/ pending' = [pending EXCEPT !.trusted = {}]
    BY <1>9 DEF Calls, Connect, Disconnect, Reconnect, StartRead, StartMutation,
                ProvideSudoPassword, Select, ReloadChanged, ReloadRemoved, ReloadAdded, Shutdown,
                GiveUp, ClearPendingDecisions
  <2> QED
    BY <1>5, <1>6, <1>8, <2>1
<1>10. CASE Work
  BY <1>5, <1>10, WorkSteps DEF WorkStep, worker_only
<1>11. CASE OnSucceeded \/ RestOfApplyFailure \/ ShutdownReturns \/ DismissError
  BY <1>5, <1>11 DEF OnSucceeded, RestOfApplyFailure, ShutdownReturns, DismissError
<1>12. CASE EmitSucceeded \/ EmitFailed
  BY <1>7, <1>12 DEF EmitSucceeded, EmitFailed
<1>13. CASE OnFailed
  <2> DEFINE j == Head(events).job
             result == Head(events).result
  <2>1. /\ j \in JobIds /\ result \in Results /\ Head(events) = events[1]
        /\ 1 \in 1 .. Len(events) /\ events # <<>>
        /\ \/ pending' = pending
           \/ IsPublic(j) /\ ApplyFailure(j, result, <<Frame("emit_failed", j, result)>> \o stack)
    BY <1>13, FailedCases, ReceivedFacts
  <2>2. /\ result \in {"unknown_key", "changed_key"} => IsConnection(j)
        /\ result = "sudo_required" => jobs[j].op \in Reads \cup Mutations \cup ConnectionOps
    BY <2>1 DEF TopicInv
  <2> HIDE DEF j, result
  <2> QED
    BY <1>2, <1>5, <2>1, <2>2, FailureTopics
<1>14. CASE HostKeyStoreFails
  <2>1. "store_error" \in Results
    BY DEF Results
  <2> QED
    BY <1>2, <1>14, <2>1, StoreFailsCases, FailureTopics
<1>15. CASE OnFinished
  <2> DEFINE j   == Head(events).job
             key == KeyOf(j)
             s   == IF Current(j) /\ session.busy = key.op
                    THEN [session EXCEPT !.busy = None] ELSE session
             r   == {k \in records : KeyOf(k) # key}
  <2>1. PICK p \in DecisionsType : \E l \in Seq(LogicalType) :
          /\ p.key = pending.key /\ p.sudo = pending.sudo
          /\ p.trusted \subseteq pending.trusted
          /\ p.accepted = pending.accepted \ {key}
          /\ \/ NoRetry(s, p, r, l)
             \/ /\ key \in pending.trusted => key.op \in ConnectionOps
                /\ \/ key \in pending.trusted /\ TrustedRetry(s, p, r, l, key)
                   \/ key \in pending.accepted /\ SudoRetry(s, p, r, l, key)
    BY <1>15, FinishedCases
  <2> HIDE DEF s, r, key, j
  <2>2. \E l : Retries(s, p, r, l, key)
    BY <2>1, RetryCases DEF Retries
  <2>3. /\ pending'.key = p.key /\ pending'.sudo = p.sudo
        /\ pending'.trusted = p.trusted /\ pending'.accepted = p.accepted
    BY <2>2, RetryPending
  <2>4. KeyTopics(p) /\ PromptTopics(p)
    BY <1>4, <2>1
  <2> QED
    BY <1>2, <2>3, <2>4 DEF KeyTopics, PromptTopics
<1>16. CASE ConfirmHostKey \/ AcceptSudo
  <2>2. PICK key \in Keys, s \in SessionType, p \in DecisionsType :
           \/ /\ key.op \in ConnectionOps /\ p = [pending EXCEPT !.key = None]
              /\ \/ NoRetry(s, [p EXCEPT !.trusted = @ \cup {key}], records, logicals)
                 \/ TrustedRetry(s, p, records, logicals, key)
           \/ /\ key.op \in Reads \cup Mutations \cup ConnectionOps
              /\ p = [pending EXCEPT !.sudo = None]
              /\ \/ NoRetry(s, [p EXCEPT !.accepted = @ \cup {key}], records, logicals)
                 \/ SudoRetry(s, p, records, logicals, key)
    <3>1. PICK key \in Keys, s \in SessionType, p \in DecisionsType : Answering(key, s, p)
      BY <1>16, AnswerCases
    <3> QED
      BY <3>1 DEF Answering
  <2>3. KeyTopics(p) /\ PromptTopics(p)
    <3>1. /\ p.trusted = pending.trusted /\ p.accepted = pending.accepted
          /\ p.key \in {None, pending.key} /\ p.sudo \in {None, pending.sudo}
      BY <1>3, <2>2 DEF DecisionsType
    <3> QED
      BY <1>4, <3>1
  <2>4. CASE pending' = [p EXCEPT !.trusted = @ \cup {key}] /\ key.op \in ConnectionOps
    BY <1>2, <2>3, <2>4 DEF KeyTopics, PromptTopics, DecisionsType
  <2>5. CASE /\ pending' = [p EXCEPT !.accepted = @ \cup {key}]
             /\ key.op \in Reads \cup Mutations \cup ConnectionOps
    BY <1>2, <2>3, <2>5 DEF KeyTopics, PromptTopics, DecisionsType
  <2>6. CASE Retries(s, p, records, logicals, key)
    <3>1. /\ pending'.key = p.key /\ pending'.sudo = p.sudo
          /\ pending'.trusted = p.trusted /\ pending'.accepted = p.accepted
      BY <2>6, RetryPending
    <3> QED
      BY <1>2, <2>3, <3>1 DEF KeyTopics, PromptTopics
  <2> QED
    BY <2>2, <2>4, <2>5, <2>6, RetryCases DEF NoRetry
<1>17. CASE DeclineHostKey
  <2>1. pending' \in {pending, [pending EXCEPT !.key = None]}
    BY <1>17 DEF DeclineHostKey
  <2>2. CASE pending' = [pending EXCEPT !.key = None]
    BY <1>2, <1>3, <2>2 DEF KeyTopics, PromptTopics, DecisionsType
  <2> QED
    BY <1>5, <2>1, <2>2
<1>18. CASE DeclineSudo
  <2>1. CASE Exact(pending.sudo)
    <3>1. PICK keys : pending' = [pending EXCEPT !.sudo = None, !.retried = keys]
      BY <1>18, <2>1 DEF DeclineSudo
    <3> QED
      BY <1>2, <1>3, <3>1 DEF KeyTopics, PromptTopics, DecisionsType
  <2>2. CASE ~Exact(pending.sudo)
    BY <1>5, <1>18, <2>2 DEF DeclineSudo
  <2> QED
    BY <2>1, <2>2
<1>19. CASE UNCHANGED vars
  BY <1>5, <1>19 DEF vars
<1> QED
  BY <1>9, <1>10, <1>11, <1>12, <1>13, <1>14, <1>15, <1>16, <1>17, <1>18, <1>19
     DEF Next, Handlers, Answers

-----------------------------------------------------------------------------
(* The Qt thread's stack.                                                   *)

\* The frames a handler or a dialog leaves on the stack have their type.
LEMMA FrameTypes ==
  ASSUME NEW j \in Nat, NEW result \in {None} \cup Results, NEW rest \in Seq(FrameType),
         NEW fn \in {"emit_succeeded", "emit_failed", "rest_of_apply_failure"},
         NEW dialog \in Dialogs
  PROVE  /\ <<Frame(fn, j, result)>> \o rest \in Seq(FrameType)
         /\ Opens(dialog, j) \in Seq(FrameType)
<1>1. /\ Frame(fn, j, result) \in FrameType /\ Frame(dialog, j, None) \in FrameType
  BY DEF Frame, FrameType
<1> DEFINE a == Frame(fn, j, result)
           b == Frame(dialog, j, None)
<1> HIDE DEF a, b
<1>2. a \in FrameType /\ b \in FrameType
  BY <1>1 DEF a, b
<1>3. <<a>> \in Seq(FrameType) /\ <<b>> \in Seq(FrameType) /\ <<>> \in Seq(FrameType)
  BY <1>2
<1>4. <<a>> \o rest \in Seq(FrameType)
  BY <1>3, ConcatProperties
<1> QED
  BY <1>3, <1>4 DEF Opens, a, b

\* What _apply_failure leaves to do has its type.
LEMMA FailureStack ==
  ASSUME NEW j \in Nat, NEW result \in Results, NEW rest \in Seq(FrameType),
         ApplyFailure(j, result, rest)
  PROVE  stack' \in Seq(FrameType)
<1> DEFINE again == Key(session.generation, jobs[j].op) \in pending.retried
           first == CASE result = "unknown_key" -> Opens("host_key", j)
                      [] result = "sudo_required" /\ ~again -> Opens("sudo", j)
                      [] OTHER -> <<>>
           then  == <<Frame("rest_of_apply_failure", j, result)>> \o rest
<1>1. stack' = first \o (<<Frame("rest_of_apply_failure", j, result)>> \o rest)
      \/ stack' = (first \o <<Frame("rest_of_apply_failure", j, result)>>) \o rest
  BY DEF ApplyFailure
<1>2. /\ then \in Seq(FrameType) /\ Opens("host_key", j) \in Seq(FrameType)
      /\ Opens("sudo", j) \in Seq(FrameType) /\ <<Frame("rest_of_apply_failure", j, result)>> \o <<>> \in Seq(FrameType)
  BY FrameTypes DEF Dialogs
<1>3. first \in Seq(FrameType)
  <2> HIDE DEF again
  <2>1. <<>> \in Seq(FrameType)
    OBVIOUS
  <2> QED
    BY <1>2, <2>1
<1>4. <<Frame("rest_of_apply_failure", j, result)>> \in Seq(FrameType)
  <2>1. Frame("rest_of_apply_failure", j, result) \in FrameType
    BY DEF Frame, FrameType
  <2> QED
    BY <2>1
<1> HIDE DEF first
<1>5. PICK middle \in Seq(FrameType) :
         stack' = first \o (middle \o rest) \/ stack' = (first \o middle) \o rest
  BY <1>1, <1>4
<1>6. middle \o rest \in Seq(FrameType) /\ first \o middle \in Seq(FrameType)
  BY <1>3, <1>5, ConcatProperties
<1> QED
  BY <1>3, <1>5, <1>6, ConcatProperties

\* Every step keeps the types of what is left to do.
LEMMA StackKept ==
  ASSUME TypeInv, TopicInv, StackInv, [Next]_vars
  PROVE  StackInv'
<1>1. stack \in Seq(FrameType) /\ (stack # <<>> => Tail(stack) \in Seq(FrameType))
  BY HasTail DEF StackInv
<1>2. ASSUME stack' \in {stack, <<>>} \/ (stack # <<>> /\ stack' = Tail(stack)) PROVE StackInv'
  <2>1. <<>> \in Seq(FrameType)
    OBVIOUS
  <2> QED
    BY <1>1, <1>2, <2>1 DEF StackInv
<1>3. JobIds \in SUBSET Nat
  BY TokenTypes
<1>4. CASE Calls
  <2>1. CASE stack' = <<[fn |-> "wait_for_done"]>>
    <3>1. [fn |-> "wait_for_done"] \in FrameType
      BY DEF FrameType
    <3> QED
      BY <2>1, <3>1 DEF StackInv
  <2> QED
    BY <1>2, <1>4, <2>1
       DEF Calls, Connect, Disconnect, Reconnect, StartRead, StartMutation, ProvideSudoPassword,
           Select, ReloadChanged, ReloadRemoved, ReloadAdded, Shutdown
<1>5. CASE Work
  BY <1>2, <1>5, WorkSteps DEF WorkStep, worker_only
<1>6. CASE OnSucceeded
  <2> DEFINE j == Head(events).job
             result == Head(events).result
  <2>1. /\ j \in JobIds /\ result \in Results
        /\ \/ DiscardSucceeded(j)
           \/ MutationSucceeded(j, result)
           \/ stack' = <<Frame("emit_succeeded", j, "ok")>> \o stack
    <3>1. j \in JobIds /\ result \in Results
      BY <1>6, SucceededCases
    <3> QED
      BY <1>6, <3>1 DEF OnSucceeded
  <2> HIDE DEF j, result
  <2>2. CASE DiscardSucceeded(j)
    BY <1>2, <2>2 DEF DiscardSucceeded
  <2>3. CASE stack' = <<Frame("emit_succeeded", j, "ok")>> \o stack
    <3>1. "ok" \in Results /\ j \in Nat
      BY <1>3, <2>1 DEF Results
    <3> QED
      BY <1>1, <2>3, <3>1, FrameTypes DEF StackInv, Dialogs
  <2>4. CASE MutationSucceeded(j, result)
    <3>1. /\ \/ stack' = <<Frame("emit_succeeded", j, result)>> \o stack
             \/ stack' = <<>> \o <<Frame("emit_succeeded", j, result)>> \o stack
             \/ stack' = Opens("error", j) \o <<Frame("emit_succeeded", j, result)>> \o stack
      BY <2>4 DEF MutationSucceeded
    <3>2. /\ <<Frame("emit_succeeded", j, result)>> \o stack \in Seq(FrameType)
          /\ Opens("error", j) \in Seq(FrameType)
      BY <1>1, <1>3, <2>1, FrameTypes DEF Dialogs
    <3>3. <<Frame("emit_succeeded", j, result)>> \in Seq(FrameType) /\ <<>> \in Seq(FrameType)
      <4>1. Frame("emit_succeeded", j, result) \in FrameType
        BY <1>3, <2>1 DEF Frame, FrameType
      <4> QED
        BY <4>1
    <3>4. PICK m \in Seq(FrameType) : m = <<Frame("emit_succeeded", j, result)>>
      BY <3>3
    <3>5. <<>> \o m \in Seq(FrameType) /\ Opens("error", j) \o m \in Seq(FrameType)
      BY <3>2, <3>3, <3>4, ConcatProperties
    <3>6. stack' \in Seq(FrameType)
      BY <1>1, <3>1, <3>2, <3>3, <3>4, <3>5, ConcatProperties
    <3> QED
      BY <3>6 DEF StackInv
  <2> QED
    BY <2>1, <2>2, <2>3, <2>4
<1>7. CASE OnFailed
  <2> DEFINE j == Head(events).job
             result == Head(events).result
  <2>1. /\ j \in JobIds /\ result \in Results
        /\ \/ stack' = stack
           \/ ApplyFailure(j, result, <<Frame("emit_failed", j, result)>> \o stack)
    BY <1>7, FailedCases
  <2>2. <<Frame("emit_failed", j, result)>> \o stack \in Seq(FrameType) /\ j \in Nat
    BY <1>1, <1>3, <2>1, FrameTypes DEF Dialogs
  <2> HIDE DEF j, result
  <2> QED
    BY <1>2, <2>1, <2>2, FailureStack DEF StackInv
<1>8. CASE OnFinished \/ UNCHANGED vars
  BY <1>2, <1>8 DEF OnFinished, vars
<1>9. CASE EmitSucceeded \/ EmitFailed \/ DismissError \/ ShutdownReturns
  BY <1>2, <1>9 DEF EmitSucceeded, EmitFailed, DismissError, ShutdownReturns
<1>10. CASE RestOfApplyFailure
  <2>1. /\ stack # <<>> /\ Head(stack).fn = "rest_of_apply_failure"
        /\ stack' \in {<<>> \o Tail(stack), Opens("error", Head(stack).job) \o Tail(stack)}
    BY <1>10 DEF RestOfApplyFailure
  <2>2. Head(stack) \in FrameType
    BY <1>1, <2>1, HasTail
  <2>3. Head(stack).job \in Nat
    BY <2>1, <2>2 DEF FrameType
  <2>4. Opens("error", Head(stack).job) \in Seq(FrameType) /\ <<>> \in Seq(FrameType)
    <3>1. Frame("error", Head(stack).job, None) \in FrameType
      BY <2>3 DEF Frame, FrameType, Dialogs
    <3> QED
      BY <3>1 DEF Opens
  <2>5. stack' \in Seq(FrameType)
    BY <1>1, <2>1, <2>4, ConcatProperties
  <2> QED
    BY <2>5 DEF StackInv
<1>11. ASSUME NEW prompt, NEW decision, CanAnswer(prompt, decision)
       PROVE  Answered \in Seq(FrameType) /\ (Answered = stack \/ (stack # <<>> /\ Answered = Tail(stack)))
  BY <1>1, <1>11 DEF CanAnswer, Answered
<1>12. CASE DeclineHostKey \/ DeclineSudo \/ ConfirmHostKey \/ AcceptSudo
  <2>1. PICK decision : \E prompt : CanAnswer(prompt, decision) /\ stack' = Answered
    BY <1>12 DEF DeclineHostKey, DeclineSudo, ConfirmHostKey, AcceptSudo
  <2> QED
    BY <1>2, <1>11, <2>1
<1>13. CASE HostKeyStoreFails
  <2>1. PICK j \in JobIds : CanAnswer("host_key", pending.key) /\ ApplyFailure(j, "store_error", Answered)
    BY <1>13, StoreFailsCases
  <2>2. "store_error" \in Results /\ j \in Nat
    BY <1>3 DEF Results
  <2> QED
    BY <1>11, <2>1, <2>2, FailureStack DEF StackInv
<1> QED
  BY <1>4, <1>5, <1>6, <1>7, <1>8, <1>9, <1>10, <1>12, <1>13 DEF Next, Handlers, Answers

-----------------------------------------------------------------------------
(* The first invariants.                                                    *)

CoreInv == TypeInv /\ TopicInv /\ StackInv /\ OrderInv

\* The core holds before the first call.
LEMMA CoreInitially ==
  ASSUME Init
  PROVE  CoreInv
<1>1. /\ jobs = <<>> /\ line = <<>> /\ events = <<>> /\ stack = <<>> /\ logicals = <<>>
      /\ session = NewSession(0) /\ pending = NoDecisions /\ records = {} /\ tokens = {}
      /\ step = "waiting" /\ known \in BOOLEAN /\ remote = 0 /\ requests = 0 /\ down = "no"
  BY DEF Init
<1>2. /\ jobs \in Seq(JobType) /\ line \in Seq(JobIds) /\ events \in Seq(EventType)
      /\ stack \in Seq(FrameType) /\ logicals \in Seq(LogicalType)
      /\ Len(line) = 0 /\ Len(events) = 0
  BY <1>1
<1>3. session \in SessionType
  BY <1>1 DEF NewSession, SessionType, Statuses
<1>4. pending \in DecisionsType
  BY <1>1 DEF NoDecisions, DecisionsType
<1>5. TypeInv
  BY <1>1, <1>2, <1>3, <1>4 DEF TypeInv
<1>6. TopicInv
  BY <1>1, <1>2 DEF TopicInv, NoDecisions
<1>7. OrderInv
  BY <1>2 DEF OrderInv, Increasing, Paired
<1> QED
  BY <1>2, <1>5, <1>6, <1>7 DEF CoreInv, StackInv

\* Every step keeps the core.
LEMMA CoreKept ==
  ASSUME CoreInv, [Next]_vars
  PROVE  CoreInv'
<1>1. TypeInv /\ TopicInv /\ StackInv /\ OrderInv
  BY DEF CoreInv
<1> QED
  BY <1>1, TypesKept, TopicsKept, StackKept, OrderKept, JobSteps DEF CoreInv

\* The core holds in every reachable state.
LEMMA CoreAlways == Spec => []CoreInv
BY CoreInitially, CoreKept, PTL DEF Spec

-----------------------------------------------------------------------------
(* The session and its jobs.                                                *)

\* Neither cancelled nor its outcome delivered.
Unreported(j) == InLine(j) \/ Queued(j, "succeeded") \/ Queued(j, "failed")
Open(j) == Unreported(j) \/ Queued(j, "finished")
Mine(j) == Current(j) /\ IsPublic(j)

OldGenerations == \A j \in JobIds : jobs[j].generation <= session.generation
RecordedWork == \A j \in JobIds : Mine(j) /\ Open(j) => j \in records
BusyRecords == \A r \in records : Current(r) => jobs[r].op = session.busy
OneRecord == \A r \in records : \A k \in records : Current(r) /\ Current(k) => r = k
BusyReason ==
    down = "no" /\ session.busy # None =>
      \E r \in records : Current(r) /\ (InLine(r) \/ Queued(r, "finished"))
GoneSession ==
    /\ down # "no" => \A j \in JobIds : ~Mine(j)
    /\ ~session.present \/ down # "no" =>
         /\ session.busy = None /\ session.manager = None /\ session.attempt = None
         /\ session.status = "disconnected"

\* What the session is busy with and what is on record.
BusyInv ==
    OldGenerations /\ RecordedWork /\ BusyRecords /\ OneRecord /\ BusyReason /\ GoneSession

\* A head of the queue that is handled leaves nothing of its kind behind.
LEMMA HeadGone ==
  ASSUME TypeInv, OrderInv, events # <<>>, Received
  PROVE  LET e == Head(events) IN
         /\ e.job \in JobIds /\ ~InLine(e.job) /\ IsPublic(e.job)
         /\ \A j : j = e.job =>
              /\ ~Queued(j, "succeeded")' /\ ~Queued(j, "failed")'
              /\ e.signal = "finished" => ~Queued(j, "finished")'
<1> DEFINE e == Head(events)
<1>1. /\ e = events[1] /\ 1 \in 1 .. Len(events) /\ e.job \in JobIds /\ e.signal \in Signals
  BY ReceivedFacts
<1>2. ~InLine(e.job) /\ IsPublic(e.job)
  BY <1>1 DEF OrderInv
<1>3. /\ events' = Tail(events) /\ Len(events) \in Nat \ {0} /\ Len(Tail(events)) = Len(events) - 1
      /\ \A i \in 1 .. Len(Tail(events)) :
           i + 1 \in 1 .. Len(events) /\ Tail(events)[i] = events[i + 1]
  BY HasTail DEF TypeInv, Received
<1>4. ASSUME NEW i \in 1 .. Len(events'), events'[i].job = e.job
      PROVE  e.signal # "finished" /\ events'[i].signal = "finished"
  <2>1. /\ i + 1 \in 1 .. Len(events) /\ events'[i] = events[i + 1] /\ 1 < i + 1
    BY <1>3
  <2> QED
    BY <1>1, <1>4, <2>1 DEF OrderInv, Paired
<1>5. ASSUME NEW j, j = e.job, NEW s, Queued(j, s)'
      PROVE  e.signal # "finished" /\ s = "finished"
  <2>1. PICK i \in 1 .. Len(events') : events'[i].job = j /\ events'[i].signal = s
    BY <1>5 DEF Queued
  <2> QED
    BY <1>4, <1>5, <2>1
<1> QED
  BY <1>1, <1>2, <1>5

\* The same session goes on with its jobs.
LEMMA BusySame ==
  ASSUME CoreInv, BusyInv, JobStep,
         session'.generation = session.generation, session'.present = session.present,
         session'.busy = session.busy, records' = records, down' = down,
         \A j \in JobIds : Open(j)' => Open(j),
         \A j \in JobIds : IsPublic(j) /\ (InLine(j) \/ Queued(j, "finished"))
                             => InLine(j)' \/ Queued(j, "finished")',
         \A j \in JobIds' : j \notin JobIds =>
           ~IsPublic(j)' /\ jobs'[j].generation = session.generation,
         \/ session.present /\ down = "no"
         \/ /\ session'.manager \in {None, session.manager}
            /\ session'.attempt \in {None, session.attempt}
            /\ session'.status = session.status
  PROVE  BusyInv'
<1>1. TypeInv /\ session.generation \in Nat /\ records \in SUBSET {j \in JobIds : IsPublic(j)}
  BY SessionParts DEF CoreInv, TypeInv
<1>2. /\ JobIds \subseteq JobIds'
      /\ \A j \in JobIds : /\ jobs'[j].op = jobs[j].op
                           /\ jobs'[j].generation = jobs[j].generation
                           /\ IsPublic(j)' = IsPublic(j)
  BY <1>1, Growth
<1>3. \A j \in JobIds : /\ Current(j)' <=> Current(j)
                        /\ Mine(j)' <=> Mine(j)
  BY <1>2 DEF Current, Mine
<1>4. \A j \in JobIds' : Mine(j)' => j \in JobIds
  BY DEF Mine
<1>5. OldGenerations'
  BY <1>1, <1>2 DEF OldGenerations, BusyInv
<1>6. RecordedWork'
  BY <1>2, <1>3, <1>4 DEF RecordedWork, BusyInv
<1>7. BusyRecords' /\ OneRecord'
  BY <1>1, <1>2, <1>3 DEF BusyRecords, OneRecord, BusyInv
<1>8. BusyReason'
  BY <1>1, <1>2, <1>3 DEF BusyReason, BusyInv
<1>9. GoneSession'
  BY <1>3, <1>4 DEF GoneSession, BusyInv
<1> QED
  BY <1>5, <1>6, <1>7, <1>8, <1>9 DEF BusyInv

\* A new generation has at most the job that is submitted for it.
LEMMA BusyNext ==
  ASSUME CoreInv, CoreInv', BusyInv, JobStep,
         session'.generation = session.generation + 1,
         JobIds' \subseteq JobIds \cup {NextJob}, records' \subseteq records \cup {NextJob},
         \A n : n = NextJob /\ n \in JobIds' =>
           /\ jobs'[n].generation = session'.generation /\ InLine(n)'
           /\ IsPublic(n)' => /\ n \in records' /\ session'.busy = jobs'[n].op
                              /\ session'.present /\ down' = "no",
         session'.busy # None => NextJob \in records' /\ NextJob \in JobIds' /\ session'.present,
         ~session'.present \/ down' # "no" =>
           /\ session'.busy = None /\ session'.manager = None /\ session'.attempt = None
           /\ session'.status = "disconnected"
  PROVE  BusyInv'
<1>1. /\ TypeInv /\ session.generation \in Nat /\ records \in SUBSET {j \in JobIds : IsPublic(j)}
      /\ NextJob \notin JobIds
  BY SessionParts DEF CoreInv, TypeInv
<1>2. /\ JobIds \subseteq JobIds'
      /\ \A j \in JobIds : /\ jobs'[j].generation = jobs[j].generation
                           /\ jobs[j].generation \in Nat
                           /\ jobs[j].generation < session'.generation
  <2>1. ASSUME NEW j \in JobIds PROVE jobs[j].generation \in Nat
    <3>1. jobs[j] \in JobType
      BY <1>1, SessionParts, ElementOfSeq DEF TypeInv
    <3> QED
      BY <3>1 DEF JobType
  <2> QED
    BY <1>1, <2>1, Growth DEF BusyInv, OldGenerations
<1>3. \A j \in JobIds : ~Current(j)' /\ ~Mine(j)'
  BY <1>1, <1>2 DEF Current, Mine
<1>4. PICK n : n = NextJob
  OBVIOUS
<1>5. \A j \in JobIds' : j \in JobIds \/ j = n
  BY <1>4
<1>6. \A r \in records' : Current(r)' => r = n
  BY <1>1, <1>3, <1>4
<1>7. OldGenerations'
  BY <1>1, <1>2, <1>4, <1>5 DEF OldGenerations
<1>8. RecordedWork'
  BY <1>3, <1>4, <1>5 DEF RecordedWork, Mine
<1>9. \A r \in records' : r \in JobIds' /\ IsPublic(r)'
  BY DEF CoreInv, TypeInv
<1>10. OneRecord'
  BY <1>6 DEF OneRecord
<1>11. BusyReason'
  BY <1>4 DEF BusyReason, Current
<1>12. GoneSession'
  BY <1>3, <1>4, <1>5 DEF GoneSession, Mine
<1> QED
  BY <1>4, <1>6, <1>7, <1>8, <1>9, <1>10, <1>11, <1>12 DEF BusyInv, BusyRecords

\* A session with nothing open takes a job of its generation.
LEMMA BusyLaunch ==
  ASSUME CoreInv, CoreInv', BusyInv, JobStep, session.present, down = "no",
         session'.generation = session.generation, session'.present = session.present,
         down' = down,
         NEW r \in SUBSET records, records' = r \cup {NextJob}, \A k \in r : ~Current(k),
         \A j \in JobIds : Mine(j) => ~Open(j)',
         JobIds' = JobIds \cup {NextJob},
         \A n : n = NextJob => /\ jobs'[n].generation = session.generation
                               /\ session'.busy = jobs'[n].op /\ InLine(n)'
  PROVE  BusyInv'
<1>1. /\ TypeInv /\ session.generation \in Nat /\ records \in SUBSET {j \in JobIds : IsPublic(j)}
      /\ NextJob \notin JobIds
  BY SessionParts DEF CoreInv, TypeInv
<1>2. \A j \in JobIds : /\ jobs'[j].op = jobs[j].op
                        /\ jobs'[j].generation = jobs[j].generation
                        /\ IsPublic(j)' = IsPublic(j)
  BY <1>1, Growth
<1>3. \A j \in JobIds : /\ Current(j)' <=> Current(j)
                        /\ Mine(j)' <=> Mine(j)
  BY <1>2 DEF Current, Mine
<1>4. PICK n : n = NextJob
  OBVIOUS
<1>5. \A j \in JobIds' : j \in JobIds \/ j = n
  BY <1>4
<1>6. \A k \in records' : Current(k)' => k = n
  BY <1>1, <1>3, <1>4
<1>7. OldGenerations'
  BY <1>1, <1>2, <1>4, <1>5 DEF OldGenerations, BusyInv
<1>8. RecordedWork'
  BY <1>3, <1>4, <1>5 DEF RecordedWork
<1>9. BusyRecords' /\ OneRecord'
  BY <1>4, <1>6 DEF BusyRecords, OneRecord
<1>10. Current(n)'
  BY <1>4 DEF Current
<1>11. BusyReason'
  BY <1>4, <1>10 DEF BusyReason
<1>12. GoneSession'
  BY DEF GoneSession
<1> QED
  BY <1>7, <1>8, <1>9, <1>11, <1>12 DEF BusyInv

\* What OnFinished leaves when nothing follows.
LEMMA BusyFinished ==
  ASSUME CoreInv, BusyInv, events # <<>>, Head(events).signal = "finished", Received,
         UNCHANGED <<jobs, line, step, down>>,
         NEW j, j = Head(events).job, j \in JobIds,
         session' = IF Current(j) /\ session.busy = KeyOf(j).op
                    THEN [session EXCEPT !.busy = None] ELSE session,
         records' = {k \in records : KeyOf(k) # KeyOf(j)}
  PROVE  BusyInv'
<1>1. /\ TypeInv /\ OrderInv /\ session \in SessionType
      /\ records \in SUBSET {k \in JobIds : IsPublic(k)}
  BY SessionParts DEF CoreInv, TypeInv
<1>2. /\ ~InLine(j) /\ IsPublic(j) /\ ~Queued(j, "succeeded")' /\ ~Queued(j, "failed")'
      /\ ~Queued(j, "finished")' /\ Queued(j, "finished")
  BY <1>1, HeadGone, ReceivedFacts
<1>3. /\ JobIds' = JobIds
      /\ \A k \in JobIds : /\ jobs'[k].op = jobs[k].op
                           /\ jobs'[k].generation = jobs[k].generation
                           /\ InLine(k)' <=> InLine(k)
                           /\ IsPublic(k)' <=> IsPublic(k)
                           /\ \A s : Queued(k, s)' => Queued(k, s)
                           /\ \A s : Queued(k, s) => Queued(k, s)' \/ k = j
  BY <1>1, ReceivedFacts DEF JobIds, InLine, IsPublic
<1>4. /\ session'.generation = session.generation /\ session'.present = session.present
      /\ session'.manager = session.manager /\ session'.attempt = session.attempt
      /\ session'.status = session.status
      /\ session'.busy = IF Current(j) /\ session.busy = jobs[j].op THEN None ELSE session.busy
  BY <1>1 DEF SessionType, KeyOf, Key
<1>5. \A k \in JobIds : /\ Current(k)' <=> Current(k)
                        /\ Mine(k)' <=> Mine(k)
                        /\ Open(k)' => Open(k)
  BY <1>3, <1>4 DEF Current, Mine, Open, Unreported
<1>6. \A k \in JobIds : KeyOf(k) = KeyOf(j) <=>
        jobs[k].generation = jobs[j].generation /\ jobs[k].op = jobs[j].op
  BY DEF KeyOf, Key
<1>7. Mine(j) => j \in records /\ session.busy = jobs[j].op
  BY <1>2 DEF BusyInv, RecordedWork, BusyRecords, Open, Mine
<1>8. ASSUME NEW k \in JobIds, KeyOf(k) = KeyOf(j), IsPublic(k)
      PROVE  Mine(k) <=> Mine(j)
  BY <1>2, <1>6, <1>8 DEF Mine, Current
<1>9. RecordedWork'
  <2>1. SUFFICES ASSUME NEW k \in JobIds, Mine(k), Open(k)' PROVE k \in records'
    BY <1>3, <1>5 DEF RecordedWork
  <2>2. k \in records
    BY <1>5, <2>1 DEF BusyInv, RecordedWork
  <2>3. CASE KeyOf(k) = KeyOf(j)
    <3>1. Mine(j) /\ j \in records
      BY <1>7, <1>8, <2>1, <2>3 DEF Mine
    <3>2. k = j
      BY <2>1, <2>2, <3>1 DEF BusyInv, OneRecord, Mine
    <3> QED
      BY <1>2, <1>3, <2>1, <3>2 DEF Open, Unreported
  <2> QED
    BY <2>2, <2>3
<1>10. BusyRecords'
  <2>1. SUFFICES ASSUME NEW k \in records', Current(k)' PROVE jobs'[k].op = session'.busy
    BY DEF BusyRecords
  <2>2. k \in records /\ k \in JobIds /\ Current(k) /\ KeyOf(k) # KeyOf(j)
    BY <1>1, <1>5, <2>1
  <2>3. jobs[k].op = session.busy
    BY <2>2 DEF BusyInv, BusyRecords
  <2>4. CASE Current(j) /\ session.busy = jobs[j].op
    BY <1>6, <2>2, <2>3, <2>4 DEF Current
  <2> QED
    BY <1>3, <1>4, <2>2, <2>3, <2>4
<1>11. OneRecord'
  BY <1>1, <1>5 DEF OneRecord, BusyInv
<1>12. BusyReason'
  <2>1. SUFFICES ASSUME down = "no", session'.busy # None
                 PROVE  \E k \in records' : Current(k)' /\ (InLine(k)' \/ Queued(k, "finished")')
    BY DEF BusyReason
  <2>2. session'.busy = session.busy /\ ~(Current(j) /\ session.busy = jobs[j].op)
    BY <1>4, <2>1
  <2>3. PICK k \in records : Current(k) /\ (InLine(k) \/ Queued(k, "finished"))
    BY <2>1, <2>2 DEF BusyInv, BusyReason
  <2>4. k \in JobIds /\ IsPublic(k) /\ ~Mine(j)
    BY <1>1, <1>7, <2>2 DEF Mine
  <2>5. KeyOf(k) # KeyOf(j) /\ k # j
    BY <1>2, <1>8, <2>3, <2>4 DEF Mine
  <2> QED
    BY <1>3, <1>5, <2>3, <2>4, <2>5
<1>13. OldGenerations'
  BY <1>3, <1>4 DEF OldGenerations, BusyInv
<1>14. GoneSession'
  BY <1>3, <1>4, <1>5 DEF GoneSession, BusyInv
<1> QED
  BY <1>9, <1>10, <1>11, <1>12, <1>13, <1>14 DEF BusyInv

\* The end of a controller whose server was removed, and of one that was shut down.
LEMMA BusyAfter ==
  ASSUME CoreInv, BusyInv, JobStep, session' = session, ~session.present \/ down # "no",
         records' \in SUBSET records, down' # "no",
         \A j \in JobIds' : j \notin JobIds =>
           ~IsPublic(j)' /\ jobs'[j].generation = session.generation
  PROVE  BusyInv'
<1>1. /\ TypeInv /\ session.generation \in Nat /\ records \in SUBSET {j \in JobIds : IsPublic(j)}
  BY SessionParts DEF CoreInv, TypeInv
<1>2. \A j \in JobIds : /\ jobs'[j].generation = jobs[j].generation
                        /\ IsPublic(j)' = IsPublic(j)
  BY <1>1, Growth
<1>3. \A j \in JobIds : ~Mine(j)
  BY DEF BusyInv, GoneSession, Mine, Current
<1>4. \A j \in JobIds' : ~Mine(j)'
  BY <1>2, <1>3 DEF Mine, Current
<1>5. \A k \in records' : k \in JobIds /\ ~Current(k)'
  BY <1>1, <1>2, <1>3 DEF Mine, Current
<1>6. OldGenerations'
  BY <1>1, <1>2 DEF OldGenerations, BusyInv
<1>7. GoneSession' /\ BusyReason'
  BY <1>4 DEF GoneSession, BusyInv, BusyReason
<1> QED
  BY <1>4, <1>5, <1>6, <1>7 DEF BusyInv, RecordedWork, BusyRecords, OneRecord

-----------------------------------------------------------------------------
(* The session, its decisions and its manager.                              *)

Waiting(p) == {p.key, p.sudo} \cup p.accepted

\* No decision is about the present generation.
NoneWaits == \A key \in Waiting(pending) : key # None => ~OfSession(key)

\* A password is asked for when the operation has failed, before it may run again.
Undecided(key) ==
    /\ session.status = "error" /\ down = "no"
    /\ session.busy \in {None, key.op}
    /\ \A j \in JobIds : Mine(j) => ~Unreported(j)
    /\ key.op \in ConnectionOps => session.manager = None

OldDecisions == \A key \in Waiting(pending) : key # None => key.generation <= session.generation
KeyDecision ==
    pending.key # None /\ OfSession(pending.key) =>
      /\ down = "no" /\ session.status \in {"host_key_error", "error"}
      /\ \A j \in JobIds : Mine(j) => ~Unreported(j)
      /\ \A key \in {pending.sudo} \cup pending.accepted : key # None => ~OfSession(key)
SudoDecisions ==
    \A key \in {pending.sudo} \cup pending.accepted :
      key # None /\ OfSession(key) => Undecided(key)
AcceptedDecisions ==
    \A key \in pending.accepted :
      OfSession(key) => /\ session.busy = key.op
                        /\ pending.sudo # None => ~OfSession(pending.sudo)

DecisionInv == OldDecisions /\ KeyDecision /\ SudoDecisions /\ AcceptedDecisions

\* A session that connects has no manager yet.
PhaseInv ==
    /\ session.status \in {"host_key_error", "connecting", "disconnected"}
         => session.manager = None
    /\ \A j \in JobIds : IsConnection(j) /\ Current(j) /\ Unreported(j)
         => session.manager = None

AgreeInv == BusyInv /\ DecisionInv /\ PhaseInv

\* While a job's outcome is due, nothing is asked.
LEMMA NothingAsked ==
  ASSUME TypeInv, DecisionInv, NEW j \in JobIds, Mine(j), Unreported(j)
  PROVE  NoneWaits
<1>1. SUFFICES ASSUME NEW key \in Waiting(pending), key # None, OfSession(key) PROVE FALSE
  BY DEF NoneWaits
<1>2. CASE key = pending.key
  BY <1>1, <1>2 DEF DecisionInv, KeyDecision
<1>3. CASE key \in {pending.sudo} \cup pending.accepted
  BY <1>1, <1>3 DEF DecisionInv, SudoDecisions, Undecided
<1> QED
  BY <1>1, <1>2, <1>3 DEF Waiting

\* There is no decision but of before, and none about the session.
LEMMA DecisionsPast ==
  ASSUME TypeInv, TypeInv', DecisionInv, session'.generation >= session.generation,
         Waiting(pending') \subseteq Waiting(pending) \cup {None}, NoneWaits'
  PROVE  DecisionInv'
<1>1. /\ session.generation \in Nat /\ session'.generation \in Nat
      /\ \A key \in Waiting(pending) : key = None \/ key.generation \in Nat
      /\ pending \in DecisionsType /\ pending' \in DecisionsType
      /\ \A key \in Keys : key.generation \in Nat
  <2>1. \A key \in Keys : key.generation \in Nat
    BY DEF Keys
  <2>2. pending \in DecisionsType
    BY SessionParts
  <2>3. \A key \in Waiting(pending) : key = None \/ key \in Keys
    BY <2>2 DEF DecisionsType, Waiting
  <2> QED
    BY <2>1, <2>3, SessionParts DEF TypeInv, SessionType
<1>2. OldDecisions'
  BY <1>1 DEF DecisionInv, OldDecisions
<1>3. KeyDecision' /\ SudoDecisions'
  BY DEF NoneWaits, KeyDecision, SudoDecisions, Waiting
<1>4. AcceptedDecisions'
  <2>1. SUFFICES ASSUME NEW key \in pending'.accepted, OfSession(key)' PROVE FALSE
    BY DEF AcceptedDecisions
  <2>2. key # None
    BY <1>1, NoneIsNoKey DEF DecisionsType
  <2> QED
    BY <2>1, <2>2 DEF NoneWaits, Waiting
<1> QED
  BY <1>2, <1>3, <1>4 DEF DecisionInv

\* Nothing is submitted but what closes tokens, and nothing is taken from the line unsaid.
Continues ==
    /\ session'.generation = session.generation /\ session'.present = session.present
    /\ session'.busy = session.busy /\ records' = records /\ down' = down
    /\ \A j \in JobIds : Open(j)' => Open(j)
    /\ \A j \in JobIds : Unreported(j)' => Unreported(j)
    /\ \A j \in JobIds : IsPublic(j) /\ (InLine(j) \/ Queued(j, "finished"))
                           => InLine(j)' \/ Queued(j, "finished")'
    /\ \A j \in JobIds' : j \notin JobIds =>
         ~IsPublic(j)' /\ jobs'[j].generation = session.generation

\* Decisions are at most taken back.
Drops ==
    /\ pending'.key \in {None, pending.key} /\ pending'.sudo \in {None, pending.sudo}
    /\ pending'.accepted \in SUBSET pending.accepted

\* The same session goes on, or loses its connection.
LEMMA AgreeSame ==
  ASSUME CoreInv, CoreInv', AgreeInv, JobStep, Continues, Drops,
         session'.manager \in {None, session.manager},
         session'.attempt \in {None, session.attempt},
         \/ session'.status = session.status
         \/ session'.status = "error" /\ session.present /\ down = "no"
  PROVE  AgreeInv'
<1>1. TypeInv /\ TypeInv' /\ BusyInv /\ DecisionInv /\ PhaseInv
  BY DEF CoreInv, AgreeInv
<1>2. BusyInv'
  BY <1>1, BusySame DEF Continues
<1>3. /\ JobIds \subseteq JobIds'
      /\ \A j \in JobIds : /\ jobs'[j].op = jobs[j].op
                           /\ jobs'[j].generation = jobs[j].generation
                           /\ IsPublic(j)' = IsPublic(j) /\ IsConnection(j)' = IsConnection(j)
  BY <1>1, Growth
<1>4. \A j \in JobIds : /\ Current(j)' <=> Current(j)
                        /\ Mine(j)' <=> Mine(j)
  BY <1>3 DEF Current, Mine, Continues
<1>5. \A j \in JobIds' : Mine(j)' \/ IsConnection(j)' => j \in JobIds
  <2>1. \A j \in JobIds' : IsConnection(j)' => IsPublic(j)'
    BY DEF IsConnection, IsPublic, ConnectionOps
  <2> QED
    BY <2>1 DEF Mine, Continues
<1>6. \A key : OfSession(key)' <=> OfSession(key)
  BY DEF OfSession, Continues
<1>7. (\A j \in JobIds : Mine(j) => ~Unreported(j)) => (\A j \in JobIds' : Mine(j)' => ~Unreported(j)')
  BY <1>4, <1>5 DEF Continues
<1>8. OldDecisions'
  BY <1>1 DEF OldDecisions, DecisionInv, Waiting, Drops, Continues
<1>9. KeyDecision'
  <2>1. SUFFICES ASSUME pending'.key # None, session'.present,
                        session'.generation = pending'.key.generation
                 PROVE  /\ down' = "no" /\ session'.status \in {"host_key_error", "error"}
                        /\ \A j \in JobIds' : Mine(j)' => ~Unreported(j)'
                        /\ \A key \in {pending'.sudo} \cup pending'.accepted :
                             key # None => ~OfSession(key)'
    BY DEF KeyDecision, OfSession
  <2>2. pending'.key = pending.key /\ OfSession(pending.key)
    BY <2>1 DEF Drops, OfSession, Continues
  <2> QED
    BY <1>1, <1>6, <1>7, <2>1, <2>2 DEF DecisionInv, KeyDecision, Drops, Continues
<1>10. SudoDecisions'
  <2>1. SUFFICES ASSUME NEW key \in {pending'.sudo} \cup pending'.accepted, key # None, OfSession(key)'
                 PROVE  Undecided(key)'
    BY DEF SudoDecisions
  <2>2. key \in {pending.sudo} \cup pending.accepted /\ OfSession(key)
    BY <1>6, <2>1 DEF Drops
  <2>3. Undecided(key)
    BY <1>1, <2>1, <2>2 DEF DecisionInv, SudoDecisions
  <2> QED
    BY <1>7, <2>3 DEF Undecided, Continues
<1>11. AcceptedDecisions'
  BY <1>1, <1>6 DEF AcceptedDecisions, DecisionInv, Drops, Continues
<1>12. PhaseInv'
  BY <1>1, <1>3, <1>4, <1>5 DEF PhaseInv, Continues
<1> QED
  BY <1>2, <1>8, <1>9, <1>10, <1>11, <1>12 DEF AgreeInv, DecisionInv

\* A new generation, with no manager yet.
LEMMA AgreeNext ==
  ASSUME CoreInv, CoreInv', AgreeInv, BusyInv', Drops,
         session'.generation > session.generation, session'.manager = None
  PROVE  AgreeInv'
<1>1. TypeInv /\ TypeInv' /\ BusyInv /\ DecisionInv /\ PhaseInv
  BY DEF CoreInv, AgreeInv
<1>2. /\ session.generation \in Nat /\ session'.generation \in Nat
      /\ pending \in DecisionsType /\ \A key \in Keys : key.generation \in Nat
  <2>1. \A key \in Keys : key.generation \in Nat
    BY DEF Keys
  <2> QED
    BY <1>1, <2>1, SessionParts DEF TypeInv, SessionType
<1>3. Waiting(pending') \subseteq Waiting(pending) \cup {None}
  BY DEF Drops, Waiting
<1>4. \A key \in Waiting(pending) : key = None \/ (key.generation \in Nat /\ key.generation <= session.generation)
  BY <1>1, <1>2 DEF DecisionInv, OldDecisions, DecisionsType, Waiting
<1>5. NoneWaits'
  BY <1>2, <1>3, <1>4 DEF NoneWaits, OfSession
<1>6. DecisionInv'
  BY <1>1, <1>2, <1>3, <1>5, DecisionsPast
<1>7. PhaseInv'
  BY DEF PhaseInv
<1> QED
  BY <1>6, <1>7 DEF AgreeInv

\* A connected session, or one that begins to connect, takes one more job.
LEMMA AgreeLaunch ==
  ASSUME CoreInv, CoreInv', AgreeInv, JobStep, BusyInv', NoneWaits', Drops,
         session'.generation = session.generation, session'.present = session.present,
         session'.manager = session.manager,
         JobIds' = JobIds \cup {NextJob},
         \A j \in JobIds : Mine(j) => ~Unreported(j)',
         \/ session'.status = "connecting" /\ session.manager = None
         \/ session'.status = "connected" /\ \A n : n = NextJob => ~IsConnection(n)'
  PROVE  AgreeInv'
<1>1. TypeInv /\ TypeInv' /\ BusyInv /\ DecisionInv /\ PhaseInv /\ session.generation \in Nat
  BY SessionParts DEF CoreInv, AgreeInv
<1>3. Waiting(pending') \subseteq Waiting(pending) \cup {None}
  BY DEF Waiting, Drops
<1>4. DecisionInv'
  BY <1>1, <1>3, DecisionsPast
<1>5. ASSUME NEW j \in JobIds', IsConnection(j)', Current(j)', Unreported(j)'
      PROVE  session'.manager = None
  <2>1. CASE j \in JobIds
    <3>1. IsPublic(j)
      BY <1>1, <1>5, <2>1, Growth DEF IsConnection, IsPublic, ConnectionOps
    <3>2. Mine(j)
      BY <1>1, <1>5, <2>1, <3>1, Growth DEF Mine, Current
    <3> QED
      BY <1>5, <2>1, <3>2
  <2>2. CASE j = NextJob
    BY <1>5, <2>2
  <2> QED
    BY <2>1, <2>2
<1>6. PhaseInv'
  BY <1>5 DEF PhaseInv
<1> QED
  BY <1>4, <1>6 DEF AgreeInv

\* A handler that takes an outcome, or nothing, from the queue, and may submit a close.
LEMMA HandlersContinue ==
  ASSUME CoreInv, NEW history, SameJobs(history), NEW open \in SUBSET Connections,
         MayClose(history, open), EventsKeep,
         events' # events => Head(events).signal # "finished",
         session'.generation = session.generation, session'.present = session.present,
         session'.busy = session.busy, records' = records, down' = down
  PROVE  Continues /\ JobStep /\ \A j \in JobIds : InLine(j)' <=> InLine(j)
<1>1. TypeInv /\ OrderInv /\ session.generation \in Nat
  BY SessionParts DEF CoreInv
<1>2. /\ \A j, s : Queued(j, s)' => Queued(j, s)
      /\ \A j : Queued(j, "finished") => Queued(j, "finished")'
  <2>1. CASE events' = events
    BY <2>1 DEF Queued
  <2>2. CASE events' # events
    BY <1>1, <2>2, ReceivedFacts DEF EventsKeep
  <2> QED
    BY <2>1, <2>2
<1>3. JobStep
  BY <1>1, CloseJobs
<1>4. /\ \A j \in JobIds : InLine(j)' <=> InLine(j)
      /\ \A j \in JobIds' : j \notin JobIds =>
           jobs'[j].op = "close" /\ jobs'[j].generation = session.generation
  <2>1. CASE SubmitClose(history, open)
    <3>1. open \in SUBSET Nat
      BY <1>1, TokenTypes
    <3>2. PICK n : n = NextJob
      OBVIOUS
    <3>3. PICK job : job = NewJob("close", session.generation, FALSE, open, 0)
      OBVIOUS
    <3>4. job \in JobType /\ job.op = "close" /\ job.generation = session.generation
      BY <1>1, <3>1, <3>3 DEF NewJob, JobType, JobOps
    <3>5. Enqueue(job, history, line)
      BY <2>1, <3>3 DEF SubmitClose
    <3>6. /\ JobIds' = JobIds \cup {n} /\ n \notin JobIds /\ jobs'[n] = job
          /\ \A j : InLine(j)' <=> InLine(j) \/ j = n
      BY <1>1, <3>2, <3>4, <3>5, SubmitFacts
    <3> QED
      BY <3>4, <3>6
  <2>2. CASE jobs' = history /\ line' = line /\ step' = step
    BY <1>1, <2>2 DEF SameJobs, JobIds, InLine
  <2> QED
    BY <2>1, <2>2 DEF MayClose
<1> QED
  BY <1>2, <1>3, <1>4 DEF Continues, Open, Unreported, IsPublic

\* The pool's thread goes on with the jobs there are.
LEMMA WorkContinues ==
  ASSUME CoreInv, Work
  PROVE  Continues /\ JobStep
<1>1. TypeInv /\ OrderInv
  BY DEF CoreInv
<1>2. PICK j \in JobIds, signal \in {"succeeded", "failed"}, result \in Results :
        WorkStep(j, signal, result)
  BY <1>1, WorkSteps
<1>3. JobStep
  BY <1>2 DEF JobStep
<1>4. session' = session /\ records' = records /\ down' = down
  BY <1>2 DEF WorkStep, worker_only
<1>5. JobIds' = JobIds
  BY <1>1, <1>2, JobIdsRange DEF WorkStep, SameJobs, JobIds
<1>6. CASE Ends(j, jobs', signal, result)
  <2>1. /\ InLine(j)
        /\ \A k : InLine(k) <=> InLine(k)' \/ k = j
        /\ \A k, s : Queued(k, s)' <=>
                       Queued(k, s) \/ (IsPublic(j) /\ k = j /\ s \in {signal, "finished"})
    BY <1>1, <1>2, <1>6, EndsFacts DEF WorkStep
  <2> QED
    BY <1>3, <1>4, <1>5, <2>1 DEF Continues, Open, Unreported
<1>7. CASE line' = line /\ events' = events
  BY <1>3, <1>4, <1>5, <1>7 DEF Continues, Open, Unreported, InLine, Queued
<1> QED
  BY <1>2, <1>6, <1>7 DEF WorkStep

\* A step that moves no job but perhaps takes an outcome from the queue.
LEMMA QuietContinues ==
  ASSUME CoreInv, UNCHANGED <<jobs, line, step>>, EventsKeep,
         events' # events => Head(events).signal # "finished",
         session'.generation = session.generation, session'.present = session.present,
         session'.busy = session.busy, records' = records, down' = down
  PROVE  Continues /\ JobStep
<1>1. TypeInv /\ SameJobs(jobs)
  BY JobsAreSame DEF CoreInv
<1>2. PICK open \in SUBSET Connections : open = {}
  OBVIOUS
<1>3. MayClose(jobs, open)
  BY DEF MayClose
<1> QED
  BY <1>1, <1>3, HandlersContinue

\* The pool's thread keeps session and jobs in agreement.
LEMMA WorkAgrees ==
  ASSUME CoreInv, CoreInv', AgreeInv, Work
  PROVE  AgreeInv'
<1>1. PICK j \in JobIds, signal \in {"succeeded", "failed"}, result \in Results :
        WorkStep(j, signal, result)
  BY WorkSteps DEF CoreInv
<1>2. session' = session /\ pending' = pending
  BY <1>1 DEF WorkStep, worker_only
<1>3. Drops
  BY <1>2 DEF Drops
<1> QED
  BY <1>2, <1>3, WorkContinues, AgreeSame

\* Calls and answers that start nothing.
LEMMA QuietAgrees ==
  ASSUME CoreInv, CoreInv', AgreeInv, UNCHANGED <<jobs, line, step, events, records, down>>, Drops,
         session'.generation = session.generation, session'.present = session.present,
         session'.busy = session.busy, session'.status = session.status,
         session'.manager = session.manager, session'.attempt = session.attempt
  PROVE  AgreeInv'
<1>1. Continues /\ JobStep
  BY QuietContinues DEF EventsKeep
<1> QED
  BY <1>1, AgreeSame

\* What forgets decisions and nothing else.
LEMMA QuietDrops ==
  ASSUME TypeInv,
         \/ ProvideSudoPassword \/ Select \/ EmitSucceeded \/ EmitFailed
         \/ DeclineHostKey \/ DeclineSudo \/ DismissError \/ UNCHANGED vars
  PROVE  /\ Drops
         /\ UNCHANGED <<jobs, line, step, events, records, down, remote>>
         /\ session' = session \/ session' = [session EXCEPT !.sudo = TRUE]
<1>1. pending \in DecisionsType
  BY SessionParts
<1>2. UNCHANGED <<jobs, line, step, events, records, down, remote>>
  BY DEF ProvideSudoPassword, Select, EmitSucceeded, EmitFailed, DeclineHostKey, DeclineSudo,
         DismissError, Request, vars
<1>3. session' = session \/ session' = [session EXCEPT !.sudo = TRUE]
  BY DEF ProvideSudoPassword, Select, EmitSucceeded, EmitFailed, DeclineHostKey, DeclineSudo,
         DismissError, vars
<1>4. CASE ProvideSudoPassword \/ DismissError \/ UNCHANGED vars
  <2>1. pending' = pending
    BY <1>4 DEF ProvideSudoPassword, DismissError, vars
  <2> QED
    BY <1>2, <1>3, <2>1 DEF Drops
<1>5. CASE Select
  BY <1>1, <1>2, <1>3, <1>5 DEF Select, DecisionsType, Drops
<1>6. CASE EmitSucceeded \/ EmitFailed
  <2>1. CASE EmitSucceeded
    <3>1. PICK S : pending' = [pending EXCEPT !.retried = S]
      BY <2>1 DEF EmitSucceeded
    <3> QED
      BY <1>1, <1>2, <1>3, <3>1 DEF DecisionsType, Drops
  <2>2. CASE EmitFailed
    <3>1. PICK S : pending' = [pending EXCEPT !.retried = S]
      BY <2>2 DEF EmitFailed
    <3> QED
      BY <1>1, <1>2, <1>3, <3>1 DEF DecisionsType, Drops
  <2> QED
    BY <1>6, <2>1, <2>2
<1>7. CASE DeclineHostKey
  <2>1. pending' = pending \/ pending' = [pending EXCEPT !.key = None]
    BY <1>7 DEF DeclineHostKey
  <2> QED
    BY <1>1, <1>2, <1>3, <2>1 DEF DecisionsType, Drops
<1>8. CASE DeclineSudo
  <2>1. pending' = pending \/ \E S : pending' = [pending EXCEPT !.sudo = None, !.retried = S]
    BY <1>8, Zenon DEF DeclineSudo
  <2> QED
    BY <1>1, <1>2, <1>3, <2>1 DEF DecisionsType, Drops
<1> QED
  BY <1>4, <1>5, <1>6, <1>7, <1>8

\* So do the steps that leave session, records and jobs alone.
LEMMA QuietStepsAgree ==
  ASSUME CoreInv, CoreInv', AgreeInv,
         \/ ProvideSudoPassword \/ Select \/ EmitSucceeded \/ EmitFailed
         \/ DeclineHostKey \/ DeclineSudo \/ DismissError \/ UNCHANGED vars
  PROVE  AgreeInv'
<1>1. TypeInv /\ session \in SessionType
  BY SessionParts DEF CoreInv
<1>2. /\ Drops /\ UNCHANGED <<jobs, line, step, events, records, down>>
      /\ session' = session \/ session' = [session EXCEPT !.sudo = TRUE]
  BY <1>1, QuietDrops
<1> QED
  BY <1>1, <1>2, QuietAgrees DEF SessionType

\* A session waits for no outcome but the one that is delivered.
LEMMA OneOutcome ==
  ASSUME CoreInv, BusyInv, events # <<>>, Received, NEW j, j = Head(events).job, Mine(j),
         \A k \in JobIds : InLine(k)' => InLine(k)
  PROVE  /\ \A k \in JobIds : Mine(k) => ~Unreported(k)'
         /\ session.present /\ down = "no" /\ j \in records /\ session.busy = jobs[j].op
         /\ Open(j) /\ (Head(events).signal # "finished" => Unreported(j))
<1>1. TypeInv /\ OrderInv
  BY DEF CoreInv
<1>2. /\ j \in JobIds /\ ~InLine(j) /\ ~Queued(j, "succeeded")' /\ ~Queued(j, "failed")'
  BY <1>1, HeadGone
<1>3. Queued(j, Head(events).signal) /\ Head(events).signal \in Signals
      /\ \A k, s : Queued(k, s)' => Queued(k, s)
  BY <1>1, ReceivedFacts
<1>4. Open(j) /\ (Head(events).signal # "finished" => Unreported(j))
  BY <1>3 DEF Open, Unreported, Signals
<1>5. j \in records /\ session.busy = jobs[j].op
  BY <1>2, <1>4 DEF BusyInv, RecordedWork, BusyRecords, Mine
<1>6. ASSUME NEW k \in JobIds, Mine(k), Unreported(k)' PROVE FALSE
  <2>1. Open(k)
    BY <1>3, <1>6 DEF Open, Unreported
  <2>2. k = j
    BY <1>5, <1>6, <2>1 DEF BusyInv, RecordedWork, OneRecord, Mine
  <2> QED
    BY <1>2, <1>6, <2>2 DEF Unreported
<1>7. session.present /\ down = "no"
  BY <1>2 DEF BusyInv, GoneSession, Mine, Current
<1> QED
  BY <1>4, <1>5, <1>6, <1>7

\* So does _on_job_succeeded.
LEMMA SucceededAgrees ==
  ASSUME CoreInv, CoreInv', AgreeInv, OnSucceeded
  PROVE  AgreeInv'
<1> DEFINE j == Head(events).job
<1>1. TypeInv /\ BusyInv /\ DecisionInv /\ PhaseInv /\ session \in SessionType /\ SameJobs(jobs)
  BY SessionParts, JobsAreSame DEF CoreInv, AgreeInv
<1>2. /\ events # <<>> /\ Head(events).signal = "succeeded" /\ Received
      /\ j \in JobIds /\ UNCHANGED <<pending, records, down>>
  BY <1>1, SucceededCases
<1>3. Drops /\ EventsKeep
  BY <1>2 DEF Drops, EventsKeep
<1>4. CASE DiscardSucceeded(j)
  <2>1. session' = session
    BY <1>1, <1>2, <1>4, DiscardCases
  <2>2. \E history : \E open \in SUBSET Connections : SameJobs(history) /\ MayClose(history, open)
    <3>1. CASE UNCHANGED <<jobs, tokens, line, step>>
      <4>1. MayClose(jobs, {})
        BY <3>1 DEF MayClose
      <4> QED
        BY <1>1, <4>1
    <3>2. CASE /\ IsConnection(j) /\ SameJobs(Invalidated(j))
               /\ SubmitClose(Invalidated(j), tokens \cup {j})
      <4>1. tokens \cup {j} \in SUBSET Connections
        BY <1>1, <1>2, <3>2 DEF TypeInv, Connections
      <4> QED
        BY <3>2, <4>1 DEF MayClose
    <3>3. CASE SameJobs(Invalidated(j)) /\ jobs' = Invalidated(j) /\ UNCHANGED <<line, step>>
      <4>1. MayClose(Invalidated(j), {})
        BY <3>3 DEF MayClose
      <4> QED
        BY <3>3, <4>1
    <3> QED
      BY <1>1, <1>2, <1>4, <3>1, <3>2, <3>3, DiscardCases
  <2>3. Continues /\ JobStep
    BY <1>2, <1>3, <2>1, <2>2, HandlersContinue
  <2> QED
    BY <1>3, <2>1, <2>3, AgreeSame
<1>5. CASE Current(j) /\ session.busy = jobs[j].op /\ Recorded(j) /\ ~DiscardSucceeded(j)
  <2>1. Mine(j)
    <3>1. IsPublic(j)
      BY <1>1, <1>2, HeadGone DEF CoreInv
    <3> QED
      BY <1>5, <3>1 DEF Mine
  <2>2. CASE jobs[j].op \in Mutations /\ MutationSucceeded(j, Head(events).result)
    <3> DEFINE lost == Head(events).result = "refresh_transport" /\ session.manager # None
               open == tokens \cup {m \in {session.manager} : lost}
    <3>1. /\ session'.generation = session.generation /\ session'.present = session.present
          /\ session'.busy = session.busy /\ session'.attempt = session.attempt
          /\ session'.manager = IF lost THEN None ELSE session.manager
          /\ session'.status = IF lost THEN "error" ELSE session.status
      BY <1>1, <2>2 DEF MutationSucceeded, SessionType
    <3>2. IF lost THEN SubmitClose(jobs, open) ELSE UNCHANGED <<jobs, line, step>>
      BY <2>2 DEF MutationSucceeded
    <3>3. open \in SUBSET Connections
      BY <1>1, TokenTypes
    <3>4. MayClose(jobs, open)
      BY <3>2 DEF MayClose
    <3>5. Continues /\ JobStep /\ \A k \in JobIds : InLine(k)' <=> InLine(k)
      BY <1>1, <1>2, <1>3, <3>1, <3>3, <3>4, HandlersContinue
    <3>6. session.present /\ down = "no"
      BY <1>1, <1>2, <2>1, <3>5, OneOutcome
    <3> QED
      BY <1>3, <3>1, <3>5, <3>6, AgreeSame
  <2>3. CASE /\ ~IsConnection(j) /\ UNCHANGED <<jobs, tokens, line, step>>
             /\ session' \in {session, [session EXCEPT !.snapshot = Snapshot(j)]}
    <3>1. /\ session'.generation = session.generation /\ session'.present = session.present
          /\ session'.busy = session.busy /\ session'.attempt = session.attempt
          /\ session'.manager = session.manager /\ session'.status = session.status
      BY <1>1, <2>3 DEF SessionType
    <3>2. Continues /\ JobStep
      BY <1>2, <1>3, <2>3, <3>1, QuietContinues
    <3> QED
      BY <1>3, <3>1, <3>2, AgreeSame
  <2>4. CASE /\ IsConnection(j) /\ UNCHANGED <<jobs, tokens, line, step>>
             /\ session' = [session EXCEPT !.manager = j, !.attempt = None,
                                           !.snapshot = Snapshot(j), !.status = "connected"]
    <3>1. /\ session'.generation = session.generation /\ session'.present = session.present
          /\ session'.busy = session.busy /\ session'.status = "connected"
      BY <1>1, <2>4 DEF SessionType
    <3>2. Continues /\ JobStep
      BY <1>2, <1>3, <2>4, <3>1, QuietContinues
    <3>3. \A k \in JobIds : InLine(k)' <=> InLine(k)
      BY <2>4 DEF InLine
    <3>4. /\ session.present /\ down = "no" /\ Unreported(j)
          /\ \A k \in JobIds : Mine(k) => ~Unreported(k)'
      BY <1>1, <1>2, <2>1, <3>3, OneOutcome
    <3>5. BusyInv'
      BY <1>1, <3>1, <3>2, <3>4, BusySame DEF Continues
    <3>6. NoneWaits
      BY <1>1, <1>2, <2>1, <3>4, NothingAsked
    <3>7. NoneWaits'
      BY <1>2, <3>1, <3>6 DEF NoneWaits, OfSession
    <3>8. DecisionInv'
      <4>1. Waiting(pending') \subseteq Waiting(pending) \cup {None}
        BY <1>2
      <4>2. session.generation \in Nat /\ TypeInv'
        BY <1>1, SessionParts DEF CoreInv
      <4> QED
        BY <1>1, <3>1, <3>7, <4>1, <4>2, DecisionsPast
    <3>9. ASSUME NEW k \in JobIds', IsConnection(k)', Current(k)', Unreported(k)'
          PROVE  FALSE
      <4>1. k \in JobIds /\ IsConnection(k) /\ Current(k)
        BY <2>4, <3>1, <3>9 DEF JobIds, IsConnection, Current
      <4>2. Mine(k)
        BY <4>1 DEF Mine, IsConnection, IsPublic, ConnectionOps
      <4> QED
        BY <3>4, <3>9, <4>1, <4>2
    <3>10. PhaseInv'
      BY <3>1, <3>9 DEF PhaseInv
    <3> QED
      BY <3>5, <3>8, <3>10 DEF AgreeInv
  <2> QED
    BY <1>1, <1>5, <2>2, <2>3, <2>4, SucceededCases
<1> QED
  BY <1>1, <1>4, <1>5, SucceededCases

\* What a failure makes of the session.
LEMMA FailedParts ==
  ASSUME TypeInv, NEW j \in JobIds, NEW result, NEW sudo, NEW status, FailedSession(j, result, sudo, status)
  PROVE  /\ session'.generation = session.generation /\ session'.present = session.present
         /\ session'.busy = session.busy /\ session'.manager = session.manager
         /\ session'.attempt = session.attempt /\ session'.snapshot = session.snapshot
         /\ session'.sudo = sudo /\ session'.status = status
  BY SessionParts DEF FailedSession, SessionType

\* What a failure does to the decisions, one by one.
LEMMA FailedPending ==
  ASSUME TypeInv, NEW key, NEW result, NEW decision, NEW prompt,
         FailedDecisions(key, result, decision, prompt)
  PROVE  /\ pending'.key = decision /\ pending'.sudo = prompt
         /\ pending'.accepted = pending.accepted /\ pending'.trusted = pending.trusted
         /\ pending'.retried = pending.retried
  BY SessionParts DEF FailedDecisions, DecisionsType

\* So does _on_job_failed.
LEMMA FailedAgrees ==
  ASSUME CoreInv, CoreInv', AgreeInv, OnFailed
  PROVE  AgreeInv'
<1> DEFINE j == Head(events).job
           result == Head(events).result
<1>1. /\ TypeInv /\ TopicInv /\ TypeInv' /\ BusyInv /\ DecisionInv /\ PhaseInv
      /\ session.generation \in Nat
  BY SessionParts DEF CoreInv, AgreeInv
<1>2. /\ events # <<>> /\ Head(events).signal = "failed" /\ Received
      /\ j \in JobIds /\ result \in Results
      /\ UNCHANGED <<records, jobs, line, step, down>>
      /\ \/ UNCHANGED <<session, pending, stack>>
         \/ /\ Current(j) /\ session.busy = jobs[j].op /\ IsPublic(j)
            /\ ApplyFailure(j, result, <<Frame("emit_failed", j, result)>> \o stack)
  BY <1>1, FailedCases
<1>3. CASE UNCHANGED <<session, pending>>
  <2>1. Drops /\ EventsKeep
    BY <1>2, <1>3 DEF Drops, EventsKeep
  <2>2. Continues /\ JobStep
    BY <1>2, <1>3, <2>1, QuietContinues
  <2> QED
    BY <1>3, <2>1, <2>2, AgreeSame
<1>4. CASE /\ Current(j) /\ session.busy = jobs[j].op /\ IsPublic(j)
           /\ ApplyFailure(j, result, <<Frame("emit_failed", j, result)>> \o stack)
  <2> DEFINE key == Key(session.generation, jobs[j].op)
  <2>1. /\ key \in Keys /\ key # None /\ key.op = jobs[j].op /\ key.generation = session.generation
    BY <1>1, <1>2, <1>4, FailureFacts, NoneIsNoKey DEF Key
  <2>2. PICK sudo \in BOOLEAN : \E status \in Statuses : FailedSession(j, result, sudo, status)
    BY <1>1, <1>2, <1>4, FailureFacts
  <2>3. PICK status \in Statuses : FailedSession(j, result, sudo, status)
    BY <2>2
  <2>4. PICK decision \in {None} \cup Keys : \E prompt \in {None} \cup Keys :
          FailedDecisions(key, result, decision, prompt)
    BY <1>1, <1>2, <1>4, FailureFacts
  <2>5. PICK prompt \in {None} \cup Keys : FailedDecisions(key, result, decision, prompt)
    BY <2>4
  <2> HIDE DEF key
  <2>6. /\ session'.generation = session.generation /\ session'.present = session.present
        /\ session'.busy = session.busy /\ session'.manager = session.manager
        /\ session'.status = status
    BY <1>1, <1>2, <2>3, FailedParts
  <2>7. /\ pending'.key = decision /\ pending'.sudo = prompt
        /\ pending'.accepted = pending.accepted
    BY <1>1, <2>5, FailedPending
  <2>8. Continues /\ JobStep
    BY <1>2, <2>6, QuietContinues DEF EventsKeep
  <2>9. Mine(j) /\ \A k \in JobIds : InLine(k)' => InLine(k)
    BY <1>2, <1>4 DEF Mine, InLine
  <2>10. /\ session.present /\ down = "no" /\ Unreported(j)
         /\ \A k \in JobIds : Mine(k) => ~Unreported(k)'
    BY <1>1, <1>2, <2>9, OneOutcome
  <2>11. BusyInv'
    BY <1>1, <2>6, <2>8, <2>10, BusySame DEF Continues
  <2>12. NoneWaits
    BY <1>1, <1>2, <2>9, <2>10, NothingAsked
  <2>13. /\ JobIds' = JobIds
         /\ \A k \in JobIds : /\ Mine(k)' <=> Mine(k)
                              /\ IsConnection(k)' <=> IsConnection(k)
                              /\ Current(k)' <=> Current(k)
         /\ \A k \in JobIds' : Mine(k)' => ~Unreported(k)'
    BY <1>2, <2>6, <2>10 DEF JobIds, Mine, Current, IsPublic, IsConnection
  <2>14. \A k : OfSession(k)' <=> OfSession(k)
    BY <2>6 DEF OfSession
  <2>15. /\ result = "unknown_key" => status = "host_key_error"
         /\ result = "sudo_required" => status = "error"
         /\ decision \in {None, pending.key, key} /\ prompt \in {None, pending.sudo, key}
         /\ decision \notin {None, pending.key} => result = "unknown_key"
         /\ prompt \notin {None, pending.sudo} => result = "sudo_required"
         /\ status # session.status => status \in {"error", "host_key_error"}
         /\ status = "host_key_error" =>
              session.status = status \/ result \in {"unknown_key", "changed_key"}
    BY <2>3, <2>5 DEF FailedSession, FailedDecisions
  <2>16. \A k \in Waiting(pending) : k = None \/ ~OfSession(k)
    BY <2>12 DEF NoneWaits
  <2>17. OldDecisions'
    BY <1>1, <2>1, <2>6, <2>7, <2>15 DEF OldDecisions, DecisionInv, Waiting
  <2>18. ASSUME prompt # None, session'.present, session'.generation = prompt.generation
         PROVE  result = "sudo_required" /\ prompt = key
    <3>1. prompt # pending.sudo
      BY <2>6, <2>16, <2>18 DEF OfSession, Waiting
    <3> QED
      BY <2>15, <2>18, <3>1
  <2>19. ASSUME decision # None, session'.present, session'.generation = decision.generation
         PROVE  result = "unknown_key"
    <3>1. decision # pending.key
      BY <2>6, <2>16, <2>19 DEF OfSession, Waiting
    <3> QED
      BY <2>15, <2>19, <3>1
  <2>20. \A k \in pending.accepted : k # None => ~OfSession(k)
    BY <2>12 DEF NoneWaits, Waiting
  <2>21. KeyDecision'
    <3>1. SUFFICES ASSUME decision # None, session'.present, session'.generation = decision.generation
                   PROVE  /\ down' = "no" /\ session'.status \in {"host_key_error", "error"}
                          /\ \A k \in JobIds' : Mine(k)' => ~Unreported(k)'
                          /\ \A k \in {prompt} \cup pending.accepted :
                               k # None => ~(session'.present /\ session'.generation = k.generation)
      BY <2>7 DEF KeyDecision, OfSession
    <3> QED
      BY <1>2, <2>6, <2>10, <2>13, <2>15, <2>18, <2>19, <2>20, <3>1 DEF OfSession
  <2>22. ASSUME NEW k, k = key, result = "sudo_required"
         PROVE  Undecided(k)'
    <3>1. k.op \in ConnectionOps => session'.manager = None
      BY <1>1, <1>2, <1>4, <2>1, <2>6, <2>10, <2>22 DEF PhaseInv, IsConnection
    <3>2. session'.busy = k.op
      BY <1>4, <2>1, <2>6, <2>22
    <3>3. session'.status = "error" /\ down' = "no"
      BY <1>2, <2>6, <2>10, <2>15, <2>22
    <3> QED
      BY <2>13, <3>1, <3>2, <3>3 DEF Undecided
  <2>23. SudoDecisions'
    <3>1. SUFFICES ASSUME NEW k \in {prompt} \cup pending.accepted, k # None,
                          session'.present, session'.generation = k.generation
                   PROVE  Undecided(k)'
      BY <2>7 DEF SudoDecisions, OfSession
    <3>2. k \notin pending.accepted
      BY <2>6, <2>20, <3>1 DEF OfSession
    <3>3. k = prompt /\ prompt = key /\ result = "sudo_required"
      BY <2>18, <3>1, <3>2
    <3> QED
      BY <2>22, <3>3
  <2>24. AcceptedDecisions'
    <3>1. SUFFICES ASSUME NEW k \in pending.accepted, OfSession(k)' PROVE FALSE
      BY <2>7 DEF AcceptedDecisions
    <3>2. k # None
      BY <1>1, NoneIsNoKey, SessionParts DEF DecisionsType
    <3> QED
      BY <2>14, <2>20, <3>1, <3>2
  <2>25. PhaseInv'
    <3>1. ASSUME session'.status \in {"host_key_error", "connecting", "disconnected"}
          PROVE  session'.manager = None
      <4>1. CASE status = session.status
        BY <1>1, <2>6, <3>1, <4>1 DEF PhaseInv
      <4>2. CASE status # session.status
        <5>1. result \in {"unknown_key", "changed_key"}
          BY <2>6, <2>15, <3>1, <4>2
        <5>2. IsConnection(j)
          BY <1>1, <1>2, <5>1, ReceivedFacts DEF TopicInv
        <5> QED
          BY <1>1, <1>2, <1>4, <2>6, <2>10, <5>2 DEF PhaseInv
      <4> QED
        BY <4>1, <4>2
    <3>2. ASSUME NEW k \in JobIds', IsConnection(k)', Current(k)', Unreported(k)' PROVE FALSE
      BY <2>13, <3>2 DEF Mine, IsConnection, IsPublic, ConnectionOps
    <3> QED
      BY <3>1, <3>2 DEF PhaseInv
  <2> QED
    BY <2>11, <2>17, <2>21, <2>23, <2>24, <2>25 DEF AgreeInv, DecisionInv
<1> QED
  BY <1>2, <1>3, <1>4

\* ... and when the trust store cannot be written.
LEMMA StoreFailsAgrees ==
  ASSUME CoreInv, CoreInv', AgreeInv, HostKeyStoreFails
  PROVE  AgreeInv'
<1>1. TypeInv /\ TopicInv /\ BusyInv /\ DecisionInv /\ session.generation \in Nat
  BY SessionParts DEF CoreInv, AgreeInv
<1>2. PICK j \in JobIds :
        /\ IsConnection(j) /\ IsPublic(j) /\ Current(j) /\ pending.key # None
        /\ KeyOf(j) = pending.key
        /\ ApplyFailure(j, "store_error", Answered)
        /\ UNCHANGED <<records, jobs, line, step, events, down>>
  BY <1>1, StoreFailsCases
<1>3. OfSession(pending.key) /\ pending.key.generation = jobs[j].generation
  BY <1>2 DEF KeyOf, Key, OfSession, Current
<1>4. session.present /\ down = "no"
  BY <1>1, <1>2, <1>3 DEF DecisionInv, KeyDecision, OfSession
<1> DEFINE key == Key(session.generation, jobs[j].op)
<1>5. "store_error" \in Results
  BY DEF Results
<1>6. PICK sudo \in BOOLEAN : \E status \in Statuses : FailedSession(j, "store_error", sudo, status)
  BY <1>1, <1>2, <1>5, FailureFacts
<1>7. PICK status \in Statuses : FailedSession(j, "store_error", sudo, status)
  BY <1>6
<1>8. PICK decision \in {None} \cup Keys : \E prompt \in {None} \cup Keys :
        FailedDecisions(key, "store_error", decision, prompt)
  BY <1>1, <1>2, <1>5, FailureFacts
<1>9. PICK prompt \in {None} \cup Keys : FailedDecisions(key, "store_error", decision, prompt)
  BY <1>8
<1> HIDE DEF key
<1>10. /\ session'.generation = session.generation /\ session'.present = session.present
       /\ session'.busy = session.busy /\ session'.manager = session.manager
       /\ session'.attempt = session.attempt /\ session'.status = status
  BY <1>1, <1>2, <1>7, FailedParts
<1>11. status = "error"
  BY <1>2, <1>7 DEF FailedSession
<1>12. Drops
  BY <1>1, <1>9, FailedPending DEF FailedDecisions, Drops
<1>13. Continues /\ JobStep
  BY <1>2, <1>10, QuietContinues DEF EventsKeep
<1> QED
  BY <1>4, <1>10, <1>11, <1>12, <1>13, AgreeSame

\* So does what _apply_failure does after its signal.
LEMMA RestAgrees ==
  ASSUME CoreInv, CoreInv', AgreeInv, RestOfApplyFailure
  PROVE  AgreeInv'
<1>1. TypeInv /\ session \in SessionType
  BY SessionParts DEF CoreInv
<1>2. /\ UNCHANGED <<pending, records, events, down>>
      /\ \E attempt \in {session.attempt, None},
            snapshot \in {session.snapshot, Staled(session.snapshot)},
            manager \in {session.manager, None}, sudo \in BOOLEAN :
           /\ session' = [session EXCEPT !.attempt = attempt, !.snapshot = snapshot,
                                         !.manager = manager, !.sudo = sudo]
           /\ \/ UNCHANGED <<jobs, line, step>>
              \/ session.manager # None /\ tokens' = tokens \cup {session.manager} /\ SubmitClose(jobs, tokens')
  BY <1>1, RestFacts
<1>3. /\ session'.generation = session.generation /\ session'.present = session.present
      /\ session'.busy = session.busy /\ session'.manager \in {session.manager, None}
      /\ session'.attempt \in {session.attempt, None} /\ session'.status = session.status
  BY <1>1, <1>2 DEF SessionType
<1>4. \E open \in SUBSET Connections : MayClose(jobs, open)
  <2>1. CASE UNCHANGED <<jobs, line, step>>
    <3>1. MayClose(jobs, {})
      BY <2>1 DEF MayClose
    <3> QED
      BY <3>1
  <2>2. CASE session.manager # None /\ tokens' = tokens \cup {session.manager} /\ SubmitClose(jobs, tokens')
    <3>1. tokens' \in SUBSET Connections
      BY <1>1, <2>2, TokenTypes
    <3> QED
      BY <2>2, <3>1 DEF MayClose
  <2> QED
    BY <1>2, <2>1, <2>2
<1>5. Continues /\ JobStep
  BY <1>1, <1>2, <1>3, <1>4, HandlersContinue, JobsAreSame DEF EventsKeep
<1>6. Drops
  BY <1>2 DEF Drops
<1> QED
  BY <1>3, <1>5, <1>6, AgreeSame

-----------------------------------------------------------------------------
(* Launches and retries.                                                    *)

\* A session that is not busy has no job on record and none open.
LEMMA NoneOnRecord ==
  ASSUME TypeInv, BusyInv, session.busy = None
  PROVE  /\ \A r \in records : ~Current(r)
         /\ \A j \in JobIds : Mine(j) => ~Open(j)
<1>1. ASSUME NEW r \in records, Current(r) PROVE FALSE
  <2>1. r \in JobIds /\ IsPublic(r) /\ jobs[r].op = None
    BY <1>1 DEF TypeInv, BusyInv, BusyRecords
  <2>2. jobs[r] \in JobType
    BY <2>1, SessionParts, ElementOfSeq DEF TypeInv
  <2>3. None \in RequestKinds
    BY <2>1, <2>2 DEF JobType, JobOps, IsPublic, RequestKinds
  <2> QED
    BY <2>3, NoneAssumption
<1> QED
  BY <1>1 DEF BusyInv, RecordedWork, Mine

\* One more job at the end of the line.
LEMMA NewWork ==
  ASSUME TypeInv, NEW op \in JobOps, NEW generation \in Nat, NEW sudo \in BOOLEAN,
         NEW logical \in Nat, Enqueue(NewJob(op, generation, sudo, {}, logical), jobs, line)
  PROVE  /\ JobIds' = JobIds \cup {NextJob} /\ NextJob \notin JobIds
         /\ \A j \in JobIds : jobs'[j] = jobs[j] /\ (InLine(j)' <=> InLine(j))
         /\ \A n : n = NextJob =>
              /\ n \notin JobIds /\ n \in JobIds' /\ jobs'[n].op = op /\ jobs'[n].generation = generation
              /\ jobs'[n].socket = "unmade" /\ jobs'[n].closes = {}
              /\ ~jobs'[n].claimed /\ ~jobs'[n].finished /\ ~jobs'[n].invalidated
              /\ InLine(n)' /\ (IsPublic(n)' <=> op # "close")
              /\ (IsConnection(n)' <=> op \in ConnectionOps)
<1>1. PICK job : job = NewJob(op, generation, sudo, {}, logical)
  OBVIOUS
<1>2. /\ job \in JobType /\ job.op = op /\ job.generation = generation /\ job.socket = "unmade"
      /\ job.closes = {} /\ job.claimed = FALSE /\ job.finished = FALSE /\ job.invalidated = FALSE
  BY <1>1 DEF NewJob, JobType
<1>3. PICK n : n = NextJob
  OBVIOUS
<1>4. /\ JobIds' = JobIds \cup {n} /\ n \notin JobIds /\ jobs'[n] = job
      /\ \A j \in JobIds : jobs'[j] = jobs[j]
      /\ \A j : InLine(j)' <=> InLine(j) \/ j = n
  BY <1>1, <1>2, <1>3, SubmitFacts, JobsAreSame
<1> QED
  BY <1>2, <1>3, <1>4 DEF IsPublic, IsConnection

\* What the retry of a connection needs.
LEMMA RestartAgrees ==
  ASSUME CoreInv, CoreInv', AgreeInv, NEW s \in SessionType, NEW p \in DecisionsType,
         NEW r \in SUBSET records, NEW key \in Keys, NEW with_sudo \in BOOLEAN,
         Restart(s, p, r, key, with_sudo), EventsKeep,
         key.op \in ConnectionOps, s.present, s.generation = session.generation, s.manager = None,
         down = "no", down' = "no",
         p.key \in {None, pending.key}, p.sudo \in {None, pending.sudo},
         p.accepted \in SUBSET pending.accepted
  PROVE  AgreeInv'
<1>1. TypeInv /\ BusyInv /\ session.generation \in Nat /\ s.sudo \in BOOLEAN
  BY SessionParts DEF CoreInv, AgreeInv, SessionType
<1>2. key.op \in JobOps /\ key.op # "close" /\ s.generation + 1 \in Nat
  BY <1>1 DEF JobOps, ConnectionOps
<1>3. Enqueue(NewJob(key.op, s.generation + 1, s.sudo, {}, 0), jobs, line)
  BY DEF Restart
<1>4. /\ JobIds' = JobIds \cup {NextJob}
      /\ \A n : n = NextJob => /\ n \in JobIds' /\ jobs'[n].op = key.op
                               /\ jobs'[n].generation = s.generation + 1
                               /\ InLine(n)'
  BY <1>1, <1>2, <1>3, NewWork
<1>5. JobStep
  BY <1>1, <1>2, <1>3, LaunchJobs, JobsAreSame
<1>6. /\ session'.generation = session.generation + 1 /\ session'.present
      /\ session'.busy = key.op /\ session'.manager = None
      /\ records' = r \cup {NextJob}
  BY DEF Restart, SessionType
<1>7. pending'.key = p.key /\ pending'.sudo = p.sudo /\ pending'.accepted = p.accepted
  <2>1. PICK S : pending' \in {p, [p EXCEPT !.retried = S]}
    BY DEF Restart
  <2> QED
    BY <2>1 DEF DecisionsType
<1>8. BusyInv'
  BY <1>1, <1>4, <1>5, <1>6, BusyNext
<1>9. Drops
  BY <1>7 DEF Drops
<1> QED
  BY <1>1, <1>6, <1>8, <1>9, AgreeNext

\* ... and that of a service operation.
LEMMA RelaunchAgrees ==
  ASSUME CoreInv, CoreInv', AgreeInv, NEW s \in SessionType, NEW p \in DecisionsType,
         NEW r \in SUBSET records, NEW l \in Seq(LogicalType), NEW key \in Keys,
         Relaunch(s, p, r, l, key), EventsKeep,
         key.op \in Reads \cup Mutations, s.present, session.present,
         s.generation = session.generation, key.generation = session.generation,
         s.manager = session.manager, down = "no", down' = "no",
         \A k \in r : ~Current(k),
         \A j \in JobIds : Mine(j) => ~Open(j)',
         p.key \in {None, pending.key}, p.sudo \in {None, pending.sudo},
         p.accepted \in SUBSET pending.accepted,
         \A k \in Waiting(p) : k # None => ~OfSession(k)
  PROVE  AgreeInv'
<1>1. TypeInv /\ BusyInv /\ session.generation \in Nat /\ s.sudo \in BOOLEAN
      /\ OpenLogical(l, key) \in Nat
  BY SessionParts, LogicalIds DEF CoreInv, AgreeInv, SessionType
<1>2. key.op \in JobOps /\ key.op # "close" /\ key.op \notin ConnectionOps
  BY DEF JobOps, ConnectionOps, Reads, Mutations
<1>3. Enqueue(NewJob(key.op, key.generation, s.sudo, {}, OpenLogical(l, key)), jobs, line)
  BY DEF Relaunch
<1>4. /\ JobIds' = JobIds \cup {NextJob}
      /\ \A n : n = NextJob => /\ n \in JobIds' /\ jobs'[n].op = key.op
                               /\ jobs'[n].generation = session.generation
                               /\ InLine(n)' /\ ~IsConnection(n)'
  BY <1>1, <1>2, <1>3, NewWork
<1>5. JobStep
  BY <1>1, <1>2, <1>3, LaunchJobs, JobsAreSame
<1>6. /\ session'.generation = session.generation /\ session'.present = session.present
      /\ session'.busy = key.op /\ session'.manager = session.manager
      /\ session'.status = "connected"
      /\ records' = r \cup {NextJob}
  BY DEF Relaunch, SessionType
<1>7. pending'.key = p.key /\ pending'.sudo = p.sudo /\ pending'.accepted = p.accepted
  BY DEF Relaunch, DecisionsType
<1>8. BusyInv'
  BY <1>1, <1>4, <1>5, <1>6, BusyLaunch
<1>9. Drops /\ NoneWaits'
  BY <1>6, <1>7 DEF Drops, NoneWaits, Waiting, OfSession
<1>10. \A j \in JobIds : Mine(j) => ~Unreported(j)'
  BY DEF Open
<1> QED
  BY <1>4, <1>5, <1>6, <1>8, <1>9, <1>10, AgreeLaunch

\* So does confirming a host key.
LEMMA ConfirmAgrees ==
  ASSUME CoreInv, CoreInv', AgreeInv, ConfirmHostKey
  PROVE  AgreeInv'
<1>1. /\ TypeInv /\ TopicInv /\ BusyInv /\ DecisionInv /\ PhaseInv /\ pending \in DecisionsType
      /\ session \in SessionType /\ None \notin Keys
  BY SessionParts, NoneIsNoKey DEF CoreInv, AgreeInv
<1>2. /\ pending.key # None /\ OfSession(pending.key) /\ UNCHANGED <<events, down>>
      /\ pending.key \in Keys
  BY <1>1 DEF ConfirmHostKey, Exact, DecisionsType
<1>3. down = "no" /\ EventsKeep
  BY <1>1, <1>2 DEF DecisionInv, KeyDecision, EventsKeep
<1> DEFINE key == pending.key
           p   == [pending EXCEPT !.key = None]
<1>4. /\ p \in DecisionsType /\ p.key = None /\ p.sudo = pending.sudo /\ p.accepted = pending.accepted
  BY <1>1 DEF DecisionsType
<1>5. \/ HasRecord(key) /\ NoRetry(session, [p EXCEPT !.trusted = @ \cup {key}], records, logicals)
      \/ TrustedRetry(session, p, records, logicals, key)
  BY DEF ConfirmHostKey
<1>6. CASE NoRetry(session, p, records, logicals)
           \/ NoRetry(session, [p EXCEPT !.trusted = @ \cup {key}], records, logicals)
  <2>1. /\ UNCHANGED <<session, records, jobs, line, step>>
        /\ pending'.key = None /\ pending'.sudo = pending.sudo /\ pending'.accepted = pending.accepted
    BY <1>4, <1>6 DEF NoRetry, DecisionsType
  <2>2. Drops
    BY <2>1 DEF Drops
  <2> QED
    BY <1>2, <2>1, <2>2, QuietAgrees
<1>7. CASE TrustedRetryAllowed(session, key) /\ Restart(session, p, records, key, FALSE)
  <2>1. /\ session.present /\ session.status = "host_key_error"
    BY <1>7 DEF TrustedRetryAllowed
  <2>2. session.manager = None
    BY <1>1, <2>1 DEF PhaseInv
  <2>3. key.op \in ConnectionOps
    BY <1>1, <1>2 DEF TopicInv
  <2> QED
    BY <1>1, <1>2, <1>3, <1>4, <1>7, <2>1, <2>2, <2>3, RestartAgrees
<1> QED
  BY <1>5, <1>6, <1>7 DEF TrustedRetry

\* So does a sudo password accepted.
LEMMA AcceptAgrees ==
  ASSUME CoreInv, CoreInv', AgreeInv, AcceptSudo
  PROVE  AgreeInv'
<1>1. /\ TypeInv /\ TypeInv' /\ TopicInv /\ BusyInv /\ DecisionInv /\ PhaseInv /\ pending \in DecisionsType
      /\ session \in SessionType /\ session.generation \in Nat /\ None \notin Keys
  BY SessionParts, NoneIsNoKey DEF CoreInv, AgreeInv
<1>2. /\ pending.sudo # None /\ OfSession(pending.sudo) /\ UNCHANGED <<events, down, tokens>>
      /\ pending.sudo \in Keys
  BY <1>1 DEF AcceptSudo, Exact, DecisionsType
<1>3. Undecided(pending.sudo) /\ EventsKeep
  BY <1>1, <1>2 DEF DecisionInv, SudoDecisions, EventsKeep
<1>4. PICK key \in Keys : key = pending.sudo
  BY <1>2
<1> DEFINE s == [session EXCEPT !.sudo = TRUE]
           p == [pending EXCEPT !.sudo = None]
<1>5. /\ p \in DecisionsType /\ p.key = pending.key /\ p.sudo = None /\ p.accepted = pending.accepted
      /\ s \in SessionType /\ s.generation = session.generation /\ s.present = session.present
      /\ s.busy = session.busy /\ s.manager = session.manager /\ s.attempt = session.attempt
      /\ s.status = session.status
  BY <1>1 DEF DecisionsType, SessionType
<1>6. \/ HasRecord(key) /\ NoRetry(s, [p EXCEPT !.accepted = @ \cup {key}], records, logicals)
      \/ ~HasRecord(key) /\ SudoRetry(s, p, records, logicals, key)
  BY <1>4 DEF AcceptSudo
<1>7. CASE HasRecord(key) /\ NoRetry(s, [p EXCEPT !.accepted = @ \cup {key}], records, logicals)
  <2>1. /\ UNCHANGED <<records, jobs, line, step>> /\ session' = s
        /\ pending'.key = pending.key /\ pending'.sudo = None
        /\ pending'.accepted = pending.accepted \cup {key}
    BY <1>5, <1>7 DEF NoRetry, DecisionsType
  <2>2. Continues /\ JobStep
    BY <1>2, <1>5, <2>1, QuietContinues DEF EventsKeep
  <2>3. session.present /\ down = "no" /\ session.generation = key.generation
    BY <1>2, <1>3, <1>4 DEF OfSession, Undecided
  <2>4. BusyInv'
    BY <1>1, <1>5, <2>1, <2>2, <2>3, BusySame DEF Continues
  <2>5. session.busy = key.op
    <3>1. PICK k \in records : KeyOf(k) = key
      BY <1>7 DEF HasRecord
    <3>2. jobs[k].generation = key.generation /\ jobs[k].op = key.op
      BY <3>1 DEF KeyOf, Key
    <3> QED
      BY <1>1, <2>3, <3>1, <3>2 DEF BusyInv, BusyRecords, Current
  <2>6. /\ JobIds' = JobIds
        /\ \A k : (OfSession(k)' <=> OfSession(k)) /\ (Undecided(k)' <=> Undecided(k))
    BY <1>2, <1>5, <2>1 DEF JobIds, OfSession, Undecided, Mine, Current, IsPublic, Unreported, InLine, Queued
  <2>7. OldDecisions'
    BY <1>1, <1>2, <1>4, <1>5, <2>1, <2>3 DEF OldDecisions, DecisionInv, Waiting
  <2>8. pending.key = None \/ ~OfSession(pending.key)
    BY <1>1, <1>2 DEF DecisionInv, KeyDecision
  <2>9. KeyDecision'
    BY <1>5, <2>1, <2>8 DEF KeyDecision, OfSession
  <2>10. SudoDecisions'
    <3>1. SUFFICES ASSUME NEW k \in pending.accepted \cup {key}, k # None, OfSession(k)' PROVE Undecided(k)'
      BY <2>1 DEF SudoDecisions
    <3> QED
      BY <1>1, <1>3, <1>4, <2>6, <3>1 DEF DecisionInv, SudoDecisions
  <2>11. AcceptedDecisions'
    <3>1. SUFFICES ASSUME NEW k \in pending.accepted \cup {key}, OfSession(k)' PROVE session.busy = k.op
      BY <1>5, <2>1 DEF AcceptedDecisions
    <3> QED
      BY <1>1, <2>5, <2>6, <3>1 DEF DecisionInv, AcceptedDecisions
  <2>12. PhaseInv'
    BY <1>1, <1>2, <1>5, <2>1 DEF PhaseInv, JobIds, IsConnection, Current, Unreported, InLine, Queued
  <2> QED
    BY <2>4, <2>7, <2>9, <2>10, <2>11, <2>12 DEF AgreeInv, DecisionInv
<1>8. CASE ~HasRecord(key) /\ SudoRetry(s, p, records, logicals, key)
  <2>1. session.present /\ down = "no" /\ session.generation = key.generation
        /\ session.busy \in {None, key.op} /\ (key.op \in ConnectionOps => session.manager = None)
    BY <1>2, <1>3, <1>4 DEF OfSession, Undecided
  <2>2. CASE NoRetry(s, p, records, logicals)
    <3>1. UNCHANGED <<records, jobs, line, step>> /\ session' = s /\ pending' = p
      BY <2>2 DEF NoRetry
    <3>2. Drops
      BY <1>5, <3>1 DEF Drops
    <3> QED
      BY <1>2, <1>5, <3>1, <3>2, QuietAgrees
  <2>3. CASE key.op \in ConnectionOps /\ Restart(s, p, records, key, TRUE)
    BY <1>2, <1>3, <1>5, <2>1, <2>3, RestartAgrees
  <2>4. CASE key.op \in Reads \cup Mutations /\ Relaunch(s, p, records, logicals, key)
    <3>1. \A k \in records : ~Current(k)
      <4>1. SUFFICES ASSUME NEW k \in records, Current(k) PROVE FALSE
        OBVIOUS
      <4>2. jobs[k].op = session.busy /\ session.busy # None
        BY <1>1, <4>1, NoneOnRecord DEF BusyInv, BusyRecords
      <4>3. KeyOf(k) = key
        BY <2>1, <4>1, <4>2 DEF KeyOf, Key, Current, Keys
      <4> QED
        BY <1>8, <4>3 DEF HasRecord
    <3>2. \A j \in JobIds : Mine(j) => ~Open(j)'
      <4>1. SUFFICES ASSUME NEW j \in JobIds, Mine(j), Open(j)' PROVE FALSE
        OBVIOUS
      <4>2. OpenLogical(logicals, key) \in Nat /\ s.sudo \in BOOLEAN /\ key.op \in JobOps
            /\ key.generation \in Nat
        BY <1>1, <1>5, <2>1, <2>4, LogicalIds DEF TypeInv, SessionType, JobOps
      <4>3. Enqueue(NewJob(key.op, key.generation, s.sudo, {}, OpenLogical(logicals, key)), jobs, line)
        BY <2>4 DEF Relaunch
      <4>4. InLine(j)' <=> InLine(j)
        BY <1>1, <4>1, <4>2, <4>3, NewWork
      <4>5. Open(j)
        BY <1>2, <4>1, <4>4 DEF Open, Unreported, Queued
      <4>6. j \in records
        BY <1>1, <4>1, <4>5 DEF BusyInv, RecordedWork
      <4> QED
        BY <3>1, <4>1, <4>6 DEF Mine
    <3>3. \A k \in Waiting(p) : k # None => ~OfSession(k)
      BY <1>1, <1>2, <1>5 DEF DecisionInv, KeyDecision, AcceptedDecisions, Waiting
    <3>4. logicals \in Seq(LogicalType) /\ records \in SUBSET records
      BY <1>1 DEF TypeInv
    <3> HIDE DEF s, p
    <3> QED
      BY <1>2, <1>3, <1>5, <2>1, <2>4, <3>1, <3>2, <3>3, <3>4, RelaunchAgrees
  <2>5. \/ NoRetry(s, p, records, logicals)
        \/ key.op \in ConnectionOps /\ Restart(s, p, records, key, TRUE)
        \/ key.op \in Reads \cup Mutations /\ Relaunch(s, p, records, logicals, key)
    <3>1. key.op \in Reads \cup Mutations \cup ConnectionOps
      BY <1>1, <1>2, <1>4 DEF TopicInv
    <3> HIDE DEF s, p
    <3> QED
      BY <1>8, <3>1 DEF SudoRetry
  <2> QED
    BY <2>2, <2>3, <2>4, <2>5
<1> QED
  BY <1>6, <1>7, <1>8

\* So does _on_job_finished.
LEMMA FinishedAgrees ==
  ASSUME CoreInv, CoreInv', AgreeInv, OnFinished
  PROVE  AgreeInv'
<1> DEFINE j   == Head(events).job
           key == KeyOf(j)
           s   == IF Current(j) /\ session.busy = key.op
                  THEN [session EXCEPT !.busy = None] ELSE session
           r   == {k \in records : KeyOf(k) # key}
<1>1. /\ TypeInv /\ TopicInv /\ OrderInv /\ BusyInv /\ DecisionInv /\ PhaseInv
      /\ session \in SessionType /\ session.generation \in Nat /\ None \notin Keys
      /\ pending \in DecisionsType /\ records \in SUBSET JobIds
  BY SessionParts, NoneIsNoKey DEF CoreInv, AgreeInv, TypeInv
<1>2. /\ events # <<>> /\ Head(events).signal = "finished" /\ Received
      /\ j \in JobIds /\ s \in SessionType /\ r \in SUBSET records /\ UNCHANGED <<tokens, down>>
      /\ \E p \in DecisionsType, l \in Seq(LogicalType) :
           /\ p.key = pending.key /\ p.sudo = pending.sudo
           /\ p.accepted = pending.accepted \ {key}
           /\ \/ NoRetry(s, p, r, l)
              \/ /\ key \in Keys
                 /\ key \in pending.trusted => key.op \in ConnectionOps
                 /\ \/ key \in pending.trusted /\ TrustedRetry(s, p, r, l, key)
                    \/ key \in pending.accepted /\ SudoRetry(s, p, r, l, key)
  BY <1>1, FinishedCases
<1>3. PICK p \in DecisionsType : \E l \in Seq(LogicalType) :
           /\ p.key = pending.key /\ p.sudo = pending.sudo
           /\ p.accepted = pending.accepted \ {key}
           /\ \/ NoRetry(s, p, r, l)
              \/ /\ key \in Keys
                 /\ key \in pending.trusted => key.op \in ConnectionOps
                 /\ \/ key \in pending.trusted /\ TrustedRetry(s, p, r, l, key)
                    \/ key \in pending.accepted /\ SudoRetry(s, p, r, l, key)
  BY <1>2
<1>4. PICK l \in Seq(LogicalType) :
           /\ p.key = pending.key /\ p.sudo = pending.sudo
           /\ p.accepted = pending.accepted \ {key}
           /\ \/ NoRetry(s, p, r, l)
              \/ /\ key \in Keys
                 /\ key \in pending.trusted => key.op \in ConnectionOps
                 /\ \/ key \in pending.trusted /\ TrustedRetry(s, p, r, l, key)
                    \/ key \in pending.accepted /\ SudoRetry(s, p, r, l, key)
  BY <1>3
<1>5. /\ s.generation = session.generation /\ s.present = session.present
      /\ s.status = session.status /\ s.manager = session.manager
      /\ s.busy \in {None, session.busy}
      /\ s.busy # session.busy => Current(j) /\ session.busy = key.op
      /\ key.op = jobs[j].op /\ key.generation = jobs[j].generation
      /\ \A k \in Keys : k = key <=> k.op = key.op /\ k.generation = key.generation
      /\ \A k \in JobIds : KeyOf(k) = key <=> jobs[k].op = key.op /\ jobs[k].generation = key.generation
  BY <1>1 DEF SessionType, KeyOf, Key, Keys
<1>6. EventsKeep
  BY <1>2 DEF EventsKeep
<1>7. CASE NoRetry(s, p, r, l)
  <2>1. /\ UNCHANGED <<jobs, line, step>> /\ session' = s /\ records' = r /\ pending' = p
    BY <1>7 DEF NoRetry
  <2>2. BusyInv'
    BY <1>1, <1>2, <2>1, BusyFinished
  <2>3. /\ JobIds' = JobIds
        /\ \A k, signal : Queued(k, signal)' => Queued(k, signal)
        /\ \A k : OfSession(k)' <=> OfSession(k)
    BY <1>1, <1>2, <1>5, <2>1, ReceivedFacts DEF JobIds, OfSession
  <2>4. \A k \in JobIds : /\ Mine(k)' => Mine(k)
                          /\ Unreported(k)' => Unreported(k)
                          /\ IsConnection(k)' = IsConnection(k)
                          /\ Current(k)' <=> Current(k)
    BY <1>5, <2>1, <2>3 DEF Mine, Current, IsPublic, IsConnection, Unreported, InLine
  <2>5. OldDecisions'
    BY <1>1, <1>4, <1>5, <2>1 DEF OldDecisions, DecisionInv, Waiting
  <2>6. KeyDecision'
    BY <1>1, <1>2, <1>4, <1>5, <2>1, <2>3, <2>4 DEF KeyDecision, DecisionInv, OfSession
  <2>7. SudoDecisions'
    <3>1. SUFFICES ASSUME NEW k \in {pending.sudo} \cup pending.accepted, k # None, OfSession(k)'
                   PROVE  Undecided(k)'
      BY <1>4, <2>1 DEF SudoDecisions
    <3>2. Undecided(k)
      BY <1>1, <2>3, <3>1 DEF DecisionInv, SudoDecisions
    <3> QED
      BY <1>2, <1>5, <2>1, <2>3, <2>4, <3>2 DEF Undecided
  <2>8. AcceptedDecisions'
    <3>1. SUFFICES ASSUME NEW k \in pending.accepted, k # key, OfSession(k)'
                   PROVE  s.busy = k.op /\ (pending.sudo # None => ~(s.present /\ s.generation = pending.sudo.generation))
      BY <1>4, <2>1 DEF AcceptedDecisions, OfSession
    <3>2. /\ k \in Keys /\ OfSession(k) /\ session.busy = k.op
          /\ pending.sudo # None => ~OfSession(pending.sudo)
      BY <1>1, <2>3, <3>1 DEF DecisionInv, AcceptedDecisions, DecisionsType
    <3>3. s.busy = session.busy
      BY <1>5, <3>1, <3>2 DEF OfSession, Current
    <3> QED
      BY <1>5, <3>2, <3>3 DEF OfSession
  <2>9. PhaseInv'
    BY <1>1, <1>5, <2>1, <2>3, <2>4 DEF PhaseInv
  <2> QED
    BY <2>2, <2>5, <2>6, <2>7, <2>8, <2>9 DEF AgreeInv, DecisionInv
<1>8. ASSUME key \in Keys, key.op \in ConnectionOps, NEW with_sudo \in BOOLEAN, Restart(s, p, r, key, with_sudo),
             session.present, session.manager = None, down = "no"
      PROVE  AgreeInv'
  <2>1. p.accepted \in SUBSET pending.accepted /\ s.manager = None /\ s.present /\ down' = "no"
        /\ p.key \in {None, pending.key} /\ p.sudo \in {None, pending.sudo}
    BY <1>2, <1>4, <1>5, <1>8
  <2> HIDE DEF s, r, key
  <2> QED
    BY <1>2, <1>5, <1>6, <1>8, <2>1, RestartAgrees
<1>9. CASE key \in Keys /\ key \in pending.trusted /\ TrustedRetry(s, p, r, l, key) /\ ~NoRetry(s, p, r, l)
  <2>1. TrustedRetryAllowed(s, key) /\ Restart(s, p, r, key, FALSE)
    <3> HIDE DEF s, r, key
    <3> QED
      BY <1>9 DEF TrustedRetry
  <2>2. session.present /\ session.status = "host_key_error"
    BY <1>5, <2>1 DEF TrustedRetryAllowed
  <2>3. session.manager = None /\ down = "no"
    BY <1>1, <2>2 DEF PhaseInv, BusyInv, GoneSession
  <2>4. key.op \in ConnectionOps
    BY <1>1, <1>9 DEF TopicInv
  <2> QED
    BY <1>8, <1>9, <2>1, <2>2, <2>3, <2>4
<1>10. CASE key \in Keys /\ key \in pending.accepted /\ SudoRetry(s, p, r, l, key) /\ ~NoRetry(s, p, r, l)
  <2>1. /\ s.present /\ s.generation = key.generation
        /\ \/ key.op \in ConnectionOps /\ Restart(s, p, r, key, TRUE)
           \/ key.op \in Reads \cup Mutations /\ Relaunch(s, p, r, l, key)
    <3> HIDE DEF s, r, key
    <3> QED
      BY <1>10 DEF SudoRetry, SudoRetryAllowed
  <2>2. OfSession(key) /\ session.present
    BY <1>5, <2>1 DEF OfSession
  <2>3. Undecided(key) /\ session.busy = key.op /\ (pending.sudo # None => ~OfSession(pending.sudo))
    BY <1>1, <1>10, <2>2 DEF DecisionInv, SudoDecisions, AcceptedDecisions
  <2>4. down = "no" /\ (key.op \in ConnectionOps => session.manager = None)
    BY <2>3 DEF Undecided
  <2>5. CASE key.op \in ConnectionOps /\ Restart(s, p, r, key, TRUE)
    BY <1>8, <1>10, <2>2, <2>4, <2>5
  <2>6. CASE key.op \in Reads \cup Mutations /\ Relaunch(s, p, r, l, key)
    <3>1. \A k \in r : ~Current(k)
      BY <1>1, <1>5, <2>2, <2>3 DEF BusyInv, BusyRecords, OfSession, Current
    <3>2. OpenLogical(l, key) \in Nat /\ s.sudo \in BOOLEAN /\ key.op \in JobOps
          /\ key.generation \in Nat
      <4> HIDE DEF s, key
      <4> QED
        BY <1>2, <1>10, <2>6, LogicalIds DEF SessionType, Keys, JobOps
    <3>3. Enqueue(NewJob(key.op, key.generation, s.sudo, {}, OpenLogical(l, key)), jobs, line)
      <4> HIDE DEF s, r, key
      <4> QED
        BY <2>6 DEF Relaunch
    <3>4. \A k \in JobIds : InLine(k)' <=> InLine(k)
      <4> HIDE DEF s, key
      <4> QED
        BY <1>1, <3>2, <3>3, NewWork
    <3>5. Mine(j)
      <4>1. IsPublic(j)
        BY <1>1, <1>2, HeadGone
      <4> QED
        BY <1>5, <2>2, <4>1 DEF Mine, Current, OfSession
    <3>11. PICK i : i = j
      OBVIOUS
    <3>6. /\ i \in records /\ ~Queued(i, "finished")' /\ Mine(i)
          /\ \A k \in JobIds : Mine(k) => ~Unreported(k)'
      <4>1. i = Head(events).job /\ Mine(i) /\ Head(events).signal = "finished"
        BY <1>2, <3>5, <3>11
      <4>2. i \in records /\ \A k \in JobIds : Mine(k) => ~Unreported(k)'
        BY <1>1, <1>2, <3>4, <4>1, OneOutcome
      <4>3. ~Queued(i, "finished")'
        BY <1>1, <1>2, <4>1, HeadGone
      <4> QED
        BY <4>1, <4>2, <4>3
    <3>7. ASSUME NEW k \in JobIds, Mine(k), Open(k)' PROVE FALSE
      <4>1. Queued(k, "finished")'
        BY <3>6, <3>7 DEF Open
      <4>2. Open(k)
        BY <1>1, <1>2, <4>1, ReceivedFacts DEF Open
      <4>3. k = i
        BY <1>1, <3>6, <3>7, <4>2 DEF BusyInv, RecordedWork, OneRecord, Mine
      <4> QED
        BY <3>6, <4>1, <4>3
    <3>8. \A k \in Waiting(p) : k # None => ~OfSession(k)
      <4>1. SUFFICES ASSUME NEW k \in Waiting(p), k # None, OfSession(k) PROVE FALSE
        OBVIOUS
      <4>2. CASE k = pending.key
        BY <1>1, <1>10, <2>2, <4>1, <4>2 DEF DecisionInv, KeyDecision
      <4>3. CASE k = pending.sudo
        BY <2>3, <4>1, <4>3
      <4>4. CASE k \in pending.accepted /\ k # key
        <5>1. k \in Keys /\ k.op = key.op
          BY <1>1, <2>3, <4>1, <4>4 DEF DecisionInv, AcceptedDecisions, DecisionsType
        <5> QED
          BY <1>5, <2>2, <4>1, <4>4, <5>1 DEF OfSession
      <4> QED
        BY <1>4, <4>1, <4>2, <4>3, <4>4 DEF Waiting
    <3>9. /\ p.accepted \in SUBSET pending.accepted /\ p.key \in {None, pending.key}
          /\ p.sudo \in {None, pending.sudo} /\ down' = "no" /\ key.generation = session.generation
      BY <1>2, <1>4, <1>5, <2>1, <2>4
    <3>10. /\ s.present /\ s.generation = session.generation /\ s.manager = session.manager
      BY <1>5, <2>1
    <3> HIDE DEF s, r, key
    <3> QED
      BY <1>2, <1>6, <1>10, <2>2, <2>4, <2>6, <3>1, <3>7, <3>8, <3>9, <3>10, RelaunchAgrees
  <2> QED
    BY <2>1, <2>5, <2>6
<1> QED
  BY <1>4, <1>7, <1>9, <1>10

\* Giving up the session's work brings session and jobs to agreement.
LEMMA GiveUpAgrees ==
  ASSUME CoreInv, CoreInv', AgreeInv, NEW op \in {"disconnect", "reconnect", "close"}, NEW next,
         GiveUp(op, next), next.generation = session.generation + 1, next.sudo \in BOOLEAN,
         next.manager = None, records' \in SUBSET (records \cup {NextJob}),
         op # "close" => /\ NextJob \in records' /\ next.busy = op
                         /\ next.present /\ down' = "no",
         op = "close" => next.busy = None,
         ~next.present \/ down' # "no" =>
           next.attempt = None /\ next.status = "disconnected"
  PROVE  AgreeInv'
<1>1. TypeInv /\ BusyInv /\ session.generation \in Nat /\ next.generation \in Nat
  BY SessionParts DEF CoreInv, AgreeInv
<1>2. PICK job : job = NewJob(op, next.generation, next.sudo, TokensGivenUp, 0)
  OBVIOUS
<1>3. PICK submits \in BOOLEAN : submits = ~(op = "close" /\ TokensGivenUp = {})
  OBVIOUS
<1>4. /\ session' = next /\ pending' = NoDecisions /\ Cancels(JobsGivenUp, job, submits)
      /\ job \in JobType /\ job.op = op /\ job.generation = next.generation
  <2>1. LET sub == ~(op = "close" /\ TokensGivenUp = {})
            j   == NewJob(op, next.generation, next.sudo, TokensGivenUp, 0)
        IN  /\ session' = next /\ pending' = NoDecisions /\ Cancels(JobsGivenUp, j, sub)
            /\ j \in JobType /\ j.op = op /\ j.generation = next.generation
    BY ZenonT(30), <1>1, GiveUpFacts
  <2> QED
    BY <1>2, <1>3, <2>1
<1>5. /\ JobIds' = IF submits THEN JobIds \cup {NextJob} ELSE JobIds
      /\ NextJob \notin JobIds
      /\ \A n : submits /\ n = NextJob => jobs'[n] = job /\ InLine(n)'
  BY <1>1, <1>4, CancelFacts, GivenUpFacts
<1>6. JobStep
  BY <1>1, <1>4, GiveUpJobs
<1>7. PICK n : n = NextJob
  OBVIOUS
<1>8. n \in JobIds' => /\ jobs'[n].generation = session'.generation /\ InLine(n)'
                       /\ jobs'[n].op = op
  BY <1>4, <1>5, <1>7
<1>9. op # "close" => n \in JobIds'
  BY <1>3, <1>5, <1>7
<1>10. n \in JobIds' /\ IsPublic(n)' => op # "close"
  BY <1>8 DEF IsPublic
<1>11. BusyInv'
  BY <1>1, <1>4, <1>5, <1>6, <1>7, <1>8, <1>9, <1>10, BusyNext
<1>12. Drops
  BY <1>4 DEF Drops, NoDecisions
<1>13. session'.generation > session.generation /\ session'.manager = None
  BY <1>1, <1>4
<1> QED
  BY <1>11, <1>12, <1>13, AgreeNext

\* So do the calls that give up the session's work.
LEMMA GiveUpCallsAgree ==
  ASSUME CoreInv, CoreInv', AgreeInv, Disconnect \/ Reconnect \/ ReloadChanged \/ ReloadRemoved \/ Shutdown
  PROVE  AgreeInv'
<1>1. TypeInv /\ BusyInv /\ session.generation \in Nat
  BY SessionParts DEF CoreInv, AgreeInv
<1>10. "reconnect" \in ConnectionOps
  BY DEF ConnectionOps
<1>11. ASSUME NEW d, d = Detached("disconnected", None)
       PROVE  /\ d.status = "disconnected" /\ d.generation = session.generation + 1
              /\ d.busy = None /\ d.sudo = FALSE /\ d.manager = None /\ d.attempt = None
              /\ d.present /\ d \in SessionType
  BY <1>1, <1>11, DetachedFacts
<1>3. CASE Disconnect
  <2>1. PICK d : d = Detached("disconnected", "disconnect")
    OBVIOUS
  <2>2. /\ GiveUp("disconnect", d)
        /\ records' = records \cup {NextJob} /\ down' = down /\ down = "no"
    BY <1>3, <2>1 DEF Disconnect, Request
  <2>3. /\ d.present /\ d.status = "disconnected" /\ d.generation = session.generation + 1
        /\ d.busy = "disconnect" /\ d.sudo = FALSE /\ d.manager = None /\ d.attempt = None
    BY <1>1, <2>1, DetachedFacts
  <2> QED
    BY <2>2, <2>3, GiveUpAgrees
<1>4. CASE Reconnect /\ session.status # "disconnected" /\ Idle
  <2>1. PICK d : d = Detached("connecting", "reconnect")
    OBVIOUS
  <2>3. PICK next : next = [d EXCEPT !.attempt = NextJob]
    OBVIOUS
  <2>2. /\ GiveUp("reconnect", next)
        /\ records' = records \cup {NextJob} /\ down' = down /\ down = "no"
    BY <1>4, <2>1, <2>3 DEF Reconnect, Request
  <2>5. /\ d.present /\ d.status = "connecting" /\ d.generation = session.generation + 1
        /\ d.busy = "reconnect" /\ d.sudo = FALSE /\ d.manager = None /\ d \in SessionType
    BY <1>1, <1>10, <2>1, DetachedFacts
  <2>4. /\ next.present /\ next.generation = session.generation + 1 /\ next.busy = "reconnect"
        /\ next.sudo = FALSE /\ next.manager = None
    BY <2>3, <2>5 DEF SessionType
  <2> QED
    BY <2>2, <2>4, GiveUpAgrees
<1>5. CASE Reconnect /\ ~(session.status # "disconnected" /\ Idle)
  <2>1. /\ UNCHANGED <<session, jobs, line, step, events, records, down>>
        /\ pending' = [pending EXCEPT !.trusted = {}]
    BY <1>5 DEF Reconnect
  <2>2. Drops
    BY <1>1, <2>1, SessionParts DEF Drops, DecisionsType
  <2> QED
    BY <2>1, <2>2, QuietAgrees
<1>6. CASE ReloadChanged
  <2>1. PICK d : d = Detached("disconnected", None)
    OBVIOUS
  <2>2. /\ GiveUp("close", d)
        /\ records' = records /\ down' = down /\ down = "no"
    BY <1>6, <2>1 DEF ReloadChanged, Request
  <2> QED
    BY <1>11, <2>1, <2>2, GiveUpAgrees
<1>7. CASE ReloadRemoved
  <2>1. PICK d : d = Detached("disconnected", None)
    OBVIOUS
  <2>4. PICK next : next = [d EXCEPT !.present = FALSE]
    OBVIOUS
  <2>5. /\ d.status = "disconnected" /\ d.generation = session.generation + 1
        /\ d.busy = None /\ d.sudo = FALSE /\ d.manager = None /\ d.attempt = None
        /\ d \in SessionType
    BY <1>11, <2>1
  <2>2. /\ GiveUp("close", next)
        /\ records' = records /\ down' = down /\ down = "no"
    BY <1>7, <2>1, <2>4 DEF ReloadRemoved, Request
  <2>3. /\ next.generation = session.generation + 1 /\ next.busy = None
        /\ next.sudo = FALSE /\ next.manager = None /\ next.attempt = None
        /\ next.status = "disconnected"
    BY <2>4, <2>5 DEF SessionType
  <2> QED
    BY <2>2, <2>3, GiveUpAgrees
<1>8. CASE Shutdown /\ session.present
  <2>1. PICK d : d = Detached("disconnected", None)
    OBVIOUS
  <2>2. /\ GiveUp("close", d)
        /\ records' = records
    BY <1>8, <2>1 DEF Shutdown
  <2> QED
    BY <1>11, <2>1, <2>2, GiveUpAgrees
<1>9. CASE Shutdown /\ ~session.present
  <2>1. /\ UNCHANGED <<session, pending, records>> /\ down' = "draining"
        /\ \E kept \in Survivors :
             IF tokens = {} THEN UNCHANGED <<jobs, line, step, events>>
             ELSE /\ \E notices \in CancelNotices(kept) : events' = events \o notices
                  /\ Enqueue(NewJob("close", session.generation, FALSE, tokens, 0), jobs, kept)
    BY <1>9 DEF Shutdown
  <2>2. PICK job : job = NewJob("close", session.generation, FALSE, tokens, 0)
    OBVIOUS
  <2>3. job \in JobType /\ job.op = "close" /\ job.generation = session.generation
    <3>1. tokens \in SUBSET Nat
      BY <1>1, TokenTypes
    <3> QED
      BY <1>1, <2>2, <3>1 DEF NewJob, JobType, JobOps
  <2>4. UNCHANGED <<jobs, line, step, events>> \/ Cancels(jobs, job, TRUE)
    BY <2>1, <2>2 DEF Cancels
  <2>5. JobStep
    <3>1. CASE UNCHANGED <<jobs, line, step, events>>
      BY <1>1, <3>1, QuietJobs DEF EventsKeep
    <3>2. CASE Cancels(jobs, job, TRUE)
      BY <1>1, <2>3, <3>2, JobsAreSame DEF JobStep
    <3> QED
      BY <2>4, <3>1, <3>2
  <2>6. \A k \in JobIds' : k \notin JobIds =>
          ~IsPublic(k)' /\ jobs'[k].generation = session.generation
    <3>1. CASE UNCHANGED <<jobs, line, step, events>>
      BY <3>1 DEF JobIds
    <3>2. CASE Cancels(jobs, job, TRUE)
      <4>1. PICK n : n = NextJob
        OBVIOUS
      <4>2. JobIds' = JobIds \cup {n} /\ jobs'[n] = job
        BY <1>1, <2>3, <3>2, <4>1, JobsAreSame, CancelFacts
      <4> QED
        BY <2>3, <4>2 DEF IsPublic
    <3> QED
      BY <2>4, <3>1, <3>2
  <2>7. BusyInv'
    BY <1>1, <1>9, <2>1, <2>5, <2>6, BusyAfter
  <2>8. Drops /\ NoneWaits'
    BY <1>9, <2>1 DEF Drops, NoneWaits, OfSession
  <2>9. DecisionInv'
    BY <1>1, <2>1, <2>8, DecisionsPast DEF CoreInv, AgreeInv, Waiting
  <2>10. session'.manager = None
    BY <1>1, <1>9, <2>1 DEF BusyInv, GoneSession
  <2> QED
    BY <2>7, <2>9, <2>10 DEF AgreeInv, PhaseInv
<1> QED
  BY <1>3, <1>4, <1>5, <1>6, <1>7, <1>8, <1>9

\* So do a server added by a reload and the return of shutdown.
LEMMA OtherCallsAgree ==
  ASSUME CoreInv, CoreInv', AgreeInv, ReloadAdded \/ ShutdownReturns
  PROVE  AgreeInv'
<1>1. TypeInv /\ TypeInv' /\ BusyInv /\ DecisionInv /\ PhaseInv /\ session.generation \in Nat
  BY SessionParts DEF CoreInv, AgreeInv
<1>2. CASE ReloadAdded
  <2>1. /\ session' = NewSession(session.generation + 1) /\ ~session.present /\ down = "no"
        /\ UNCHANGED <<pending, records, jobs, line, step, events, down>>
    BY <1>2 DEF ReloadAdded, Request
  <2>2. /\ session'.generation = session.generation + 1 /\ session'.present /\ session'.busy = None
        /\ session'.manager = None
    BY <2>1 DEF NewSession
  <2>3. JobStep /\ JobIds' = JobIds /\ NextJob \notin JobIds
    BY <1>1, <2>1, QuietJobs, SessionParts DEF EventsKeep, JobIds
  <2>4. BusyInv'
    BY <1>1, <2>1, <2>2, <2>3, BusyNext
  <2>5. Drops
    BY <2>1 DEF Drops
  <2> QED
    BY <1>1, <2>2, <2>4, <2>5, AgreeNext
<1>3. CASE ShutdownReturns
  <2>1. /\ UNCHANGED <<session, pending, jobs, line, step, events>> /\ records' = {}
        /\ down' # "no" /\ down # "no"
    BY <1>3 DEF ShutdownReturns
  <2>2. JobStep /\ JobIds' = JobIds
    BY <1>1, <2>1, QuietJobs DEF EventsKeep, JobIds
  <2>3. BusyInv'
    BY <1>1, <2>1, <2>2, BusyAfter
  <2>4. NoneWaits
    BY <1>1, <2>1 DEF NoneWaits, Waiting, DecisionInv, KeyDecision, SudoDecisions, Undecided
  <2>5. DecisionInv'
    BY <1>1, <2>1, <2>4, DecisionsPast DEF NoneWaits, OfSession, Waiting
  <2>6. PhaseInv'
    BY <1>1, <2>1 DEF PhaseInv, BusyInv, GoneSession
  <2> QED
    BY <2>3, <2>5, <2>6 DEF AgreeInv
<1> QED
  BY <1>2, <1>3

\* What a call starts on a session with nothing open.
LEMMA StartAgrees ==
  ASSUME CoreInv, CoreInv', AgreeInv, NEW op \in Reads \cup Mutations \cup ConnectionOps,
         NEW sudo \in BOOLEAN, NEW logical \in Nat,
         Enqueue(NewJob(op, session.generation, sudo, {}, logical), jobs, line),
         records' = records \cup {NextJob}, UNCHANGED <<events, down>>,
         session.present, session.busy = None, down = "no", Drops, NoneWaits',
         session'.generation = session.generation, session'.present = session.present,
         session'.busy = op, session'.manager = session.manager,
         \/ session'.status = "connecting" /\ session.manager = None
         \/ session'.status = "connected" /\ op \notin ConnectionOps
  PROVE  AgreeInv'
<1>1. TypeInv /\ BusyInv /\ session.generation \in Nat /\ op \in JobOps
  BY SessionParts DEF CoreInv, AgreeInv, JobOps
<1>2. /\ JobIds' = JobIds \cup {NextJob}
      /\ \A j \in JobIds : InLine(j)' <=> InLine(j)
      /\ \A n : n = NextJob => /\ jobs'[n].op = op /\ jobs'[n].generation = session.generation
                               /\ InLine(n)' /\ (IsConnection(n)' <=> op \in ConnectionOps)
  BY <1>1, NewWork
<1>3. JobStep
  BY <1>1, LaunchJobs, JobsAreSame DEF EventsKeep
<1>4. /\ \A r \in records : ~Current(r)
      /\ \A j \in JobIds : Mine(j) => ~Open(j)'
  BY <1>1, <1>2, NoneOnRecord DEF Open, Unreported, Queued
<1>5. BusyInv'
  BY <1>1, <1>2, <1>3, <1>4, BusyLaunch
<1>6. \A j \in JobIds : Mine(j) => ~Unreported(j)'
  BY <1>4 DEF Open
<1> QED
  BY <1>2, <1>3, <1>5, <1>6, AgreeLaunch

\* So do the calls that start a job.
LEMMA StartCallsAgree ==
  ASSUME CoreInv, CoreInv', AgreeInv,
         \/ Connect
         \/ \E op \in Reads : StartRead(op)
         \/ \E op \in Mutations : StartMutation(op)
  PROVE  AgreeInv'
<1>1. /\ TypeInv /\ BusyInv /\ DecisionInv /\ session \in SessionType /\ session.sudo \in BOOLEAN
      /\ Len(logicals) + 1 \in Nat /\ 0 \in Nat
  BY SessionParts DEF CoreInv, AgreeInv
<1>2. CASE Connect
  <2>1. /\ session.present /\ session.busy = None /\ pending' = NoDecisions /\ down = "no"
        /\ UNCHANGED <<events, down>>
    BY <1>2 DEF Connect, Idle, ClearPendingDecisions, Request
  <2>2. Drops /\ NoneWaits'
    BY <2>1 DEF Drops, NoneWaits, NoDecisions, Waiting
  <2>3. CASE OwnsSession
    <3>1. UNCHANGED <<session, jobs, line, step, records>>
      BY <1>2, <2>3 DEF Connect
    <3> QED
      BY <2>1, <2>2, <3>1, QuietAgrees
  <2>4. CASE ~OwnsSession
    <3>1. /\ Enqueue(NewJob("connect", session.generation, session.sudo, {}, 0), jobs, line)
          /\ records' = records \cup {NextJob}
          /\ session' = [session EXCEPT !.status = "connecting", !.snapshot = None,
                                        !.busy = "connect", !.attempt = NextJob]
      BY <1>2, <2>4 DEF Connect
    <3>2. /\ session'.generation = session.generation /\ session'.present = session.present
          /\ session'.busy = "connect" /\ session'.manager = session.manager
          /\ session'.status = "connecting" /\ session.manager = None
      BY <1>1, <2>4, <3>1 DEF SessionType, OwnsSession
    <3>3. "connect" \in ConnectionOps
      BY DEF ConnectionOps
    <3> QED
      BY <1>1, <2>1, <2>2, <3>1, <3>2, <3>3, StartAgrees
  <2> QED
    BY <2>3, <2>4
<1>3. ASSUME LiveIdle, pending' = pending, session'.generation = session.generation,
             session'.present = session.present
      PROVE  Drops /\ NoneWaits' /\ session.present /\ session.busy = None /\ session.status = "connected"
  <2>1. session.status = "connected" /\ session.present /\ session.busy = None
    BY <1>3 DEF LiveIdle, Idle
  <2>2. NoneWaits
    BY <1>1, <2>1 DEF NoneWaits, Waiting, DecisionInv, KeyDecision, SudoDecisions, Undecided
  <2> QED
    BY <1>3, <2>1, <2>2 DEF Drops, NoneWaits, OfSession, Waiting
<1>4. ASSUME NEW op \in Reads, StartRead(op) PROVE AgreeInv'
  <2>1. /\ LiveIdle /\ pending' = pending /\ down = "no" /\ UNCHANGED <<events, down>>
        /\ Enqueue(NewJob(op, session.generation, session.sudo, {}, 0), jobs, line)
        /\ records' = records \cup {NextJob} /\ session' = [session EXCEPT !.busy = op]
    BY <1>4 DEF StartRead, Request
  <2>2. /\ session'.generation = session.generation /\ session'.present = session.present
        /\ session'.busy = op /\ session'.manager = session.manager
        /\ session'.status = session.status
    BY <1>1, <2>1 DEF SessionType
  <2>3. op \notin ConnectionOps
    BY DEF Reads, ConnectionOps
  <2> QED
    BY <1>1, <1>3, <2>1, <2>2, <2>3, StartAgrees
<1>5. ASSUME NEW op \in Mutations, StartMutation(op) PROVE AgreeInv'
  <2>1. /\ LiveIdle /\ pending' = pending /\ down = "no" /\ UNCHANGED <<events, down>>
        /\ Enqueue(NewJob(op, session.generation, session.sudo, {}, Len(logicals) + 1), jobs, line)
        /\ records' = records \cup {NextJob} /\ session' = [session EXCEPT !.busy = op]
    BY <1>5 DEF StartMutation, Request
  <2>2. /\ session'.generation = session.generation /\ session'.present = session.present
        /\ session'.busy = op /\ session'.manager = session.manager
        /\ session'.status = session.status
    BY <1>1, <2>1 DEF SessionType
  <2>3. op \notin ConnectionOps
    BY DEF Mutations, ConnectionOps
  <2> QED
    BY <1>1, <1>3, <2>1, <2>2, <2>3, StartAgrees
<1> QED
  BY <1>2, <1>4, <1>5

\* Every step keeps session and jobs in agreement.
LEMMA AgreeKept ==
  ASSUME CoreInv, CoreInv', AgreeInv, [Next]_vars
  PROVE  AgreeInv'
<1>1. CASE UNCHANGED vars
  BY <1>1, QuietStepsAgree
<1>2. CASE Calls
  BY <1>2, QuietStepsAgree, GiveUpCallsAgree, OtherCallsAgree, StartCallsAgree DEF Calls
<1>3. CASE Work
  BY <1>3, WorkAgrees
<1>4. CASE Handlers
  BY <1>4, SucceededAgrees, FailedAgrees, FinishedAgrees, RestAgrees, QuietStepsAgree, OtherCallsAgree
     DEF Handlers
<1>5. CASE Answers
  BY <1>5, QuietStepsAgree, ConfirmAgrees, AcceptAgrees, StoreFailsAgrees DEF Answers
<1> QED
  BY <1>1, <1>2, <1>3, <1>4, <1>5 DEF Next

\* They agree before the first call.
LEMMA AgreeInitially ==
  ASSUME Init
  PROVE  AgreeInv
<1>1. /\ jobs = <<>> /\ line = <<>> /\ events = <<>> /\ records = {} /\ down = "no"
      /\ session = NewSession(0) /\ pending = NoDecisions
  BY DEF Init
<1>2. JobIds = {} /\ session.busy = None /\ session.manager = None /\ session.present
  BY <1>1 DEF JobIds, NewSession
<1>3. BusyInv
  BY <1>1, <1>2 DEF BusyInv, OldGenerations, RecordedWork, BusyRecords, OneRecord, BusyReason, GoneSession
<1>4. DecisionInv
  BY <1>1, <1>2 DEF DecisionInv, NoDecisions, OldDecisions, KeyDecision, SudoDecisions,
                    AcceptedDecisions, Waiting
<1> QED
  BY <1>2, <1>3, <1>4 DEF AgreeInv, PhaseInv

\* They agree in every reachable state.
LEMMA AgreeAlways == Spec => [](CoreInv /\ AgreeInv)
<1>1. Init => CoreInv /\ AgreeInv
  BY CoreInitially, AgreeInitially
<1>2. CoreInv /\ AgreeInv /\ [Next]_vars => (CoreInv /\ AgreeInv)'
  BY CoreKept, AgreeKept
<1> QED
  BY <1>1, <1>2, PTL DEF Spec

-----------------------------------------------------------------------------
(* What a step does to the session.                                         *)

\* The session goes on: it gains a snapshot of its own jobs only, and a password only
\* while it is wanted.
SessionGoesOn ==
    /\ session'.generation = session.generation /\ session'.present = session.present
    /\ \/ session'.snapshot = None
       \/ session'.snapshot \in {session.snapshot, Staled(session.snapshot)}
       \/ \E j \in JobIds : Current(j) /\ session'.snapshot = Snapshot(j)
    /\ session'.status = "disconnected" => session.status = "disconnected"
    /\ session'.sudo => \/ session.sudo
                        \/ session.present /\ session'.status # "disconnected"

\* The next generation begins with nothing, or it restarts the connection.
SessionBegins ==
    /\ session'.generation = session.generation + 1 /\ session'.snapshot = None
    /\ \/ session'.status = "connecting" /\ session'.present
       \/ session'.manager = None /\ ~session'.sudo

SessionStep == SessionGoesOn \/ SessionBegins

\* A step that leaves the session alone is a SessionStep.
LEMMA SameSession ==
  ASSUME session' = session
  PROVE  SessionStep
BY DEF SessionStep, SessionGoesOn

\* Every call of the window is a SessionStep.
LEMMA CallSessions ==
  ASSUME TypeInv, Calls
  PROVE  SessionStep
<1>1. session \in SessionType /\ session.generation \in Nat
  BY SessionParts
<1>2. ASSUME NEW next, next \in {Detached("disconnected", "disconnect"), Detached("disconnected", None),
                                 [Detached("connecting", "reconnect") EXCEPT !.attempt = NextJob],
                                 [Detached("disconnected", None) EXCEPT !.present = FALSE]}
      PROVE  /\ next.generation = session.generation + 1 /\ next.snapshot = None
             /\ next.manager = None /\ next.sudo = FALSE
  BY <1>1, <1>2 DEF Detached, NewSession
<1>3. CASE Connect
  <2>1. CASE session' = session
    BY <2>1, SameSession
  <2>2. CASE session' = [session EXCEPT !.status = "connecting", !.snapshot = None,
                                        !.busy = "connect", !.attempt = NextJob]
    BY <1>1, <2>2 DEF SessionType, SessionStep, SessionGoesOn
  <2> QED
    BY <1>3, <2>1, <2>2 DEF Connect
<1>4. ASSUME NEW op, StartRead(op) \/ StartMutation(op) PROVE SessionStep
  <2>1. session' = [session EXCEPT !.busy = op]
    BY <1>4 DEF StartRead, StartMutation
  <2> QED
    BY <1>1, <2>1 DEF SessionType, SessionStep, SessionGoesOn
<1>5. CASE Disconnect \/ Reconnect \/ ReloadChanged \/ ReloadRemoved \/ Shutdown
  <2>1. \/ session' = session
        \/ session' \in {Detached("disconnected", "disconnect"), Detached("disconnected", None),
                         [Detached("connecting", "reconnect") EXCEPT !.attempt = NextJob],
                         [Detached("disconnected", None) EXCEPT !.present = FALSE]}
    BY <1>5 DEF Disconnect, Reconnect, ReloadChanged, ReloadRemoved, Shutdown, GiveUp
  <2>2. CASE session' # session
    <3>1. /\ session'.generation = session.generation + 1 /\ session'.snapshot = None
          /\ session'.manager = None /\ session'.sudo = FALSE
      BY <1>2, <2>1, <2>2
    <3> QED
      BY <3>1 DEF SessionStep, SessionBegins
  <2> QED
    BY <2>2, SameSession
<1>6. CASE ProvideSudoPassword
  <2>1. /\ session' = [session EXCEPT !.sudo = TRUE]
        /\ session.present /\ session.status # "disconnected"
    BY <1>6 DEF ProvideSudoPassword, TakesPassword
  <2> QED
    BY <1>1, <2>1 DEF SessionType, SessionStep, SessionGoesOn
<1>7. CASE Select
  BY <1>7, SameSession DEF Select
<1>8. CASE ReloadAdded
  <2>1. session' = NewSession(session.generation + 1)
    BY <1>8 DEF ReloadAdded
  <2> QED
    BY <2>1 DEF NewSession, SessionStep, SessionBegins
<1> QED
  BY <1>3, <1>4, <1>5, <1>6, <1>7, <1>8 DEF Calls

\* So is _on_job_succeeded.
LEMMA SucceededSession ==
  ASSUME TypeInv, OnSucceeded
  PROVE  SessionStep
<1> DEFINE j == Head(events).job
           result == Head(events).result
<1>1. session \in SessionType
  BY SessionParts
<1>2. /\ j \in JobIds
      /\ \/ DiscardSucceeded(j)
         \/ Current(j) /\ jobs[j].op \in Mutations /\ MutationSucceeded(j, result)
         \/ /\ Current(j)
            /\ session' = IF IsConnection(j)
                          THEN [session EXCEPT !.manager = j, !.attempt = None,
                                  !.snapshot = Snapshot(j), !.status = "connected"]
                          ELSE IF jobs[j].op = "refresh"
                          THEN [session EXCEPT !.snapshot = Snapshot(j)]
                          ELSE session
  BY SucceededCases
<1>3. CASE DiscardSucceeded(j)
  BY <1>3, SameSession DEF DiscardSucceeded
<1>4. CASE Current(j) /\ MutationSucceeded(j, result)
  <2>1. /\ session'.generation = session.generation /\ session'.present = session.present
        /\ session'.snapshot = IF result \in {"ok", "ok_rejected"} THEN Snapshot(j)
                               ELSE Staled(session.snapshot)
        /\ session'.sudo => session.sudo
        /\ session'.status \in {session.status, "error"}
    BY <1>1, <1>4 DEF MutationSucceeded, SessionType
  <2> QED
    BY <1>2, <1>4, <2>1 DEF SessionStep, SessionGoesOn
<1>5. CASE Current(j) /\ session' = [session EXCEPT !.manager = j, !.attempt = None,
                                       !.snapshot = Snapshot(j), !.status = "connected"]
  <2>1. /\ session'.generation = session.generation /\ session'.present = session.present
        /\ session'.snapshot = Snapshot(j) /\ session'.sudo = session.sudo
        /\ session'.status = "connected"
    BY <1>1, <1>5 DEF SessionType
  <2> QED
    BY <1>2, <1>5, <2>1 DEF SessionStep, SessionGoesOn
<1>6. CASE Current(j) /\ session' = [session EXCEPT !.snapshot = Snapshot(j)]
  <2>1. /\ session'.generation = session.generation /\ session'.present = session.present
        /\ session'.snapshot = Snapshot(j) /\ session'.sudo = session.sudo
        /\ session'.status = session.status
    BY <1>1, <1>6 DEF SessionType
  <2> QED
    BY <1>2, <1>6, <2>1 DEF SessionStep, SessionGoesOn
<1> QED
  BY <1>2, <1>3, <1>4, <1>5, <1>6, SameSession

\* So is a failure, with what follows its signal.
LEMMA FailureSessions ==
  ASSUME TypeInv, TopicInv, OnFailed \/ HostKeyStoreFails \/ RestOfApplyFailure
  PROVE  SessionStep
<1>1. session \in SessionType
  BY SessionParts
<1>2. ASSUME NEW j \in JobIds, IsPublic(j), NEW result \in Results, NEW rest, ApplyFailure(j, result, rest)
      PROVE  SessionStep
  <2>1. PICK sudo \in BOOLEAN : \E status \in Statuses : FailedSession(j, result, sudo, status)
    BY <1>2, FailureFacts
  <2>2. PICK status \in Statuses : FailedSession(j, result, sudo, status)
    BY <2>1
  <2>3. /\ session'.generation = session.generation /\ session'.present = session.present
        /\ session'.snapshot = session.snapshot
        /\ session'.sudo = sudo /\ session'.status = status
    BY <2>2, FailedParts
  <2>4. (sudo => session.sudo) /\ (status = "disconnected" => session.status = status)
    BY <2>2 DEF FailedSession
  <2> QED
    BY <2>3, <2>4 DEF SessionStep, SessionGoesOn
<1>3. CASE OnFailed
  <2>1. /\ Head(events).job \in JobIds /\ Head(events).result \in Results
        /\ \/ session' = session
           \/ /\ IsPublic(Head(events).job)
              /\ ApplyFailure(Head(events).job, Head(events).result,
                              <<Frame("emit_failed", Head(events).job, Head(events).result)>> \o stack)
    BY <1>3, FailedCases
  <2> QED
    BY <1>2, <2>1, SameSession
<1>4. CASE HostKeyStoreFails
  <2>1. "store_error" \in Results
    BY DEF Results
  <2>2. PICK j \in JobIds : IsPublic(j) /\ ApplyFailure(j, "store_error", Answered)
    BY <1>4, StoreFailsCases
  <2> QED
    BY <1>2, <2>1, <2>2
<1>5. CASE RestOfApplyFailure
  <2>1. PICK attempt \in {session.attempt, None},
               snapshot \in {session.snapshot, Staled(session.snapshot)},
               manager \in {session.manager, None}, sudo \in BOOLEAN :
              /\ session' = [session EXCEPT !.attempt = attempt, !.snapshot = snapshot,
                                            !.manager = manager, !.sudo = sudo]
              /\ sudo => session.sudo
    BY <1>5, RestFacts
  <2>2. /\ session'.generation = session.generation /\ session'.present = session.present
        /\ session'.snapshot = snapshot /\ session'.sudo = sudo /\ session'.status = session.status
    BY <1>1, <2>1 DEF SessionType
  <2> QED
    BY <2>1, <2>2 DEF SessionStep, SessionGoesOn
<1> QED
  BY <1>3, <1>4, <1>5

\* A retry goes on with the session it is given, or begins the next.
LEMMA RetrySessions ==
  ASSUME TypeInv, NEW s \in SessionType, NEW p, NEW r, NEW l, NEW key,
         Retries(s, p, r, l, key), s.present = session.present,
         s.generation = session.generation, s.snapshot = session.snapshot,
         s.status = session.status,
         s.sudo => session.sudo \/ (session.present /\ session.status # "disconnected")
  PROVE  SessionStep
<1>1. CASE NoRetry(s, p, r, l)
  <2>1. session' = s
    BY <1>1 DEF NoRetry
  <2> QED
    BY <2>1 DEF SessionStep, SessionGoesOn
<1>2. CASE s.present /\ \E with_sudo \in BOOLEAN : Restart(s, p, r, key, with_sudo)
  <2>1. session' = [s EXCEPT !.generation = @ + 1, !.status = "connecting",
                            !.snapshot = None, !.busy = key.op, !.attempt = NextJob]
    BY <1>2 DEF Restart
  <2>2. /\ session'.generation = s.generation + 1 /\ session'.snapshot = None
        /\ session'.status = "connecting" /\ session'.present = s.present
    BY <2>1 DEF SessionType
  <2> QED
    BY <1>2, <2>2 DEF SessionStep, SessionBegins
<1>3. CASE s.present /\ Relaunch(s, p, r, l, key)
  <2>1. session' = [s EXCEPT !.status = "connected", !.busy = key.op]
    BY <1>3 DEF Relaunch
  <2>2. /\ session'.generation = s.generation /\ session'.snapshot = s.snapshot
        /\ session'.status = "connected" /\ session'.present = s.present /\ session'.sudo = s.sudo
    BY <2>1 DEF SessionType
  <2> QED
    BY <1>3, <2>2 DEF SessionStep, SessionGoesOn
<1> QED
  BY <1>1, <1>2, <1>3 DEF Retries

\* So is every step.
LEMMA SessionSteps ==
  ASSUME TypeInv, TopicInv, [Next]_vars
  PROVE  SessionStep
<1>1. session \in SessionType
  BY SessionParts
<1>2. CASE Work
  BY <1>2, WorkSteps, SameSession DEF WorkStep, worker_only
<1>3. CASE EmitSucceeded \/ EmitFailed \/ ShutdownReturns \/ DeclineHostKey \/ DeclineSudo
           \/ DismissError \/ UNCHANGED vars
  <2>1. session' = session
    BY <1>3 DEF EmitSucceeded, EmitFailed, ShutdownReturns, DeclineHostKey, DeclineSudo,
                DismissError, vars
  <2> QED
    BY <2>1, SameSession
<1>4. CASE OnFinished
  <2> DEFINE j   == Head(events).job
             key == KeyOf(j)
             s   == IF Current(j) /\ session.busy = key.op
                    THEN [session EXCEPT !.busy = None] ELSE session
             r   == {k \in records : KeyOf(k) # key}
  <2>1. PICK p \in DecisionsType, l \in Seq(LogicalType) :
        \/ NoRetry(s, p, r, l)
        \/ /\ key \in pending.trusted => key.op \in ConnectionOps
           /\ \/ key \in pending.trusted /\ TrustedRetry(s, p, r, l, key)
              \/ key \in pending.accepted /\ SudoRetry(s, p, r, l, key)
    BY <1>4, FinishedCases
  <2>2. s \in SessionType
    BY <1>4, FinishedCases
  <2>3. /\ s.present = session.present /\ s.generation = session.generation
        /\ s.snapshot = session.snapshot /\ s.status = session.status /\ s.sudo = session.sudo
    BY <1>1 DEF SessionType
  <2> HIDE DEF s, r, key
  <2>4. Retries(s, p, r, l, key)
    BY <2>1, RetryCases DEF Retries
  <2> QED
    BY <2>2, <2>3, <2>4, RetrySessions
<1>5. CASE ConfirmHostKey \/ AcceptSudo
  <2>1. PICK key \in Keys, s \in SessionType, p \in DecisionsType : Answering(key, s, p)
    BY <1>5, AnswerCases
  <2>2. \E q : Retries(s, q, records, logicals, key)
    <3>1. \/ NoRetry(s, [p EXCEPT !.trusted = @ \cup {key}], records, logicals)
          \/ NoRetry(s, [p EXCEPT !.accepted = @ \cup {key}], records, logicals)
          \/ key.op \in ConnectionOps /\ TrustedRetry(s, p, records, logicals, key)
          \/ SudoRetry(s, p, records, logicals, key)
      BY <2>1 DEF Answering
    <3> QED
      BY <3>1, RetryCases DEF Retries
  <2>3. \/ s = session
        \/ s = [session EXCEPT !.sudo = TRUE] /\ session.present /\ session.status # "disconnected"
    BY <2>1 DEF Answering
  <2>4. /\ s.present = session.present /\ s.generation = session.generation
        /\ s.snapshot = session.snapshot /\ s.status = session.status
        /\ s.sudo => session.sudo \/ (session.present /\ session.status # "disconnected")
    BY <1>1, <2>3 DEF SessionType
  <2> QED
    BY <2>2, <2>4, RetrySessions
<1> QED
  BY <1>2, <1>3, <1>4, <1>5, CallSessions, SucceededSession, FailureSessions
     DEF Next, Handlers, Answers

\* Each session has the password it holds until it is disconnected or removed.
LEMMA PasswordInitially ==
  ASSUME Init
  PROVE  HeldUntilDisconnect
BY DEF Init, NewSession, HeldUntilDisconnect

\* Every step keeps the password to a session that is present and not disconnected.
LEMMA PasswordKept ==
  ASSUME TypeInv, TopicInv, HeldUntilDisconnect, [Next]_vars
  PROVE  HeldUntilDisconnect'
<1>1. SessionStep
  BY SessionSteps
<1>2. CASE SessionGoesOn
  BY <1>2 DEF SessionGoesOn, HeldUntilDisconnect
<1>3. CASE SessionBegins
  BY <1>3 DEF SessionBegins, HeldUntilDisconnect
<1> QED
  BY <1>1, <1>2, <1>3 DEF SessionStep

\* A call of the window that takes the manager away gives the session up.
LEMMA CallsForget ==
  ASSUME TypeInv, Calls, session'.manager # session.manager
  PROVE  session'.sudo = FALSE
<1>1. session \in SessionType
  BY SessionParts
<1>2. CASE Connect \/ (\E op \in Reads : StartRead(op)) \/ (\E op \in Mutations : StartMutation(op))
           \/ ProvideSudoPassword \/ Select
  <2>1. session'.manager = session.manager
    BY <1>1, <1>2 DEF Connect, StartRead, StartMutation, ProvideSudoPassword, Select, SessionType
  <2> QED
    BY <2>1
<1>3. CASE ReloadAdded
  BY <1>3 DEF ReloadAdded, NewSession
<1>4. CASE Disconnect \/ Reconnect \/ ReloadChanged \/ ReloadRemoved \/ Shutdown
  <2>1. \/ session' = session
        \/ session' \in {Detached("disconnected", "disconnect"), Detached("disconnected", None),
                         [Detached("connecting", "reconnect") EXCEPT !.attempt = NextJob],
                         [Detached("disconnected", None) EXCEPT !.present = FALSE]}
    BY <1>4 DEF Disconnect, Reconnect, ReloadChanged, ReloadRemoved, Shutdown, GiveUp
  <2> QED
    BY <1>1, <2>1 DEF Detached, NewSession
<1> QED
  BY <1>2, <1>3, <1>4 DEF Calls

\* A retry keeps the manager of the session it is given.
LEMMA RetriesKeepManager ==
  ASSUME NEW s \in SessionType, NEW p, NEW r, NEW l, NEW key, Retries(s, p, r, l, key)
  PROVE  session'.manager = s.manager
BY DEF Retries, NoRetry, Restart, Relaunch, SessionType

\* A step that takes the manager away from a session takes its password too.
LEMMA LossForgets ==
  ASSUME CoreInv, AgreeInv, [Next]_vars,
         session.manager # None, session'.manager # session.manager
  PROVE  ~session'.sudo
<1>1. TypeInv /\ TopicInv /\ PhaseInv /\ session \in SessionType
  BY SessionParts DEF CoreInv, AgreeInv
<1>2. CASE Calls
  BY <1>1, <1>2, CallsForget
<1>3. CASE Work
  BY <1>1, <1>3, WorkSteps DEF WorkStep, worker_only
<1>4. CASE EmitSucceeded \/ EmitFailed \/ ShutdownReturns \/ DeclineHostKey \/ DeclineSudo
           \/ DismissError \/ UNCHANGED vars
  BY <1>4 DEF EmitSucceeded, EmitFailed, ShutdownReturns, DeclineHostKey, DeclineSudo,
              DismissError, vars
<1>5. CASE OnSucceeded
  <2> DEFINE j == Head(events).job
             result == Head(events).result
  <2>1. /\ j \in JobIds /\ Queued(j, "succeeded")
        /\ \/ DiscardSucceeded(j)
           \/ Current(j) /\ MutationSucceeded(j, result)
           \/ /\ Current(j)
              /\ session' = IF IsConnection(j)
                            THEN [session EXCEPT !.manager = j, !.attempt = None,
                                    !.snapshot = Snapshot(j), !.status = "connected"]
                            ELSE IF jobs[j].op = "refresh"
                            THEN [session EXCEPT !.snapshot = Snapshot(j)]
                            ELSE session
    BY <1>1, <1>5, SucceededCases
  <2>2. ~(IsConnection(j) /\ Current(j))
    BY <1>1, <2>1 DEF PhaseInv, Unreported
  <2>3. CASE DiscardSucceeded(j)
    BY <2>3 DEF DiscardSucceeded
  <2>4. CASE MutationSucceeded(j, result)
    <3> DEFINE lost == result = "refresh_transport" /\ session.manager # None
    <3>1. /\ session'.manager = IF lost THEN None ELSE session.manager
          /\ session'.sudo = (/\ session.sudo
                              /\ result \notin {"ok_rejected", "refresh_rejected"} /\ ~lost)
      BY <1>1, <2>4 DEF MutationSucceeded, SessionType
    <3> QED
      BY <3>1
  <2>5. CASE Current(j) /\ session' \in {session, [session EXCEPT !.snapshot = Snapshot(j)]}
    BY <1>1, <2>5 DEF SessionType
  <2> QED
    BY <2>1, <2>2, <2>3, <2>4, <2>5
<1>6. CASE OnFailed
  <2>1. /\ Head(events).job \in JobIds /\ Head(events).result \in Results
        /\ \/ session' = session
           \/ /\ IsPublic(Head(events).job)
              /\ ApplyFailure(Head(events).job, Head(events).result,
                              <<Frame("emit_failed", Head(events).job, Head(events).result)>> \o stack)
    BY <1>1, <1>6, FailedCases
  <2> QED
    BY <1>1, <2>1 DEF ApplyFailure, SessionType
<1>7. CASE HostKeyStoreFails
  <2>1. PICK j \in JobIds : ApplyFailure(j, "store_error", Answered)
    BY <1>1, <1>7, StoreFailsCases
  <2> QED
    BY <1>1, <2>1 DEF ApplyFailure, SessionType
<1>8. CASE RestOfApplyFailure
  <2> DEFINE broken == Head(stack).result \in {"transport", "auth"}
             lost   == broken /\ session.manager # None
  <2>1. /\ session'.manager = IF lost THEN None ELSE session.manager
        /\ session'.sudo = (session.sudo /\ ~lost)
    BY <1>1, <1>8 DEF RestOfApplyFailure, SessionType
  <2> QED
    BY <2>1
<1>9. CASE OnFinished
  <2> DEFINE j   == Head(events).job
             key == KeyOf(j)
             s   == IF Current(j) /\ session.busy = key.op
                    THEN [session EXCEPT !.busy = None] ELSE session
             r   == {k \in records : KeyOf(k) # key}
  <2>1. PICK p \in DecisionsType, l \in Seq(LogicalType) :
        \/ NoRetry(s, p, r, l)
        \/ /\ key \in pending.trusted => key.op \in ConnectionOps
           /\ \/ key \in pending.trusted /\ TrustedRetry(s, p, r, l, key)
              \/ key \in pending.accepted /\ SudoRetry(s, p, r, l, key)
    BY <1>1, <1>9, FinishedCases
  <2>2. s \in SessionType
    BY <1>1, <1>9, FinishedCases
  <2>3. s.manager = session.manager
    BY <1>1 DEF SessionType
  <2> HIDE DEF s, r, key
  <2>4. Retries(s, p, r, l, key)
    BY <2>1, RetryCases DEF Retries
  <2> QED
    BY <2>2, <2>3, <2>4, RetriesKeepManager
<1>10. CASE ConfirmHostKey \/ AcceptSudo
  <2>1. PICK key \in Keys, s \in SessionType, p \in DecisionsType : Answering(key, s, p)
    BY <1>1, <1>10, AnswerCases
  <2>2. \E q : Retries(s, q, records, logicals, key)
    <3>1. \/ NoRetry(s, [p EXCEPT !.trusted = @ \cup {key}], records, logicals)
          \/ NoRetry(s, [p EXCEPT !.accepted = @ \cup {key}], records, logicals)
          \/ key.op \in ConnectionOps /\ TrustedRetry(s, p, records, logicals, key)
          \/ SudoRetry(s, p, records, logicals, key)
      BY <2>1 DEF Answering
    <3> QED
      BY <3>1, RetryCases DEF Retries
  <2>3. s.manager = session.manager
    BY <1>1, <2>1 DEF Answering, SessionType
  <2> QED
    BY <2>2, <2>3, RetriesKeepManager
<1> QED
  BY <1>2, <1>3, <1>4, <1>5, <1>6, <1>7, <1>8, <1>9, <1>10 DEF Next, Handlers, Answers

\* Whatever job finds the connection broken, and however the session is given up, the
\* password goes with the manager.
THEOREM LostConnectionTakesTheSecretAlways == Spec => LostConnectionTakesTheSecret
<1>1. ASSUME CoreInv, AgreeInv, [Next]_vars
      PROVE  [session.manager # None /\ session'.manager # session.manager
                => ~session'.sudo]_session
  BY <1>1, LossForgets
<1> QED
  BY <1>1, AgreeAlways, PTL DEF Spec, LostConnectionTakesTheSecret

\* What a session shows was loaded in its present generation.
LEMMA SnapshotInitially ==
  ASSUME Init
  PROVE  SnapshotOfThisSession
BY DEF Init, NewSession, SnapshotOfThisSession

\* Every step keeps the snapshot to this session.
LEMMA SnapshotKept ==
  ASSUME CoreInv, SnapshotOfThisSession, [Next]_vars
  PROVE  SnapshotOfThisSession'
<1>1. TypeInv /\ TopicInv
  BY DEF CoreInv
<1>2. SessionStep /\ JobStep
  BY <1>1, SessionSteps, JobSteps
<1>3. CASE SessionBegins
  BY <1>3 DEF SessionBegins, SnapshotOfThisSession
<1>4. CASE SessionGoesOn
  <2>1. SUFFICES ASSUME session'.snapshot # None
                 PROVE  jobs'[session'.snapshot.job].generation = session.generation
    BY <1>4 DEF SessionGoesOn, SnapshotOfThisSession
  <2>2. PICK j \in JobIds : session'.snapshot.job = j /\ jobs[j].generation = session.generation
    <3>1. CASE session'.snapshot \in {session.snapshot, Staled(session.snapshot)}
      <4>1. session.snapshot # None /\ session'.snapshot.job = session.snapshot.job
        BY <1>1, <2>1, <3>1, StaledType
      <4>2. session.snapshot.job \in JobIds
        BY <1>1, <4>1, SessionParts
      <4> QED
        BY <4>1, <4>2 DEF SnapshotOfThisSession
    <3>2. CASE \E j \in JobIds : Current(j) /\ session'.snapshot = Snapshot(j)
      BY <3>2 DEF Current, Snapshot
    <3> QED
      BY <1>4, <2>1, <3>1, <3>2 DEF SessionGoesOn
  <2> QED
    BY <1>1, <1>2, <2>2, Growth
<1> QED
  BY <1>2, <1>3, <1>4 DEF SessionStep

\* The generation never goes back, and of the old one only a password may stay, for the
\* connection it restarts.
THEOREM GenerationsAreSeparateAlways == Spec => GenerationsAreSeparate
<1>1. ASSUME CoreInv, AgreeInv, CoreInv', AgreeInv', [Next]_vars
      PROVE  [/\ session'.generation >= session.generation
              /\ session'.generation > session.generation =>
                   /\ session'.manager = None /\ session'.snapshot = None
                   /\ session'.sudo => session'.status = "connecting"]_session
  <2>1. SessionStep /\ session.generation \in Nat
    BY <1>1, SessionSteps, SessionParts DEF CoreInv
  <2>2. session'.status = "connecting" => session'.manager = None
    BY <1>1 DEF AgreeInv, PhaseInv
  <2>3. CASE SessionGoesOn
    BY <2>1, <2>3 DEF SessionGoesOn
  <2>4. CASE SessionBegins
    BY <2>1, <2>2, <2>4 DEF SessionBegins
  <2> QED
    BY <2>1, <2>3, <2>4 DEF SessionStep
<1> QED
  BY <1>1, AgreeAlways, PTL DEF Spec, GenerationsAreSeparate

-----------------------------------------------------------------------------
(* The password of the jobs in line.                                        *)

\* A cancellation leaves no job but the head of the line.
LEMMA CancelsToHead ==
  ASSUME TypeInv, NEW history, SameJobs(history), NEW job \in JobType, NEW submits \in BOOLEAN,
         Cancels(history, job, submits)
  PROVE  \A j \in JobIds : InLine(j)' => j = Head(line')
<1>1. PICK kept \in Survivors :
        IF submits THEN Enqueue(job, history, kept) ELSE line' = kept
  BY DEF Cancels
<1>2. /\ kept \in Seq(JobIds)
      /\ \A i \in 1 .. Len(kept) : i = 1
  BY SurvivorFacts
<1>3. /\ Len(Append(kept, NextJob)) = Len(kept) + 1 /\ Len(kept) \in Nat
      /\ \A i \in 1 .. Len(kept) : Append(kept, NextJob)[i] = kept[i]
      /\ Append(kept, NextJob)[Len(kept) + 1] = NextJob
  BY <1>2, HasAppend
<1>4. NextJob \notin JobIds /\ JobIds \in SUBSET Nat /\ NextJob \in Nat
  BY JobIdsRange, TokenTypes DEF NextJob
<1>5. ASSUME NEW j \in JobIds, InLine(j)'
      PROVE  1 \in 1 .. Len(line') /\ line'[1] = j
  <2>1. PICK i \in 1 .. Len(line') : line'[i] = j
    BY <1>5 DEF InLine
  <2>2. CASE line' = kept
    BY <1>2, <2>1, <2>2
  <2>3. CASE line' = Append(kept, NextJob)
    <3>1. i \in 1 .. Len(kept)
      BY <1>3, <1>4, <2>1, <2>3
    <3> QED
      BY <1>2, <1>3, <2>1, <2>3, <3>1
  <2> QED
    BY <1>1, <2>2, <2>3 DEF Enqueue
<1>6. ASSUME 1 \in 1 .. Len(line') PROVE Head(line') = line'[1]
  <2>1. line' \in Seq(JobIds \cup {NextJob})
    <3>1. kept \in Seq(JobIds \cup {NextJob}) /\ NextJob \in JobIds \cup {NextJob}
      BY <1>2, SeqMonotonic
    <3>2. Append(kept, NextJob) \in Seq(JobIds \cup {NextJob})
      BY <3>1, AppendProperties
    <3> QED
      BY <1>1, <3>1, <3>2 DEF Enqueue
  <2>2. line' # <<>>
    BY <1>6
  <2> QED
    BY <2>1, <2>2, HasTail
<1> QED
  BY <1>5, <1>6

\* Who stays in line and was its head still is.
LEMMA HeadsStay ==
  ASSUME TypeInv, OrderInv, JobStep
  PROVE  \A j \in JobIds : InLine(j)' => InLine(j) /\ (j = Head(line) => j = Head(line'))
<1>1. line \in Seq(JobIds) /\ JobIds \in SUBSET Nat /\ Increasing(line)
  BY TokenTypes DEF TypeInv, OrderInv
<1>2. CASE line' = line
  BY <1>2 DEF InLine
<1>3. ASSUME NEW history, SameJobs(history), NEW job \in JobType, Enqueue(job, history, line)
      PROVE  \A j \in JobIds : InLine(j)' => InLine(j) /\ (j = Head(line) => j = Head(line'))
  <2>1. /\ NextJob \notin JobIds /\ \A j : InLine(j)' <=> InLine(j) \/ j = NextJob
    BY <1>3, SubmitFacts
  <2>2. line' = Append(line, NextJob)
    BY <1>3 DEF Enqueue
  <2>3. line' \in Seq(JobIds \cup {NextJob})
    <3>1. line \in Seq(JobIds \cup {NextJob}) /\ NextJob \in JobIds \cup {NextJob}
      BY <1>1, SeqMonotonic
    <3> QED
      BY <2>2, <3>1, AppendProperties
  <2>4. /\ Len(line') = Len(line) + 1 /\ Len(line) \in Nat
        /\ \A i \in 1 .. Len(line) : line'[i] = line[i]
    BY <1>1, <2>2, HasAppend
  <2>5. ASSUME NEW j \in JobIds, InLine(j) PROVE Head(line') = Head(line)
    <3>1. 1 \in 1 .. Len(line) /\ line # <<>> /\ line' # <<>>
      BY <2>4, <2>5 DEF InLine
    <3>2. Head(line) = line[1]
      BY <1>1, <3>1, HasTail
    <3>3. Head(line') = line'[1]
      BY <2>3, <3>1, HasTail
    <3> QED
      BY <2>4, <3>1, <3>2, <3>3
  <2> QED
    BY <2>1, <2>5
<1>4. ASSUME NEW history, SameJobs(history), NEW job \in JobType, NEW submits \in BOOLEAN,
             Cancels(history, job, submits)
      PROVE  \A j \in JobIds : InLine(j)' => InLine(j) /\ (j = Head(line) => j = Head(line'))
  <2>1. \A j \in JobIds : InLine(j)' => InLine(j)
    BY <1>4, CancelFacts
  <2>2. \A j \in JobIds : InLine(j)' => j = Head(line')
    BY <1>4, CancelsToHead
  <2> QED
    BY <2>1, <2>2
<1>5. ASSUME line # <<>>, line' = Tail(line)
      PROVE  \A j \in JobIds : InLine(j)' => InLine(j) /\ (j = Head(line) => j = Head(line'))
  <2>1. ~Has(Tail(line), Head(line))
    BY <1>1, <1>5, TailIncreases
  <2>2. \A j : Has(Tail(line), j) => Has(line, j)
    BY <1>1, <1>5, HasTail
  <2>3. \A j : InLine(j)' <=> Has(Tail(line), j)
    BY <1>5 DEF InLine, Has
  <2>4. \A j : InLine(j) <=> Has(line, j)
    BY DEF InLine, Has
  <2> QED
    BY <2>1, <2>2, <2>3, <2>4
<1>6. ASSUME NEW j, NEW signal, NEW result, WorkStep(j, signal, result)
      PROVE  line # <<>> /\ (line' = line \/ line' = Tail(line))
  BY <1>6 DEF WorkStep, Ends
<1> QED
  BY <1>2, <1>3, <1>4, <1>5, <1>6 DEF JobStep

\* A job that carries a password is the session's, which holds it.
NewCopies ==
    \A n \in JobIds' : n \notin JobIds /\ jobs'[n].sudo => Mine(n)' /\ session'.sudo

\* No job, no copy.
LEMMA NoNewCopies ==
  ASSUME JobIds' = JobIds
  PROVE  NewCopies
BY DEF NewCopies

\* What is submitted carries the password of the session that submits it.
LEMMA SubmitsCopies ==
  ASSUME TypeInv, NEW history, SameJobs(history), NEW job \in JobType, NEW submits \in BOOLEAN,
         Enqueue(job, history, line) \/ Cancels(history, job, submits),
         job.sudo => /\ session'.sudo /\ session'.present
                     /\ session'.generation = job.generation /\ job.op # "close"
  PROVE  NewCopies
<1>1. PICK n : n = NextJob
  OBVIOUS
<1>2. \/ JobIds' = JobIds
      \/ JobIds' = JobIds \cup {n} /\ jobs'[n] = job
  <2>1. CASE Enqueue(job, history, line)
    BY <1>1, <2>1, SubmitFacts
  <2>2. CASE Cancels(history, job, submits)
    BY <1>1, <2>2, CancelFacts
  <2> QED
    BY <2>1, <2>2
<1> QED
  BY <1>2 DEF NewCopies, Mine, Current, IsPublic

\* So does every retry.
LEMMA RetriesCopy ==
  ASSUME TypeInv, NEW s \in SessionType, NEW p, NEW r, NEW l \in Seq(LogicalType), NEW key \in Keys,
         Retries(s, p, r, l, key)
  PROVE  NewCopies
<1>1. SameJobs(jobs) /\ s.sudo \in BOOLEAN /\ s.generation \in Nat /\ TRUE \in BOOLEAN
      /\ {} \in SUBSET Nat /\ key.generation \in Nat
  BY JobsAreSame DEF SessionType, Keys
<1>2. CASE NoRetry(s, p, r, l)
  <2>1. JobIds' = JobIds
    BY <1>2 DEF NoRetry, JobIds
  <2> QED
    BY <2>1, NoNewCopies
<1>3. ASSUME NEW with_sudo \in BOOLEAN, s.present, key.op \in ConnectionOps,
             Restart(s, p, r, key, with_sudo)
      PROVE  NewCopies
  <2>1. PICK job : job = NewJob(key.op, s.generation + 1, s.sudo, {}, 0)
    OBVIOUS
  <2>2. key.op \in JobOps /\ key.op # "close" /\ 0 \in Nat /\ s.generation + 1 \in Nat
    BY <1>1, <1>3 DEF JobOps, ConnectionOps
  <2>3. /\ job \in JobType /\ job.sudo = s.sudo /\ job.generation = s.generation + 1
        /\ job.op # "close"
    BY <1>1, <2>1, <2>2 DEF NewJob, JobType
  <2>4. session' = [s EXCEPT !.generation = @ + 1, !.status = "connecting",
                             !.snapshot = None, !.busy = key.op, !.attempt = NextJob]
    BY <1>3 DEF Restart
  <2>5. /\ session'.sudo = s.sudo /\ session'.present = s.present
        /\ session'.generation = s.generation + 1
    BY <2>4 DEF SessionType
  <2>6. Enqueue(job, jobs, line)
    BY <1>3, <2>1 DEF Restart
  <2> QED
    BY <1>1, <1>3, <2>3, <2>5, <2>6, SubmitsCopies
<1>4. ASSUME s.present, s.generation = key.generation, key.op \in Reads \cup Mutations,
             Relaunch(s, p, r, l, key)
      PROVE  NewCopies
  <2>1. PICK i : i = OpenLogical(l, key)
    OBVIOUS
  <2>2. i \in Nat
    BY <2>1, LogicalIds
  <2>3. PICK job : job = NewJob(key.op, key.generation, s.sudo, {}, i)
    OBVIOUS
  <2>4. key.op \in JobOps /\ key.op # "close"
    BY <1>4 DEF JobOps, Reads, Mutations
  <2>5. /\ job \in JobType /\ job.sudo = s.sudo /\ job.generation = key.generation
        /\ job.op # "close"
    BY <1>1, <2>2, <2>3, <2>4 DEF NewJob, JobType
  <2>6. session' = [s EXCEPT !.status = "connected", !.busy = key.op]
    BY <1>4 DEF Relaunch
  <2>7. /\ session'.sudo = s.sudo /\ session'.present = s.present
        /\ session'.generation = s.generation
    BY <2>6 DEF SessionType
  <2>8. Enqueue(job, jobs, line)
    BY <1>4, <2>1, <2>3 DEF Relaunch
  <2> QED
    BY <1>1, <1>4, <2>5, <2>7, <2>8, SubmitsCopies
<1> QED
  BY <1>2, <1>3, <1>4 DEF Retries

\* A session given up takes no password to the job that closes it.
LEMMA GiveUpCopies ==
  ASSUME TypeInv, NEW op \in {"disconnect", "reconnect", "close"}, NEW next,
         next.generation \in Nat, next.sudo = FALSE, GiveUp(op, next)
  PROVE  /\ NewCopies
         /\ session' = next
         /\ \A j \in JobIds : InLine(j)' => j = Head(line')
<1> DEFINE submits == ~(op = "close" /\ TokensGivenUp = {})
           job     == NewJob(op, next.generation, next.sudo, TokensGivenUp, 0)
<1>1. next.sudo \in BOOLEAN
  OBVIOUS
<1>2. session' = next /\ Cancels(JobsGivenUp, job, submits) /\ job \in JobType
  BY <1>1, GiveUpFacts
<1>3. ~job.sudo
  BY DEF NewJob
<1>4. SameJobs(JobsGivenUp) /\ submits \in BOOLEAN
  BY GivenUpFacts
<1> HIDE DEF job, submits
<1>5. NewCopies
  BY <1>2, <1>3, <1>4, SubmitsCopies
<1>6. \A j \in JobIds : InLine(j)' => j = Head(line')
  BY <1>2, <1>4, CancelsToHead
<1> QED
  BY <1>2, <1>5, <1>6

\* Nor does a job that closes what is open.
LEMMA ClosesCopy ==
  ASSUME TypeInv, NEW history, SameJobs(history), NEW open \in SUBSET Connections,
         MayClose(history, open)
  PROVE  NewCopies
<1>1. CASE SubmitClose(history, open)
  <2>1. PICK job : job = NewJob("close", session.generation, FALSE, open, 0)
    OBVIOUS
  <2>2. open \in SUBSET Nat /\ session.generation \in Nat
    BY TokenTypes, SessionParts
  <2>3. job \in JobType /\ job.sudo = FALSE
    BY <2>1, <2>2 DEF NewJob, JobType, JobOps
  <2>4. Enqueue(job, history, line)
    BY <1>1, <2>1 DEF SubmitClose
  <2>5. TRUE \in BOOLEAN
    OBVIOUS
  <2> QED
    BY <2>3, <2>4, <2>5, SubmitsCopies
<1>2. CASE jobs' = history
  <2>1. JobIds' = JobIds
    BY <1>2, JobIdsRange DEF SameJobs, JobIds
  <2> QED
    BY <2>1, NoNewCopies
<1> QED
  BY <1>1, <1>2 DEF MayClose

\* The session goes on as it is but for what its jobs do not see.
Stays ==
    /\ session'.generation = session.generation /\ session'.present = session.present
    /\ session.sudo => session'.sudo

\* None of the session's jobs is left in line.
Rests == \A j \in JobIds : Mine(j) => ~InLine(j)'

\* The session is given up, and at most a job that a thread had taken is left.
Leaves ==
    /\ session'.generation = session.generation + 1
    /\ \A j \in JobIds : InLine(j)' => j = Head(line')

\* The calls of the window: see NewCopies, Stays and Leaves.
LEMMA CallCopies ==
  ASSUME TypeInv, Calls
  PROVE  NewCopies /\ (Stays \/ Rests \/ Leaves)
<1>1. /\ session \in SessionType /\ session.generation \in Nat /\ session.sudo \in BOOLEAN
      /\ SameJobs(jobs) /\ TRUE \in BOOLEAN /\ {} \in SUBSET Nat
  BY SessionParts, JobsAreSame DEF SessionType
<1>2. ASSUME NEW op \in Reads \cup Mutations \cup ConnectionOps, NEW logical \in Nat,
             Enqueue(NewJob(op, session.generation, session.sudo, {}, logical), jobs, line),
             session.present, session'.sudo = session.sudo, session'.present = session.present,
             session'.generation = session.generation
      PROVE  NewCopies /\ Stays
  <2>1. PICK job : job = NewJob(op, session.generation, session.sudo, {}, logical)
    OBVIOUS
  <2>2. op \in JobOps /\ op # "close"
    BY <1>2 DEF JobOps, Reads, Mutations, ConnectionOps
  <2>3. /\ job \in JobType /\ job.sudo = session.sudo /\ job.generation = session.generation
        /\ job.op # "close"
    BY <1>1, <2>1, <2>2 DEF NewJob, JobType
  <2>4. Enqueue(job, jobs, line)
    BY <1>2, <2>1
  <2>5. NewCopies
    BY <1>1, <1>2, <2>3, <2>4, SubmitsCopies
  <2> QED
    BY <1>2, <2>5 DEF Stays
<1>3. ASSUME UNCHANGED <<jobs, line, step>>, session' \in {session, [session EXCEPT !.sudo = TRUE]}
      PROVE  NewCopies /\ Stays
  <2>1. JobIds' = JobIds
    BY <1>3 DEF JobIds
  <2> QED
    BY <1>1, <1>3, <2>1, NoNewCopies DEF Stays, SessionType
<1>4. CASE Connect
  <2>1. CASE OwnsSession
    BY <1>3, <1>4, <2>1 DEF Connect
  <2>2. CASE ~OwnsSession
    <3>1. /\ Enqueue(NewJob("connect", session.generation, session.sudo, {}, 0), jobs, line)
          /\ session.present
          /\ session' = [session EXCEPT !.status = "connecting", !.snapshot = None,
                                        !.busy = "connect", !.attempt = NextJob]
      BY <1>4, <2>2 DEF Connect
    <3>2. /\ session'.sudo = session.sudo /\ session'.present = session.present
          /\ session'.generation = session.generation
      BY <1>1, <3>1 DEF SessionType
    <3>3. "connect" \in ConnectionOps /\ 0 \in Nat
      BY DEF ConnectionOps
    <3> QED
      BY <1>2, <3>1, <3>2, <3>3
  <2> QED
    BY <2>1, <2>2
<1>5. ASSUME NEW op \in Reads \cup Mutations, StartRead(op) \/ StartMutation(op)
      PROVE  NewCopies /\ Stays
  <2>1. PICK logical \in Nat :
          Enqueue(NewJob(op, session.generation, session.sudo, {}, logical), jobs, line)
    <3>1. CASE StartRead(op)
      <4>1. Enqueue(NewJob(op, session.generation, session.sudo, {}, 0), jobs, line) /\ 0 \in Nat
        BY <3>1 DEF StartRead
      <4> QED
        BY <4>1
    <3>2. CASE StartMutation(op)
      <4>1. /\ Enqueue(NewJob(op, session.generation, session.sudo, {}, Len(logicals) + 1),
                       jobs, line)
            /\ Len(logicals) + 1 \in Nat
        BY <3>2 DEF StartMutation, TypeInv
      <4> QED
        BY <4>1
    <3> QED
      BY <1>5, <3>1, <3>2
  <2>2. session.present /\ session' = [session EXCEPT !.busy = op]
    BY <1>5 DEF StartRead, StartMutation, LiveIdle
  <2>3. /\ session'.sudo = session.sudo /\ session'.present = session.present
        /\ session'.generation = session.generation
    BY <1>1, <2>2 DEF SessionType
  <2> QED
    BY <1>2, <1>5, <2>1, <2>2, <2>3
<1>6. CASE ProvideSudoPassword \/ Select
  BY <1>3, <1>6 DEF ProvideSudoPassword, Select
<1>7. CASE ReloadAdded
  <2>1. ~session.present /\ jobs' = jobs
    BY <1>7 DEF ReloadAdded
  <2>2. JobIds' = JobIds /\ Rests
    BY <2>1 DEF JobIds, Rests, Mine, Current
  <2> QED
    BY <2>2, NoNewCopies
<1>8. ASSUME NEW op \in {"disconnect", "reconnect", "close"},
             NEW next \in {Detached("disconnected", "disconnect"), Detached("disconnected", None),
                           [Detached("connecting", "reconnect") EXCEPT !.attempt = NextJob],
                           [Detached("disconnected", None) EXCEPT !.present = FALSE]},
             GiveUp(op, next)
      PROVE  NewCopies /\ Leaves
  <2>1. next.generation = session.generation + 1 /\ next.sudo = FALSE
    BY <1>1, <1>8 DEF Detached, NewSession
  <2>2. next.generation \in Nat
    BY <1>1, <2>1
  <2> QED
    BY <1>8, <2>1, <2>2, GiveUpCopies DEF Leaves
<1>9. CASE Disconnect \/ ReloadChanged \/ ReloadRemoved
  BY <1>8, <1>9 DEF Disconnect, ReloadChanged, ReloadRemoved
<1>10. CASE Reconnect
  <2>1. \/ GiveUp("reconnect", [Detached("connecting", "reconnect") EXCEPT !.attempt = NextJob])
        \/ UNCHANGED <<session, jobs, line, step>>
    BY <1>10 DEF Reconnect
  <2> QED
    BY <1>3, <1>8, <2>1
<1>11. CASE Shutdown
  <2>1. CASE session.present
    <3>1. GiveUp("close", Detached("disconnected", None))
      BY <1>11, <2>1 DEF Shutdown
    <3> QED
      BY <1>8, <3>1
  <2>2. CASE ~session.present
    <3>1. Rests
      BY <2>2 DEF Rests, Mine, Current
    <3>2. PICK job : job = NewJob("close", session.generation, FALSE, tokens, 0)
      OBVIOUS
    <3>3. tokens \in SUBSET Nat
      BY TokenTypes
    <3>4. job \in JobType /\ job.sudo = FALSE
      BY <1>1, <3>2, <3>3 DEF NewJob, JobType, JobOps
    <3>5. UNCHANGED <<jobs, line, step>> \/ Cancels(jobs, job, TRUE)
      BY <1>11, <2>2, <3>2 DEF Shutdown, Cancels
    <3>6. CASE UNCHANGED <<jobs, line, step>>
      <4>1. JobIds' = JobIds
        BY <3>6 DEF JobIds
      <4> QED
        BY <3>1, <4>1, NoNewCopies
    <3>7. CASE Cancels(jobs, job, TRUE)
      BY <1>1, <3>1, <3>4, <3>7, SubmitsCopies
    <3> QED
      BY <3>5, <3>6, <3>7
  <2> QED
    BY <2>1, <2>2
<1> QED
  BY <1>4, <1>5, <1>6, <1>7, <1>9, <1>10, <1>11 DEF Calls

\* The rest of a handler that found the connection broken.
Breaks(f) == f.fn = "rest_of_apply_failure" /\ f.result \in {"transport", "auth"}

\* None of the session's jobs waits or runs.
NothingInLine == \A j \in JobIds : Mine(j) => ~InLine(j)

\* A handler that found the connection broken ends before anything else is done: no
\* dialog comes between, as one does before the rest of a handler that asks.
BreakInv == \A i \in 1 .. Len(stack) : Breaks(stack[i]) => i = 1 /\ NothingInLine

\* Once its outcome is delivered, none of the session's jobs is in line.
LEMMA DeliveredRests ==
  ASSUME CoreInv, BusyInv, JobStep, events # <<>>, Received, Current(Head(events).job)
  PROVE  Rests
<1>1. PICK j : j = Head(events).job
  OBVIOUS
<1>2. TypeInv /\ OrderInv
  BY DEF CoreInv
<1>3. Mine(j)
  BY <1>1, <1>2, HeadGone DEF Mine
<1>4. \A k \in JobIds : InLine(k)' => InLine(k)
  BY <1>2, HeadsStay
<1> QED
  BY <1>1, <1>3, <1>4, OneOutcome DEF Rests, Unreported

\* None was, and none has come.
LEMMA NothingRests ==
  ASSUME TypeInv, OrderInv, JobStep, NothingInLine
  PROVE  Rests
BY HeadsStay DEF Rests, NothingInLine

\* A retry leaves the session its password, or restarts it.
LEMMA RetriesStay ==
  ASSUME TypeInv, NEW s \in SessionType, NEW p, NEW r, NEW l, NEW key, Retries(s, p, r, l, key),
         s.generation = session.generation, s.present = session.present,
         session.sudo => s.sudo
  PROVE  Stays \/ OfSession(key)
<1>1. CASE NoRetry(s, p, r, l)
  BY <1>1 DEF NoRetry, Stays
<1>2. CASE Relaunch(s, p, r, l, key)
  <2>1. session' = [s EXCEPT !.status = "connected", !.busy = key.op]
    BY <1>2 DEF Relaunch
  <2>2. /\ session'.generation = s.generation /\ session'.present = s.present
        /\ session'.sudo = s.sudo
    BY <2>1 DEF SessionType
  <2> QED
    BY <2>2 DEF Stays
<1>3. CASE s.present /\ s.generation = key.generation
  BY <1>3 DEF OfSession
<1> QED
  BY <1>1, <1>2, <1>3 DEF Retries

\* The handlers: see NewCopies, Stays and Rests.
LEMMA HandlerCopies ==
  ASSUME CoreInv, BusyInv, BreakInv, JobStep, Handlers
  PROVE  NewCopies /\ (Stays \/ Rests)
<1>1. /\ TypeInv /\ TopicInv /\ StackInv /\ OrderInv /\ session \in SessionType
      /\ SameJobs(jobs) /\ {} \in SUBSET Connections
  BY SessionParts, JobsAreSame DEF CoreInv
<1>2. ASSUME jobs' = jobs PROVE NewCopies
  <2>1. JobIds' = JobIds
    BY <1>2 DEF JobIds
  <2> QED
    BY <2>1, NoNewCopies
<1>3. ASSUME session' = session PROVE Stays
  BY <1>3 DEF Stays
<1>4. CASE EmitSucceeded \/ EmitFailed \/ ShutdownReturns
  <2>1. jobs' = jobs /\ session' = session
    BY <1>4 DEF EmitSucceeded, EmitFailed, ShutdownReturns
  <2> QED
    BY <1>2, <1>3, <2>1
<1>5. CASE OnSucceeded
  <2> DEFINE j == Head(events).job
             result == Head(events).result
  <2>1. /\ events # <<>> /\ Received /\ j \in JobIds
        /\ \/ DiscardSucceeded(j)
           \/ Current(j) /\ MutationSucceeded(j, result)
           \/ Current(j) /\ jobs' = jobs
    BY <1>1, <1>5, SucceededCases
  <2>2. Current(j) => Rests
    BY <2>1, DeliveredRests
  <2>3. CASE DiscardSucceeded(j)
    <3>1. session' = session
      BY <2>3 DEF DiscardSucceeded
    <3>2. CASE jobs' = jobs
      BY <1>2, <1>3, <3>1, <3>2
    <3>3. CASE /\ IsConnection(j) /\ SameJobs(Invalidated(j))
               /\ \/ SubmitClose(Invalidated(j), tokens \cup {j})
                  \/ jobs' = Invalidated(j) /\ UNCHANGED <<line, step>>
      <4>1. tokens \cup {j} \in SUBSET Connections
        BY <1>1, <2>1, <3>3 DEF TypeInv, Connections
      <4>2. MayClose(Invalidated(j), tokens \cup {j})
        BY <3>3 DEF MayClose
      <4> QED
        BY <1>1, <1>3, <3>1, <3>3, <4>1, <4>2, ClosesCopy
    <3> QED
      BY <1>1, <2>1, <2>3, <3>2, <3>3, DiscardCases
  <2>4. CASE Current(j) /\ MutationSucceeded(j, result)
    <3> DEFINE lost == result = "refresh_transport" /\ session.manager # None
               open == tokens \cup {m \in {session.manager} : lost}
    <3>1. IF lost THEN SubmitClose(jobs, open) ELSE UNCHANGED <<jobs, line, step>>
      BY <2>4 DEF MutationSucceeded
    <3>2. open \in SUBSET Connections
      BY <1>1, TokenTypes
    <3> HIDE DEF lost, open
    <3>3. MayClose(jobs, open)
      BY <3>1 DEF MayClose
    <3> QED
      BY <1>1, <2>2, <2>4, <3>2, <3>3, ClosesCopy
  <2> QED
    BY <1>2, <2>1, <2>2, <2>3, <2>4
<1>6. CASE OnFailed
  <2>1. /\ events # <<>> /\ Received /\ jobs' = jobs
        /\ session' = session \/ Current(Head(events).job)
    BY <1>1, <1>6, FailedCases
  <2> QED
    BY <1>2, <1>3, <2>1, DeliveredRests
<1>7. CASE RestOfApplyFailure
  <2> DEFINE broken == Head(stack).result \in {"transport", "auth"}
             lost   == broken /\ session.manager # None
             open   == tokens \cup {m \in {session.manager} : lost}
  <2>1. /\ stack # <<>> /\ Head(stack).fn = "rest_of_apply_failure"
        /\ session'.generation = session.generation /\ session'.present = session.present
        /\ session'.sudo = (session.sudo /\ ~lost)
    BY <1>1, <1>7 DEF RestOfApplyFailure, SessionType
  <2>2. IF lost THEN SubmitClose(jobs, open) ELSE UNCHANGED <<jobs, line, step>>
    BY <1>7 DEF RestOfApplyFailure
  <2>3. open \in SUBSET Connections
    BY <1>1, TokenTypes
  <2>4. broken => Rests
    <3>1. Head(stack) = stack[1] /\ 1 \in 1 .. Len(stack)
      BY <1>1, <2>1, HasTail DEF StackInv
    <3>2. broken => NothingInLine
      BY <2>1, <3>1 DEF BreakInv, Breaks
    <3> QED
      BY <1>1, <3>2, NothingRests
  <2>5. ~lost => Stays
    BY <2>1 DEF Stays
  <2>6. lost => broken
    OBVIOUS
  <2> HIDE DEF lost, open, broken
  <2>7. MayClose(jobs, open)
    BY <2>2 DEF MayClose
  <2>8. NewCopies
    BY <1>1, <2>3, <2>7, ClosesCopy
  <2> QED
    BY <2>4, <2>5, <2>6, <2>8
<1>8. CASE OnFinished
  <2> DEFINE j   == Head(events).job
             key == KeyOf(j)
             s   == IF Current(j) /\ session.busy = key.op
                    THEN [session EXCEPT !.busy = None] ELSE session
             r   == {k \in records : KeyOf(k) # key}
  <2>1. /\ events # <<>> /\ Received /\ s \in SessionType
        /\ \E p \in DecisionsType, l \in Seq(LogicalType) :
             \/ NoRetry(s, p, r, l)
             \/ /\ key \in Keys
                /\ key \in pending.trusted => key.op \in ConnectionOps
                /\ \/ key \in pending.trusted /\ TrustedRetry(s, p, r, l, key)
                   \/ key \in pending.accepted /\ SudoRetry(s, p, r, l, key)
    BY <1>1, <1>8, FinishedCases
  <2>2. PICK p \in DecisionsType, l \in Seq(LogicalType) :
             \/ NoRetry(s, p, r, l)
             \/ /\ key \in Keys
                /\ key \in pending.trusted => key.op \in ConnectionOps
                /\ \/ key \in pending.trusted /\ TrustedRetry(s, p, r, l, key)
                   \/ key \in pending.accepted /\ SudoRetry(s, p, r, l, key)
    BY <2>1
  <2>3. /\ s.generation = session.generation /\ s.present = session.present
        /\ s.sudo = session.sudo
    BY <1>1 DEF SessionType
  <2>4. OfSession(key) => Current(j)
    BY DEF OfSession, KeyOf, Key, Current
  <2> HIDE DEF s, r, key
  <2>5. CASE NoRetry(s, p, r, l)
    <3>1. jobs' = jobs /\ session' = s
      BY <2>5 DEF NoRetry
    <3> QED
      BY <1>2, <2>3, <3>1 DEF Stays
  <2>6. CASE key \in Keys /\ Retries(s, p, r, l, key)
    <3>1. NewCopies
      BY <1>1, <2>1, <2>6, RetriesCopy
    <3>2. Stays \/ OfSession(key)
      BY <1>1, <2>1, <2>3, <2>6, RetriesStay
    <3>3. Current(j) => Rests
      BY <2>1, DeliveredRests
    <3> QED
      BY <2>4, <3>1, <3>2, <3>3
  <2> QED
    BY <2>2, <2>5, <2>6, RetryCases
<1> QED
  BY <1>4, <1>5, <1>6, <1>7, <1>8 DEF Handlers

\* The answers: see NewCopies, Stays and Rests.
LEMMA AnswersCopy ==
  ASSUME CoreInv, DecisionInv, JobStep, Answers
  PROVE  NewCopies /\ (Stays \/ Rests)
<1>1. /\ TypeInv /\ TopicInv /\ OrderInv /\ session \in SessionType /\ logicals \in Seq(LogicalType)
      /\ None \notin Keys
  BY SessionParts, NoneIsNoKey DEF CoreInv, TypeInv
<1>2. ASSUME jobs' = jobs PROVE NewCopies
  <2>1. JobIds' = JobIds
    BY <1>2 DEF JobIds
  <2> QED
    BY <2>1, NoNewCopies
<1>3. ASSUME NEW key, key # None, OfSession(key), key \in {pending.key, pending.sudo}
      PROVE  Rests
  <2>1. \A j \in JobIds : Mine(j) => ~Unreported(j)
    BY <1>3 DEF DecisionInv, KeyDecision, SudoDecisions, Undecided
  <2>2. NothingInLine
    BY <2>1 DEF NothingInLine, Unreported
  <2> QED
    BY <1>1, <2>2, NothingRests
<1>4. CASE DeclineHostKey \/ DeclineSudo \/ DismissError
  <2>1. jobs' = jobs /\ session' = session
    BY <1>4 DEF DeclineHostKey, DeclineSudo, DismissError
  <2> QED
    BY <1>2, <2>1 DEF Stays
<1>5. CASE HostKeyStoreFails
  <2>1. jobs' = jobs /\ pending.key # None /\ OfSession(pending.key)
    BY <1>5 DEF HostKeyStoreFails, Exact
  <2> QED
    BY <1>2, <1>3, <2>1
<1>6. CASE ConfirmHostKey \/ AcceptSudo
  <2>1. PICK key \in Keys, s \in SessionType, p \in DecisionsType : Answering(key, s, p)
    BY <1>1, <1>6, AnswerCases
  <2>2. PICK q : Retries(s, q, records, logicals, key)
    <3>1. \/ NoRetry(s, [p EXCEPT !.trusted = @ \cup {key}], records, logicals)
          \/ NoRetry(s, [p EXCEPT !.accepted = @ \cup {key}], records, logicals)
          \/ key.op \in ConnectionOps /\ TrustedRetry(s, p, records, logicals, key)
          \/ SudoRetry(s, p, records, logicals, key)
      BY <2>1 DEF Answering
    <3> QED
      BY <3>1, RetryCases DEF Retries
  <2>3. /\ OfSession(key) /\ key \in {pending.key, pending.sudo}
        /\ s = session \/ s = [session EXCEPT !.sudo = TRUE]
    BY <2>1 DEF Answering, OfSession
  <2>4. Rests
    BY <1>1, <1>3, <2>3
  <2> QED
    BY <1>1, <2>2, <2>4, RetriesCopy
<1> QED
  BY <1>4, <1>5, <1>6 DEF Answers

\* A stack of handler remainders none of which found the connection broken.
Unbroken(q) == q \in Seq(FrameType) /\ \A i \in 1 .. Len(q) : ~Breaks(q[i])

\* One such stack on another is one.
LEMMA UnbrokenConcat ==
  ASSUME NEW p, Unbroken(p), NEW q, Unbroken(q)
  PROVE  Unbroken(p \o q)
BY HasConcat DEF Unbroken

\* So is one frame, or none, that does not tell of a broken connection.
LEMMA UnbrokenFrames ==
  Unbroken(<<>>) /\ \A f \in FrameType : ~Breaks(f) => Unbroken(<<f>>)
<1>1. Unbroken(<<>>)
  <2>1. <<>> \in Seq(FrameType) /\ Len(<<>>) = 0
    OBVIOUS
  <2> QED
    BY <2>1 DEF Unbroken
<1>2. ASSUME NEW f \in FrameType, ~Breaks(f) PROVE Unbroken(<<f>>)
  <2>1. <<f>> \in Seq(FrameType)
    OBVIOUS
  <2>2. PICK q \in Seq(FrameType) : q = <<f>>
    BY <2>1
  <2>3. Len(q) = 1 /\ q[1] = f
    BY <2>2
  <2>4. Unbroken(q)
    BY <1>2, <2>3 DEF Unbroken
  <2> QED
    BY <2>2, <2>4
<1> QED
  BY <1>1, <1>2

\* Nor does a dialog or the end of a handler.
LEMMA UnbrokenKinds ==
  ASSUME NEW j \in Nat, NEW result \in {None} \cup Results
  PROVE  /\ \A dialog \in Dialogs : Unbroken(Opens(dialog, j))
         /\ \A fn \in {"emit_succeeded", "emit_failed"} : Unbroken(<<Frame(fn, j, result)>>)
         /\ result \notin {"transport", "auth"}
              => Unbroken(<<Frame("rest_of_apply_failure", j, result)>>)
<1>1. ASSUME NEW dialog \in Dialogs PROVE Unbroken(Opens(dialog, j))
  <2>1. PICK f : f = Frame(dialog, j, None)
    OBVIOUS
  <2>2. f \in FrameType /\ ~Breaks(f)
    BY <2>1 DEF Frame, FrameType, Breaks, Dialogs
  <2> QED
    BY <2>1, <2>2, UnbrokenFrames DEF Opens
<1>2. ASSUME NEW fn \in {"emit_succeeded", "emit_failed"} PROVE Unbroken(<<Frame(fn, j, result)>>)
  <2>1. PICK f : f = Frame(fn, j, result)
    OBVIOUS
  <2>2. f \in FrameType /\ ~Breaks(f)
    BY <2>1 DEF Frame, FrameType, Breaks
  <2> QED
    BY <2>1, <2>2, UnbrokenFrames
<1>3. ASSUME result \notin {"transport", "auth"}
      PROVE  Unbroken(<<Frame("rest_of_apply_failure", j, result)>>)
  <2>1. PICK f : f = Frame("rest_of_apply_failure", j, result)
    OBVIOUS
  <2>2. f \in FrameType /\ ~Breaks(f)
    BY <1>3, <2>1 DEF Frame, FrameType, Breaks
  <2> QED
    BY <2>1, <2>2, UnbrokenFrames
<1> QED
  BY <1>1, <1>2, <1>3

\* Only the top of the stack may tell of one.
LEMMA UnbrokenBelow ==
  ASSUME StackInv, BreakInv
  PROVE  /\ stack # <<>> => Unbroken(Tail(stack))
         /\ (stack = <<>> \/ ~Breaks(Head(stack))) => Unbroken(stack)
<1>1. CASE stack = <<>>
  BY <1>1, UnbrokenFrames
<1>2. CASE stack # <<>>
  <2>1. /\ Head(stack) = stack[1] /\ Tail(stack) \in Seq(FrameType)
        /\ \A i \in 1 .. Len(Tail(stack)) : i + 1 \in 1 .. Len(stack) /\ Tail(stack)[i] = stack[i + 1]
        /\ stack \in Seq(FrameType)
    BY <1>2, HasTail DEF StackInv
  <2>2. \A i \in 1 .. Len(Tail(stack)) : i + 1 # 1
    <3>1. Len(Tail(stack)) \in Nat
      BY <2>1
    <3> QED
      BY <3>1
  <2>3. Unbroken(Tail(stack))
    BY <2>1, <2>2 DEF Unbroken, BreakInv
  <2>4. ~Breaks(Head(stack)) => Unbroken(stack)
    BY <2>1 DEF Unbroken, BreakInv
  <2> QED
    BY <1>2, <2>3, <2>4
<1> QED
  BY <1>1, <1>2

\* A failure that broke the connection is dealt with next.
LEMMA FailureBreaks ==
  ASSUME NEW j \in Nat, NEW result \in Results, NEW rest, Unbroken(rest), ApplyFailure(j, result, rest)
  PROVE  \/ Unbroken(stack')
         \/ /\ result \in {"transport", "auth"}
            /\ \A i \in 1 .. Len(stack') : Breaks(stack'[i]) => i = 1
<1> DEFINE again == Key(session.generation, jobs[j].op) \in pending.retried
           first == CASE result = "unknown_key" -> Opens("host_key", j)
                      [] result = "sudo_required" /\ ~again -> Opens("sudo", j)
                      [] OTHER -> <<>>
           frame == Frame("rest_of_apply_failure", j, result)
<1>1. stack' = first \o (<<frame>> \o rest) \/ stack' = (first \o <<frame>>) \o rest
  BY DEF ApplyFailure
<1>2. "host_key" \in Dialogs /\ "sudo" \in Dialogs
  BY DEF Dialogs
<1>3. Unbroken(first)
  <2>1. Unbroken(Opens("host_key", j)) /\ Unbroken(Opens("sudo", j)) /\ Unbroken(<<>>)
    BY <1>2, UnbrokenKinds, UnbrokenFrames
  <2> HIDE DEF again
  <2> QED
    BY <2>1
<1>4. CASE result \notin {"transport", "auth"}
  <2>1. Unbroken(<<frame>>)
    BY <1>4, UnbrokenKinds
  <2> HIDE DEF first, frame
  <2>2. PICK m : m = <<frame>> /\ Unbroken(m)
    BY <2>1
  <2>3. Unbroken(m \o rest) /\ Unbroken(first \o m)
    BY <1>3, <2>2, UnbrokenConcat
  <2>4. Unbroken(first \o (m \o rest)) /\ Unbroken((first \o m) \o rest)
    BY <1>3, <2>3, UnbrokenConcat
  <2> QED
    BY <1>1, <2>2, <2>4
<1>5. CASE result \in {"transport", "auth"}
  <2>1. first = <<>>
    BY <1>5
  <2>2. frame \in FrameType
    BY DEF Frame, FrameType
  <2> HIDE DEF first, frame
  <2>3. <<frame>> \in Seq(FrameType)
    BY <2>2
  <2>4. PICK m \in Seq(FrameType) : m = <<frame>>
    BY <2>3
  <2>5. Len(m) = 1 /\ rest \in Seq(FrameType) /\ first \in Seq(FrameType) /\ Len(first) = 0
    BY <1>3, <2>1, <2>4 DEF Unbroken
  <2>6. ASSUME NEW q \in Seq(FrameType), Len(q) = 1
        PROVE  \A i \in 1 .. Len(q \o rest) : Breaks((q \o rest)[i]) => i = 1
    <3>1. \A i \in 1 .. Len(q \o rest) : i \in 1 .. Len(q) \/ (\E k \in 1 .. Len(rest) : i = Len(q) + k)
      BY <2>5, HasConcat
    <3>2. \A k \in 1 .. Len(rest) : (q \o rest)[Len(q) + k] = rest[k] /\ ~Breaks(rest[k])
      BY <2>5, HasConcat DEF Unbroken
    <3>3. \A i \in 1 .. Len(q) : i = 1
      BY <2>6
    <3> QED
      BY <3>1, <3>2, <3>3
  <2>7. first \o m \in Seq(FrameType) /\ Len(first \o m) = 1
    BY <2>5, HasConcat
  <2>8. \A i \in 1 .. Len((first \o m) \o rest) : Breaks(((first \o m) \o rest)[i]) => i = 1
    BY <2>6, <2>7
  <2>9. \A i \in 1 .. Len(first \o (m \o rest)) : Breaks((first \o (m \o rest))[i]) => i = 1
    <3>1. m \o rest \in Seq(FrameType) /\ first \o (m \o rest) = m \o rest
      BY <2>1, <2>5, HasConcat, ConcatProperties
    <3> QED
      BY <2>5, <2>6, <3>1
  <2> QED
    BY <1>1, <1>5, <2>4, <2>8, <2>9
<1> QED
  BY <1>4, <1>5


\* What is not busy with a broken connection, or goes on with it, keeps BreakInv.
LEMMA UnbrokenKeeps ==
  ASSUME Unbroken(stack')
  PROVE  BreakInv'
BY DEF Unbroken, BreakInv

\* While no job comes into the line of the session, a broken connection waits.
LEMMA StillBreaks ==
  ASSUME TypeInv, OrderInv, JobStep, BreakInv, stack' = stack, JobIds' = JobIds,
         session' = session
  PROVE  BreakInv'
<1>1. \A j \in JobIds : /\ Mine(j)' <=> Mine(j)
                        /\ InLine(j)' => InLine(j)
  BY HeadsStay, Growth DEF Mine, Current
<1>2. NothingInLine => NothingInLine'
  BY <1>1 DEF NothingInLine
<1> QED
  BY <1>2 DEF BreakInv

\* A handler that found the connection broken ends before anything else is done.
LEMMA BreakKept ==
  ASSUME CoreInv, BusyInv, BreakInv, JobStep, [Next]_vars
  PROVE  BreakInv'
<1>1. /\ TypeInv /\ TopicInv /\ StackInv /\ OrderInv /\ JobIds \in SUBSET Nat
      /\ None \in {None} \cup Results /\ "ok" \in {None} \cup Results
  BY TokenTypes DEF CoreInv, Results
<1>2. /\ stack # <<>> => Unbroken(Tail(stack))
      /\ (stack = <<>> \/ ~Breaks(Head(stack))) => Unbroken(stack)
      /\ Unbroken(<<>>)
  BY <1>1, UnbrokenBelow, UnbrokenFrames
<1>3. Looping => Unbroken(stack)
  BY <1>2 DEF Looping, Dialogs, Breaks
<1>4. CASE Calls
  <2>1. Unbroken(stack) /\ stack' \in {stack, <<[fn |-> "wait_for_done"]>>}
    BY <1>2, <1>4
       DEF Calls, Connect, Disconnect, Reconnect, StartRead, StartMutation, ProvideSudoPassword,
           Select, ReloadChanged, ReloadRemoved, ReloadAdded, Shutdown, Request
  <2>2. PICK f : f = [fn |-> "wait_for_done"]
    OBVIOUS
  <2>3. f \in FrameType /\ ~Breaks(f)
    BY <2>2 DEF FrameType, Breaks
  <2> QED
    BY <2>1, <2>2, <2>3, UnbrokenFrames, UnbrokenKeeps
<1>5. CASE Work \/ UNCHANGED vars
  <2>1. CASE Work
    <3>1. stack' = stack /\ session' = session /\ SameJobs(jobs')
      BY <1>1, <2>1, WorkSteps DEF WorkStep, worker_only
    <3>2. JobIds' = JobIds
      BY <1>1, <3>1, JobIdsRange DEF SameJobs, JobIds
    <3> QED
      BY <1>1, <3>1, <3>2, StillBreaks
  <2>2. CASE UNCHANGED vars
    <3>1. stack' = stack /\ session' = session /\ JobIds' = JobIds
      BY <2>2 DEF vars, JobIds
    <3> QED
      BY <1>1, <3>1, StillBreaks
  <2> QED
    BY <1>5, <2>1, <2>2
<1>6. CASE OnSucceeded
  <2> DEFINE j == Head(events).job
             result == Head(events).result
  <2>1. /\ j \in JobIds /\ result \in Results
        /\ \/ DiscardSucceeded(j)
           \/ MutationSucceeded(j, result)
           \/ stack' = <<Frame("emit_succeeded", j, "ok")>> \o stack
    <3>1. j \in JobIds /\ result \in Results
      BY <1>1, <1>6, SucceededCases
    <3> QED
      BY <1>6, <3>1 DEF OnSucceeded
  <2>2. Unbroken(stack)
    BY <1>3, <1>6 DEF OnSucceeded
  <2> HIDE DEF j, result
  <2>3. /\ j \in Nat /\ result \in {None} \cup Results
        /\ "error" \in Dialogs
    BY <1>1, <2>1 DEF Dialogs
  <2>4. CASE DiscardSucceeded(j)
    BY <2>2, <2>4, UnbrokenKeeps DEF DiscardSucceeded
  <2>5. CASE stack' = <<Frame("emit_succeeded", j, "ok")>> \o stack
    <3>1. Unbroken(<<Frame("emit_succeeded", j, "ok")>>)
      BY <1>1, <2>3, UnbrokenKinds
    <3>2. PICK m : m = <<Frame("emit_succeeded", j, "ok")>>
      OBVIOUS
    <3>3. Unbroken(m \o stack)
      BY <2>2, <3>1, <3>2, UnbrokenConcat
    <3> QED
      BY <2>5, <3>2, <3>3, UnbrokenKeeps
  <2>6. CASE MutationSucceeded(j, result)
    <3>1. PICK m : m = <<Frame("emit_succeeded", j, result)>>
      OBVIOUS
    <3>2. PICK e : e = Opens("error", j)
      OBVIOUS
    <3>3. \/ stack' = m \o stack
          \/ stack' = <<>> \o (m \o stack) \/ stack' = (<<>> \o m) \o stack
          \/ stack' = e \o (m \o stack) \/ stack' = (e \o m) \o stack
      BY <2>6, <3>1, <3>2 DEF MutationSucceeded
    <3>4. Unbroken(m) /\ Unbroken(e)
      BY <2>3, <3>1, <3>2, UnbrokenKinds
    <3>5. Unbroken(m \o stack) /\ Unbroken(<<>> \o m) /\ Unbroken(e \o m)
      BY <1>2, <2>2, <3>4, UnbrokenConcat
    <3>6. /\ Unbroken(<<>> \o (m \o stack)) /\ Unbroken((<<>> \o m) \o stack)
          /\ Unbroken(e \o (m \o stack)) /\ Unbroken((e \o m) \o stack)
      BY <1>2, <2>2, <3>4, <3>5, UnbrokenConcat
    <3> QED
      BY <3>3, <3>5, <3>6, UnbrokenKeeps
  <2> QED
    BY <2>1, <2>4, <2>5, <2>6
<1>7. CASE OnFailed
  <2> DEFINE j == Head(events).job
             result == Head(events).result
  <2>1. /\ j \in JobIds /\ result \in Results /\ events # <<>> /\ Received
        /\ jobs' = jobs
        /\ \/ stack' = stack
           \/ /\ IsPublic(j) /\ Current(j)
              /\ ApplyFailure(j, result, <<Frame("emit_failed", j, result)>> \o stack)
    BY <1>1, <1>7, FailedCases
  <2>2. Unbroken(stack)
    BY <1>3, <1>7 DEF OnFailed
  <2>3. Current(j) => Rests
    BY <2>1, DeliveredRests
  <2> HIDE DEF j, result
  <2>4. CASE stack' = stack
    BY <2>2, <2>4, UnbrokenKeeps
  <2>5. CASE /\ IsPublic(j) /\ Current(j)
             /\ ApplyFailure(j, result, <<Frame("emit_failed", j, result)>> \o stack)
    <3>1. PICK m : m = <<Frame("emit_failed", j, result)>>
      OBVIOUS
    <3>2. j \in Nat /\ Unbroken(m)
      BY <1>1, <2>1, <3>1, UnbrokenKinds
    <3>3. Unbroken(m \o stack) /\ ApplyFailure(j, result, m \o stack)
      BY <2>2, <2>5, <3>1, <3>2, UnbrokenConcat
    <3>4. Unbroken(stack') \/ \A i \in 1 .. Len(stack') : Breaks(stack'[i]) => i = 1
      BY <2>1, <3>2, <3>3, FailureBreaks
    <3>5. PICK sudo \in BOOLEAN : \E status \in Statuses : FailedSession(j, result, sudo, status)
      BY <1>1, <2>1, <2>5, <3>3, FailureFacts
    <3>6. PICK status \in Statuses : FailedSession(j, result, sudo, status)
      BY <3>5
    <3>7. session'.generation = session.generation /\ session'.present = session.present
      BY <1>1, <2>1, <3>6, FailedParts
    <3>8. NothingInLine'
      BY <2>1, <2>3, <2>5, <3>7 DEF NothingInLine, Rests, Mine, Current, IsPublic, JobIds
    <3> QED
      BY <3>4, <3>8, UnbrokenKeeps DEF BreakInv
  <2> QED
    BY <2>1, <2>4, <2>5
<1>8. CASE OnFinished
  BY <1>3, <1>8, UnbrokenKeeps DEF OnFinished
<1>9. CASE EmitSucceeded \/ EmitFailed \/ DismissError \/ ShutdownReturns
  <2>1. stack' = <<>> \/ (stack # <<>> /\ stack' = Tail(stack))
    BY <1>9 DEF EmitSucceeded, EmitFailed, DismissError, ShutdownReturns
  <2> QED
    BY <1>2, <2>1, UnbrokenKeeps
<1>10. CASE RestOfApplyFailure
  <2>1. /\ stack # <<>> /\ Head(stack).fn = "rest_of_apply_failure"
        /\ stack' \in {<<>> \o Tail(stack), Opens("error", Head(stack).job) \o Tail(stack)}
    BY <1>10 DEF RestOfApplyFailure
  <2>2. Head(stack) \in FrameType
    BY <1>1, <2>1, HasTail DEF StackInv
  <2>3. Head(stack).job \in Nat /\ "error" \in Dialogs
    BY <2>1, <2>2 DEF FrameType, Dialogs
  <2>4. Unbroken(Opens("error", Head(stack).job))
    BY <1>1, <2>3, UnbrokenKinds
  <2>5. Unbroken(<<>> \o Tail(stack)) /\ Unbroken(Opens("error", Head(stack).job) \o Tail(stack))
    BY <1>2, <2>1, <2>4, UnbrokenConcat
  <2> QED
    BY <2>1, <2>5, UnbrokenKeeps
<1>11. ASSUME NEW prompt \in Prompts, NEW decision, CanAnswer(prompt, decision)
       PROVE  Unbroken(Answered)
  BY <1>2, <1>11 DEF CanAnswer, Answered
<1>12. CASE DeclineHostKey \/ DeclineSudo \/ ConfirmHostKey \/ AcceptSudo
  <2>1. PICK decision : \E prompt \in Prompts : CanAnswer(prompt, decision) /\ stack' = Answered
    BY <1>12 DEF DeclineHostKey, DeclineSudo, ConfirmHostKey, AcceptSudo, Prompts
  <2> QED
    BY <1>11, <2>1, UnbrokenKeeps
<1>13. CASE HostKeyStoreFails
  <2>1. PICK j \in JobIds : CanAnswer("host_key", pending.key) /\ ApplyFailure(j, "store_error", Answered)
    BY <1>1, <1>13, StoreFailsCases
  <2>2. "store_error" \in Results /\ j \in Nat /\ "host_key" \in Prompts
    BY <1>1 DEF Results, Prompts
  <2>3. Unbroken(Answered)
    BY <1>11, <2>1, <2>2
  <2> QED
    BY <2>1, <2>2, <2>3, FailureBreaks, UnbrokenKeeps
<1> QED
  BY <1>4, <1>5, <1>6, <1>7, <1>8, <1>9, <1>10, <1>12, <1>13 DEF Next, Handlers, Answers


\* Every step: see NewCopies, Stays, Rests and Leaves.
LEMMA StepCopies ==
  ASSUME CoreInv, AgreeInv, BreakInv, JobStep, [Next]_vars
  PROVE  NewCopies /\ (Stays \/ Rests \/ Leaves)
<1>1. TypeInv /\ BusyInv /\ DecisionInv
  BY DEF CoreInv, AgreeInv
<1>2. CASE Work \/ UNCHANGED vars
  <2>1. session' = session /\ JobIds' = JobIds
    <3>1. CASE Work
      <4>1. session' = session /\ SameJobs(jobs')
        BY <1>1, <3>1, WorkSteps DEF WorkStep, worker_only
      <4> QED
        BY <1>1, <4>1, JobIdsRange DEF SameJobs, JobIds
    <3>2. CASE UNCHANGED vars
      BY <3>2 DEF vars, JobIds
    <3> QED
      BY <1>2, <3>1, <3>2
  <2> QED
    BY <2>1, NoNewCopies DEF Stays
<1> QED
  BY <1>1, <1>2, CallCopies, HandlerCopies, AnswersCopy DEF Next

\* Only the session's own jobs carry a password.
SecretsPublic == \A j \in JobIds : jobs[j].sudo => IsPublic(j)

\* What the password of a job in line needs.
CopiesInv == SecretsPublic /\ BreakInv /\ CopiesFollowTheSession

\* There is no job before the first call.
LEMMA CopiesInitially ==
  ASSUME Init
  PROVE  CopiesInv
<1>1. jobs = <<>> /\ stack = <<>>
  BY DEF Init
<1>2. JobIds = {} /\ 1 .. Len(stack) = {}
  BY <1>1 DEF JobIds
<1> QED
  BY <1>2 DEF CopiesInv, SecretsPublic, BreakInv, CopiesFollowTheSession

\* Every step that submits a copy leaves it the session's, and a step that makes the
\* session forget its password leaves no job of the session in line, or gives it up.
LEMMA CopiesKept ==
  ASSUME CoreInv, AgreeInv, CopiesInv, [Next]_vars
  PROVE  CopiesInv'
<1>1. /\ TypeInv /\ TopicInv /\ OrderInv /\ BusyInv /\ OldGenerations
      /\ session.generation \in Nat
  BY SessionParts DEF CoreInv, AgreeInv, BusyInv
<1>2. JobStep /\ SessionStep /\ BreakInv
  BY <1>1, JobSteps, SessionSteps DEF CopiesInv
<1>3. NewCopies /\ (Stays \/ Rests \/ Leaves)
  BY <1>2, StepCopies
<1>4. /\ JobIds \subseteq JobIds'
      /\ \A j \in JobIds : /\ jobs'[j].generation = jobs[j].generation
                           /\ jobs'[j].sudo = jobs[j].sudo
                           /\ IsPublic(j)' = IsPublic(j)
                           /\ jobs[j].generation \in Nat
                           /\ jobs[j].generation <= session.generation
  <2>1. \A j \in JobIds : jobs[j] \in JobType
    BY <1>1, JobIdsRange DEF TypeInv
  <2>2. \A j \in JobIds : jobs[j].generation \in Nat
    BY <2>1 DEF JobType
  <2> QED
    BY <1>1, <1>2, <2>2, Growth DEF OldGenerations
<1>5. SecretsPublic'
  BY <1>3, <1>4 DEF NewCopies, SecretsPublic, CopiesInv, Mine
<1>6. BreakInv'
  BY <1>1, <1>2, BreakKept
<1>7. ASSUME NEW j \in JobIds', j \notin JobIds, jobs'[j].sudo
      PROVE  Current(j)' /\ session'.sudo
  BY <1>3, <1>7 DEF NewCopies, Mine
<1>8. ASSUME NEW j \in JobIds, InLine(j)', jobs'[j].sudo
      PROVE  IF Current(j)' THEN session'.sudo ELSE j = Head(line')
  <2>1. /\ InLine(j) /\ (j = Head(line) => j = Head(line'))
        /\ IsPublic(j) /\ jobs[j].sudo
    BY <1>1, <1>2, <1>4, <1>8, HeadsStay DEF SecretsPublic, CopiesInv
  <2>2. IF Current(j) THEN session.sudo ELSE j = Head(line)
    BY <2>1 DEF CopiesFollowTheSession, CopiesInv
  <2>3. CASE session'.generation = session.generation /\ session'.present = session.present
    <3>1. Current(j)' <=> Current(j)
      BY <1>4, <2>3 DEF Current
    <3>2. CASE Current(j)
      <4>1. Mine(j)
        BY <2>1, <3>2 DEF Mine
      <4>2. ~Rests /\ ~Leaves
        BY <1>1, <1>8, <2>3, <4>1 DEF Rests, Leaves
      <4> QED
        BY <1>3, <2>2, <3>1, <3>2, <4>2 DEF Stays
    <3> QED
      BY <2>1, <2>2, <3>1, <3>2
  <2>4. CASE session'.generation = session.generation + 1
    <3>1. ~Current(j)'
      BY <1>1, <1>4, <2>4 DEF Current
    <3>2. CASE Current(j)
      <4>1. Mine(j)
        BY <2>1, <3>2 DEF Mine
      <4>2. ~Rests /\ ~Stays
        BY <1>1, <1>8, <2>4, <4>1 DEF Rests, Stays
      <4> QED
        BY <1>3, <1>8, <3>1, <4>2 DEF Leaves
    <3> QED
      BY <2>1, <2>2, <3>1, <3>2
  <2> QED
    BY <1>2, <2>3, <2>4 DEF SessionStep, SessionGoesOn, SessionBegins
<1>9. CopiesFollowTheSession'
  BY <1>7, <1>8 DEF CopiesFollowTheSession
<1> QED
  BY <1>5, <1>6, <1>9 DEF CopiesInv

\* A session that is disconnected or removed has no password, a lost connection takes it,
\* and no job that waits has one the session has forgotten.
THEOREM SecretsStayWithTheSessionAlways == Spec => SecretsStayWithTheSession
<1>1. Init => HeldUntilDisconnect /\ CopiesInv
  BY PasswordInitially, CopiesInitially
<1>2. ASSUME CoreInv, AgreeInv, HeldUntilDisconnect, CopiesInv, [Next]_vars
      PROVE  HeldUntilDisconnect' /\ CopiesInv'
  <2>1. TypeInv /\ TopicInv
    BY <1>2 DEF CoreInv
  <2>2. HeldUntilDisconnect'
    BY <1>2, <2>1, PasswordKept
  <2>3. CopiesInv'
    BY <1>2, CopiesKept
  <2> QED
    BY <2>2, <2>3
<1>3. HeldUntilDisconnect /\ CopiesInv => HeldUntilDisconnect /\ CopiesFollowTheSession
  BY DEF CopiesInv
<1> QED
  BY <1>1, <1>2, <1>3, AgreeAlways, LostConnectionTakesTheSecretAlways, PTL
     DEF Spec, SecretsStayWithTheSession

=============================================================================
