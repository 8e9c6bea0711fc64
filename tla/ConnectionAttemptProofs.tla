----------------------- MODULE ConnectionAttemptProofs -----------------------
(***************************************************************************)
(* The ownership protocol is safe for any number of attempts, and hands    *)
(* every manager on as ManagerOwnership says.                              *)
(***************************************************************************)
EXTENDS ConnectionAttempt, TLAPS

(* The statements of work() before there is a manager, and from its          *)
(* registration to commit_success.                                           *)
Early == {"unborn", "before_factory", "factory"}
Late  == {"before_connect", "connect", "before_service", "service",
          "before_load", "load", "commit"}

\* The four fields of an attempt, its socket and its token, by where the worker
\* is.  Until commit_success or claim_failure_close nobody may claim; from there
\* on exactly one of "claimed" and "still to be delivered or live" holds.
WorkerOK(a) ==
    /\ worker[a] \in Early =>
         /\ ~registered[a] /\ ~worker_finished[a] /\ ~close_claimed[a]
         /\ socket[a] = Unmade /\ token[a] = "none"
    /\ worker[a] = "register" =>
         /\ ~registered[a] /\ ~worker_finished[a] /\ ~close_claimed[a]
         /\ socket[a] = Open /\ token[a] = "none"
    /\ worker[a] \in Late =>
         /\ registered[a] /\ ~worker_finished[a] /\ ~close_claimed[a]
         /\ socket[a] = Open /\ token[a] = "none"
    /\ worker[a] \in {"resigning", "closing"} =>
         /\ registered[a] /\ worker_finished[a] /\ close_claimed[a]
         /\ socket[a] = Open /\ token[a] = "none"
    /\ worker[a] = "failing" =>
         /\ token[a] = "none"
         /\ registered[a] /\ ~close_claimed[a] => socket[a] = Open
         /\ ~registered[a] => socket[a] = Unmade /\ ~close_claimed[a]
         /\ close_claimed[a] <=> worker_finished[a]
         /\ close_claimed[a] => socket[a] = Closed
    /\ worker[a] = "offered" =>
         /\ registered[a] /\ worker_finished[a]
         /\ close_claimed[a] <=> token[a] # "none"
         /\ ~close_claimed[a] => socket[a] = Open
    /\ worker[a] = "gone" =>
         /\ worker_finished[a]
         /\ ~registered[a] =>
              ~close_claimed[a] /\ token[a] = "none" /\ socket[a] = Unmade
         /\ registered[a] /\ token[a] = "none" /\ close_claimed[a] => socket[a] = Closed
         /\ registered[a] /\ token[a] = "none" /\ ~close_claimed[a] =>
              socket[a] = Open /\ live = a

\* A token stands for an open manager until it has closed it.
TokenOK(a) ==
    /\ token[a] \in {"open", "closing"} => socket[a] = Open
    /\ token[a] = "closed" => socket[a] = Closed

\* The attempt the session holds is launched and its manager nobody's but the
\* worker's or the result's; the live manager is nobody's but the session's.
SessionOK ==
    /\ current # None =>
         /\ live = None
         /\ worker[current] # "unborn" /\ token[current] = "none"
         /\ worker[current] = "offered" => ~close_claimed[current]
         /\ worker[current] = "gone" => ~registered[current] \/ close_claimed[current]
    /\ live # None =>
         /\ worker[live] = "gone" /\ registered[live] /\ ~close_claimed[live]
         /\ token[live] = "none"
    /\ qt = "invalidating" => current # None

OwnershipInv ==
    /\ \A a \in Attempts : WorkerOK(a) /\ TokenOK(a)
    /\ SessionOK

-----------------------------------------------------------------------------
\* In the beginning every variable has its type.
THEOREM InitType == Init => TypeOK
  BY DEF Init, TypeOK, WorkerSteps

\* Every step keeps the types.
THEOREM NextType == TypeOK /\ [Next]_vars => TypeOK'
<1> SUFFICES ASSUME TypeOK, [Next]_vars PROVE TypeOK'
  OBVIOUS
<1> USE NoneAssumption DEF TypeOK, fields, GoTo, WorkerSteps, Checks, Statements
<1>1. ASSUME NEW a \in Attempts, Check(a) PROVE TypeOK'
  BY <1>1 DEF Check, AfterCheck
<1>2. ASSUME NEW a \in Attempts, Factory(a) PROVE TypeOK'
  BY <1>2 DEF Factory
<1>3. ASSUME NEW a \in Attempts, RegisterManager(a) PROVE TypeOK'
  BY <1>3 DEF RegisterManager
<1>4. ASSUME NEW a \in Attempts, Remote(a) PROVE TypeOK'
  BY <1>4 DEF Remote, AfterStatement
<1>5. ASSUME NEW a \in Attempts, CommitSuccess(a) PROVE TypeOK'
  BY <1>5 DEF CommitSuccess
<1>6. ASSUME NEW a \in Attempts, Resign(a) PROVE TypeOK'
  BY <1>6 DEF Resign, Disconnected
<1>7. ASSUME NEW a \in Attempts, ClaimFailureClose(a) PROVE TypeOK'
  BY <1>7 DEF ClaimFailureClose
<1>8. ASSUME NEW a \in Attempts, CloseFailed(a) PROVE TypeOK'
  BY <1>8 DEF CloseFailed, Disconnected
<1>9. ASSUME NEW a \in Attempts, CloseStep(a) PROVE TypeOK'
  BY <1>9 DEF CloseStep, CloseOnce, CloseOnceDone, Disconnected
<1>10. ASSUME NEW a \in Attempts, Launch(a) PROVE TypeOK'
  BY <1>10 DEF Launch
<1>11. CASE InvalidateSet
  BY <1>11 DEF InvalidateSet
<1>12. CASE InvalidateClaim
  BY <1>12 DEF InvalidateClaim
<1>13. CASE DetachLive
  BY <1>13 DEF DetachLive
<1>14. ASSUME NEW a \in Attempts, Deliver(a) PROVE TypeOK'
  BY <1>14 DEF Deliver, OnSucceeded, OnFailed
<1>15. CASE UNCHANGED vars
  BY <1>15 DEF vars
<1> QED
  BY <1>1, <1>2, <1>3, <1>4, <1>5, <1>6, <1>7, <1>8, <1>9, <1>10, <1>11, <1>12,
     <1>13, <1>14, <1>15 DEF Next, WorkerStep

-----------------------------------------------------------------------------
\* In the beginning there is nothing to own.
THEOREM InitOwnership == Init => OwnershipInv
  BY NoneAssumption DEF Init, OwnershipInv, WorkerOK, TokenOK, SessionOK, Early, Late

\* A step that does not touch an attempt leaves it in order.
LEMMA AttemptFrame ==
  ASSUME NEW a \in Attempts, WorkerOK(a), TokenOK(a),
         worker'[a] = worker[a], socket'[a] = socket[a], token'[a] = token[a],
         registered'[a] = registered[a], worker_finished'[a] = worker_finished[a],
         close_claimed'[a] = close_claimed[a], live = a => live' = a
  PROVE  WorkerOK(a)' /\ TokenOK(a)'
<1>1. WorkerOK(a)'
  BY DEF WorkerOK
<1>2. TokenOK(a)'
  BY DEF TokenOK
<1> QED
  BY <1>1, <1>2

\* Every step leaves every attempt with exactly one closer.
THEOREM NextOwnership == TypeOK /\ OwnershipInv /\ [Next]_vars => OwnershipInv'
<1> SUFFICES ASSUME TypeOK, OwnershipInv, [Next]_vars PROVE OwnershipInv'
  OBVIOUS
<1> USE NoneAssumption
<1>1. ASSUME NEW a \in Attempts, Check(a) PROVE OwnershipInv'
  <2>1. WorkerOK(a)' /\ TokenOK(a)'
    BY <1>1 DEF OwnershipInv, WorkerOK, TokenOK, SessionOK, TypeOK, Check, AfterCheck, Checks,
                 GoTo, fields, Early, Late
  <2>2. \A b \in Attempts \ {a} : WorkerOK(b)' /\ TokenOK(b)'
    BY <1>1, AttemptFrame DEF OwnershipInv, SessionOK, TypeOK, Check, GoTo, fields
  <2>3. SessionOK'
    BY <1>1 DEF OwnershipInv, WorkerOK, SessionOK, TypeOK, Check, AfterCheck, Checks,
                 GoTo, fields, Early, Late
  <2> QED
    BY <2>1, <2>2, <2>3 DEF OwnershipInv
<1>2. ASSUME NEW a \in Attempts, Factory(a) PROVE OwnershipInv'
  <2>1. WorkerOK(a)' /\ TokenOK(a)'
    BY <1>2 DEF OwnershipInv, WorkerOK, TokenOK, SessionOK, TypeOK, Factory,
                 GoTo, fields, Early, Late
  <2>2. \A b \in Attempts \ {a} : WorkerOK(b)' /\ TokenOK(b)'
    BY <1>2, AttemptFrame DEF OwnershipInv, SessionOK, TypeOK, Factory, GoTo, fields
  <2>3. SessionOK'
    BY <1>2 DEF OwnershipInv, WorkerOK, SessionOK, TypeOK, Factory,
                 GoTo, fields, Early, Late
  <2> QED
    BY <2>1, <2>2, <2>3 DEF OwnershipInv
<1>3. ASSUME NEW a \in Attempts, RegisterManager(a) PROVE OwnershipInv'
  <2>1. WorkerOK(a)' /\ TokenOK(a)'
    BY <1>3 DEF OwnershipInv, WorkerOK, TokenOK, SessionOK, TypeOK, RegisterManager,
                 GoTo, fields, Early, Late
  <2>2. \A b \in Attempts \ {a} : WorkerOK(b)' /\ TokenOK(b)'
    BY <1>3, AttemptFrame DEF OwnershipInv, SessionOK, TypeOK, RegisterManager, GoTo, fields
  <2>3. SessionOK'
    BY <1>3 DEF OwnershipInv, WorkerOK, SessionOK, TypeOK, RegisterManager,
                 GoTo, fields, Early, Late
  <2> QED
    BY <2>1, <2>2, <2>3 DEF OwnershipInv
<1>4. ASSUME NEW a \in Attempts, Remote(a) PROVE OwnershipInv'
  <2>1. WorkerOK(a)' /\ TokenOK(a)'
    BY <1>4 DEF OwnershipInv, WorkerOK, TokenOK, SessionOK, TypeOK, Remote, AfterStatement,
                 GoTo, fields, Early, Late
  <2>2. \A b \in Attempts \ {a} : WorkerOK(b)' /\ TokenOK(b)'
    BY <1>4, AttemptFrame DEF OwnershipInv, SessionOK, TypeOK, Remote, GoTo, fields
  <2>3. SessionOK'
    BY <1>4 DEF OwnershipInv, WorkerOK, SessionOK, TypeOK, Remote, AfterStatement,
                 GoTo, fields, Early, Late
  <2> QED
    BY <2>1, <2>2, <2>3 DEF OwnershipInv
<1>5. ASSUME NEW a \in Attempts, CommitSuccess(a) PROVE OwnershipInv'
  <2>1. WorkerOK(a)' /\ TokenOK(a)'
    BY <1>5 DEF OwnershipInv, WorkerOK, TokenOK, SessionOK, TypeOK, CommitSuccess,
                 GoTo, fields, Early, Late
  <2>2. \A b \in Attempts \ {a} : WorkerOK(b)' /\ TokenOK(b)'
    BY <1>5, AttemptFrame DEF OwnershipInv, SessionOK, TypeOK, CommitSuccess, GoTo, fields
  <2>3. SessionOK'
    BY <1>5 DEF OwnershipInv, WorkerOK, SessionOK, TypeOK, CommitSuccess,
                 GoTo, fields, Early, Late
  <2> QED
    BY <2>1, <2>2, <2>3 DEF OwnershipInv
<1>6. ASSUME NEW a \in Attempts, Resign(a) PROVE OwnershipInv'
  <2>1. WorkerOK(a)' /\ TokenOK(a)'
    BY <1>6 DEF OwnershipInv, WorkerOK, TokenOK, SessionOK, TypeOK, Resign, Disconnected,
                 GoTo, fields, Early, Late
  <2>2. \A b \in Attempts \ {a} : WorkerOK(b)' /\ TokenOK(b)'
    BY <1>6, AttemptFrame DEF OwnershipInv, SessionOK, TypeOK, Resign, GoTo, fields
  <2>3. SessionOK'
    BY <1>6 DEF OwnershipInv, WorkerOK, SessionOK, TypeOK, Resign, Disconnected,
                 GoTo, fields, Early, Late
  <2> QED
    BY <2>1, <2>2, <2>3 DEF OwnershipInv
<1>7. ASSUME NEW a \in Attempts, ClaimFailureClose(a) PROVE OwnershipInv'
  <2>1. WorkerOK(a)' /\ TokenOK(a)'
    BY <1>7 DEF OwnershipInv, WorkerOK, TokenOK, SessionOK, TypeOK, ClaimFailureClose, FailureClaims,
                 GoTo, fields, Early, Late
  <2>2. \A b \in Attempts \ {a} : WorkerOK(b)' /\ TokenOK(b)'
    BY <1>7, AttemptFrame DEF OwnershipInv, SessionOK, TypeOK, ClaimFailureClose, GoTo, fields
  <2>3. SessionOK'
    BY <1>7 DEF OwnershipInv, WorkerOK, SessionOK, TypeOK, ClaimFailureClose, FailureClaims,
                 GoTo, fields, Early, Late
  <2> QED
    BY <2>1, <2>2, <2>3 DEF OwnershipInv
<1>8. ASSUME NEW a \in Attempts, CloseFailed(a) PROVE OwnershipInv'
  <2>1. WorkerOK(a)' /\ TokenOK(a)'
    BY <1>8 DEF OwnershipInv, WorkerOK, TokenOK, SessionOK, TypeOK, CloseFailed, Disconnected,
                 GoTo, fields, Early, Late
  <2>2. \A b \in Attempts \ {a} : WorkerOK(b)' /\ TokenOK(b)'
    BY <1>8, AttemptFrame DEF OwnershipInv, SessionOK, TypeOK, CloseFailed, GoTo, fields
  <2>3. SessionOK'
    BY <1>8 DEF OwnershipInv, WorkerOK, SessionOK, TypeOK, CloseFailed, Disconnected,
                 GoTo, fields, Early, Late
  <2> QED
    BY <2>1, <2>2, <2>3 DEF OwnershipInv
<1>9. ASSUME NEW a \in Attempts, CloseOnce(a) PROVE OwnershipInv'
  <2>1. WorkerOK(a)' /\ TokenOK(a)'
    BY <1>9 DEF OwnershipInv, WorkerOK, TokenOK, SessionOK, TypeOK, CloseOnce,
                 GoTo, fields, Early, Late
  <2>2. \A b \in Attempts \ {a} : WorkerOK(b)' /\ TokenOK(b)'
    BY <1>9, AttemptFrame DEF OwnershipInv, SessionOK, TypeOK, CloseOnce, GoTo, fields
  <2>3. SessionOK'
    BY <1>9 DEF OwnershipInv, WorkerOK, SessionOK, TypeOK, CloseOnce,
                 GoTo, fields, Early, Late
  <2> QED
    BY <2>1, <2>2, <2>3 DEF OwnershipInv
<1>10. ASSUME NEW a \in Attempts, CloseOnceDone(a) PROVE OwnershipInv'
  <2>1. WorkerOK(a)' /\ TokenOK(a)'
    BY <1>10 DEF OwnershipInv, WorkerOK, TokenOK, SessionOK, TypeOK, CloseOnceDone, Disconnected,
                 GoTo, fields, Early, Late
  <2>2. \A b \in Attempts \ {a} : WorkerOK(b)' /\ TokenOK(b)'
    BY <1>10, AttemptFrame DEF OwnershipInv, SessionOK, TypeOK, CloseOnceDone, GoTo, fields
  <2>3. SessionOK'
    BY <1>10 DEF OwnershipInv, WorkerOK, SessionOK, TypeOK, CloseOnceDone, Disconnected,
                 GoTo, fields, Early, Late
  <2> QED
    BY <2>1, <2>2, <2>3 DEF OwnershipInv
<1>11. ASSUME NEW a \in Attempts, Launch(a) PROVE OwnershipInv'
  <2>1. WorkerOK(a)' /\ TokenOK(a)'
    BY <1>11 DEF OwnershipInv, WorkerOK, TokenOK, SessionOK, TypeOK, Launch,
                 GoTo, fields, Early, Late
  <2>2. \A b \in Attempts \ {a} : WorkerOK(b)' /\ TokenOK(b)'
    BY <1>11, AttemptFrame DEF OwnershipInv, SessionOK, TypeOK, Launch, GoTo, fields
  <2>3. SessionOK'
    BY <1>11 DEF OwnershipInv, WorkerOK, SessionOK, TypeOK, Launch,
                 GoTo, fields, Early, Late
  <2> QED
    BY <2>1, <2>2, <2>3 DEF OwnershipInv
<1>12. ASSUME NEW a \in Attempts, OnSucceeded(a) PROVE OwnershipInv'
  <2>1. WorkerOK(a)' /\ TokenOK(a)'
    BY <1>12 DEF OwnershipInv, WorkerOK, TokenOK, SessionOK, TypeOK, OnSucceeded, InvalidateClaims, Adopts,
                 GoTo, fields, Early, Late
  <2>2. \A b \in Attempts \ {a} : WorkerOK(b)' /\ TokenOK(b)'
    <3>1. CASE current = a
      BY <1>12, <3>1, AttemptFrame
      DEF OwnershipInv, SessionOK, TypeOK, OnSucceeded, Adopts, GoTo, fields
    <3>2. CASE current # a
      BY <1>12, <3>2, AttemptFrame
      DEF OwnershipInv, TypeOK, OnSucceeded, Adopts, GoTo, fields
    <3> QED
      BY <3>1, <3>2
  <2>3. SessionOK'
    BY <1>12 DEF OwnershipInv, WorkerOK, SessionOK, TypeOK, OnSucceeded, InvalidateClaims, Adopts,
                 GoTo, fields, Early, Late
  <2> QED
    BY <2>1, <2>2, <2>3 DEF OwnershipInv
<1>13. ASSUME NEW a \in Attempts, OnFailed(a) PROVE OwnershipInv'
  <2>1. WorkerOK(a)' /\ TokenOK(a)'
    BY <1>13 DEF OwnershipInv, WorkerOK, TokenOK, SessionOK, TypeOK, OnFailed,
                 GoTo, fields, Early, Late
  <2>2. \A b \in Attempts \ {a} : WorkerOK(b)' /\ TokenOK(b)'
    BY <1>13, AttemptFrame DEF OwnershipInv, SessionOK, TypeOK, OnFailed, GoTo, fields
  <2>3. SessionOK'
    BY <1>13 DEF OwnershipInv, WorkerOK, SessionOK, TypeOK, OnFailed,
                 GoTo, fields, Early, Late
  <2> QED
    BY <2>1, <2>2, <2>3 DEF OwnershipInv
<1>14. CASE InvalidateSet
  <2>1. \A b \in Attempts : WorkerOK(b)' /\ TokenOK(b)'
    BY <1>14, AttemptFrame DEF OwnershipInv, InvalidateSet
  <2>2. SessionOK'
    BY <1>14 DEF OwnershipInv, SessionOK, InvalidateSet
  <2> QED
    BY <2>1, <2>2 DEF OwnershipInv
<1>15. CASE InvalidateClaim
  <2>1. current \in Attempts
    BY <1>15 DEF OwnershipInv, SessionOK, InvalidateClaim, TypeOK
  <2>2. ASSUME NEW a \in Attempts, a = current PROVE WorkerOK(a)' /\ TokenOK(a)'
    <3>1. WorkerOK(a) /\ TokenOK(a)
      BY DEF OwnershipInv
    <3>2. CASE InvalidateClaims(a)
      <4>1. worker[a] = "offered"
        BY <2>2, <3>1, <3>2, NoneAssumption
        DEF OwnershipInv, WorkerOK, SessionOK, InvalidateClaims, TypeOK, WorkerSteps, Checks,
            Statements, Early, Late
      <4>2. socket[a] = Open /\ registered[a] /\ worker_finished[a]
        BY <3>1, <3>2, <4>1 DEF WorkerOK, InvalidateClaims
      <4>3. /\ close_claimed'[a] = TRUE /\ token'[a] = "open"
            /\ UNCHANGED <<worker, socket, registered, worker_finished>>
        BY <1>15, <2>2, <3>2 DEF InvalidateClaim, TypeOK
      <4> QED
        BY <4>1, <4>2, <4>3 DEF WorkerOK, TokenOK, Early, Late
    <3>3. CASE ~InvalidateClaims(a)
      BY <1>15, <2>2, <3>1, <3>3, AttemptFrame DEF InvalidateClaim
    <3> QED
      BY <3>2, <3>3
  <2>3. \A b \in Attempts \ {current} : WorkerOK(b)' /\ TokenOK(b)'
    BY <1>15, <2>1, AttemptFrame DEF OwnershipInv, TypeOK, InvalidateClaim
  <2>4. SessionOK'
    BY <1>15, <2>1 DEF OwnershipInv, SessionOK, TypeOK, InvalidateClaim
  <2> QED
    BY <2>2, <2>3, <2>4 DEF OwnershipInv
<1>16. CASE DetachLive
  <2>1. live \in Attempts
    BY <1>16 DEF DetachLive, TypeOK
  <2>2. ASSUME NEW a \in Attempts, a = live PROVE WorkerOK(a)' /\ TokenOK(a)'
    BY <1>16, <2>2 DEF OwnershipInv, WorkerOK, TokenOK, SessionOK, TypeOK, DetachLive, fields,
                       Early, Late
  <2>3. \A b \in Attempts \ {live} : WorkerOK(b)' /\ TokenOK(b)'
    BY <1>16, <2>1, AttemptFrame DEF OwnershipInv, TypeOK, DetachLive, fields
  <2>4. SessionOK'
    BY <1>16, <2>1 DEF OwnershipInv, SessionOK, TypeOK, DetachLive, fields
  <2> QED
    BY <2>2, <2>3, <2>4 DEF OwnershipInv
<1>17. CASE UNCHANGED vars
  <2>1. \A b \in Attempts : WorkerOK(b)' /\ TokenOK(b)'
    BY <1>17, AttemptFrame DEF OwnershipInv, vars, fields
  <2>2. SessionOK'
    BY <1>17 DEF OwnershipInv, SessionOK, vars, fields
  <2> QED
    BY <2>1, <2>2 DEF OwnershipInv
<1> QED
  BY <1>1, <1>2, <1>3, <1>4, <1>5, <1>6, <1>7, <1>8, <1>9,
     <1>10, <1>11, <1>12, <1>13, <1>14, <1>15, <1>16, <1>17
  DEF Next, WorkerStep, CloseStep, Deliver

-----------------------------------------------------------------------------
(* What follows for every behaviour.                                        *)

\* Every variable keeps its type.
THEOREM TypeCorrect == Spec => []TypeOK
  BY InitType, NextType, PTL DEF Spec

\* The invariant the other theorems rest on.
THEOREM OwnershipInOrder == Spec => []OwnershipInv
  BY InitOwnership, NextOwnership, TypeCorrect, PTL DEF Spec

\* No connection is closed twice, by its worker, the Qt thread's invalidation
\* or a close job (claim_failure_close, commit_success, invalidate, close_once).
THEOREM NoDoubleClose == Spec => []ClosedOnce
<1>1. TypeOK /\ OwnershipInv => ClosedOnce
  BY DEF OwnershipInv, WorkerOK, TokenOK, ClosedOnce, TypeOK, WorkerSteps, Checks,
         Statements, Early, Late, Unmade, Open, Closed, Twice
<1> QED
  BY <1>1, TypeCorrect, OwnershipInOrder, PTL

\* The session's manager is open and nobody is to close it (_on_succeeded).
THEOREM SessionTalksToOpenManager == Spec => []LiveIsOpen
<1>1. TypeOK /\ OwnershipInv => LiveIsOpen
  BY NoneAssumption
  DEF OwnershipInv, WorkerOK, SessionOK, LiveIsOpen, TypeOK, Early, Late
<1> QED
  BY <1>1, TypeCorrect, OwnershipInOrder, PTL

\* Every open connection has somebody who answers for it, at every step of work(),
\* of an invalidation and of a close job.
THEOREM NoConnectionLeaks == Spec => []NobodyLeaks
<1>1. TypeOK /\ OwnershipInv => NobodyLeaks
  BY DEF OwnershipInv, WorkerOK, TokenOK, NobodyLeaks, OwnerOf, TypeOK, WorkerSteps, Checks,
         Statements, Early, Late, Unmade, Open, Closed, Twice
<1> QED
  BY <1>1, TypeCorrect, OwnershipInOrder, PTL

\* Every connection has one who answers for it: its worker, its undelivered result,
\* the session or one closer (_ConnectionAttempt, _ManagerCloseToken).
THEOREM OneAnswersForEach == Spec => []OneResponsible
<1>1. ClosedOnce /\ LiveIsOpen /\ NobodyLeaks => OneResponsible
  BY DEF OneResponsible
<1> QED
  BY <1>1, NoDoubleClose, SessionTalksToOpenManager, NoConnectionLeaks, PTL

-----------------------------------------------------------------------------
(* The refinement.                                                          *)

\* The owner of an attempt's manager, read off its fields.
OwnerTable(a) ==
    /\ socket[a] = Unmade => OwnerOf(a) = "unmade"
    /\ socket[a] = Closed => OwnerOf(a) = "closed"
    /\ socket[a] = Open /\ live = a => OwnerOf(a) = "session"
    /\ socket[a] = Open /\ token[a] \in {"open", "closing"} => OwnerOf(a) = "closer"
    /\ worker[a] \in {"resigning", "closing"} => OwnerOf(a) = "closer"
    /\ worker[a] = "offered" /\ ~close_claimed[a] => OwnerOf(a) = "result"
    /\ worker[a] \in {"register"} \cup Late => OwnerOf(a) = "worker"
    /\ worker[a] = "failing" /\ socket[a] = Open => OwnerOf(a) = "worker"

\* The table is right wherever the invariant holds.
LEMMA OwnersAreKnown == TypeOK /\ OwnershipInv => \A a \in Attempts : OwnerTable(a)
<1> SUFFICES ASSUME TypeOK, OwnershipInv, NEW a \in Attempts PROVE OwnerTable(a)
  OBVIOUS
<1>1. WorkerOK(a) /\ TokenOK(a)
  BY DEF OwnershipInv
<1>2. live = a => worker[a] = "gone" /\ token[a] = "none" /\ ~close_claimed[a]
  BY NoneAssumption DEF OwnershipInv, SessionOK
<1>3. Unmade # Open /\ Unmade # Closed /\ Open # Closed /\ Open # Twice /\ Unmade # Twice
  BY DEF Unmade, Open, Closed, Twice
<1> QED
  BY <1>1, <1>2, <1>3 DEF OwnerTable, OwnerOf, WorkerOK, TokenOK, Early, Late

\* The managers of the other attempts stay with their owners.
LEMMA OwnerFrame ==
  ASSUME NEW a \in Attempts,
         worker'[a] = worker[a], socket'[a] = socket[a], token'[a] = token[a],
         close_claimed'[a] = close_claimed[a], live' = a <=> live = a
  PROVE  OwnerOf(a)' = OwnerOf(a)
  BY DEF OwnerOf

\* What a step does to the owners: one manager passes on, at most.
Passes(a, from, to) ==
    /\ OwnerOf(a) = from /\ OwnerOf(a)' = to
    /\ \A b \in Attempts \ {a} : OwnerOf(b)' = OwnerOf(b)

Stays == \A a \in Attempts : OwnerOf(a)' = OwnerOf(a)

Handover(a) ==
    \/ Stays
    \/ Passes(a, "unmade", "worker")
    \/ Passes(a, "worker", "result")
    \/ Passes(a, "result", "session") /\ \A b \in Attempts : OwnerOf(b)' = "session" => b = a
    \/ \E from \in {"worker", "result", "session"} : Passes(a, from, "closer")
    \/ Passes(a, "closer", "closed")

EveryoneOwned == \A a \in Attempts : OwnerOf(a) \in Ownership!Owners

\* Somebody answers for every manager.
LEMMA SomebodyOwns ==
  TypeOK /\ OwnershipInv => EveryoneOwned
<1> SUFFICES ASSUME TypeOK, OwnershipInv, NEW a \in Attempts
             PROVE  OwnerOf(a) \in Ownership!Owners
  BY DEF EveryoneOwned
<1>1. WorkerOK(a) /\ TokenOK(a)
  BY DEF OwnershipInv
<1> QED
  BY <1>1 DEF Ownership!Owners, OwnerOf, WorkerOK, TokenOK, TypeOK, WorkerSteps, Checks,
              Statements, Early, Late, Unmade, Open, Closed, Twice

\* Every step of an attempt hands its manager on, or nothing changes hands.
LEMMA StepsHandOver ==
  ASSUME TypeOK, OwnershipInv, TypeOK', OwnershipInv', [Next]_vars
  PROVE  Stays \/ \E a \in Attempts : Handover(a)
<1> USE NoneAssumption
<1>1. \A a \in Attempts : OwnerTable(a) /\ WorkerOK(a) /\ TokenOK(a)
  BY OwnersAreKnown DEF OwnershipInv
<1>2. \A a \in Attempts : OwnerTable(a)'
  <2>1. (TypeOK /\ OwnershipInv => \A a \in Attempts : OwnerTable(a))'
    BY OwnersAreKnown, PTL
  <2> QED
    BY <2>1
<1>3. ASSUME NEW a \in Attempts,
             OwnerOf(a)' = OwnerOf(a),
             \A b \in Attempts \ {a} : OwnerOf(b)' = OwnerOf(b)
      PROVE  Stays
  BY <1>3 DEF Stays
<1>4. ASSUME NEW a \in Attempts, Check(a) PROVE Handover(a)
  <2>1. \A b \in Attempts \ {a} : OwnerOf(b)' = OwnerOf(b)
    BY <1>4, OwnerFrame DEF Check, TypeOK, OwnershipInv, SessionOK, GoTo, fields
  <2> QED
    BY <1>4, <2>1, <1>1, <1>2, <1>3
    DEF Handover, Passes, OwnerTable, WorkerOK, TokenOK, TypeOK, Check, Checks, AfterCheck,
        GoTo, fields, Early, Late
<1>5. ASSUME NEW a \in Attempts, Factory(a) PROVE Handover(a)
  <2>1. \A b \in Attempts \ {a} : OwnerOf(b)' = OwnerOf(b)
    BY <1>5, OwnerFrame DEF Factory, TypeOK, OwnershipInv, SessionOK, GoTo, fields
  <2> QED
    BY <1>5, <2>1, <1>1, <1>2, <1>3
    DEF Handover, Passes, OwnerTable, WorkerOK, TokenOK, TypeOK, Factory,
        GoTo, fields, Early, Late
<1>6. ASSUME NEW a \in Attempts, RegisterManager(a) PROVE Handover(a)
  <2>1. \A b \in Attempts \ {a} : OwnerOf(b)' = OwnerOf(b)
    BY <1>6, OwnerFrame DEF RegisterManager, TypeOK, OwnershipInv, SessionOK, GoTo, fields
  <2> QED
    BY <1>6, <2>1, <1>1, <1>2, <1>3
    DEF Handover, Passes, OwnerTable, WorkerOK, TokenOK, TypeOK, RegisterManager,
        GoTo, fields, Early, Late
<1>7. ASSUME NEW a \in Attempts, Remote(a) PROVE Handover(a)
  <2>1. \A b \in Attempts \ {a} : OwnerOf(b)' = OwnerOf(b)
    BY <1>7, OwnerFrame DEF Remote, TypeOK, OwnershipInv, SessionOK, GoTo, fields
  <2> QED
    BY <1>7, <2>1, <1>1, <1>2, <1>3
    DEF Handover, Passes, OwnerTable, WorkerOK, TokenOK, TypeOK, Remote, AfterStatement,
        GoTo, fields, Early, Late
<1>8. ASSUME NEW a \in Attempts, CommitSuccess(a) PROVE Handover(a)
  <2>1. \A b \in Attempts \ {a} : OwnerOf(b)' = OwnerOf(b)
    BY <1>8, OwnerFrame DEF CommitSuccess, TypeOK, OwnershipInv, SessionOK, GoTo, fields
  <2> QED
    BY <1>8, <2>1, <1>1, <1>2, <1>3
    DEF Handover, Passes, OwnerTable, WorkerOK, TokenOK, TypeOK, CommitSuccess,
        GoTo, fields, Early, Late
<1>9. ASSUME NEW a \in Attempts, Resign(a) PROVE Handover(a)
  <2>1. \A b \in Attempts \ {a} : OwnerOf(b)' = OwnerOf(b)
    BY <1>9, OwnerFrame DEF Resign, TypeOK, OwnershipInv, SessionOK, GoTo, fields
  <2> QED
    BY <1>9, <2>1, <1>1, <1>2, <1>3
    DEF Handover, Passes, OwnerTable, WorkerOK, TokenOK, TypeOK, Resign, Disconnected,
        GoTo, fields, Early, Late
<1>10. ASSUME NEW a \in Attempts, ClaimFailureClose(a) PROVE Handover(a)
  <2>1. \A b \in Attempts \ {a} : OwnerOf(b)' = OwnerOf(b)
    BY <1>10, OwnerFrame DEF ClaimFailureClose, TypeOK, OwnershipInv, SessionOK, GoTo, fields
  <2> QED
    BY <1>10, <2>1, <1>1, <1>2, <1>3
    DEF Handover, Passes, OwnerTable, WorkerOK, TokenOK, TypeOK, ClaimFailureClose, FailureClaims,
        GoTo, fields, Early, Late
<1>11. ASSUME NEW a \in Attempts, CloseFailed(a) PROVE Handover(a)
  <2>1. \A b \in Attempts \ {a} : OwnerOf(b)' = OwnerOf(b)
    BY <1>11, OwnerFrame DEF CloseFailed, TypeOK, OwnershipInv, SessionOK, GoTo, fields
  <2> QED
    BY <1>11, <2>1, <1>1, <1>2, <1>3
    DEF Handover, Passes, OwnerTable, WorkerOK, TokenOK, TypeOK, CloseFailed, Disconnected,
        GoTo, fields, Early, Late
<1>12. ASSUME NEW a \in Attempts, CloseOnce(a) PROVE Handover(a)
  <2>1. \A b \in Attempts \ {a} : OwnerOf(b)' = OwnerOf(b)
    BY <1>12, OwnerFrame DEF CloseOnce, TypeOK, OwnershipInv, SessionOK, GoTo, fields
  <2> QED
    BY <1>12, <2>1, <1>1, <1>2, <1>3
    DEF Handover, Passes, OwnerTable, WorkerOK, TokenOK, TypeOK, CloseOnce,
        GoTo, fields, Early, Late
<1>13. ASSUME NEW a \in Attempts, CloseOnceDone(a) PROVE Handover(a)
  <2>1. \A b \in Attempts \ {a} : OwnerOf(b)' = OwnerOf(b)
    BY <1>13, OwnerFrame DEF CloseOnceDone, TypeOK, OwnershipInv, SessionOK, GoTo, fields
  <2> QED
    BY <1>13, <2>1, <1>1, <1>2, <1>3
    DEF Handover, Passes, OwnerTable, WorkerOK, TokenOK, TypeOK, CloseOnceDone, Disconnected,
        GoTo, fields, Early, Late
<1>14. ASSUME NEW a \in Attempts, Launch(a) PROVE Handover(a)
  <2>1. \A b \in Attempts \ {a} : OwnerOf(b)' = OwnerOf(b)
    BY <1>14, OwnerFrame DEF Launch, TypeOK, OwnershipInv, SessionOK, GoTo, fields
  <2> QED
    BY <1>14, <2>1, <1>1, <1>2, <1>3
    DEF Handover, Passes, OwnerTable, WorkerOK, TokenOK, TypeOK, Launch,
        GoTo, fields, Early, Late
<1>15. ASSUME NEW a \in Attempts, OnSucceeded(a) PROVE Handover(a)
  <2>1. \A b \in Attempts \ {a} : OwnerOf(b)' = OwnerOf(b)
    <3>1. CASE current = a
      BY <1>15, <3>1, OwnerFrame
      DEF OnSucceeded, Adopts, TypeOK, OwnershipInv, SessionOK, GoTo, fields
    <3>2. CASE current # a
      BY <1>15, <3>2, OwnerFrame DEF OnSucceeded, Adopts, TypeOK, GoTo, fields
    <3> QED
      BY <3>1, <3>2
  <2>2. CASE current = a
    <3>1. OwnerOf(a) = "result" /\ socket[a] = Open
      BY <1>15, <2>2, <1>1
      DEF OnSucceeded, OwnershipInv, SessionOK, OwnerTable, WorkerOK
    <3>2. live' = a /\ socket' = socket
      BY <1>15, <2>2 DEF OnSucceeded, Adopts
    <3>3. OwnerOf(a)' = "session"
      BY <3>1, <3>2, <1>2 DEF OwnerTable
    <3>4. \A b \in Attempts : OwnerOf(b)' = "session" => b = a
      BY <3>2 DEF OwnerOf
    <3> QED
      BY <2>1, <3>1, <3>3, <3>4 DEF Handover, Passes
  <2>3. CASE current # a /\ InvalidateClaims(a)
    <3>1. OwnerOf(a) = "result" /\ socket[a] = Open
      BY <1>15, <2>3, <1>1 DEF OnSucceeded, InvalidateClaims, OwnerTable, WorkerOK
    <3>2. OwnerOf(a)' = "closer"
      BY <1>15, <2>3, <3>1, <1>2 DEF OnSucceeded, Adopts, OwnerTable, TypeOK
    <3> QED
      BY <2>1, <3>1, <3>2 DEF Handover, Passes
  <2>4. CASE current # a /\ ~InvalidateClaims(a)
    <3>1. close_claimed[a] /\ token[a] # "none" /\ live # a
      BY <1>15, <2>4, <1>1
      DEF OnSucceeded, InvalidateClaims, WorkerOK, OwnershipInv, SessionOK
    <3>2. UNCHANGED <<socket, token, close_claimed, live>> /\ worker'[a] = "gone"
      BY <1>15, <2>4 DEF OnSucceeded, Adopts, GoTo, TypeOK
    <3>3. OwnerOf(a)' = OwnerOf(a)
      BY <1>15, <3>1, <3>2 DEF OnSucceeded, OwnerOf
    <3> QED
      BY <2>1, <3>3, <1>3 DEF Handover
  <2> QED
    BY <2>2, <2>3, <2>4
<1>16. ASSUME NEW a \in Attempts, OnFailed(a) PROVE Handover(a)
  <2>1. \A b \in Attempts \ {a} : OwnerOf(b)' = OwnerOf(b)
    BY <1>16, OwnerFrame DEF OnFailed, TypeOK, OwnershipInv, SessionOK, GoTo, fields
  <2> QED
    BY <1>16, <2>1, <1>1, <1>2, <1>3
    DEF Handover, Passes, OwnerTable, WorkerOK, TokenOK, TypeOK, OnFailed,
        GoTo, fields, Early, Late
<1>17. ASSUME InvalidateSet PROVE Stays
  BY <1>17, OwnerFrame DEF InvalidateSet, Stays
<1>18. ASSUME InvalidateClaim PROVE \E a \in Attempts : Handover(a)
  <2> PICK a \in Attempts : a = current
    BY <1>18 DEF OwnershipInv, SessionOK, InvalidateClaim, TypeOK
  <2>1. \A b \in Attempts \ {a} : OwnerOf(b)' = OwnerOf(b)
    BY <1>18, OwnerFrame DEF InvalidateClaim, TypeOK
  <2>2. CASE InvalidateClaims(a)
    <3>1. worker[a] = "offered"
      BY <2>2, <1>1
      DEF OwnershipInv, WorkerOK, SessionOK, InvalidateClaims, TypeOK, WorkerSteps, Checks,
          Statements, Early, Late
    <3>2. OwnerOf(a) = "result" /\ socket[a] = Open
      BY <3>1, <2>2, <1>1 DEF OwnerTable, WorkerOK, InvalidateClaims
    <3>3. OwnerOf(a)' = "closer"
      BY <1>18, <2>2, <3>2, <1>2 DEF OwnerTable, InvalidateClaim, TypeOK
    <3> QED
      BY <2>1, <3>2, <3>3 DEF Handover, Passes
  <2>3. CASE ~InvalidateClaims(a)
    <3>1. OwnerOf(a)' = OwnerOf(a)
      BY <1>18, <2>3, OwnerFrame DEF InvalidateClaim
    <3> QED
      BY <2>1, <3>1, <1>3 DEF Handover
  <2> QED
    BY <2>2, <2>3
<1>19. ASSUME DetachLive PROVE \E a \in Attempts : Handover(a)
  <2> PICK a \in Attempts : a = live
    BY <1>19 DEF DetachLive, TypeOK
  <2>1. \A b \in Attempts \ {a} : OwnerOf(b)' = OwnerOf(b)
    BY <1>19, OwnerFrame DEF DetachLive, TypeOK, fields
  <2>2. socket[a] = Open
    BY <1>1 DEF OwnershipInv, SessionOK, WorkerOK
  <2>3. OwnerOf(a) = "session"
    BY <2>2, <1>1 DEF OwnerTable
  <2>4. OwnerOf(a)' = "closer"
    BY <1>19, <2>2, <1>2 DEF OwnerTable, DetachLive, TypeOK
  <2> QED
    BY <2>1, <2>3, <2>4 DEF Handover, Passes
<1>20. ASSUME UNCHANGED vars PROVE Stays
  BY <1>20, OwnerFrame DEF vars, fields, Stays
<1> QED
  BY <1>4, <1>5, <1>6, <1>7, <1>8, <1>9, <1>10, <1>11, <1>12, <1>13, <1>14, <1>15,
     <1>16, <1>17, <1>18, <1>19, <1>20
  DEF Next, WorkerStep, CloseStep, Deliver

\* The protocol hands every manager on from its worker to the result, the session
\* and one closer, and never to nobody: it implements ManagerOwnership.
THEOREM ConnectionsHaveOneOwner == Spec => ImplementsManagerOwnership
<1> DEFINE bar == [a \in Attempts |-> OwnerOf(a)]
<1>1. Init => Ownership!Init
  BY DEF Init, Ownership!Init, OwnerOf
<1>3. (TypeOK /\ OwnershipInv => EveryoneOwned)'
  BY SomebodyOwns, PTL
<1>2. TypeOK /\ OwnershipInv /\ TypeOK' /\ OwnershipInv' /\ [Next]_vars
        => [Ownership!Next]_bar
  <2> SUFFICES ASSUME TypeOK, OwnershipInv, TypeOK', OwnershipInv', [Next]_vars
               PROVE  [Ownership!Next]_bar
    OBVIOUS
  <2>1. CASE Stays
    BY <2>1 DEF Stays
  <2>2. ASSUME NEW a \in Attempts, Handover(a) PROVE [Ownership!Next]_bar
    <3>1. CASE Stays
      BY <3>1 DEF Stays
    <3>2. ASSUME NEW from, NEW to, Passes(a, from, to), NEW b \in Attempts, bar'[b] # bar[b]
          PROVE  bar[b] = from /\ bar'[b] = to
      <4>1. bar[b] = OwnerOf(b) /\ bar'[b] = OwnerOf(b)'
        OBVIOUS
      <4>2. b = a
        BY <3>2, <4>1, Zenon DEF Passes
      <4> QED
        BY <3>2, <4>1, <4>2, Zenon DEF Passes
    <3>3. bar' \in [Attempts -> Ownership!Owners]
      BY <1>3 DEF EveryoneOwned
    <3> QED
      BY <2>2, <3>1, <3>2, <3>3
      DEF Handover, Ownership!Next, Ownership!Make, Ownership!Offer, Ownership!Adopt,
          Ownership!Retire, Ownership!Close, Ownership!Pass
  <2> QED
    BY <2>1, <2>2, StepsHandOver
<1> QED
  BY <1>1, <1>2, TypeCorrect, OwnershipInOrder, PTL
  DEF Spec, ImplementsManagerOwnership, Ownership!Spec
=============================================================================
