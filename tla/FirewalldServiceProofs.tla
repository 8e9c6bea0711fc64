----------------------- MODULE FirewalldServiceProofs -----------------------
(***************************************************************************)
(* A request to firewalld writes each target once and reports what it      *)
(* wrote, for any zones, any answers and any interference.                 *)
(***************************************************************************)
EXTENDS FirewalldService, SequenceTheorems, TLAPS

\* What connection_test does to its list of checks leaves it a list of checks.
LEMMA Histories ==
  ASSUME NEW T, NEW history \in Seq(T), NEW c \in T, NEW d \in T
  PROVE  /\ Append(history, c) \in Seq(T)
         /\ history \o <<c, d>> \in Seq(T)
         /\ [history EXCEPT ![Len(history)] = c] \in Seq(T)
  <1>1. history \o <<c, d>> \in Seq(T)
    <2>1. <<c, d>> \in Seq(T)
      OBVIOUS
    <2> QED
      BY <2>1
  <1>2. [history EXCEPT ![Len(history)] = c] \in Seq(T)
    <2>1. CASE Len(history) = 0
      <3>1. Len(history) \notin DOMAIN history
        BY <2>1
      <3>2. [history EXCEPT ![Len(history)] = c] = [i \in DOMAIN history |-> history[i]]
        BY <3>1
      <3>3. [i \in DOMAIN history |-> history[i]] = history
        OBVIOUS
      <3> QED
        BY <3>2, <3>3
    <2>2. CASE Len(history) # 0
      BY <2>2, ExceptSeq
    <2> QED
      BY <2>1, <2>2
  <1>3. Append(history, c) \in Seq(T)
    OBVIOUS
  <1> QED
    BY <1>1, <1>2, <1>3

-----------------------------------------------------------------------------
(* The classification.                                                      *)

\* What classify_composite_outcome makes of one target.
LEMMA PhaseFits ==
  ASSUME NEW r \in TargetResults, r # Absent
  PROVE  /\ Phase(r) \in {"succeeded", "verification_failed", "failed"}
         /\ Phase(r) = "failed" <=> r.execution # "succeeded"
         /\ Phase(r) = "succeeded" <=> r = TargetSuccess
<1> USE DEF Phase, TargetIsSuccess, TargetResult, TargetSuccess
<1>1. CASE r = TargetSuccess
  BY <1>1
<1>2. CASE r = TargetNotRun
  BY <1>2 DEF TargetNotRun
<1>3. CASE \E auth \in BOOLEAN : r = ExecutionFailed(auth)
  BY <1>3 DEF ExecutionFailed
<1>4. CASE \E auth \in BOOLEAN : r = Unverified(auth)
  BY <1>4 DEF Unverified
<1> QED
  BY <1>1, <1>2, <1>3, <1>4 DEF TargetResults

\* classify_composite_outcome always has an answer.
LEMMA ClassifyType ==
  ASSUME NEW operation, NEW composite \in [Targets -> TargetResults]
  PROVE  Classify(operation, composite) \in Outcomes
<1>1. Phases(composite) \subseteq {"succeeded", "verification_failed", "failed", "inconsistent"}
  BY DEF Phases, Phase
<1> QED
  BY <1>1 DEF Classify, Outcomes

\* A result the service builds for the targets it was asked to change is never
\* inconsistent, and its label says which commands were accepted.
LEMMA ClassifyFits ==
  ASSUME NEW operation, NEW composite \in [Targets -> TargetResults],
         NEW S \in SUBSET Targets, S # {}, operation \in Globals => S = Targets,
         Present(composite) = S
  PROVE  LET label == Classify(operation, composite)
             done  == {t \in S : composite[t].execution = "succeeded"}
         IN  /\ label # "inconsistent"
             /\ label = "failed" => done = {}
             /\ label \in {"succeeded", "partial", "verification_failed"} => done # {}
             /\ label = "succeeded" => \A t \in S : composite[t] = TargetSuccess
<1> DEFINE label == Classify(operation, composite)
<1>1. ASSUME NEW t \in S
      PROVE  /\ Phase(composite[t]) \in {"succeeded", "verification_failed", "failed"}
             /\ Phase(composite[t]) = "failed" <=> composite[t].execution # "succeeded"
             /\ Phase(composite[t]) = "succeeded" <=> composite[t] = TargetSuccess
  BY PhaseFits DEF Present
<1>2. Phases(composite) = {Phase(composite[t]) : t \in S}
  BY DEF Phases
<1>3. Phases(composite) # {} /\ Phases(composite) \subseteq {"succeeded", "verification_failed", "failed"}
  BY <1>1, <1>2
<1>4. label # "inconsistent"
  BY <1>3 DEF Classify
<1>5. label = "failed" => Phases(composite) = {"failed"}
  BY <1>3 DEF Classify
<1>6. label = "succeeded" => Phases(composite) = {"succeeded"}
  BY <1>3 DEF Classify
<1>7. label \in {"succeeded", "partial", "verification_failed"} =>
        "succeeded" \in Phases(composite) \/ "verification_failed" \in Phases(composite)
  BY <1>3 DEF Classify
<1> QED
  BY <1>1, <1>2, <1>3, <1>4, <1>5, <1>6, <1>7

-----------------------------------------------------------------------------
(* Types.                                                                   *)

\* Selected is one of the targets, and every result is a result.
LEMMA ResultTypes ==
  /\ Selected \in Targets
  /\ Nothing \in [Targets -> TargetResults]
  /\ \A auth \in BOOLEAN : {ExecutionFailed(auth), Unverified(auth)} \subseteq TargetResults
  /\ {TargetSuccess, TargetNotRun, Absent} \subseteq TargetResults
  /\ \A r \in TargetResults : Both(r) \in [Targets -> TargetResults]
BY DEF Selected, Targets, Nothing, TargetResults, Both

\* What is left alone keeps its type.
LEMMA TypeFrame ==
  ASSUME TypeOK
  PROVE  /\ UNCHANGED remote => RemoteType'
         /\ UNCHANGED request => RequestType'
         /\ UNCHANGED change => ChangeType'
         /\ UNCHANGED verdict => VerdictType'
         /\ UNCHANGED outcome => OutcomeType'
         /\ UNCHANGED snapshot => SnapshotType'
         /\ UNCHANGED test => TestType'
         /\ UNCHANGED <<writes, confirmed, denied>> => HistoryType'
<1> USE DEF TypeOK
<1>1. UNCHANGED remote => RemoteType'
  BY DEF remote, RemoteType
<1>2. UNCHANGED request => RequestType'
  BY DEF request, RequestType
<1>3. UNCHANGED change => ChangeType'
  BY DEF change, ChangeType
<1>4. UNCHANGED verdict => VerdictType'
  BY DEF VerdictType
<1>5. UNCHANGED outcome => OutcomeType'
  BY DEF outcome, OutcomeType
<1>6. UNCHANGED snapshot => SnapshotType'
  BY DEF snapshot, SnapshotType
<1>7. UNCHANGED test => TestType'
  BY DEF test, TestType
<1>8. UNCHANGED <<writes, confirmed, denied>> => HistoryType'
  BY DEF HistoryType
<1> QED
  BY <1>1, <1>2, <1>3, <1>4, <1>5, <1>6, <1>7, <1>8

\* What a target is given as its result, and the end it may lead to, have types.
LEMMA ReturnType ==
  ASSUME NEW composite \in [Targets -> TargetResults], Return(composite)
  PROVE  /\ results' \in [Targets -> TargetResults]
         /\ VerdictType' /\ pc' = "hostname"
BY ClassifyType DEF Return, VerdictType

LEMMA GoOnType ==
  ASSUME TypeOK, NEW r \in TargetResults, GoOn([results EXCEPT ![Selected] = r])
  PROVE  /\ todo' \in SUBSET Targets /\ pc' \in {"execute", "hostname"}
         /\ results' \in [Targets -> TargetResults]
         /\ VerdictType'
<1> DEFINE composite == [results EXCEPT ![Selected] = r]
<1>1. composite \in [Targets -> TargetResults]
  BY ResultTypes DEF TypeOK, ChangeType
<1> HIDE DEF composite
<1>2. GoOn(composite)
  BY DEF composite
<1>3. todo' \in SUBSET Targets
  BY <1>2 DEF GoOn, TypeOK, ChangeType
<1>4. CASE todo' = {}
  BY <1>1, <1>2, <1>3, <1>4, ReturnType DEF GoOn
<1>5. CASE todo' # {}
  BY <1>1, <1>2, <1>3, <1>5, TypeFrame DEF GoOn
<1> QED
  BY <1>4, <1>5

LEMMA AbandonType ==
  ASSUME TypeOK, NEW r \in TargetResults, Abandon(r)
  PROVE  /\ todo' = {} /\ pc' = "hostname"
         /\ results' \in [Targets -> TargetResults]
         /\ VerdictType'
<1> DEFINE composite == [t \in Targets |-> IF t = Selected THEN r
                                          ELSE IF t \in todo THEN TargetNotRun ELSE results[t]]
<1>1. composite \in [Targets -> TargetResults]
  BY ResultTypes DEF TypeOK, ChangeType
<1> HIDE DEF composite
<1>2. todo' = {} /\ Return(composite)
  BY DEF Abandon, composite
<1> QED
  BY <1>1, <1>2, ReturnType

LEMMA RaiseType ==
  ASSUME TypeOK, NEW e \in Errors, Raise(e)
  PROVE  /\ pc' \in Steps /\ VerdictType' /\ ChangeType' /\ OutcomeType'
         /\ SnapshotType' /\ TestType' /\ confirmed' = confirmed
BY TypeFrame DEF Raise, VerdictType, Steps

\* A call that begins has its variables set.
LEMMA BeginType ==
  ASSUME TypeOK, NEW operation \in Mutations \cup Reads, NEW targets \in SUBSET Targets,
         zone' \in Zones, Begin(operation, targets)
  PROVE  /\ pc' \in Steps /\ ChangeType' /\ VerdictType' /\ OutcomeType'
         /\ SnapshotType' /\ TestType' /\ denied' = FALSE
         /\ UNCHANGED <<config, default_zone>>
<1>1. pc' \in Steps
  BY DEF Begin, FirstStep, Steps, Mutations, Reads, Scoped, Globals
<1>2. ChangeType'
  BY ResultTypes DEF Begin, ChangeType
<1>3. VerdictType' /\ OutcomeType'
  BY DEF Begin, VerdictType, OutcomeType
<1>4. SnapshotType'
  BY DEF Begin, SnapshotType, Nowhere
<1>5. TestType'
  BY DEF Begin, TestType, FirewalldInfo, NoInfo
<1> QED
  BY <1>1, <1>2, <1>3, <1>4, <1>5 DEF Begin

\* In the beginning every variable has its type.
THEOREM InitType == Init => TypeOK
<1> SUFFICES ASSUME Init PROVE TypeOK
  OBVIOUS
<1>1. ChangeType
  BY ResultTypes DEF Init, ChangeType
<1>2. TestType
  BY DEF Init, TestType, FirewalldInfo, NoInfo
<1>3. SnapshotType
  BY DEF Init, SnapshotType, Nowhere
<1> QED
  BY <1>1, <1>2, <1>3 DEF Init, TypeOK, Reads, Steps, RemoteType, RequestType, VerdictType,
                          OutcomeType, HistoryType

\* Every step keeps the types.
THEOREM NextType == TypeOK /\ [Next]_vars => TypeOK'
<1> SUFFICES ASSUME TypeOK, [Next]_vars PROVE TypeOK'
  OBVIOUS
<1>1. ASSUME NEW operation \in Mutations \cup Reads, NEW targets \in SUBSET Targets,
             Ask(operation, targets)
      PROVE  TypeOK'
  <2>1. zone' \in Zones /\ Begin(operation, targets)
    BY <1>1 DEF Ask
  <2> QED
    BY <1>1, <2>1, BeginType DEF Ask, TypeOK, RemoteType, RequestType, HistoryType
<1>2. CASE Retry
  <2>1. zone' \in Zones /\ Begin(op, asked)
    BY <1>2 DEF Retry, TypeOK, RequestType
  <2> QED
    BY <1>2, <2>1, BeginType DEF Retry, TypeOK, RemoteType, RequestType, HistoryType
<1>3. CASE Interfere
  BY <1>3, TypeFrame DEF Interfere, TypeOK, RemoteType
<1>4. CASE ExecuteOk
  <2>1. RemoteType' /\ pc' \in Steps
    BY <1>4, ResultTypes DEF ExecuteOk, MayTakeEffect, TypeOK, RemoteType, Steps
  <2>2. ChangeType' /\ HistoryType'
    BY <1>4, ResultTypes DEF ExecuteOk, Accepted, TypeOK, ChangeType, HistoryType
  <2> QED
    BY <1>4, <2>1, <2>2, TypeFrame DEF ExecuteOk, TypeOK
<1>5. CASE ExecuteDenied
  <2>1. CASE mutation_succeeded
    BY <1>5, <2>1, ResultTypes, AbandonType, TypeFrame
    DEF ExecuteDenied, TypeOK, ChangeType, HistoryType, Steps
  <2>2. CASE ~mutation_succeeded
    <3>1. SudoError \in Errors /\ Raise(SudoError)
      BY <1>5, <2>2 DEF ExecuteDenied, Errors, SudoErrors, SudoError
    <3> QED
      BY <1>5, <3>1, RaiseType, TypeFrame DEF ExecuteDenied, TypeOK, HistoryType
  <2> QED
    BY <2>1, <2>2
<1>6. CASE ExecuteFails
  BY <1>6, ResultTypes, GoOnType, TypeFrame DEF ExecuteFails, TypeOK, ChangeType, Steps
<1>7. CASE VerifyRead
  <2> DEFINE r == IF Verified THEN TargetSuccess ELSE Unverified(FALSE)
  <2>1. r \in TargetResults /\ GoOn([results EXCEPT ![Selected] = r])
    BY <1>7, ResultTypes DEF VerifyRead
  <2> HIDE DEF r
  <2>2. ChangeType' /\ VerdictType' /\ pc' \in Steps
    BY <1>7, <2>1, GoOnType DEF VerifyRead, TypeOK, ChangeType, Steps
  <2>3. HistoryType'
    BY <1>7, ResultTypes DEF VerifyRead, TypeOK, HistoryType
  <2> QED
    BY <1>7, <2>2, <2>3, TypeFrame DEF VerifyRead, TypeOK
<1>8. CASE VerifyFails
  BY <1>8, ResultTypes, GoOnType, TypeFrame DEF VerifyFails, TypeOK, ChangeType, Steps
<1>9. CASE VerifyDenied
  BY <1>9, ResultTypes, AbandonType, TypeFrame
  DEF VerifyDenied, TypeOK, ChangeType, HistoryType, Steps
<1>10. ASSUME NEW e \in Errors, ExecuteRaises(e) PROVE TypeOK'
  <2>1. RemoteType'
    BY <1>10, ResultTypes DEF ExecuteRaises, MayTakeEffect, TypeOK, RemoteType
  <2> QED
    BY <1>10, <2>1, RaiseType, TypeFrame DEF ExecuteRaises, TypeOK, HistoryType
<1>11. ASSUME NEW e \in Errors, VerifyRaises(e) PROVE TypeOK'
  BY <1>11, RaiseType, TypeFrame DEF VerifyRaises, TypeOK, HistoryType
<1>12. CASE RejectTarget
  <2>1. "command" \in Errors
    BY DEF Errors, Tolerated
  <2> QED
    BY <1>12, <2>1, RaiseType, TypeFrame DEF RejectTarget, TypeOK, HistoryType
<1>13. CASE GlobalExecuteOk
  BY <1>13, TypeFrame DEF GlobalExecuteOk, GlobalMayTakeEffect, Accepted, Steps,
                          TypeOK, RemoteType, RequestType, HistoryType
<1>14. CASE GlobalExecuteFails
  BY <1>14, ResultTypes, ReturnType, TypeFrame
  DEF GlobalExecuteFails, TypeOK, ChangeType, Steps
<1>15. CASE GlobalVerifyRead
  <2>1. PICK verified \in GlobalVerified :
          /\ Return(Both(IF verified THEN TargetSuccess ELSE Unverified(FALSE)))
          /\ confirmed' = IF verified THEN Targets ELSE confirmed
    BY <1>15 DEF GlobalVerifyRead
  <2>2. Both(IF verified THEN TargetSuccess ELSE Unverified(FALSE)) \in [Targets -> TargetResults]
    BY ResultTypes
  <2> QED
    BY <1>15, <2>1, <2>2, ReturnType, TypeFrame
    DEF GlobalVerifyRead, TypeOK, ChangeType, HistoryType, Steps
<1>16. CASE GlobalVerifyFails
  BY <1>16, ResultTypes, ReturnType, TypeFrame
  DEF GlobalVerifyFails, TypeOK, ChangeType, Steps
<1>17. ASSUME NEW e \in Errors, GlobalExecuteRaises(e) PROVE TypeOK'
  <2>1. RemoteType'
    BY <1>17 DEF GlobalExecuteRaises, GlobalMayTakeEffect, TypeOK, RemoteType, RequestType
  <2> QED
    BY <1>17, <2>1, RaiseType, TypeFrame
    DEF GlobalExecuteRaises, Refused, TypeOK, HistoryType
<1>18. ASSUME NEW e \in Errors, GlobalVerifyRaises(e) PROVE TypeOK'
  <2>1. (IF e \in SudoErrors THEN "post" ELSE e) \in Errors
    BY DEF Errors
  <2> QED
    BY <1>18, <2>1, RaiseType, TypeFrame
    DEF GlobalVerifyRaises, Refused, TypeOK, HistoryType
<1>19. ASSUME NEW e \in Errors, LoadFails(e) PROVE TypeOK'
  BY <1>19, TypeFrame DEF LoadFails, Refused, TypeOK, OutcomeType, VerdictType, HistoryType, Steps
<1>20. ASSUME LoadGoesOn, SnapshotType',
              pc \in Steps \ {"over", "execute", "verify", "global_execute", "global_verify",
                              "test_hostname", "test_distribution", "test_uid",
                              "test_state", "test_version"}
       PROVE  TypeOK'
  <2>1. pc' \in Steps
    BY <1>20 DEF LoadGoesOn, Loaded, Steps
  <2>2. VerdictType' /\ OutcomeType'
    BY <1>20, TypeFrame DEF LoadGoesOn, TypeOK, VerdictType, OutcomeType, outcome,
                            AuthenticationFailed
  <2> QED
    BY <1>20, <2>1, <2>2, TypeFrame DEF LoadGoesOn, TypeOK
<1>21. ReadErrors \subseteq Errors /\ ProbeErrors \subseteq Errors
  BY DEF ReadErrors, ProbeErrors, CommandErrors, Errors, SudoError, SudoErrors, Terminal,
         SSHErrors, Tolerated
<1>22. CASE ReadProbe
  BY <1>22, <1>19, <1>20, <1>21, TypeFrame DEF ReadProbe, Steps
<1>23. CASE ReadMandatory
  <2>1. SnapshotType' \/ \E e \in Errors : LoadFails(e)
    BY <1>23, <1>21 DEF ReadMandatory, TypeOK, SnapshotType, RemoteType
  <2> QED
    BY <1>23, <2>1, <1>19, <1>20, <1>21 DEF ReadMandatory, Steps
<1>24. CASE ReadPart
  <2>1. SnapshotType' \/ \E e \in Errors : LoadFails(e)
    BY <1>24, <1>21 DEF ReadPart, TypeOK, SnapshotType
  <2> QED
    BY <1>24, <2>1, <1>19, <1>20, <1>21 DEF ReadPart, Steps
<1>25. CASE ReadNames
  <2>1. SnapshotType' \/ \E e \in Errors : LoadFails(e)
    BY <1>25, <1>21 DEF ReadNames, TypeOK, SnapshotType
  <2>2. pc' \in Steps \/ LoadGoesOn \/ \E e \in Errors : LoadFails(e)
    BY <1>25, <1>21 DEF ReadNames, Loaded, Steps
  <2> QED
    BY <1>25, <2>1, <2>2, <1>19, <1>20, <1>21, TypeFrame DEF ReadNames, Steps, TypeOK
<1>26. ASSUME NEW z \in Zones, ReadZone(z) PROVE TypeOK'
  <2>0. View \in Targets
    BY DEF View, Targets
  <2>1. SnapshotType' \/ \E e \in Errors : LoadFails(e)
    BY <1>26, <1>21, <2>0 DEF ReadZone, TypeOK, SnapshotType
  <2>2. pc' \in {pc, Loaded(pc)} \/ \E e \in Errors : LoadFails(e)
    BY <1>26, <1>21 DEF ReadZone
  <2>3. {pc, Loaded(pc)} \subseteq Steps
    <3>1. CASE pc = "runtime_zones"
      BY <3>1 DEF Loaded, Steps
    <3>2. CASE pc = "permanent_zones"
      BY <3>2 DEF Loaded, Steps
    <3> QED
      BY <3>1, <3>2, <1>26 DEF ReadZone
  <2> QED
    BY <1>26, <2>1, <2>2, <2>3, <1>19, <1>21, TypeFrame DEF ReadZone, TypeOK
<1>27. ASSUME ConnectionTest PROVE TestType' /\ VerdictType' /\ pc' \in Steps /\ denied' \in BOOLEAN
  <2>10. checks \in Seq(ConnectionCheck) /\ info \in FirewalldInfo /\ denied \in BOOLEAN
    BY DEF TypeOK, TestType, HistoryType
  <2>0. ASSUME NEW e \in Errors, TestRaises(e)
        PROVE  TestType' /\ VerdictType' /\ pc' \in Steps /\ denied' \in BOOLEAN
    BY <2>0, <2>10 DEF TestRaises, TestType, VerdictType, Steps, Refused
  <2>1. {SudoError} \cup SSHErrors \subseteq Errors
    BY DEF Errors, SudoError, SudoErrors, SSHErrors
  <2>2. \A name \in Steps, passed \in BOOLEAN : Check(name, passed) \in ConnectionCheck
    BY DEF Check, ConnectionCheck
  <2>3. /\ NoInfo \in FirewalldInfo
        /\ \A i, r, v \in BOOLEAN : Info(i, r, v) \in FirewalldInfo
    BY DEF Info, NoInfo, FirewalldInfo
  <2>4. {"test_hostname", "test_distribution", "test_uid", "test_state", "test_version",
         "over"} \subseteq Steps
    BY DEF Steps
  <2>5. ASSUME NEW history \in Seq(ConnectionCheck), NEW found \in FirewalldInfo,
               TestEnds(history, found)
        PROVE  TestType' /\ VerdictType' /\ pc' \in Steps /\ denied' \in BOOLEAN
    BY <2>4, <2>5, <2>10 DEF TestEnds, TestType, VerdictType
  <2>6. CASE TestProbe
    <3>1. ASSUME NEW passed \in BOOLEAN, checks' = Append(checks, Check(pc, passed)),
                 ~\E e \in SSHErrors : TestRaises(e)
          PROVE  TestType' /\ VerdictType' /\ pc' \in Steps /\ denied' \in BOOLEAN
      <4>1. Check(pc, passed) \in ConnectionCheck
        BY <2>2 DEF TypeOK
      <4>2. checks' \in Seq(ConnectionCheck)
        BY <3>1, <4>1, <2>10
      <4>3. pc' \in Steps /\ UNCHANGED <<info, verdict, denied>>
        BY <2>6, <3>1, <2>4 DEF TestProbe
      <4> QED
        BY <4>2, <4>3, <2>10, TypeFrame DEF TestType
    <3>2. CASE \E e \in SSHErrors : TestRaises(e)
      BY <3>2, <2>0, <2>1
    <3> QED
      BY <3>1, <3>2, <2>6 DEF TestProbe
  <2>7. CASE TestState
    <3>1. \A passed \in BOOLEAN : Check("test_state", passed) \in ConnectionCheck
      BY <2>2, <2>4
    <3>2. Check("test_version", FALSE) \in ConnectionCheck
      BY <2>2, <2>4
    <3>3. /\ Append(checks, Check("test_state", TRUE)) \in Seq(ConnectionCheck)
          /\ checks \o <<Check("test_state", FALSE), Check("test_version", FALSE)>>
               \in Seq(ConnectionCheck)
      BY <3>1, <3>2, <2>10, Histories
    <3> QED
      BY <3>3, <2>0, <2>1, <2>3, <2>4, <2>5, <2>7, <2>10, TypeFrame DEF TestState, TestType
  <2>8. CASE TestVersion
    <3>1. \A passed \in BOOLEAN : Check("test_version", passed) \in ConnectionCheck
      BY <2>2, <2>4
    <3>2. Check("test_state", FALSE) \in ConnectionCheck
      BY <2>2, <2>4
    <3>3. [checks EXCEPT ![Len(checks)] = Check("test_state", FALSE)] \in Seq(ConnectionCheck)
      BY <3>2, <2>10, Histories
    <3>4. /\ \A passed \in BOOLEAN :
               Append(checks, Check("test_version", passed)) \in Seq(ConnectionCheck)
          /\ Append([checks EXCEPT ![Len(checks)] = Check("test_state", FALSE)],
                    Check("test_version", FALSE)) \in Seq(ConnectionCheck)
      BY <3>1, <3>3, <2>10, Histories
    <3> QED
      BY <3>4, <2>0, <2>1, <2>3, <2>5, <2>8 DEF TestVersion
  <2> QED
    BY <1>27, <2>6, <2>7, <2>8 DEF ConnectionTest
<1>28. CASE ConnectionTest
  BY <1>27, <1>28, TypeFrame DEF ConnectionTest, TypeOK, HistoryType
<1>29. CASE UNCHANGED vars
  BY <1>29, TypeFrame DEF vars, TypeOK
<1> QED
  BY <1>1, <1>2, <1>3, <1>4, <1>5, <1>6, <1>7, <1>8, <1>9, <1>10, <1>11, <1>12, <1>13,
     <1>14, <1>15, <1>16, <1>17, <1>18, <1>22, <1>23, <1>24, <1>25, <1>26, <1>28, <1>29
  DEF Next, ApplyTargets, ApplyGlobal, LoadSnapshot

\* Every variable has its type in every reachable state.
THEOREM TypeCorrect == Spec => []TypeOK
  BY InitType, NextType, PTL DEF Spec

-----------------------------------------------------------------------------
(* The inductive invariant: how far the request is and what it has written. *)

LoadSteps ==
    {"hostname", "distribution", "state", "version", "default_zone", "active_zones",
     "runtime_names", "runtime_zones", "permanent_names", "permanent_zones", "services"}
TestSteps ==
    {"test_hostname", "test_distribution", "test_uid", "test_state", "test_version"}

\* The results of the targets S, and no others, tell what was written and confirmed.
Tells(composite, S) ==
    /\ Present(composite) = S
    /\ \A t \in S : /\ composite[t].execution = "succeeded" <=> writes[t] = 1
                    /\ composite[t] = TargetSuccess => t \in confirmed

\* In the loop of _apply_targets the targets left are untouched, except the one
\* whose command has just been accepted.
LoopInv ==
    pc \in {"execute", "verify"} =>
        /\ op \in Scoped /\ verdict = "none" /\ ~denied
        /\ todo # {} /\ todo \subseteq asked
        /\ Tells(results, asked \ todo)
        /\ \A t \in todo : writes[t] = IF pc = "verify" /\ t = Selected THEN 1 ELSE 0
        /\ confirmed \subseteq asked \ todo
        /\ mutation_succeeded <=> Abstract!Written # {}

GlobalInv ==
    pc \in {"global_execute", "global_verify"} =>
        /\ op \in Globals /\ verdict = "none" /\ ~denied /\ confirmed = {}
        /\ pc = "global_execute" => writes = Abstract!Unwritten
        /\ pc = "global_verify" => asked = Targets /\ \A t \in Targets : writes[t] = 1

LoadInv ==
    pc \in LoadSteps =>
        \/ op = "snapshot" /\ verdict = "none" /\ writes = Abstract!Unwritten
        \/ op \in Mutations /\ verdict \in Outcomes

TestInv ==
    pc \in TestSteps => op = "test" /\ verdict = "none" /\ writes = Abstract!Unwritten

\* What a request that may be made again leaves behind, and one that succeeded.
VerdictInv ==
    /\ verdict \in {"idle", "sudo_required"} => writes = Abstract!Unwritten
    /\ verdict = "succeeded" => confirmed = asked

RequestInv ==
    /\ op \in Mutations <=> asked # {}
    /\ writes \in [Targets -> {0, 1}]
    /\ \A t \in Targets \ asked : writes[t] = 0
    /\ confirmed \subseteq Abstract!Written
    /\ op \in Scoped /\ ~disturbed => confirmed \subseteq config
    /\ op = "set_default_zone" /\ ~disturbed /\ confirmed # {} => default_zone = zone
    /\ LoopInv /\ GlobalInv /\ LoadInv /\ TestInv /\ VerdictInv

\* The first guards of every step: the targets, and the abstract report.
LEMMA ReportStep ==
  ASSUME verdict = "none",
         verdict' \in Abstract!Clean \cup Abstract!Touched \cup Abstract!Unsure,
         Abstract!Fits(verdict'),
         denied' \in BOOLEAN, denied => denied',
         verdict' = "succeeded" => ~denied',
         UNCHANGED <<asked, writes>>
  PROVE  Abstract!Next
BY DEF Abstract!Next, Abstract!Report

\* Where nothing was written nothing is confirmed.
LEMMA Untouched ==
  ASSUME RequestInv, writes = Abstract!Unwritten
  PROVE  confirmed = {}
BY DEF RequestInv, Abstract!Written, Abstract!Unwritten

\* What a step that changes neither the request nor its history keeps.
LEMMA HistoryKept ==
  ASSUME RequestInv,
         UNCHANGED <<op, asked, zone, disturbed, writes, confirmed>>,
         \/ confirmed = {}
         \/ config \subseteq config' /\ UNCHANGED default_zone,
         LoopInv', GlobalInv', LoadInv', TestInv', VerdictInv'
  PROVE  RequestInv'
BY DEF RequestInv, Targets, Abstract!Written

\* A request that ends with an error, or a read with its result, and its report.
LEMMA OverStep ==
  ASSUME TypeOK, RequestInv, verdict = "none", pc' = "over",
         UNCHANGED <<op, asked, zone, disturbed, writes, confirmed>>,
         \/ confirmed = {}
         \/ config \subseteq config' /\ UNCHANGED default_zone,
         verdict' \in Errors \cup {"read"},
         verdict' \in Abstract!Clean => writes = Abstract!Unwritten,
         verdict' = "post" => Abstract!Written # {},
         denied' \in BOOLEAN, denied => denied'
  PROVE  RequestInv' /\ Abstract!Next
<1>1. LoopInv' /\ GlobalInv' /\ LoadInv' /\ TestInv'
  BY DEF LoopInv, GlobalInv, LoadInv, TestInv, LoadSteps, TestSteps
<1>2. verdict' \in Abstract!Clean \cup Abstract!Unsure \cup {"post"}
  BY DEF Errors, SudoErrors, Terminal, SSHErrors, Tolerated, Abstract!Clean, Abstract!Unsure
<1>3. VerdictInv'
  BY <1>2 DEF VerdictInv, Abstract!Clean, Abstract!Unsure, Abstract!Unwritten
<1>4. Abstract!Fits(verdict')
  BY <1>2 DEF Abstract!Fits, Abstract!Clean, Abstract!Unsure, Abstract!Touched,
              Abstract!Unwritten, Abstract!Written
<1> QED
  BY <1>1, <1>2, <1>3, <1>4, HistoryKept, ReportStep DEF Abstract!Clean, Abstract!Unsure,
     Abstract!Touched

\* A change that comes back with its composite result, and its report.
LEMMA ReturnStep ==
  ASSUME TypeOK, RequestInv, verdict = "none", op \in Mutations,
         op \in Globals => asked = Targets,
         NEW composite \in [Targets -> TargetResults], Return(composite),
         Present(composite) = asked,
         \A t \in asked : /\ composite[t].execution = "succeeded" <=> writes[t] = 1
                          /\ composite[t] = TargetSuccess => t \in confirmed',
         UNCHANGED <<op, asked, zone, remote, writes>>,
         confirmed' \subseteq Abstract!Written,
         op \in Scoped /\ ~disturbed => confirmed' \subseteq config,
         op = "set_default_zone" /\ ~disturbed /\ confirmed' # {} => default_zone = zone,
         denied' \in BOOLEAN, denied => denied',
         denied' => \E t \in asked : composite[t] # TargetSuccess
  PROVE  RequestInv' /\ Abstract!Next
<1> DEFINE done == {t \in asked : composite[t].execution = "succeeded"}
<1>1. asked # {} /\ asked \in SUBSET Targets
  BY DEF RequestInv, TypeOK, RequestType
<1>2. /\ verdict' \in Outcomes
      /\ verdict' # "inconsistent"
      /\ verdict' = "failed" => done = {}
      /\ verdict' \in {"succeeded", "partial", "verification_failed"} => done # {}
      /\ verdict' = "succeeded" => \A t \in asked : composite[t] = TargetSuccess
  BY <1>1, ClassifyFits, ClassifyType DEF Return
<1>3. Abstract!Written = done
  BY <1>1 DEF Abstract!Written, RequestInv
<1>4. verdict' = "succeeded" => done = asked /\ confirmed' = asked /\ ~denied'
  BY <1>2, <1>3 DEF TargetSuccess, TargetResult
<1>5. Abstract!Fits(verdict')
  BY <1>2, <1>3, <1>4 DEF Abstract!Fits, Abstract!Clean, Abstract!Touched, Outcomes
<1>6. Abstract!Next
  BY <1>2, <1>4, <1>5, ReportStep DEF Outcomes, Abstract!Clean, Abstract!Touched
<1>7. pc' = "hostname"
  BY DEF Return
<1>8. LoopInv' /\ GlobalInv' /\ TestInv' /\ LoadInv' /\ VerdictInv'
  BY <1>2, <1>4, <1>7 DEF LoopInv, GlobalInv, TestInv, LoadInv, VerdictInv, LoadSteps, TestSteps,
                    Outcomes
<1>9. Abstract!Written' = Abstract!Written
  BY DEF Abstract!Written
<1>10. RequestInv'
  BY <1>8, <1>9 DEF RequestInv, remote, Targets
<1> QED
  BY <1>6, <1>10

\* The target at hand is one of those left.
LEMMA SelectedLeft ==
  ASSUME TypeOK, RequestInv, pc \in {"execute", "verify"}
  PROVE  /\ Selected \in todo /\ Selected \in asked /\ todo \subseteq asked
         /\ op \in Scoped /\ op \in Mutations /\ op \notin Globals /\ op # "set_default_zone"
         /\ verdict = "none" /\ ~denied
         /\ op \in Scoped /\ ~disturbed => confirmed \subseteq config
         /\ confirmed \subseteq asked \ todo
         /\ \A t \in asked \ todo :
              /\ results[t] # Absent
              /\ results[t].execution = "succeeded" <=> writes[t] = 1
              /\ results[t] = TargetSuccess => t \in confirmed
         /\ \A t \in Targets \ (asked \ todo) : results[t] = Absent
         /\ \A t \in todo : writes[t] = IF pc = "verify" /\ t = Selected THEN 1 ELSE 0
<1>1. LoopInv
  BY DEF RequestInv
<1>2. Selected \in todo
  BY <1>1 DEF LoopInv, Selected, TypeOK, RequestType, Targets
<1>3. Tells(results, asked \ todo)
  BY <1>1 DEF LoopInv
<1>4. Present(results) = asked \ todo
  BY <1>3 DEF Tells
<1>5. asked \subseteq Targets
  BY DEF TypeOK, RequestType
<1>6. /\ \A t \in asked \ todo : results[t] # Absent
      /\ \A t \in Targets \ (asked \ todo) : results[t] = Absent
  BY <1>4, <1>5 DEF Present
<1> QED
  BY <1>1, <1>2, <1>3, <1>6 DEF LoopInv, Tells, Scoped, Globals, Mutations, RequestInv

\* The loop goes on with the next target, or ends.
LEMMA GoOnStep ==
  ASSUME TypeOK, RequestInv, pc \in {"execute", "verify"},
         NEW r \in TargetResults, r # Absent, GoOn([results EXCEPT ![Selected] = r]),
         r.execution = "succeeded" <=> pc = "verify",
         r = TargetSuccess => Selected \in confirmed',
         \/ confirmed' = confirmed
         \/ pc = "verify" /\ confirmed' = confirmed \cup {Selected} /\ Selected \in config,
         UNCHANGED <<request, remote, writes, mutation_succeeded, denied>>
  PROVE  RequestInv' /\ [Abstract!Next]_(Abstract!vars)
<1> DEFINE composite == [results EXCEPT ![Selected] = r]
<1>1. /\ composite \in [Targets -> TargetResults] /\ asked \subseteq Targets
      /\ denied \in BOOLEAN
  BY DEF TypeOK, ChangeType, RequestType, HistoryType
<1>2. Selected \in Targets
  BY ResultTypes
<1>3. \A t \in Targets : composite[t] = IF t = Selected THEN r ELSE results[t]
  BY <1>1, <1>2 DEF TypeOK, ChangeType
<1>4. Present(composite) = asked \ (todo \ {Selected})
  BY <1>1, <1>3, SelectedLeft DEF Present
<1>5. \A t \in asked \ (todo \ {Selected}) :
        /\ composite[t].execution = "succeeded" <=> writes[t] = 1
        /\ composite[t] = TargetSuccess => t \in confirmed'
  BY <1>1, <1>3, SelectedLeft
<1>6. /\ confirmed' \subseteq asked \ (todo \ {Selected})
      /\ op \in Scoped /\ ~disturbed => confirmed' \subseteq config
  BY SelectedLeft
<1>10. confirmed' \subseteq Abstract!Written
  <2>1. pc = "verify" => writes[Selected] = 1
    BY SelectedLeft
  <2> QED
    BY <2>1, <1>2 DEF RequestInv, Abstract!Written
<1>7. /\ UNCHANGED <<op, asked, zone, remote, writes, denied>>
      /\ todo' = todo \ {Selected}
  BY DEF GoOn, request
<1>8. CASE todo' = {}
  <2>1. Return(composite)
    BY <1>8 DEF GoOn
  <2>2. asked \ (todo \ {Selected}) = asked
    BY <1>7, <1>8
  <2>3. /\ Present(composite) = asked
        /\ \A t \in asked : /\ composite[t].execution = "succeeded" <=> writes[t] = 1
                            /\ composite[t] = TargetSuccess => t \in confirmed'
    BY <2>2, <1>4, <1>5
  <2> HIDE DEF composite
  <2>4. RequestInv' /\ Abstract!Next
    BY <2>1, <2>3, <1>1, <1>6, <1>7, <1>10, SelectedLeft, ReturnStep
  <2> QED
    BY <2>4
<1>9. CASE todo' # {}
  <2>1. pc' = "execute" /\ results' = composite /\ verdict' = verdict
    BY <1>9 DEF GoOn
  <2>2. Tells(results, asked \ todo)'
    BY <2>1, <1>4, <1>5, <1>7 DEF Tells, Present
  <2>3. mutation_succeeded' <=> Abstract!Written' # {}
    BY SelectedLeft DEF RequestInv, LoopInv, Abstract!Written
  <2>4. LoopInv'
    BY <2>1, <2>2, <2>3, <1>6, <1>7, <1>9, SelectedLeft DEF LoopInv
  <2>5. GlobalInv' /\ LoadInv' /\ TestInv' /\ VerdictInv'
    BY <2>1, SelectedLeft DEF GlobalInv, LoadInv, TestInv, VerdictInv, LoadSteps, TestSteps
  <2>6. RequestInv'
    BY <2>4, <2>5, <1>6, <1>7, <1>10, SelectedLeft DEF RequestInv, Targets, remote, Abstract!Written
  <2>7. UNCHANGED Abstract!vars
    BY <2>1, <1>7 DEF Abstract!vars
  <2> QED
    BY <2>6, <2>7
<1> QED
  BY <1>8, <1>9

\* The loop breaks off for a refused password: the targets left are not run.
LEMMA AbandonStep ==
  ASSUME TypeOK, RequestInv, pc \in {"execute", "verify"},
         NEW r \in TargetResults, r # Absent, r # TargetSuccess, Abandon(r),
         r.execution = "succeeded" <=> pc = "verify",
         denied' = TRUE,
         UNCHANGED <<request, remote, writes, confirmed>>
  PROVE  RequestInv' /\ Abstract!Next
<1> DEFINE composite == [t \in Targets |-> IF t = Selected THEN r
                                           ELSE IF t \in todo THEN TargetNotRun
                                           ELSE results[t]]
<1>1. /\ results \in [Targets -> TargetResults] /\ asked \subseteq Targets
      /\ denied \in BOOLEAN
  BY DEF TypeOK, ChangeType, RequestType, HistoryType
<1>2. composite \in [Targets -> TargetResults]
  BY <1>1, ResultTypes
<1>3. TargetNotRun # Absent /\ TargetNotRun # TargetSuccess /\ TargetNotRun.execution # "succeeded"
  BY DEF TargetNotRun, Absent, TargetSuccess, TargetResult
<1>4. Present(composite) = asked
  BY <1>1, <1>3, SelectedLeft DEF Present
<1>5. \A t \in asked : /\ composite[t].execution = "succeeded" <=> writes[t] = 1
                       /\ composite[t] = TargetSuccess => t \in confirmed
  BY <1>1, <1>3, SelectedLeft
<1>6. \E t \in asked : composite[t] # TargetSuccess
  BY <1>1, SelectedLeft
<1>7. Return(composite) /\ UNCHANGED <<op, asked, zone, remote, writes, confirmed>>
  BY DEF Abandon, request
<1>8. confirmed' \subseteq Abstract!Written
  BY DEF RequestInv
<1> HIDE DEF composite
<1> QED
  BY <1>1, <1>2, <1>4, <1>5, <1>6, <1>7, <1>8, SelectedLeft, ReturnStep

\* Reading the snapshot after a change, or what else leaves the history alone.
LEMMA LoadStep ==
  ASSUME TypeOK, RequestInv, pc \in LoadSteps, pc' \in LoadSteps \cup {"over"},
         UNCHANGED <<op, asked, zone, remote, writes, confirmed>>,
         denied' = denied \/ denied' = TRUE,
         \/ verdict' = verdict
         \/ op = "snapshot" /\ pc' = "over" /\ verdict' \in (Errors \cup {"read"}) \ {"post"}
  PROVE  RequestInv' /\ [Abstract!Next]_(Abstract!vars)
<1>1. \/ op = "snapshot" /\ verdict = "none" /\ writes = Abstract!Unwritten
      \/ op \in Mutations /\ op # "snapshot" /\ verdict \in Outcomes
  BY DEF RequestInv, LoadInv, Mutations, Scoped, Globals
<1>2. CASE verdict' = verdict
  <2>1. LoopInv' /\ GlobalInv' /\ TestInv'
    BY DEF LoopInv, GlobalInv, TestInv, LoadSteps, TestSteps
  <2>2. LoadInv'
    BY <1>1, <1>2 DEF LoadInv
  <2>3. VerdictInv'
    BY <1>2 DEF VerdictInv, RequestInv
  <2>4. RequestInv'
    BY <2>1, <2>2, <2>3, HistoryKept DEF remote
  <2>5. UNCHANGED Abstract!vars \/ Abstract!Next
    BY <1>2 DEF Abstract!vars, Abstract!Next, Abstract!Deny
  <2> QED
    BY <2>4, <2>5
<1>3. CASE verdict' # verdict
  <2>1. verdict = "none" /\ writes = Abstract!Unwritten /\ confirmed = {}
    BY <1>1, <1>3, Untouched
  <2>2. denied' \in BOOLEAN /\ (denied => denied')
    BY DEF TypeOK, HistoryType
  <2>3. pc' = "over" /\ verdict' \in Errors \cup {"read"} /\ verdict' # "post"
    BY <1>3
  <2>4. UNCHANGED <<op, asked, zone, disturbed, writes, confirmed>>
    BY DEF remote
  <2>5. RequestInv' /\ Abstract!Next
    BY <2>1, <2>2, <2>3, <2>4, OverStep
  <2> QED
    BY <2>5
<1> QED
  BY <1>2, <1>3

LEMMA InitRequest == Init => RequestInv /\ Abstract!Init
<1> SUFFICES ASSUME Init PROVE RequestInv /\ Abstract!Init
  OBVIOUS
<1>1. writes = Abstract!Unwritten
  BY DEF Init, Abstract!Unwritten
<1>2. Abstract!Init
  BY <1>1 DEF Init, Abstract!Init
<1>3. LoopInv /\ GlobalInv /\ LoadInv /\ TestInv
  BY DEF Init, LoopInv, GlobalInv, LoadInv, TestInv, LoadSteps, TestSteps
<1>4. VerdictInv
  BY <1>1 DEF Init, VerdictInv
<1>5. writes \in [Targets -> {0, 1}] /\ \A t \in Targets : writes[t] = 0
  BY DEF Init
<1> QED
  BY <1>2, <1>3, <1>4, <1>5 DEF Init, RequestInv, Mutations, Scoped, Globals, Reads

\* Which call begins with which command.
LEMMA FirstSteps ==
  /\ FirstStep("scoped") = "execute"
  /\ FirstStep("set_default_zone") = "global_execute"
  /\ FirstStep("reload_firewalld") = "global_execute"
  /\ FirstStep("snapshot") = "hostname"
  /\ FirstStep("test") = "test_hostname"
BY DEF FirstStep, Scoped, Globals

\* A call of the service that begins has written nothing.
LEMMA BeginStep ==
  ASSUME TypeOK, NEW operation \in Mutations \cup Reads, NEW targets \in SUBSET Targets,
         operation \in Mutations <=> targets # {},
         Begin(operation, targets),
         op' = operation, asked' = targets,
         writes' = Abstract!Unwritten, confirmed' = {}
  PROVE  RequestInv'
<1>1. writes' \in [Targets -> {0, 1}] /\ \A t \in Targets : writes'[t] = 0
  BY DEF Abstract!Unwritten
<1>2. CASE operation \in Scoped
  <2>0. operation = "scoped"
    BY <1>2 DEF Scoped
  <2>1. pc' = "execute" /\ todo' = targets /\ results' = Nothing /\ ~mutation_succeeded'
        /\ verdict' = "none" /\ ~denied'
    BY <2>0, FirstSteps DEF Begin
  <2>2. targets # {}
    BY <1>2 DEF Mutations
  <2>3. Tells(results, asked \ todo)'
    BY <2>1 DEF Tells, Present, Nothing
  <2>4. mutation_succeeded' <=> Abstract!Written' # {}
    BY <2>1, <1>1 DEF Abstract!Written
  <2>5. LoopInv'
    BY <2>1, <2>2, <2>3, <2>4, <1>1, <1>2 DEF LoopInv
  <2>6. GlobalInv' /\ LoadInv' /\ TestInv' /\ VerdictInv'
    BY <2>1 DEF GlobalInv, LoadInv, TestInv, VerdictInv, LoadSteps, TestSteps
  <2> QED
    BY <2>5, <2>6, <1>1 DEF RequestInv
<1>3. CASE operation \in Globals
  <2>1. pc' = "global_execute" /\ verdict' = "none" /\ ~denied'
    BY <1>3, FirstSteps DEF Begin, Globals
  <2>2. LoopInv' /\ GlobalInv' /\ LoadInv' /\ TestInv' /\ VerdictInv'
    BY <2>1, <1>3 DEF LoopInv, GlobalInv, LoadInv, TestInv, VerdictInv, LoadSteps, TestSteps
  <2> QED
    BY <2>2, <1>1 DEF RequestInv
<1>4. CASE operation \in Reads
  <2>1. /\ operation = "snapshot" => pc' = "hostname"
        /\ operation = "test" => pc' = "test_hostname"
        /\ verdict' = "none"
    BY FirstSteps DEF Begin
  <2>2. LoopInv' /\ GlobalInv' /\ LoadInv' /\ TestInv' /\ VerdictInv'
    BY <2>1, <1>4 DEF LoopInv, GlobalInv, LoadInv, TestInv, VerdictInv, LoadSteps, TestSteps, Reads
  <2> QED
    BY <2>2, <1>1 DEF RequestInv
<1> QED
  BY <1>2, <1>3, <1>4 DEF Mutations

\* A step of the service keeps the invariant and is a step of RemoteChange.
LEMMA NextRequest ==
  TypeOK /\ RequestInv /\ [Next]_vars => RequestInv' /\ [Abstract!Next]_(Abstract!vars)
<1> SUFFICES ASSUME TypeOK, RequestInv, [Next]_vars
             PROVE  RequestInv' /\ [Abstract!Next]_(Abstract!vars)
  OBVIOUS
<1> DEFINE Goal == RequestInv' /\ [Abstract!Next]_(Abstract!vars)
<1>0. /\ denied \in BOOLEAN /\ asked \in SUBSET Targets /\ op \in Mutations \cup Reads
      /\ password \in BOOLEAN /\ config \subseteq Targets
      /\ results \in [Targets -> TargetResults] /\ writes \in [Targets -> {0, 1}]
  BY DEF TypeOK, HistoryType, RequestType, RemoteType, ChangeType, RequestInv
<1>1. ASSUME NEW operation \in Mutations \cup Reads, NEW targets \in SUBSET Targets,
             Ask(operation, targets)
      PROVE  Goal
  <2>1. RequestInv'
    BY <1>1, BeginStep DEF Ask, Abstract!Unwritten
  <2>2. Abstract!Ask(targets)
    BY <1>1 DEF Ask, Begin, Abstract!Ask, Abstract!Unwritten
  <2> QED
    BY <2>1, <2>2 DEF Abstract!Next
<1>2. CASE Retry
  <2>1. writes = Abstract!Unwritten /\ confirmed = {}
    BY <1>2, Untouched DEF Retry, RequestInv, VerdictInv
  <2>2. op \in Mutations <=> asked # {}
    BY DEF RequestInv
  <2>3. /\ op' = op /\ asked' = asked /\ writes' = writes /\ confirmed' = confirmed
        /\ Begin(op, asked)
    BY <1>2 DEF Retry
  <2>4. RequestInv'
    <3>1. op' = op /\ asked' = asked /\ writes' = Abstract!Unwritten /\ confirmed' = {}
      BY <2>1, <2>3
    <3> QED
      BY <2>2, <2>3, <3>1, <1>0, BeginStep, Zenon
  <2>5. Abstract!Retry
    BY <1>2, <2>3 DEF Retry, Begin, Abstract!Retry
  <2> QED
    BY <2>4, <2>5 DEF Abstract!Next
<1>3. CASE Interfere
  <2>1. disturbed' /\ UNCHANGED <<op, asked, zone, pc, todo, mutation_succeeded, results,
                                  verdict, writes, confirmed, denied>>
    BY <1>3 DEF Interfere, request, change
  <2>2. LoopInv'
    BY <2>1 DEF RequestInv, LoopInv, Tells, Present, Selected, Abstract!Written
  <2>3. GlobalInv' /\ LoadInv' /\ TestInv' /\ VerdictInv'
    BY <2>1 DEF RequestInv, GlobalInv, LoadInv, TestInv, VerdictInv, Abstract!Unwritten
  <2>4. RequestInv'
    BY <2>1, <2>2, <2>3 DEF RequestInv, Abstract!Written
  <2> QED
    BY <2>1, <2>4 DEF Abstract!vars
<1>4. CASE ExecuteOk
  <2>1. /\ pc = "execute" /\ pc' = "verify" /\ mutation_succeeded' = TRUE
        /\ writes' = [t \in Targets |-> IF t = Selected THEN writes[t] + 1 ELSE writes[t]]
        /\ config \subseteq config'
        /\ UNCHANGED <<op, asked, zone, default_zone, disturbed, todo, results, verdict,
                       confirmed, denied>>
    BY <1>4 DEF ExecuteOk, MayTakeEffect, Accepted, request
  <2>2. pc \in {"execute", "verify"} /\ Selected' = Selected
    BY <2>1 DEF Selected
  <2>3. Selected \in todo /\ writes[Selected] = 0
    BY <2>1, <2>2, SelectedLeft
  <2>4. /\ writes' \in [Targets -> {0, 1}]
        /\ \A t \in Targets : writes'[t] = IF t = Selected THEN 1 ELSE writes[t]
    BY <2>1, <2>3, <1>0
  <2>5. Tells(results, asked \ todo)'
    <3>1. Tells(results, asked \ todo)
      BY <2>2 DEF RequestInv, LoopInv
    <3> QED
      BY <3>1, <2>1, <2>3, <2>4, <1>0 DEF Tells, Present
  <2>6. LoopInv'
    <3>1. Abstract!Written' # {}
      BY <2>4, <2>2, SelectedLeft, <1>0 DEF Abstract!Written
    <3> QED
      BY <3>1, <2>1, <2>2, <2>4, <2>5, <1>0, SelectedLeft DEF LoopInv, RequestInv
  <2>7. GlobalInv' /\ LoadInv' /\ TestInv' /\ VerdictInv'
    BY <2>1, <2>2, SelectedLeft DEF GlobalInv, LoadInv, TestInv, VerdictInv, LoadSteps, TestSteps
  <2>8. RequestInv'
    <3>1. confirmed' \subseteq Abstract!Written'
      BY <2>1, <2>4, <1>0 DEF RequestInv, Abstract!Written
    <3>2. \A t \in Targets \ asked' : writes'[t] = 0
      BY <2>1, <2>2, <2>4, SelectedLeft DEF RequestInv
    <3>3. op' # "set_default_zone" /\ (~disturbed' => confirmed' \subseteq config')
      BY <2>1, <2>2, SelectedLeft
    <3> QED
      BY <3>1, <3>2, <3>3, <2>1, <2>4, <2>6, <2>7 DEF RequestInv
  <2>9. Abstract!Accept({Selected})
    BY <2>1, <2>2, <2>3, <2>4, <1>0, SelectedLeft DEF Abstract!Accept
  <2> QED
    BY <2>2, <2>8, <2>9, <1>0, SelectedLeft DEF Abstract!Next
<1>5. CASE ExecuteDenied
  <2>1. pc = "execute" /\ denied' = TRUE
    BY <1>5 DEF ExecuteDenied
  <2>2. CASE mutation_succeeded
    <3>1. Abandon(ExecutionFailed(TRUE)) /\ UNCHANGED <<request, remote, writes, confirmed>>
      BY <1>5, <2>2 DEF ExecuteDenied
    <3>2. /\ ExecutionFailed(TRUE) \in TargetResults
          /\ ExecutionFailed(TRUE) # Absent /\ ExecutionFailed(TRUE) # TargetSuccess
          /\ ExecutionFailed(TRUE).execution = "failed"
      BY DEF TargetResults, ExecutionFailed, Absent, TargetSuccess, TargetResult
    <3> QED
      BY <2>1, <3>1, <3>2, AbandonStep
  <2>3. CASE ~mutation_succeeded
    <3>1. Raise(SudoError) /\ UNCHANGED <<remote, request, writes>>
      BY <1>5, <2>3 DEF ExecuteDenied
    <3>2. LoopInv /\ Abstract!Written = {} /\ verdict = "none"
      BY <2>1, <2>3 DEF RequestInv, LoopInv
    <3>3. writes = Abstract!Unwritten
      BY <3>2, <1>0 DEF Abstract!Written, Abstract!Unwritten
    <3>4. confirmed = {}
      BY <3>3, Untouched
    <3>5. verdict' \in SudoErrors
      BY <3>1 DEF Raise, SudoError, SudoErrors
    <3>6. UNCHANGED <<op, asked, zone, disturbed, writes, confirmed>> /\ pc' = "over"
      BY <3>1 DEF Raise, remote, request
    <3> QED
      BY <2>1, <3>2, <3>3, <3>4, <3>5, <3>6, OverStep DEF SudoErrors, Errors
  <2> QED
    BY <2>2, <2>3
<1>6. ASSUME NEW e \in Errors, ExecuteRaises(e) PROVE Goal
  <2>1. /\ pc = "execute" /\ pc' = "over" /\ verdict' = e /\ e \in Terminal \cup SSHErrors
        /\ config \subseteq config' /\ UNCHANGED default_zone
        /\ UNCHANGED <<op, asked, zone, disturbed, writes, confirmed, denied>>
    BY <1>6 DEF ExecuteRaises, Raise, MayTakeEffect, request
  <2>2. verdict = "none" /\ e \in Abstract!Unsure
    BY <2>1, SelectedLeft DEF Terminal, SSHErrors, Abstract!Unsure
  <2> QED
    BY <2>1, <2>2, <1>0, OverStep DEF Abstract!Unsure, Abstract!Clean
<1>7. CASE ExecuteFails
  <2>1. pc = "execute"
    BY <1>7 DEF ExecuteFails
  <2>2. /\ ExecutionFailed(FALSE) \in TargetResults
        /\ ExecutionFailed(FALSE) # Absent /\ ExecutionFailed(FALSE) # TargetSuccess
        /\ ExecutionFailed(FALSE).execution = "failed"
    BY DEF TargetResults, ExecutionFailed, Absent, TargetSuccess, TargetResult
  <2>3. /\ GoOn([results EXCEPT ![Selected] = ExecutionFailed(FALSE)])
        /\ UNCHANGED <<request, remote, writes, confirmed, mutation_succeeded, denied>>
    BY <1>7 DEF ExecuteFails
  <2> QED
    BY <2>1, <2>2, <2>3, GoOnStep
<1>8. \A r \in {TargetSuccess, Unverified(FALSE), Unverified(TRUE)} :
        /\ r \in TargetResults /\ r # Absent /\ r.execution = "succeeded"
        /\ r = TargetSuccess <=> r.verification = "succeeded"
  <2>1. {TargetSuccess, Unverified(FALSE), Unverified(TRUE)} \subseteq TargetResults
    BY DEF TargetResults
  <2>2. \A r \in {TargetSuccess, Unverified(FALSE), Unverified(TRUE)} :
          r # Absent /\ r.execution = "succeeded"
    BY DEF Unverified, Absent, TargetSuccess, TargetResult
  <2>3. /\ TargetSuccess.verification = "succeeded"
        /\ Unverified(FALSE).verification = "failed"
        /\ Unverified(TRUE).verification = "failed"
    BY DEF Unverified, TargetSuccess, TargetResult
  <2> QED
    BY <2>1, <2>2, <2>3
<1>22. Unverified(FALSE) # TargetSuccess /\ Unverified(TRUE) # TargetSuccess
  BY DEF Unverified, TargetSuccess, TargetResult
<1>9. CASE VerifyRead
  <2>1. /\ pc = "verify"
        /\ GoOn([results EXCEPT ![Selected] = IF Selected \in config THEN TargetSuccess
                                              ELSE Unverified(FALSE)])
        /\ confirmed' = IF Selected \in config THEN confirmed \cup {Selected} ELSE confirmed
        /\ UNCHANGED <<request, remote, writes, mutation_succeeded, denied>>
    BY <1>9 DEF VerifyRead, Verified
  <2>2. CASE Selected \in config
    BY <2>1, <2>2, <1>8, GoOnStep
  <2>3. CASE Selected \notin config
    BY <2>1, <2>3, <1>8, <1>22, GoOnStep
  <2> QED
    BY <2>2, <2>3
<1>10. CASE VerifyFails
  BY <1>8, <1>22, <1>10, GoOnStep DEF VerifyFails
<1>11. CASE VerifyDenied
  BY <1>8, <1>22, <1>11, AbandonStep DEF VerifyDenied
<1>12. ASSUME NEW e \in Errors, VerifyRaises(e) PROVE Goal
  <2>1. /\ pc = "verify" /\ pc' = "over" /\ verdict' = e /\ e \in Terminal \cup SSHErrors
        /\ UNCHANGED <<config, default_zone, op, asked, zone, disturbed, writes, confirmed,
                       denied>>
    BY <1>12 DEF VerifyRaises, Raise, remote, request
  <2>2. verdict = "none" /\ e \in Abstract!Unsure
    BY <2>1, SelectedLeft DEF Terminal, SSHErrors, Abstract!Unsure
  <2> QED
    BY <2>1, <2>2, <1>0, OverStep DEF Abstract!Unsure, Abstract!Clean
<1>13. CASE RejectTarget
  <2>1. pc = "global_execute" /\ pc' = "over" /\ verdict' = "command"
        /\ UNCHANGED <<config, default_zone, op, asked, zone, disturbed, writes, confirmed,
                       denied>>
    BY <1>13 DEF RejectTarget, Raise, remote, request
  <2>2. verdict = "none" /\ writes = Abstract!Unwritten
    BY <2>1 DEF RequestInv, GlobalInv
  <2> QED
    BY <2>1, <2>2, <1>0, OverStep DEF Errors, Tolerated
<1>14. CASE GlobalExecuteOk
  <2>1. /\ pc = "global_execute" /\ asked = Targets /\ pc' = "global_verify"
        /\ writes' = [t \in Targets |-> writes[t] + 1]
        /\ UNCHANGED <<op, asked, zone, disturbed, verdict, confirmed, denied>>
    BY <1>14 DEF GlobalExecuteOk, Accepted, request
  <2>2. /\ op \in Globals /\ verdict = "none" /\ ~denied /\ confirmed = {}
        /\ writes = Abstract!Unwritten
    BY <2>1 DEF RequestInv, GlobalInv
  <2>3. writes' \in [Targets -> {0, 1}] /\ \A t \in Targets : writes'[t] = 1 /\ writes[t] = 0
    BY <2>1, <2>2 DEF Abstract!Unwritten
  <2>4. LoopInv' /\ GlobalInv' /\ LoadInv' /\ TestInv' /\ VerdictInv'
    BY <2>1, <2>2, <2>3 DEF LoopInv, GlobalInv, LoadInv, TestInv, VerdictInv, LoadSteps, TestSteps
  <2>5. RequestInv'
    BY <2>1, <2>2, <2>3, <2>4 DEF RequestInv, Globals
  <2>6. Abstract!Accept(Targets)
    BY <2>1, <2>2, <2>3 DEF Abstract!Accept, Targets
  <2> QED
    BY <2>5, <2>6 DEF Abstract!Next
<1>15. ASSUME pc \in {"global_execute", "global_verify"}
       PROVE  /\ op \in Mutations /\ op \in Globals /\ op \notin Scoped
              /\ verdict = "none" /\ ~denied /\ confirmed = {}
              /\ \A t \in Targets : writes[t] = IF pc = "global_verify" THEN 1 ELSE 0
              /\ pc = "global_execute" => writes = Abstract!Unwritten
              /\ pc = "global_verify" => asked = Targets /\ Abstract!Written = Targets
  BY <1>15 DEF RequestInv, GlobalInv, Mutations, Globals, Scoped, Abstract!Unwritten,
               Abstract!Written
<1>16. ASSUME NEW r \in TargetResults, r # Absent, Return(Both(r)),
              pc \in {"global_execute", "global_verify"}, asked = Targets,
              r.execution = "succeeded" <=> pc = "global_verify",
              confirmed' = IF r = TargetSuccess THEN Targets ELSE {},
              r = TargetSuccess /\ op = "set_default_zone" => default_zone = zone,
              UNCHANGED <<request, remote, writes, denied>>
       PROVE  Goal
  <2>1. Both(r) \in [Targets -> TargetResults] /\ \A t \in Targets : Both(r)[t] = r
    BY DEF Both
  <2>2. Present(Both(r)) = asked
    BY <1>16, <2>1 DEF Present
  <2>3. confirmed' \subseteq Abstract!Written
    BY <1>15, <1>16 DEF TargetSuccess, TargetResult
  <2>4. UNCHANGED <<op, asked, zone, remote, writes>>
    BY <1>16 DEF request
  <2>5. \A t \in asked : /\ Both(r)[t].execution = "succeeded" <=> writes[t] = 1
                         /\ Both(r)[t] = TargetSuccess => t \in confirmed'
    BY <1>15, <1>16, <2>1
  <2>6. op = "set_default_zone" /\ ~disturbed /\ confirmed' # {} => default_zone = zone
    BY <1>16
  <2> QED
    BY <1>0, <1>15, <1>16, <2>1, <2>2, <2>3, <2>4, <2>5, <2>6, ReturnStep
<1>17. CASE GlobalExecuteFails
  <2>1. /\ ExecutionFailed(FALSE) \in TargetResults
        /\ ExecutionFailed(FALSE) # Absent /\ ExecutionFailed(FALSE) # TargetSuccess
        /\ ExecutionFailed(FALSE).execution = "failed"
    BY DEF TargetResults, ExecutionFailed, Absent, TargetSuccess, TargetResult
  <2>2. /\ pc = "global_execute" /\ asked = Targets /\ Return(Both(ExecutionFailed(FALSE)))
        /\ UNCHANGED <<request, remote, writes, confirmed, denied>>
    BY <1>17 DEF GlobalExecuteFails
  <2> QED
    BY <2>1, <2>2, <1>15, <1>16
<1>18. ASSUME NEW e \in Errors, GlobalExecuteRaises(e) PROVE Goal
  <2>1. /\ pc = "global_execute" /\ pc' = "over" /\ verdict' = e /\ e # "post"
        /\ UNCHANGED <<op, asked, zone, disturbed, writes, confirmed>>
        /\ denied' = (denied \/ e \in SudoErrors)
    BY <1>18 DEF GlobalExecuteRaises, Raise, Refused, request, SudoError, Terminal, SSHErrors
  <2> QED
    BY <2>1, <1>0, <1>15, OverStep
<1>19. CASE GlobalVerifyRead
  <2>1. PICK verified \in BOOLEAN :
          /\ Return(Both(IF verified THEN TargetSuccess ELSE Unverified(FALSE)))
          /\ confirmed' = IF verified THEN Targets ELSE confirmed
          /\ verified /\ op = "set_default_zone" => default_zone = zone
    BY <1>19 DEF GlobalVerifyRead, GlobalVerified
  <2>2. pc = "global_verify" /\ UNCHANGED <<request, remote, writes, denied>>
    BY <1>19 DEF GlobalVerifyRead
  <2>3. CASE verified
    BY <2>1, <2>2, <2>3, <1>8, <1>15, <1>16
  <2>4. CASE ~verified
    BY <2>1, <2>2, <2>4, <1>8, <1>22, <1>15, <1>16
  <2> QED
    BY <2>3, <2>4
<1>20. CASE GlobalVerifyFails
  BY <1>8, <1>22, <1>15, <1>16, <1>20 DEF GlobalVerifyFails
<1>21. ASSUME NEW e \in Errors, GlobalVerifyRaises(e) PROVE Goal
  <2>1. /\ pc = "global_verify" /\ pc' = "over"
        /\ verdict' \in {"post"} \cup Terminal \cup SSHErrors
        /\ UNCHANGED <<config, default_zone, op, asked, zone, disturbed, writes, confirmed>>
        /\ denied' = (denied \/ e \in SudoErrors)
    BY <1>21 DEF GlobalVerifyRaises, Raise, Refused, remote, request, SudoError, SudoErrors
  <2>2. verdict' \in Errors /\ verdict' \notin Abstract!Clean
    BY <2>1 DEF Errors, Terminal, SSHErrors, Abstract!Clean
  <2>3. Abstract!Written # {}
    BY <2>1, <1>15 DEF Targets
  <2> QED
    BY <2>1, <2>2, <2>3, <1>0, <1>15, OverStep
<1>23. ASSUME NEW e \in Errors \ {"post"}, LoadFails(e), pc \in LoadSteps PROVE Goal
  <2>1. /\ pc' = "over" /\ denied' = (denied \/ e \in SudoErrors)
        /\ UNCHANGED <<op, asked, zone, remote, writes, confirmed>>
        /\ verdict' = verdict \/ (op \notin Mutations /\ verdict' = e)
    BY <1>23 DEF LoadFails, Refused, request
  <2>2. op \in Mutations \/ op = "snapshot"
    BY <1>23 DEF RequestInv, LoadInv
  <2> QED
    BY <2>1, <2>2, <1>0, <1>23, LoadStep
<1>24. ASSUME LoadGoesOn, pc \in LoadSteps PROVE Goal
  <2>1. pc' \in LoadSteps \cup {"over"}
    BY <1>24 DEF LoadGoesOn, Loaded, LoadSteps
  <2>2. /\ UNCHANGED <<op, asked, zone, remote, writes, confirmed, denied>>
        /\ verdict' = verdict \/ (op \notin Mutations /\ pc = "services" /\ verdict' = "read")
    BY <1>24 DEF LoadGoesOn, request, outcome
  <2>3. op \in Mutations \/ op = "snapshot"
    BY <1>24 DEF RequestInv, LoadInv
  <2>4. pc = "services" => pc' = "over"
    BY <1>24 DEF LoadGoesOn, Loaded
  <2> QED
    BY <2>1, <2>2, <2>3, <2>4, <1>0, <1>24, LoadStep
<1>25. /\ ReadErrors \subseteq Errors \ {"post"} /\ ProbeErrors \subseteq Errors \ {"post"}
  BY DEF ReadErrors, ProbeErrors, CommandErrors, Errors, SudoError, SudoErrors, Terminal,
         SSHErrors, Tolerated
<1>26. CASE ReadProbe
  BY <1>23, <1>24, <1>25, <1>26 DEF ReadProbe, LoadSteps
<1>27. CASE ReadMandatory
  BY <1>23, <1>24, <1>25, <1>27 DEF ReadMandatory, LoadSteps
<1>28. CASE ReadPart
  BY <1>23, <1>24, <1>25, <1>28 DEF ReadPart, LoadSteps
<1>29. ASSUME pc \in LoadSteps, pc' \in LoadSteps, verdict' = verdict,
              UNCHANGED <<remote, request, writes, confirmed, denied>>
       PROVE  Goal
  <2>1. UNCHANGED <<op, asked, zone, remote, writes, confirmed>> /\ denied' = denied
    BY <1>29 DEF request
  <2> QED
    BY <1>29, <2>1, LoadStep
<1>30. CASE ReadNames
  <2>1. pc \in LoadSteps /\ Loaded(Loaded(pc)) \in LoadSteps
    BY <1>30 DEF ReadNames, Loaded, LoadSteps
  <2>2. \/ LoadGoesOn
        \/ \E e \in ReadErrors : LoadFails(e)
        \/ /\ pc' = Loaded(Loaded(pc)) /\ verdict' = verdict
           /\ UNCHANGED <<remote, request, writes, confirmed, denied>>
    BY <1>30 DEF ReadNames
  <2> QED
    BY <2>1, <2>2, <1>23, <1>24, <1>25, <1>29
<1>31. ASSUME NEW z \in Zones, ReadZone(z) PROVE Goal
  <2>1. pc \in LoadSteps /\ Loaded(pc) \in LoadSteps
    BY <1>31 DEF ReadZone, Loaded, LoadSteps
  <2>2. \/ \E e \in ReadErrors : LoadFails(e)
        \/ /\ pc' \in {pc, Loaded(pc)} /\ verdict' = verdict
           /\ UNCHANGED <<remote, request, writes, confirmed, denied>>
    BY <1>31 DEF ReadZone
  <2> QED
    BY <2>1, <2>2, <1>23, <1>25, <1>29
<1>32. CASE ConnectionTest
  <2>1. /\ pc \in TestSteps
        /\ UNCHANGED <<config, default_zone, disturbed, op, asked, zone, writes, confirmed>>
        /\ \/ pc' \in TestSteps /\ UNCHANGED <<verdict, denied>>
           \/ /\ pc' = "over" /\ verdict' \in (Errors \ {"post"}) \cup {"read"}
              /\ denied' \in BOOLEAN /\ (denied => denied')
    <3>1. /\ pc \in TestSteps
          /\ UNCHANGED <<config, default_zone, disturbed, op, asked, zone, writes, confirmed>>
      BY <1>32 DEF ConnectionTest, TestProbe, TestState, TestVersion, TestSteps, remote, request
    <3>2. {SudoError} \cup SSHErrors \subseteq Errors \ {"post"}
      BY DEF Errors, SudoError, SudoErrors, SSHErrors
    <3>3. ASSUME NEW e \in {SudoError} \cup SSHErrors, TestRaises(e)
          PROVE  /\ pc' = "over" /\ verdict' \in (Errors \ {"post"}) \cup {"read"}
                 /\ denied' \in BOOLEAN /\ (denied => denied')
      BY <3>2, <3>3, <1>0 DEF TestRaises, Refused
    <3>4. ASSUME NEW history, NEW found, TestEnds(history, found)
          PROVE  /\ pc' = "over" /\ verdict' \in (Errors \ {"post"}) \cup {"read"}
                 /\ denied' \in BOOLEAN /\ (denied => denied')
      BY <3>4, <1>0 DEF TestEnds
    <3>5. CASE TestProbe
      BY <3>1, <3>3, <3>5 DEF TestProbe, TestSteps
    <3>6. CASE TestState
      BY <3>1, <3>3, <3>4, <3>6 DEF TestState, TestSteps
    <3>7. CASE TestVersion
      BY <3>1, <3>3, <3>4, <3>7 DEF TestVersion
    <3> QED
      BY <3>1, <3>5, <3>6, <3>7, <1>32 DEF ConnectionTest
  <2>2. op = "test" /\ verdict = "none" /\ writes = Abstract!Unwritten /\ confirmed = {}
    BY <2>1, Untouched DEF RequestInv, TestInv
  <2>3. CASE pc' = "over" /\ verdict' \in (Errors \ {"post"}) \cup {"read"}
             /\ denied' \in BOOLEAN /\ (denied => denied')
    BY <2>1, <2>2, <2>3, OverStep
  <2>4. CASE pc' \in TestSteps /\ UNCHANGED <<verdict, denied>>
    <3>1. LoopInv' /\ GlobalInv' /\ LoadInv' /\ TestInv' /\ VerdictInv'
      BY <2>1, <2>2, <2>4 DEF LoopInv, GlobalInv, LoadInv, TestInv, VerdictInv, LoadSteps,
                              TestSteps, Abstract!Unwritten
    <3>2. RequestInv'
      BY <2>1, <2>2, <3>1, HistoryKept
    <3> QED
      BY <2>1, <2>4, <3>2 DEF Abstract!vars
  <2> QED
    BY <2>1, <2>3, <2>4
<1>33. CASE UNCHANGED vars
  <2>1. UNCHANGED <<config, default_zone, disturbed, op, asked, zone, pc, todo,
                    mutation_succeeded, results, verdict, writes, confirmed, denied>>
    BY <1>33 DEF vars, remote, request, change
  <2>2. LoopInv' /\ GlobalInv' /\ LoadInv' /\ TestInv' /\ VerdictInv'
    BY <2>1 DEF RequestInv, LoopInv, GlobalInv, LoadInv, TestInv, VerdictInv, Tells, Present,
                Selected, Abstract!Written
  <2>3. RequestInv'
    BY <2>1, <2>2, HistoryKept
  <2> QED
    BY <2>1, <2>3 DEF Abstract!vars
<1> QED
  BY <1>1, <1>2, <1>3, <1>4, <1>5, <1>6, <1>7, <1>9, <1>10, <1>11, <1>12, <1>13, <1>14, <1>17,
     <1>18, <1>19, <1>20, <1>21, <1>26, <1>27, <1>28, <1>30, <1>31, <1>32, <1>33
  DEF Next, ApplyTargets, ApplyGlobal, LoadSnapshot

\* How far the request is and what it has written are always in step.
THEOREM RequestCorrect == Spec => []RequestInv
  BY InitType, NextType, InitRequest, NextRequest, PTL DEF Spec

\* A change reported as successful was read back from every target it was asked for,
\* and holds there unless somebody else undid it.
THEOREM SuccessConfirmed == Spec => []SucceededMeansConfirmed
<1>1. RequestInv => SucceededMeansConfirmed
  <2> SUFFICES ASSUME RequestInv, verdict = "succeeded"
               PROVE  /\ confirmed = asked
                      /\ op \in Scoped /\ ~disturbed => asked \subseteq config
                      /\ op = "set_default_zone" /\ ~disturbed => default_zone = zone
    BY DEF SucceededMeansConfirmed
  <2>1. confirmed = asked /\ (op \in Mutations => asked # {})
    BY DEF RequestInv, VerdictInv
  <2> QED
    BY <2>1 DEF RequestInv, Mutations, Globals
<1> QED
  BY <1>1, RequestCorrect, PTL

\* For any zones, any answers and any interference, no request writes a target twice, not
\* even with its retry, none writes after a refusal, and its report fits what it wrote.
THEOREM Implementation == Spec => ImplementsRemoteChange
<1>1. Init => Abstract!Init
  BY InitRequest
<1>2. TypeOK /\ RequestInv /\ [Next]_vars => [Abstract!Next]_(Abstract!vars)
  BY NextRequest
<1> QED
  BY <1>1, <1>2, TypeCorrect, RequestCorrect, PTL
  DEF Spec, ImplementsRemoteChange, Abstract!Spec

-----------------------------------------------------------------------------
(* How a change ends: with an error, or with results and their label.       *)

Changing == {"execute", "verify", "global_execute", "global_verify"}

\* The label fits the results, which are those of the targets asked for.
Labelled ==
    /\ op \in Mutations /\ (op \in Globals => asked = Targets)
    /\ Present(results) = asked
    /\ verdict = Classify(op, results)

LEMMA GoOnLabel ==
  ASSUME TypeOK, RequestInv, pc \in {"execute", "verify"},
         NEW r \in TargetResults, r # Absent, GoOn([results EXCEPT ![Selected] = r]),
         UNCHANGED request
  PROVE  \/ pc' = "hostname" /\ Labelled'
         \/ pc' = "execute" /\ verdict' = "none"
<1> DEFINE composite == [results EXCEPT ![Selected] = r]
<1>1. /\ results \in [Targets -> TargetResults] /\ asked \subseteq Targets
      /\ Selected \in Targets /\ UNCHANGED <<op, asked>>
  BY ResultTypes DEF TypeOK, ChangeType, RequestType, request
<1>2. /\ composite \in [Targets -> TargetResults]
      /\ \A t \in Targets : composite[t] = IF t = Selected THEN r ELSE results[t]
  BY <1>1
<1>3. Present(composite) = asked \ (todo \ {Selected})
  BY <1>1, <1>2, SelectedLeft DEF Present
<1> HIDE DEF composite
<1>4. todo' = todo \ {Selected} /\ GoOn(composite)
  BY DEF GoOn, composite
<1>5. CASE todo' = {}
  <2>1. Return(composite) /\ Present(composite) = asked
    BY <1>3, <1>4, <1>5 DEF GoOn
  <2> QED
    BY <1>1, <2>1, SelectedLeft DEF Return, Labelled, Present
<1>6. CASE todo' # {}
  BY <1>4, <1>6, SelectedLeft DEF GoOn
<1> QED
  BY <1>5, <1>6

LEMMA AbandonLabel ==
  ASSUME TypeOK, RequestInv, pc \in {"execute", "verify"},
         NEW r \in TargetResults, r # Absent, Abandon(r), UNCHANGED request
  PROVE  /\ pc' = "hostname" /\ Labelled'
         /\ Selected \in Targets /\ results'[Selected] = r
<1> DEFINE composite == [t \in Targets |-> IF t = Selected THEN r
                                           ELSE IF t \in todo THEN TargetNotRun
                                           ELSE results[t]]
<1>1. /\ results \in [Targets -> TargetResults] /\ asked \subseteq Targets
      /\ Selected \in Targets /\ UNCHANGED <<op, asked>>
  BY ResultTypes DEF TypeOK, ChangeType, RequestType, request
<1>2. TargetNotRun # Absent
  BY DEF TargetNotRun, Absent, TargetResult
<1>3. Present(composite) = asked /\ composite[Selected] = r
  BY <1>1, <1>2, SelectedLeft DEF Present
<1>4. Return(composite)
  BY DEF Abandon
<1> HIDE DEF composite
<1> QED
  BY <1>1, <1>3, <1>4, SelectedLeft DEF Return, Labelled, Present

\* A global change returns the same result for both targets.
LEMMA BothLabel ==
  ASSUME TypeOK, op \in Globals, asked = Targets,
         NEW r \in TargetResults, r # Absent, Return(Both(r)), UNCHANGED request
  PROVE  pc' = "hostname" /\ Labelled'
<1>1. Present(Both(r)) = Targets
  BY DEF Present, Both
<1> QED
  BY <1>1 DEF Return, Labelled, Present, Mutations, request

\* A step of a change goes on, raises, or returns results with their label.  What
\* was refused is told by the error or by a result.
LEMMA ChangeStep ==
  ASSUME TypeOK, RequestInv, ApplyTargets \/ ApplyGlobal
  PROVE  /\ pc \in Changing /\ ~denied
         /\ UNCHANGED <<op, asked, zone, disturbed, outcome, snapshot, test>>
         /\ \/ /\ pc' = "over" /\ verdict' \in Errors
               /\ denied' => verdict' \in SudoErrors \cup {"post"}
            \/ pc' \in Changing /\ verdict' = "none" /\ ~denied'
            \/ /\ pc' = "hostname" /\ Labelled'
               /\ denied' => AuthenticationFailed'
<1> DEFINE Goal == \/ /\ pc' = "over" /\ verdict' \in Errors
                      /\ denied' => verdict' \in SudoErrors \cup {"post"}
                   \/ pc' \in Changing /\ verdict' = "none" /\ ~denied'
                   \/ /\ pc' = "hostname" /\ Labelled'
                      /\ denied' => AuthenticationFailed'
<1>1. pc \in Changing
  BY DEF ApplyTargets, ApplyGlobal, ExecuteOk, ExecuteDenied, ExecuteFails, VerifyRead,
         VerifyFails, VerifyDenied, ExecuteRaises, VerifyRaises, RejectTarget,
         GlobalExecuteOk, GlobalExecuteFails, GlobalVerifyRead, GlobalVerifyFails,
         GlobalExecuteRaises, GlobalVerifyRaises, Changing
<1>2. /\ ~denied /\ verdict = "none"
      /\ pc \in {"global_execute", "global_verify"} => op \in Globals
      /\ pc = "global_verify" => asked = Targets
  BY <1>1 DEF RequestInv, LoopInv, GlobalInv, Changing
<1>3. UNCHANGED <<op, asked, zone, disturbed, outcome, snapshot, test>>
  BY DEF ApplyTargets, ApplyGlobal, ExecuteOk, ExecuteDenied, ExecuteFails, VerifyRead,
         VerifyFails, VerifyDenied, ExecuteRaises, VerifyRaises, RejectTarget,
         GlobalExecuteOk, GlobalExecuteFails, GlobalVerifyRead, GlobalVerifyFails,
         GlobalExecuteRaises, GlobalVerifyRaises, Raise, remote, request
<1>4. /\ {SudoError, "post", "command"} \subseteq Errors
      /\ SudoError \in SudoErrors
  BY DEF Errors, SudoError, SudoErrors, Tolerated
<1>5. \A auth \in BOOLEAN :
        /\ ExecutionFailed(auth) \in TargetResults /\ ExecutionFailed(auth) # Absent
        /\ Unverified(auth) \in TargetResults /\ Unverified(auth) # Absent
        /\ ExecutionFailed(auth).authentication_failed = auth
        /\ Unverified(auth).authentication_failed = auth
  BY DEF TargetResults, ExecutionFailed, Unverified, Absent, TargetResult
<1>6. TargetSuccess \in TargetResults /\ TargetSuccess # Absent
  BY DEF TargetResults, TargetSuccess, Absent, TargetResult
<1> SUFFICES Goal
  BY <1>1, <1>2, <1>3
<1>7. CASE ExecuteOk
  BY <1>2, <1>7 DEF ExecuteOk, Changing
<1>8. CASE ExecuteDenied
  <2>1. CASE mutation_succeeded
    BY <1>5, <1>8, <2>1, AbandonLabel DEF ExecuteDenied, AuthenticationFailed
  <2>2. CASE ~mutation_succeeded
    BY <1>4, <1>8, <2>2 DEF ExecuteDenied, Raise
  <2> QED
    BY <2>1, <2>2
<1>9. CASE ExecuteFails \/ VerifyFails
  BY <1>2, <1>5, <1>9, GoOnLabel DEF ExecuteFails, VerifyFails, Changing
<1>10. CASE VerifyRead
  BY <1>2, <1>5, <1>6, <1>10, GoOnLabel DEF VerifyRead, Changing
<1>11. CASE VerifyDenied
  BY <1>5, <1>11, AbandonLabel DEF VerifyDenied, AuthenticationFailed
<1>12. ASSUME NEW e \in Errors, ExecuteRaises(e) \/ VerifyRaises(e) PROVE Goal
  BY <1>2, <1>12 DEF ExecuteRaises, VerifyRaises, Raise
<1>13. CASE RejectTarget
  BY <1>2, <1>4, <1>13 DEF RejectTarget, Raise
<1>14. CASE GlobalExecuteOk
  BY <1>2, <1>14 DEF GlobalExecuteOk, Changing
<1>15. CASE GlobalExecuteFails \/ GlobalVerifyFails
  BY <1>2, <1>5, <1>15, BothLabel DEF GlobalExecuteFails, GlobalVerifyFails
<1>16. CASE GlobalVerifyRead
  BY <1>2, <1>5, <1>6, <1>16, BothLabel DEF GlobalVerifyRead
<1>17. ASSUME NEW e \in Errors, GlobalExecuteRaises(e) \/ GlobalVerifyRaises(e)
       PROVE  Goal
  BY <1>2, <1>4, <1>17 DEF GlobalExecuteRaises, GlobalVerifyRaises, Raise, Refused
<1> QED
  BY <1>7, <1>8, <1>9, <1>10, <1>11, <1>12, <1>13, <1>14, <1>15, <1>16, <1>17
  DEF ApplyTargets, ApplyGlobal

\* A call that begins starts from nothing.
LEMMA BeginShape ==
  ASSUME TypeOK,
         \/ \E operation \in Mutations \cup Reads, targets \in SUBSET Targets :
                Ask(operation, targets)
         \/ Retry
  PROVE  /\ pc' \in Changing \cup {"hostname", "test_hostname"}
         /\ pc' \in {"execute", "global_execute", "hostname", "test_hostname"}
         /\ verdict' = "none" /\ ~denied' /\ refresh' = "none"
         /\ listed' = Nowhere /\ parts' = {} /\ stale' = FALSE /\ unread' = {}
         /\ checks' = <<>>
<1>1. \E o \in Mutations \cup Reads, S \in SUBSET Targets : Begin(o, S)
  BY DEF Ask, Retry, TypeOK, RequestType
<1>2. \A o \in Mutations \cup Reads :
        FirstStep(o) \in {"execute", "global_execute", "hostname", "test_hostname"}
  BY FirstSteps DEF Mutations, Scoped, Globals, Reads
<1> QED
  BY <1>1, <1>2 DEF Begin, Changing

\* Reading the snapshot goes on, fails, or is done.
LEMMA LoadShape ==
  ASSUME TypeOK, RequestInv, LoadSnapshot
  PROVE  /\ pc \in LoadSteps
         /\ UNCHANGED <<request, remote, change, test, writes, confirmed>>
         /\ \/ pc' \in LoadSteps /\ UNCHANGED <<verdict, outcome, denied>>
            \/ \E e \in Errors \ {"post"} : LoadFails(e)
            \/ pc = "services" /\ pc' = "over" /\ LoadGoesOn
<1> DEFINE Goal == \/ pc' \in LoadSteps /\ UNCHANGED <<verdict, outcome, denied>>
                   \/ \E e \in Errors \ {"post"} : LoadFails(e)
                   \/ pc = "services" /\ pc' = "over" /\ LoadGoesOn
<1>1. pc \in LoadSteps
  BY DEF LoadSnapshot, ReadProbe, ReadMandatory, ReadPart, ReadNames, ReadZone, LoadSteps
<1>2. UNCHANGED <<request, remote, change, test, writes, confirmed>>
  BY DEF LoadSnapshot, ReadProbe, ReadMandatory, ReadPart, ReadNames, ReadZone, LoadGoesOn,
         LoadFails
<1>3. ReadErrors \subseteq Errors \ {"post"} /\ ProbeErrors \subseteq Errors \ {"post"}
  BY DEF ReadErrors, ProbeErrors, CommandErrors, Errors, SudoError, SudoErrors, Terminal,
         SSHErrors, Tolerated
<1> SUFFICES Goal
  BY <1>1, <1>2
<1>4. CASE LoadGoesOn
  <2>1. IF pc = "services" THEN Loaded(pc) = "over" ELSE Loaded(pc) \in LoadSteps
    BY <1>1 DEF Loaded, LoadSteps
  <2> QED
    BY <1>4, <2>1 DEF LoadGoesOn
<1>5. CASE ReadProbe \/ ReadMandatory \/ ReadPart
  BY <1>3, <1>4, <1>5 DEF ReadProbe, ReadMandatory, ReadPart
<1>6. CASE ReadNames
  <2>1. Loaded(Loaded(pc)) \in LoadSteps
    BY <1>6 DEF ReadNames, Loaded, LoadSteps
  <2> QED
    BY <1>3, <1>4, <1>6, <2>1 DEF ReadNames
<1>7. ASSUME NEW z \in Zones, ReadZone(z) PROVE Goal
  <2>1. pc \in LoadSteps /\ Loaded(pc) \in LoadSteps
    BY <1>7 DEF ReadZone, Loaded, LoadSteps
  <2> QED
    BY <1>3, <1>7, <2>1 DEF ReadZone
<1> QED
  BY <1>5, <1>6, <1>7 DEF LoadSnapshot

\* A connection test goes on, fails, or is done.
LEMMA TestShape ==
  ASSUME TypeOK, RequestInv, ConnectionTest
  PROVE  /\ pc \in TestSteps /\ op = "test"
         /\ UNCHANGED <<request, change, outcome, snapshot, disturbed, confirmed>>
         /\ \/ pc' \in TestSteps /\ UNCHANGED <<verdict, denied>>
            \/ /\ pc' = "over" /\ verdict' \in Errors \cup {"read"}
               /\ denied' = (denied \/ verdict' \in SudoErrors)
<1> DEFINE Goal == \/ pc' \in TestSteps /\ UNCHANGED <<verdict, denied>>
                   \/ /\ pc' = "over" /\ verdict' \in Errors \cup {"read"}
                      /\ denied' = (denied \/ verdict' \in SudoErrors)
<1>1. /\ pc \in TestSteps
      /\ UNCHANGED <<request, change, outcome, snapshot, disturbed, confirmed>>
  BY DEF ConnectionTest, TestProbe, TestState, TestVersion, TestSteps, remote
<1>2. op = "test"
  BY <1>1 DEF RequestInv, TestInv
<1> SUFFICES Goal
  BY <1>1, <1>2
<1>3. {SudoError} \cup SSHErrors \subseteq Errors
  BY DEF Errors, SudoError, SudoErrors, SSHErrors
<1>4. ASSUME NEW e \in {SudoError} \cup SSHErrors, TestRaises(e) PROVE Goal
  BY <1>3, <1>4 DEF TestRaises, Refused
<1>5. ASSUME NEW history, NEW found, TestEnds(history, found) PROVE Goal
  BY <1>5 DEF TestEnds, SudoErrors, TypeOK, HistoryType
<1>6. CASE TestProbe
  BY <1>4, <1>6 DEF TestProbe, TestSteps
<1>7. CASE TestState
  BY <1>4, <1>5, <1>7 DEF TestState, TestSteps
<1>8. CASE TestVersion
  BY <1>4, <1>5, <1>8 DEF TestVersion
<1> QED
  BY <1>6, <1>7, <1>8 DEF ConnectionTest

-----------------------------------------------------------------------------
(* A refused password is forgotten.                                         *)

\* While the snapshot is read a refusal is still in the results of the change; a
\* test ends with its first one.
ForgetInv ==
    /\ pc \in LoadSteps /\ denied => op \in Mutations /\ AuthenticationFailed
    /\ pc \in TestSteps => ~denied
    /\ RefusedPasswordIsForgotten

LEMMA NextForget == TypeOK /\ RequestInv /\ ForgetInv /\ [Next]_vars => ForgetInv'
<1> SUFFICES ASSUME TypeOK, RequestInv, ForgetInv, [Next]_vars PROVE ForgetInv'
  OBVIOUS
<1> USE DEF RefusedPasswordIsForgotten
<1>1. /\ "over" \notin LoadSteps \cup TestSteps \cup Changing
      /\ LoadSteps \cap TestSteps = {}
      /\ Changing \cap (LoadSteps \cup TestSteps) = {}
      /\ "hostname" \in LoadSteps /\ "hostname" \notin TestSteps
  BY DEF LoadSteps, TestSteps, Changing
<1>2. CASE \/ \E operation \in Mutations \cup Reads, targets \in SUBSET Targets :
                  Ask(operation, targets)
           \/ Retry
  BY <1>1, <1>2, BeginShape DEF ForgetInv
<1>3. CASE Interfere \/ UNCHANGED vars
  <2>1. UNCHANGED <<op, pc, results, verdict, clear_sudo, denied>>
    BY <1>3 DEF Interfere, vars, request, change, outcome
  <2> QED
    BY <2>1 DEF ForgetInv, AuthenticationFailed
<1>4. CASE ApplyTargets \/ ApplyGlobal
  BY <1>1, <1>4, ChangeStep DEF ForgetInv, Labelled
<1>5. CASE LoadSnapshot
  <2>1. /\ pc \in LoadSteps /\ UNCHANGED <<op, results>>
        /\ op \in Mutations => verdict \in Outcomes
    BY <1>5, LoadShape DEF request, change, RequestInv, LoadInv, Mutations, Scoped, Globals
  <2>2. CASE pc' \in LoadSteps /\ UNCHANGED <<verdict, outcome, denied>>
    BY <1>1, <2>1, <2>2 DEF ForgetInv, AuthenticationFailed
  <2>3. ASSUME NEW e \in Errors, LoadFails(e) PROVE ForgetInv'
    BY <1>1, <2>1, <2>3 DEF ForgetInv, LoadFails, Refused
  <2>4. CASE pc = "services" /\ pc' = "over" /\ LoadGoesOn
    BY <1>1, <2>1, <2>4 DEF ForgetInv, LoadGoesOn
  <2> QED
    BY <1>5, <2>2, <2>3, <2>4, LoadShape
<1>6. CASE ConnectionTest
  <2>1. /\ ~denied
        /\ \/ pc' \in TestSteps /\ UNCHANGED denied
           \/ pc' = "over" /\ (denied' => verdict' \in SudoErrors)
    BY <1>6, TestShape DEF ForgetInv
  <2> QED
    BY <1>1, <2>1 DEF ForgetInv
<1> QED
  BY <1>2, <1>3, <1>4, <1>5, <1>6 DEF Next

\* A password that was refused at any point of a job does not stay in the session.
THEOREM RefusalsForgotten == Spec => []RefusedPasswordIsForgotten
<1>1. Init => ForgetInv
  BY DEF Init, ForgetInv, RefusedPasswordIsForgotten
<1>2. ForgetInv => RefusedPasswordIsForgotten
  BY DEF ForgetInv
<1> QED
  BY <1>1, <1>2, NextForget, TypeCorrect, RequestCorrect, PTL DEF Spec

-----------------------------------------------------------------------------
(* What is said in several places is the same everywhere.                   *)

\* The label stays that of the results.
LabelInv == verdict \in Outcomes => Labelled

LEMMA NextLabel == TypeOK /\ RequestInv /\ LabelInv /\ [Next]_vars => LabelInv'
<1> SUFFICES ASSUME TypeOK, RequestInv, LabelInv, [Next]_vars PROVE LabelInv'
  OBVIOUS
<1>1. (Errors \cup {"none", "read"}) \cap Outcomes = {}
  BY DEF Errors, Outcomes, SudoErrors, Terminal, SSHErrors, Tolerated
<1>2. ASSUME UNCHANGED <<op, asked, results, verdict>> PROVE LabelInv'
  BY <1>2 DEF LabelInv, Labelled, Present
<1>3. CASE \/ \E operation \in Mutations \cup Reads, targets \in SUBSET Targets :
                  Ask(operation, targets)
           \/ Retry
  BY <1>1, <1>3, BeginShape DEF LabelInv
<1>4. CASE Interfere \/ UNCHANGED vars
  BY <1>2, <1>4 DEF Interfere, vars, request, change
<1>5. CASE ApplyTargets \/ ApplyGlobal
  BY <1>1, <1>5, ChangeStep DEF LabelInv
<1>6. CASE LoadSnapshot
  <2>1. UNCHANGED <<op, asked, results>>
    BY <1>6, LoadShape DEF request, change
  <2>2. verdict' = verdict \/ verdict' \in Errors \cup {"read"}
    BY <1>6, LoadShape DEF LoadFails, LoadGoesOn
  <2> QED
    BY <1>1, <1>2, <2>1, <2>2 DEF LabelInv
<1>7. CASE ConnectionTest
  <2>1. UNCHANGED <<op, asked, results>>
    BY <1>7, TestShape DEF request, change
  <2>2. verdict' = verdict \/ verdict' \in Errors \cup {"read"}
    BY <1>7, TestShape
  <2> QED
    BY <1>1, <1>2, <2>1, <2>2 DEF LabelInv
<1> QED
  BY <1>3, <1>4, <1>5, <1>6, <1>7 DEF Next

\* is_success and is_partial of results that fit their label.
LEMMA LabelsFit == TypeOK /\ RequestInv /\ LabelInv => LabelsAgree
<1> SUFFICES ASSUME TypeOK, RequestInv, LabelInv, verdict \in Outcomes
             PROVE  /\ IsSuccess(results) <=> verdict = "succeeded"
                    /\ IsPartial(results) <=> verdict = "partial"
  BY DEF LabelsAgree
<1>1. /\ results \in [Targets -> TargetResults] /\ Present(results) = asked
      /\ asked # {} /\ asked \subseteq Targets
      /\ op \in Globals => asked = Targets
      /\ verdict = Classify(op, results)
  BY DEF LabelInv, Labelled, RequestInv, TypeOK, ChangeType, RequestType
<1>2. ASSUME NEW t \in asked
      PROVE  /\ Phase(results[t]) \in {"succeeded", "verification_failed", "failed"}
             /\ Phase(results[t]) = "succeeded" <=> TargetIsSuccess(results[t])
  <2>1. results[t] \in TargetResults /\ results[t] # Absent
    BY <1>1 DEF Present
  <2>2. \A r \in TargetResults : TargetIsSuccess(r) <=> r = TargetSuccess
    BY DEF TargetResults, TargetIsSuccess, TargetSuccess, TargetNotRun, ExecutionFailed,
           Unverified, TargetResult, Absent
  <2> QED
    BY <2>1, <2>2, PhaseFits
<1>3. Phases(results) = {Phase(results[t]) : t \in asked}
  BY <1>1 DEF Phases
<1>4. verdict = IF Phases(results) = {"succeeded"} THEN "succeeded"
                ELSE IF "succeeded" \in Phases(results) THEN "partial"
                ELSE IF "verification_failed" \in Phases(results) THEN "verification_failed"
                ELSE "failed"
  <2>1. Phases(results) # {} /\ "inconsistent" \notin Phases(results)
    BY <1>1, <1>2, <1>3
  <2> QED
    BY <1>1, <2>1 DEF Classify
<1>5. IsSuccess(results) <=> Phases(results) = {"succeeded"}
  BY <1>1, <1>2, <1>3 DEF IsSuccess
<1>6. IsPartial(results) <=>
        "succeeded" \in Phases(results) /\ Phases(results) # {"succeeded"}
  BY <1>1, <1>2, <1>3 DEF IsPartial
<1> QED
  BY <1>4, <1>5, <1>6

CheckNames ==
    <<"test_hostname", "test_distribution", "test_uid", "test_state", "test_version">>

\* The first n checks of a test are there, in order.
Done(n) == Len(checks) = n /\ \A i \in 1 .. n : checks[i].name = CheckNames[i]

\* A test has the checks before the one it is at.
ChecksInv ==
    /\ pc = "test_hostname" => Done(0)
    /\ pc = "test_distribution" => Done(1)
    /\ pc = "test_uid" => Done(2)
    /\ pc = "test_state" => Done(3)
    /\ pc = "test_version" => Done(4) /\ checks[4].passed
    /\ ChecksAgree

\* What is where in a list that has grown by one.
LEMMA Appended ==
  ASSUME NEW T, NEW history \in Seq(T), NEW c \in T
  PROVE  /\ Append(history, c) \in Seq(T)
         /\ Len(Append(history, c)) = Len(history) + 1
         /\ Append(history, c)[Len(history) + 1] = c
         /\ \A i \in 1 .. Len(history) : Append(history, c)[i] = history[i]
OBVIOUS

\* A list that grows by two grows by one twice.
LEMMA AppendTwice ==
  ASSUME NEW T, NEW history \in Seq(T), NEW c \in T, NEW d \in T
  PROVE  history \o <<c, d>> = Append(Append(history, c), d)
<1>1. <<c, d>> \in Seq(T) /\ Len(<<c, d>>) = 2 /\ <<c, d>>[1] = c /\ <<c, d>>[2] = d
  OBVIOUS
<1> QED
  BY <1>1

\* A check is appended.
LEMMA OneMore ==
  ASSUME TypeOK, NEW n \in Nat, NEW m \in Nat, m = n + 1, Done(n), NEW name \in Steps,
         NEW passed \in BOOLEAN, name = CheckNames[m],
         checks' = Append(checks, Check(name, passed))
  PROVE  /\ Done(m)' /\ checks'[m].passed = passed
         /\ \A i \in 1 .. n : checks'[i] = checks[i]
<1>1. checks \in Seq(ConnectionCheck) /\ Len(checks) = n
  BY DEF TypeOK, TestType, Done
<1>2. Check(name, passed) \in ConnectionCheck
  BY DEF Check, ConnectionCheck
<1>3. /\ Len(checks') = Len(checks) + 1 /\ checks'[Len(checks) + 1] = Check(name, passed)
      /\ \A i \in 1 .. Len(checks) : checks'[i] = checks[i]
  BY <1>1, <1>2, Appended
<1>4. \A i \in 1 .. m : i = m \/ i \in 1 .. n
  OBVIOUS
<1> QED
  BY <1>1, <1>3, <1>4 DEF Done, Check

\* A test that has its five checks, which fit what it found.
LEMMA TestDone ==
  ASSUME checks' \in Seq(ConnectionCheck), Done(5)', pc' = "over",
         checks'[4].passed <=> info'.running, checks'[5].passed <=> info'.version,
         info'.version => info'.running, info'.running => info'.installed
  PROVE  ChecksInv'
<1>1. DOMAIN checks' = 1 .. 5 /\ \A i \in 1 .. 5 : checks'[i].name = CheckNames[i]
  BY DEF Done
<1>2. [i \in DOMAIN checks' |-> checks'[i].name] = CheckNames
  BY <1>1 DEF CheckNames
<1> QED
  BY <1>2 DEF ChecksInv, ChecksAgree, CheckNames

LEMMA NextChecks == TypeOK /\ TypeOK' /\ RequestInv /\ ChecksInv /\ [Next]_vars => ChecksInv'
<1> SUFFICES ASSUME TypeOK, TypeOK', RequestInv, ChecksInv, [Next]_vars PROVE ChecksInv'
  OBVIOUS
<1>1. /\ "over" \notin TestSteps /\ (LoadSteps \cup Changing) \cap TestSteps = {}
      /\ \A s \in {"execute", "global_execute", "hostname"} : s \notin TestSteps /\ s # "over"
  BY DEF LoadSteps, TestSteps, Changing
<1>2. ASSUME pc' \notin TestSteps, pc' = "over" => op' # "test" \/ verdict' # "read"
      PROVE  ChecksInv'
  BY <1>2 DEF ChecksInv, ChecksAgree, TestSteps
<1>3. CASE \/ \E operation \in Mutations \cup Reads, targets \in SUBSET Targets :
                  Ask(operation, targets)
           \/ Retry
  <2>1. /\ pc' \in {"execute", "global_execute", "hostname", "test_hostname"}
        /\ checks' = <<>>
    BY <1>3, BeginShape
  <2>2. Done(0)'
    BY <2>1 DEF Done
  <2> QED
    BY <1>1, <1>2, <2>1, <2>2 DEF ChecksInv, ChecksAgree
<1>4. CASE Interfere \/ UNCHANGED vars
  <2>1. UNCHANGED <<op, pc, verdict, checks, info>>
    BY <1>4 DEF Interfere, vars, request, test
  <2> QED
    BY <2>1 DEF ChecksInv, ChecksAgree, Done
<1>5. CASE ApplyTargets \/ ApplyGlobal
  <2>1. "read" \notin Errors
    BY DEF Errors, SudoErrors, Terminal, SSHErrors, Tolerated
  <2> QED
    BY <1>1, <1>2, <1>5, <2>1, ChangeStep
<1>6. CASE LoadSnapshot
  <2>1. pc \in LoadSteps /\ UNCHANGED op
    BY <1>6, LoadShape DEF request
  <2>2. op # "test"
    BY <2>1 DEF RequestInv, LoadInv, Mutations, Scoped, Globals
  <2>3. pc' \in LoadSteps \cup {"over"}
    BY <1>6, LoadShape DEF LoadFails
  <2> QED
    BY <1>1, <1>2, <2>1, <2>2, <2>3
<1>7. CASE ConnectionTest
  <2>1. /\ checks \in Seq(ConnectionCheck) /\ checks' \in Seq(ConnectionCheck)
        /\ {"test_hostname", "test_distribution", "test_uid", "test_state", "test_version"}
             \subseteq Steps
        /\ "read" \notin {SudoError} \cup SSHErrors
        /\ CheckNames[4] = "test_state" /\ CheckNames[5] = "test_version"
    BY DEF TypeOK, TestType, Steps, SudoError, SSHErrors, CheckNames
  <2>6. \A passed \in BOOLEAN : /\ Check("test_state", passed) \in ConnectionCheck
                                /\ Check("test_version", passed) \in ConnectionCheck
    BY <2>1 DEF Check, ConnectionCheck
  <2>2. ASSUME NEW e \in {SudoError} \cup SSHErrors, TestRaises(e) PROVE ChecksInv'
    BY <1>1, <1>2, <2>1, <2>2 DEF TestRaises
  <2>3. CASE TestProbe
    <3>1. PICK passed \in BOOLEAN :
            \/ \E e \in SSHErrors : TestRaises(e)
            \/ /\ checks' = Append(checks, Check(pc, passed))
               /\ pc' = CASE pc = "test_hostname"     -> "test_distribution"
                          [] pc = "test_distribution" -> "test_uid"
                          [] pc = "test_uid"          -> "test_state"
      BY <2>3 DEF TestProbe
    <3>2. CASE pc = "test_hostname" /\ pc' = "test_distribution"
               /\ checks' = Append(checks, Check(pc, passed))
      <4>1. Done(1)'
        BY <2>1, <3>2, OneMore DEF ChecksInv, CheckNames
      <4> QED
        BY <3>2, <4>1 DEF ChecksInv, ChecksAgree
    <3>3. CASE pc = "test_distribution" /\ pc' = "test_uid"
               /\ checks' = Append(checks, Check(pc, passed))
      <4>1. Done(2)'
        BY <2>1, <3>3, OneMore DEF ChecksInv, CheckNames
      <4> QED
        BY <3>3, <4>1 DEF ChecksInv, ChecksAgree
    <3>4. CASE pc = "test_uid" /\ pc' = "test_state"
               /\ checks' = Append(checks, Check(pc, passed))
      <4>1. Done(3)'
        BY <2>1, <3>4, OneMore DEF ChecksInv, CheckNames
      <4> QED
        BY <3>4, <4>1 DEF ChecksInv, ChecksAgree
    <3> QED
      BY <2>2, <2>3, <3>1, <3>2, <3>3, <3>4 DEF TestProbe
  <2>4. CASE TestState
    <3>1. pc = "test_state" /\ Done(3)
      BY <2>4 DEF TestState, ChecksInv
    <3>2. CASE checks' = Append(checks, Check("test_state", TRUE)) /\ pc' = "test_version"
      <4>1. 4 = 3 + 1 /\ 3 \in Nat /\ 4 \in Nat /\ "test_state" \in Steps /\ TRUE \in BOOLEAN
        BY <2>1
      <4>2. Done(4)' /\ checks'[4].passed = TRUE
        BY <2>1, <3>1, <3>2, <4>1, OneMore
      <4> QED
        BY <3>2, <4>2 DEF ChecksInv, ChecksAgree
    <3>3. ASSUME NEW found \in {NoInfo, Info(FALSE, FALSE, FALSE), Info(TRUE, FALSE, FALSE)},
                 TestEnds(checks \o <<Check("test_state", FALSE),
                                      Check("test_version", FALSE)>>, found)
          PROVE  ChecksInv'
      <4>1. /\ checks' = checks \o <<Check("test_state", FALSE), Check("test_version", FALSE)>>
            /\ info' = found /\ pc' = "over"
        BY <3>3 DEF TestEnds
      <4>2. /\ Len(checks') = 5 /\ \A i \in 1 .. 3 : checks'[i] = checks[i]
            /\ checks'[4] = Check("test_state", FALSE)
            /\ checks'[5] = Check("test_version", FALSE)
        <5> DEFINE first == Check("test_state", FALSE)
                   second == Check("test_version", FALSE)
        <5>1. first \in ConnectionCheck /\ second \in ConnectionCheck
          BY <2>6
        <5>2. checks' = checks \o <<first, second>>
          BY <4>1
        <5> HIDE DEF first, second
        <5>3. PICK longer : longer = Append(checks, first)
          OBVIOUS
        <5>4. checks' = Append(longer, second)
          BY <2>1, <5>1, <5>2, <5>3, AppendTwice
        <5>5. /\ longer \in Seq(ConnectionCheck) /\ Len(longer) = Len(checks) + 1
              /\ longer[Len(checks) + 1] = first
              /\ \A i \in 1 .. Len(checks) : longer[i] = checks[i]
          BY <2>1, <5>1, <5>3, Appended
        <5>6. /\ Len(checks') = Len(longer) + 1 /\ checks'[Len(longer) + 1] = second
              /\ \A i \in 1 .. Len(longer) : checks'[i] = longer[i]
          BY <2>1, <5>1, <5>4, <5>5, Appended
        <5>7. Len(checks) = 3
          BY <3>1 DEF Done
        <5>8. Len(checks) + 1 = 4 /\ Len(longer) = 4 /\ Len(longer) + 1 = 5
          BY <5>5, <5>7
        <5>9. Len(checks') = 5 /\ checks'[5] = second /\ checks'[4] = longer[4]
          BY <5>6, <5>8
        <5>10. longer[4] = first /\ \A i \in 1 .. 3 : longer[i] = checks[i]
          BY <5>5, <5>7, <5>8
        <5>11. \A i \in 1 .. 3 : checks'[i] = longer[i]
          BY <5>6, <5>8
        <5> QED
          BY <5>9, <5>10, <5>11 DEF first, second
      <4>3. Done(5)' /\ ~checks'[4].passed /\ ~checks'[5].passed
        BY <3>1, <4>2 DEF Done, CheckNames, Check
      <4>4. ~info'.running /\ ~info'.version
        BY <4>1 DEF NoInfo, Info
      <4> QED
        BY <2>1, <4>1, <4>3, <4>4, TestDone
    <3> QED
      BY <2>2, <2>4, <3>2, <3>3 DEF TestState
  <2>5. CASE TestVersion
    <3>1. pc = "test_version" /\ Done(4) /\ checks[4].passed
      BY <2>5 DEF TestVersion, ChecksInv
    <3>2. ASSUME NEW passed \in BOOLEAN,
                 TestEnds(Append(checks, Check("test_version", passed)),
                          Info(TRUE, TRUE, passed))
          PROVE  ChecksInv'
      <4>1. /\ checks' = Append(checks, Check("test_version", passed))
            /\ info' = Info(TRUE, TRUE, passed) /\ pc' = "over"
        BY <3>2 DEF TestEnds
      <4>2. Done(5)' /\ checks'[5].passed = passed /\ checks'[4] = checks[4]
        <5>1. /\ 5 = 4 + 1 /\ 4 \in Nat /\ 5 \in Nat /\ 4 \in 1 .. 4
              /\ "test_version" \in Steps
          BY <2>1
        <5> QED
          BY <2>1, <3>1, <4>1, <5>1, OneMore
      <4>3. info'.installed /\ info'.running /\ info'.version = passed
        BY <4>1 DEF Info
      <4> QED
        BY <2>1, <3>1, <4>1, <4>2, <4>3, TestDone
    <3>3. ASSUME NEW installed \in BOOLEAN,
                 TestEnds(Append([checks EXCEPT ![Len(checks)] = Check("test_state", FALSE)],
                                 Check("test_version", FALSE)),
                          Info(installed, FALSE, FALSE))
          PROVE  ChecksInv'
      <4> DEFINE corrected == [checks EXCEPT ![Len(checks)] = Check("test_state", FALSE)]
                 last      == Check("test_version", FALSE)
      <4>1. /\ checks' = Append(corrected, last)
            /\ info' = Info(installed, FALSE, FALSE) /\ pc' = "over"
        BY <3>3 DEF TestEnds
      <4>2. Check("test_state", FALSE) \in ConnectionCheck /\ last \in ConnectionCheck
        BY <2>1 DEF Check, ConnectionCheck
      <4>3. corrected \in Seq(ConnectionCheck)
        BY <2>1, <4>2, Histories
      <4>4. /\ Len(corrected) = 4 /\ corrected[4] = Check("test_state", FALSE)
            /\ \A i \in 1 .. 3 : corrected[i] = checks[i]
        BY <2>1, <3>1 DEF Done
      <4>5. /\ Len(checks') = 5 /\ \A i \in 1 .. 4 : checks'[i] = corrected[i]
            /\ checks'[5] = last
        <5> HIDE DEF corrected, last
        <5>1. /\ Len(checks') = Len(corrected) + 1
              /\ checks'[Len(corrected) + 1] = last
              /\ \A i \in 1 .. Len(corrected) : checks'[i] = corrected[i]
          BY <4>1, <4>2, <4>3, Appended
        <5>2. Len(corrected) + 1 = 5
          BY <4>4
        <5> QED
          BY <4>4, <5>1, <5>2
      <4> HIDE DEF corrected
      <4>6. Done(5)' /\ ~checks'[4].passed /\ ~checks'[5].passed
        BY <3>1, <4>4, <4>5 DEF Done, CheckNames, Check
      <4>7. ~info'.running /\ ~info'.version
        BY <4>1 DEF Info
      <4> QED
        BY <2>1, <4>1, <4>6, <4>7, TestDone
    <3> QED
      BY <2>2, <2>5, <3>2, <3>3 DEF TestVersion
  <2> QED
    BY <1>7, <2>3, <2>4, <2>5 DEF ConnectionTest
<1> QED
  BY <1>3, <1>4, <1>5, <1>6, <1>7 DEF Next

\* The tabs, the log and the overview never tell different stories of a request, and
\* the checks of a connection test agree with what it found.
THEOREM ReportsFit == Spec => []ReportsAgree
<1>1. Init => LabelInv /\ ChecksInv
  BY DEF Init, LabelInv, ChecksInv, ChecksAgree, Outcomes
<1>2. TypeOK /\ RequestInv /\ LabelInv /\ ChecksInv => ReportsAgree
  BY LabelsFit DEF ReportsAgree, ChecksInv
<1> QED
  BY <1>1, <1>2, NextLabel, NextChecks, TypeCorrect, RequestCorrect, PTL DEF Spec

-----------------------------------------------------------------------------
(* What the snapshot has, and what it lacks, at every step of load_snapshot. *)

\* The steps at which the zones of a target have been gone through.
ZonesDone(t) ==
    IF t = "runtime" THEN {"permanent_names", "permanent_zones", "services", "over"}
                     ELSE {"services", "over"}

\* The zones of a target that have been asked for so far: what listed should be.
Due(t) ==
    IF pc = (IF t = "runtime" THEN "runtime_zones" ELSE "permanent_zones")
    THEN Zones \ unread
    ELSE IF pc \in ZonesDone(t) THEN Zones ELSE {}

\* The steps after the default zone, and those after the active zones, were asked for.
NamesSteps ==
    {"runtime_names", "runtime_zones", "permanent_names", "permanent_zones", "services"}
AfterDefault == NamesSteps \cup {"active_zones"}

PartsDue ==
    IF pc = "over" THEN {"active_zones", "services"}
    ELSE IF pc \in NamesSteps THEN {"active_zones"} ELSE {}

\* A snapshot that is being read, or that was read to the end.
Standing == pc # "over" \/ refresh = "fresh"

\* It has nothing that was not asked for yet, and is stale if it lacks what was.
LoadedInv ==
    /\ refresh = "fresh" => pc = "over"
    /\ Standing =>
         /\ \A t \in Targets : listed[t] \subseteq Due(t)
         /\ parts \subseteq PartsDue
         /\ stale <=> (\E t \in Targets : listed[t] # Due(t)) \/ parts # PartsDue

\* What of it is about the change shows what the change has confirmed.
ShowsInv ==
    Standing /\ ~disturbed =>
        /\ op \in Scoped => \A t \in confirmed : zone \in listed[t] => t \in seen
        /\ op = "set_default_zone" /\ confirmed # {} /\ pc \in AfterDefault \cup {"over"} =>
             snapshot_default = zone

\* The steps at which nothing of any zone and of any part is due.
NothingDue ==
    Changing \cup TestSteps
    \cup {"hostname", "distribution", "state", "version", "default_zone", "active_zones"}

LEMMA NextSnapshot ==
  TypeOK /\ RequestInv /\ LoadedInv /\ ShowsInv /\ [Next]_vars => LoadedInv' /\ ShowsInv'
<1> SUFFICES ASSUME TypeOK, RequestInv, LoadedInv, ShowsInv, [Next]_vars
             PROVE  LoadedInv' /\ ShowsInv'
  OBVIOUS
<1>1. ASSUME refresh' # "fresh", pc' = "over" PROVE LoadedInv' /\ ShowsInv'
  BY <1>1 DEF LoadedInv, ShowsInv, Standing
<1>2. ASSUME pc \in NothingDue PROVE PartsDue = {} /\ \A t \in Targets : Due(t) = {}
  BY <1>2 DEF NothingDue, Changing, TestSteps, Due, ZonesDone, PartsDue, NamesSteps
<1>3. ASSUME pc' \in NothingDue PROVE PartsDue' = {} /\ \A t \in Targets : Due(t)' = {}
  BY <1>3 DEF NothingDue, Changing, TestSteps, Due, ZonesDone, PartsDue, NamesSteps
<1>4. ASSUME pc' \in NothingDue, refresh' # "fresh",
             \A t \in Targets : listed'[t] = {}, parts' = {}, stale' = FALSE
      PROVE  LoadedInv'
  BY <1>3, <1>4 DEF LoadedInv
<1>5. ASSUME pc \in NothingDue
      PROVE  /\ refresh # "fresh" /\ parts = {} /\ stale = FALSE
             /\ \A t \in Targets : listed[t] = {}
  <2>1. pc # "over"
    BY <1>5 DEF NothingDue, Changing, TestSteps
  <2> QED
    BY <1>2, <1>5, <2>1 DEF LoadedInv, Standing, TypeOK, SnapshotType
<1>6. CASE \/ \E operation \in Mutations \cup Reads, targets \in SUBSET Targets :
                  Ask(operation, targets)
           \/ Retry
  <2>1. /\ pc' \in Changing \cup {"hostname", "test_hostname"} /\ refresh' = "none"
        /\ listed' = Nowhere /\ parts' = {} /\ stale' = FALSE
    BY <1>6, BeginShape
  <2>2. \A t \in Targets : listed'[t] = {}
    BY <2>1 DEF Nowhere
  <2>3. pc' \in NothingDue /\ pc' \notin AfterDefault \cup {"over"}
    BY <2>1 DEF NothingDue, TestSteps, Changing, AfterDefault, NamesSteps
  <2>4. LoadedInv'
    BY <1>4, <2>1, <2>2, <2>3
  <2>5. confirmed' \subseteq Targets
    BY <1>6 DEF Ask, Retry, TypeOK, HistoryType
  <2> QED
    BY <2>2, <2>3, <2>4, <2>5 DEF ShowsInv
<1>7. CASE Interfere \/ UNCHANGED vars
  <2>1. /\ UNCHANGED <<op, zone, pc, refresh, snapshot, confirmed>>
        /\ disturbed' = disturbed \/ disturbed' = TRUE
    BY <1>7 DEF Interfere, vars, request, remote, outcome
  <2>2. LoadedInv'
    BY <2>1 DEF LoadedInv, Standing, Due, PartsDue, snapshot
  <2>3. ShowsInv'
    BY <2>1 DEF ShowsInv, Standing, snapshot
  <2> QED
    BY <2>2, <2>3
<1>8. CASE ApplyTargets \/ ApplyGlobal \/ ConnectionTest
  <2>1. /\ pc \in NothingDue /\ UNCHANGED <<refresh, snapshot>>
        /\ pc' = "over" \/ pc' \in Changing \cup TestSteps \cup {"hostname"}
        /\ confirmed' \subseteq Targets
    <3>1. CASE ApplyTargets \/ ApplyGlobal
      <4>1. confirmed' \subseteq Targets
        BY <3>1, NextType DEF Next, TypeOK, HistoryType
      <4> QED
        BY <3>1, <4>1, ChangeStep DEF NothingDue, outcome
    <3>2. CASE ConnectionTest
      BY <3>2, TestShape DEF NothingDue, outcome, TypeOK, HistoryType
    <3> QED
      BY <1>8, <3>1, <3>2
  <2>2. CASE pc' = "over"
    BY <1>1, <1>5, <2>1, <2>2
  <2>3. CASE pc' # "over"
    <3>1. pc' \in NothingDue /\ pc' \notin AfterDefault \cup {"over"}
      BY <2>1, <2>3 DEF NothingDue, TestSteps, Changing, AfterDefault, NamesSteps
    <3>2. /\ \A t \in Targets : listed'[t] = {}
          /\ parts' = {} /\ stale' = FALSE /\ refresh' # "fresh"
      BY <1>5, <2>1 DEF snapshot
    <3>3. LoadedInv'
      BY <1>4, <3>1, <3>2
    <3> QED
      BY <2>1, <3>1, <3>2, <3>3 DEF ShowsInv
  <2> QED
    BY <2>2, <2>3
<1>9. CASE LoadSnapshot
  <2>1. /\ pc \in LoadSteps /\ refresh # "fresh" /\ Standing
        /\ UNCHANGED <<op, zone, disturbed, config, default_zone, confirmed>>
        /\ confirmed \subseteq Targets
    BY <1>9, LoadShape DEF LoadedInv, Standing, LoadSteps, request, remote, TypeOK, HistoryType
  <2>2. /\ \A t \in Targets : listed[t] \subseteq Due(t)
        /\ parts \subseteq PartsDue
        /\ stale <=> (\E t \in Targets : listed[t] # Due(t)) \/ parts # PartsDue
    BY <2>1 DEF LoadedInv
  <2>3. ASSUME NEW e, LoadFails(e) PROVE LoadedInv' /\ ShowsInv'
    BY <1>1, <2>1, <2>3 DEF LoadFails, outcome
  <2>4. ASSUME UNCHANGED <<listed, seen, snapshot_default>>, pc # "default_zone",
               pc' \in AfterDefault \cup {"over"} => pc \in AfterDefault
        PROVE  ShowsInv'
    <3>1. ASSUME op \in Scoped, ~disturbed, NEW t \in confirmed, zone \in listed[t]
          PROVE  t \in seen
      BY <2>1, <3>1 DEF ShowsInv
    <3>2. ASSUME op = "set_default_zone", ~disturbed, confirmed # {},
                 pc \in AfterDefault \cup {"over"}
          PROVE  snapshot_default = zone
      BY <2>1, <3>2 DEF ShowsInv
    <3> QED
      BY <2>1, <2>4, <3>1, <3>2 DEF ShowsInv
  <2>5. CASE ReadProbe
    <3>1. SUFFICES ASSUME LoadGoesOn, UNCHANGED snapshot PROVE LoadedInv' /\ ShowsInv'
      BY <2>3, <2>5 DEF ReadProbe
    <3>2. /\ pc \in NothingDue /\ pc' \in NothingDue
          /\ pc # "default_zone" /\ pc' \notin AfterDefault \cup {"over"}
          /\ refresh' # "fresh"
      BY <2>1, <2>5, <3>1 DEF ReadProbe, LoadGoesOn, Loaded, NothingDue, AfterDefault,
         NamesSteps, outcome
    <3>3. LoadedInv'
      BY <1>4, <1>5, <3>1, <3>2 DEF snapshot
    <3> QED
      BY <2>4, <3>1, <3>2, <3>3 DEF snapshot
  <2>6. CASE ReadMandatory
    <3>1. SUFFICES ASSUME LoadGoesOn,
                   snapshot_default' = IF pc = "default_zone" THEN default_zone
                                       ELSE snapshot_default,
                   UNCHANGED <<unread, listed, seen, parts, stale>>
                   PROVE  LoadedInv' /\ ShowsInv'
      BY <2>3, <2>6 DEF ReadMandatory
    <3>2. /\ pc \in NothingDue /\ pc' \in NothingDue
          /\ pc \in {"state", "version", "default_zone"}
          /\ pc # "default_zone" => pc' \notin AfterDefault \cup {"over"}
          /\ refresh' # "fresh"
      BY <2>1, <2>6, <3>1 DEF ReadMandatory, LoadGoesOn, Loaded, NothingDue, AfterDefault,
         NamesSteps, outcome
    <3>3. LoadedInv'
      BY <1>4, <1>5, <3>1, <3>2
    <3>4. CASE pc # "default_zone"
      BY <2>4, <3>1, <3>2, <3>3, <3>4
    <3>5. CASE pc = "default_zone"
      <4>1. \A t \in confirmed : listed'[t] = {}
        BY <1>5, <2>1, <3>1, <3>2
      <4>2. op = "set_default_zone" /\ ~disturbed /\ confirmed # {} => snapshot_default' = zone
        BY <3>1, <3>5 DEF RequestInv
      <4> QED
        BY <2>1, <3>3, <4>1, <4>2 DEF ShowsInv
    <3> QED
      BY <3>4, <3>5
  <2>7. CASE ReadPart
    <3>1. SUFFICES ASSUME LoadGoesOn, pc \in {"active_zones", "services"},
                          \/ parts' = parts \cup {pc} /\ UNCHANGED stale
                          \/ stale' = TRUE /\ UNCHANGED parts,
                          UNCHANGED <<unread, listed, seen, snapshot_default>>
                   PROVE  LoadedInv' /\ ShowsInv'
      BY <2>3, <2>7 DEF ReadPart
    <3>2. ShowsInv'
      BY <2>4, <3>1 DEF AfterDefault, NamesSteps
    <3>3. /\ \A t \in Targets : Due(t)' = Due(t)
          /\ PartsDue' = PartsDue \cup {pc} /\ pc \notin PartsDue
          /\ refresh' = "fresh" => pc' = "over"
      BY <2>1, <3>1 DEF LoadGoesOn, Loaded, Due, ZonesDone, PartsDue, NamesSteps, outcome
    <3> QED
      BY <2>2, <3>1, <3>2, <3>3 DEF LoadedInv
  <2>8. CASE ReadNames
    <3>1. pc \in {"runtime_names", "permanent_names"}
      BY <2>8 DEF ReadNames
    <3>2. CASE LoadGoesOn /\ unread' = Zones
               /\ UNCHANGED <<listed, seen, parts, snapshot_default, stale>>
      <4>1. /\ pc' \in {"runtime_zones", "permanent_zones"} /\ UNCHANGED refresh
            /\ pc = "runtime_names" <=> pc' = "runtime_zones"
        BY <3>1, <3>2 DEF LoadGoesOn, Loaded, outcome
      <4>2. ShowsInv'
        BY <2>4, <3>1, <3>2, <4>1 DEF AfterDefault, NamesSteps
      <4>3. PartsDue' = PartsDue /\ \A t \in Targets : Due(t)' = Due(t)
        BY <3>1, <3>2, <4>1 DEF Due, ZonesDone, PartsDue, NamesSteps, Targets
      <4> QED
        BY <2>1, <2>2, <3>2, <4>1, <4>2, <4>3 DEF LoadedInv
    <3>3. CASE pc' = Loaded(Loaded(pc)) /\ stale' = TRUE /\ UNCHANGED outcome
               /\ UNCHANGED <<unread, listed, seen, parts, snapshot_default>>
      <4>1. /\ pc' \in {"permanent_names", "services"} /\ UNCHANGED refresh
            /\ pc = "runtime_names" <=> pc' = "permanent_names"
        BY <3>1, <3>3 DEF Loaded, outcome
      <4>2. ShowsInv'
        BY <2>4, <3>1, <3>3, <4>1 DEF AfterDefault, NamesSteps
      <4>3. PICK t \in Targets : t = IF pc = "runtime_names" THEN "runtime" ELSE "permanent"
        BY DEF Targets
      <4>4. /\ PartsDue' = PartsDue
            /\ \A u \in Targets \ {t} : Due(u)' = Due(u)
            /\ Due(t) = {} /\ Due(t)' = Zones
        BY <3>1, <3>3, <4>1, <4>3 DEF Due, ZonesDone, PartsDue, NamesSteps, Targets
      <4>5. listed'[t] # Due(t)' /\ listed'[t] \subseteq Due(t)'
        BY <2>2, <3>3, <4>4, ZonesAssumption
      <4>6. \A u \in Targets : listed'[u] \subseteq Due(u)'
        BY <2>2, <3>3, <4>4, <4>5
      <4>7. LoadedInv'
        BY <2>1, <2>2, <3>3, <4>1, <4>4, <4>5, <4>6 DEF LoadedInv
      <4> QED
        BY <4>2, <4>7
    <3> QED
      BY <2>3, <2>8, <3>2, <3>3 DEF ReadNames
  <2>9. ASSUME NEW z \in Zones, ReadZone(z) PROVE LoadedInv' /\ ShowsInv'
    <3>1. pc \in {"runtime_zones", "permanent_zones"} /\ z \in unread
      BY <2>9 DEF ReadZone
    <3>2. SUFFICES ASSUME unread' = unread \ {z},
                          pc' = IF unread' = {} THEN Loaded(pc) ELSE pc,
                          \/ /\ listed' = [listed EXCEPT ![View] = @ \cup {z}]
                             /\ seen' = IF z = zone THEN seen \cup (config \cap {View})
                                        ELSE seen
                             /\ UNCHANGED stale
                          \/ stale' = TRUE /\ UNCHANGED <<listed, seen>>,
                          UNCHANGED <<outcome, parts, snapshot_default>>
                   PROVE  LoadedInv' /\ ShowsInv'
      BY <2>3, <2>9 DEF ReadZone
    <3>3. PICK v \in Targets : v = View
      BY DEF View, Targets
    <3>4. /\ PartsDue' = PartsDue /\ UNCHANGED refresh /\ pc' \in NamesSteps
          /\ \A u \in Targets \ {v} : Due(u)' = Due(u)
      BY <3>1, <3>2, <3>3 DEF View, Due, ZonesDone, PartsDue, NamesSteps, Targets, Loaded,
         outcome
    <3>5. Due(v) = Zones \ unread /\ Due(v)' = Due(v) \cup {z} /\ z \notin Due(v)
      <4>1. unread \subseteq Zones
        BY DEF TypeOK, SnapshotType
      <4>2. Due(v) = Zones \ unread
        BY <3>1, <3>3 DEF View, Due
      <4>3. CASE unread' = {}
        <5>1. Due(v)' = Zones
          BY <3>1, <3>2, <3>3, <4>3 DEF View, Due, ZonesDone, Loaded
        <5> QED
          BY <3>1, <3>2, <4>1, <4>2, <4>3, <5>1
      <4>4. CASE unread' # {}
        <5>1. Due(v)' = Zones \ unread'
          BY <3>1, <3>2, <3>3, <4>4 DEF View, Due
        <5> QED
          BY <3>1, <3>2, <4>1, <4>2, <5>1
      <4> QED
        BY <4>3, <4>4
    <3>6. CASE stale' = TRUE /\ UNCHANGED <<listed, seen>>
      <4>1. listed'[v] # Due(v)' /\ \A u \in Targets : listed'[u] \subseteq Due(u)'
        BY <2>2, <3>4, <3>5, <3>6
      <4>2. ShowsInv'
        BY <2>4, <3>1, <3>2, <3>6 DEF AfterDefault, NamesSteps
      <4> QED
        BY <2>1, <2>2, <3>2, <3>3, <3>4, <3>6, <4>1, <4>2 DEF LoadedInv
    <3>7. CASE /\ listed' = [listed EXCEPT ![View] = @ \cup {z}]
               /\ seen' = IF z = zone THEN seen \cup (config \cap {View}) ELSE seen
               /\ UNCHANGED stale
      <4>1. /\ listed'[v] = listed[v] \cup {z}
            /\ \A u \in Targets \ {v} : listed'[u] = listed[u]
        BY <3>3, <3>7 DEF TypeOK, SnapshotType
      <4>2. \A u \in Targets : listed'[u] \subseteq Due(u)'
        BY <2>2, <3>4, <3>5, <4>1
      <4>3. \A u \in Targets : listed'[u] # Due(u)' <=> listed[u] # Due(u)
        BY <2>2, <3>4, <3>5, <4>1
      <4>4. LoadedInv'
        BY <2>1, <2>2, <3>2, <3>4, <3>7, <4>2, <4>3 DEF LoadedInv
      <4>5. ASSUME op \in Scoped, ~disturbed, NEW t \in confirmed, zone \in listed'[t]
            PROVE  t \in seen'
        <5>1. confirmed \subseteq config
          BY <4>5 DEF RequestInv
        <5>2. CASE zone \in listed[t]
          BY <2>1, <3>7, <4>5, <5>2 DEF ShowsInv
        <5>3. CASE zone \notin listed[t]
          BY <2>1, <3>3, <3>7, <4>1, <4>5, <5>1, <5>3
        <5> QED
          BY <5>2, <5>3
      <4>6. ASSUME op = "set_default_zone", ~disturbed, confirmed # {}
            PROVE  snapshot_default' = zone
        BY <2>1, <3>1, <3>2, <4>6 DEF ShowsInv, AfterDefault, NamesSteps
      <4> QED
        BY <2>1, <4>4, <4>5, <4>6 DEF ShowsInv
    <3> QED
      BY <3>2, <3>6, <3>7
  <2> QED
    BY <1>9, <2>5, <2>6, <2>7, <2>8, <2>9 DEF LoadSnapshot
<1> QED
  BY <1>6, <1>7, <1>8, <1>9 DEF Next

\* What the tables show after a change shows what the change has confirmed, and is
\* marked as stale exactly when something of it could not be read: of any zones, and
\* whatever failed on the way.
THEOREM SnapshotsHonest == Spec => []SnapshotsAreHonest
<1>1. Init => LoadedInv /\ ShowsInv
  BY DEF Init, LoadedInv, ShowsInv, Standing
<1>2. ASSUME LoadedInv, ShowsInv PROVE SnapshotsAreHonest
  <2>1. SnapshotShowsTheChange
    BY <1>2 DEF ShowsInv, Standing, SnapshotShowsTheChange
  <2>2. ASSUME refresh = "fresh"
        PROVE  /\ \A t \in Targets : Due(t) = Zones
               /\ PartsDue = {"active_zones", "services"}
    BY <1>2, <2>2 DEF LoadedInv, Due, ZonesDone, PartsDue, Targets
  <2>3. StaleMeansIncomplete
    BY <1>2, <2>2 DEF LoadedInv, Standing, StaleMeansIncomplete
  <2> QED
    BY <2>1, <2>3 DEF SnapshotsAreHonest
<1> QED
  BY <1>1, <1>2, NextSnapshot, TypeCorrect, RequestCorrect, PTL DEF Spec

=============================================================================
