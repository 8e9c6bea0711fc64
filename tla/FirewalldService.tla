-------------------------- MODULE FirewalldService --------------------------
(***************************************************************************)
(* app/firewalld/service.py as the worker thread runs it: the changes      *)
(* (_apply_targets, _apply_global), load_snapshot and connection_test, and *)
(* the work() of _launch_firewall_attempt that follows a change with a     *)
(* fresh snapshot.  One server, one request at a time: the scheduler sees  *)
(* to that.  Every remote command is a step of its own, and between two of *)
(* them somebody else may change the firewall.                             *)
(*                                                                         *)
(* Of the zones' contents the model keeps whether the port, service,       *)
(* interface or rule of the request is as the request wants it, in each    *)
(* target: nothing in the service looks at anything else.  Reload copies   *)
(* the permanent state to the runtime.                                     *)
(***************************************************************************)
EXTENDS Naturals, Sequences, FiniteSets

CONSTANT Zones

ASSUME ZonesAssumption == Zones # {}

Targets == {"runtime", "permanent"}

VARIABLES
    \* The firewall of the server: the targets that are as the request wants them,
    \* and the default zone; whether somebody else changed it since the request
    \* began (once per request: the bound on what others do).
    config, default_zone, disturbed,
    \* The request: what is asked, the session's password, and how far it is.
    op, asked, zone, password, retried, pc,
    \* Locals of _apply_targets: the targets left, mutation_succeeded, results.
    todo, mutation_succeeded, results,
    \* What the change is reported as, and what the job ends with.
    verdict, refresh, clear_sudo,
    \* load_snapshot: zones still to read; the snapshot in the making.
    unread, listed, seen, parts, snapshot_default, stale,
    \* connection_test: the checks and FirewalldInfo.
    checks, info,
    \* History: accepted commands, confirmed targets, a refused password.
    writes, confirmed, denied

remote   == <<config, default_zone, disturbed>>
request  == <<op, asked, zone, password, retried>>
change   == <<todo, mutation_succeeded, results>>
outcome  == <<refresh, clear_sudo>>
snapshot == <<unread, listed, seen, parts, snapshot_default, stale>>
test     == <<checks, info>>
vars == <<remote, request, pc, change, verdict, outcome, snapshot, test,
          writes, confirmed, denied>>

Scoped    == {"scoped"}
Globals   == {"set_default_zone", "reload_firewalld"}
Mutations == Scoped \cup Globals
Reads     == {"snapshot", "test"}

(***************************************************************************)
(* Errors, by class: sudo wants a password or a better one; firewalld is   *)
(* not there (_TERMINAL_FIREWALL_ERRORS); the SSH connection or its        *)
(* deadline; "command", any other FirewallCommandError; "parse", an answer *)
(* that makes no sense; "probe", SystemProbeError; "post",                 *)
(* PostMutationVerificationError.                                          *)
(***************************************************************************)
SudoError  == IF password THEN "sudo_rejected" ELSE "sudo_required"
SudoErrors == {"sudo_required", "sudo_rejected"}
Terminal   == {"not_installed", "not_running"}
SSHErrors  == {"timeout", "transport"}
Tolerated  == {"command", "parse"}
Errors     == SudoErrors \cup Terminal \cup SSHErrors \cup Tolerated \cup {"probe", "post"}

\* What a firewall-cmd may fail with, what reading its answer may fail with, and
\* what an unprivileged probe may fail with.
CommandErrors == {SudoError, "command"} \cup Terminal \cup SSHErrors
ReadErrors    == CommandErrors \cup {"parse"}
ProbeErrors   == {"probe", "parse"} \cup SSHErrors

-----------------------------------------------------------------------------
(* TargetResult, CompositeOperationResult and their classification.         *)

TargetResult(execution, verification, authentication_failed) ==
    [execution |-> execution, verification |-> verification,
     authentication_failed |-> authentication_failed]

TargetSuccess         == TargetResult("succeeded", "succeeded", FALSE)
ExecutionFailed(auth) == TargetResult("failed", "not_run", auth)
Unverified(auth)      == TargetResult("succeeded", "failed", auth)
TargetNotRun          == TargetResult("not_run", "not_run", FALSE)
Absent                == TargetResult("absent", "absent", FALSE)

TargetResults ==
    {TargetSuccess, TargetNotRun, Absent}
    \cup {ExecutionFailed(auth) : auth \in BOOLEAN}
    \cup {Unverified(auth) : auth \in BOOLEAN}

Present(composite) == {t \in Targets : composite[t] # Absent}

TargetIsSuccess(r) == r.execution = "succeeded" /\ r.verification = "succeeded"

IsSuccess(composite) ==
    /\ Present(composite) # {}
    /\ \A t \in Present(composite) : TargetIsSuccess(composite[t])

IsPartial(composite) ==
    /\ \E t \in Present(composite) : TargetIsSuccess(composite[t])
    /\ \E t \in Present(composite) : ~TargetIsSuccess(composite[t])

\* Mutant: only the exit code counts.
PhaseByExecution(r) ==
    IF r.execution = "succeeded" THEN "succeeded" ELSE "failed"

Phase(r) ==
    CASE TargetIsSuccess(r) -> "succeeded"
      [] r.execution = "succeeded" /\ r.verification = "failed" -> "verification_failed"
      [] r.execution \in {"failed", "not_run"} /\ r.verification = "not_run" -> "failed"
      [] OTHER -> "inconsistent"

Phases(composite) == {Phase(composite[t]) : t \in Present(composite)}

Classify(operation, composite) ==
    LET phases == Phases(composite) IN
    IF \/ operation \in Globals /\ Present(composite) # Targets
       \/ phases = {} \/ "inconsistent" \in phases
                                           THEN "inconsistent"
    ELSE IF phases = {"succeeded"}         THEN "succeeded"
    ELSE IF "succeeded" \in phases         THEN "partial"
    ELSE IF "verification_failed" \in phases THEN "verification_failed"
    ELSE "failed"

Outcomes == {"succeeded", "partial", "verification_failed", "failed", "inconsistent"}

-----------------------------------------------------------------------------
Nothing == [t \in Targets |-> Absent]
NoInfo  == [known |-> FALSE, installed |-> FALSE, running |-> FALSE, version |-> FALSE]
Info(installed, running, version) ==
    [known |-> TRUE, installed |-> installed, running |-> running, version |-> version]

Nowhere == [t \in Targets |-> {}]

Init ==
    /\ config \in SUBSET Targets /\ default_zone \in Zones /\ disturbed = FALSE
    /\ op = "test" /\ asked = {} /\ zone \in Zones /\ password = FALSE /\ retried = FALSE
    /\ pc = "over"
    /\ todo = {} /\ mutation_succeeded = FALSE /\ results = Nothing
    /\ verdict = "idle" /\ refresh = "none" /\ clear_sudo = FALSE
    /\ unread = {} /\ listed = Nowhere /\ seen = {} /\ parts = {}
    /\ snapshot_default = zone /\ stale = FALSE
    /\ checks = <<>> /\ info = NoInfo
    /\ writes = [t \in Targets |-> 0] /\ confirmed = {} /\ denied = FALSE

FirstStep(operation) ==
    CASE operation \in Scoped     -> "execute"
      [] operation \in Globals    -> "global_execute"
      [] operation = "snapshot"   -> "hostname"
      [] operation = "test"       -> "test_hostname"

\* A call of the service begins: its locals are new.
Begin(operation, targets) ==
    /\ pc' = FirstStep(operation)
    /\ todo' = targets /\ mutation_succeeded' = FALSE /\ results' = Nothing
    /\ verdict' = "none" /\ refresh' = "none" /\ clear_sudo' = FALSE
    /\ unread' = {} /\ listed' = Nowhere /\ seen' = {} /\ parts' = {}
    /\ snapshot_default' = zone' /\ stale' = FALSE
    /\ checks' = <<>> /\ info' = NoInfo
    /\ denied' = FALSE
    /\ UNCHANGED <<config, default_zone>>

\* The controller submits a job with the password the session has, if any.  The
\* service keeps nothing of a request: one, on any firewall, stands for all.
Ask(operation, targets) ==
    /\ verdict = "idle"
    /\ operation \in Mutations <=> targets # {}
    /\ op' = operation /\ asked' = targets
    /\ zone' \in Zones
    /\ password' \in BOOLEAN
    /\ retried' = FALSE /\ disturbed' = FALSE
    /\ writes' = [t \in Targets |-> 0] /\ confirmed' = {}
    /\ Begin(operation, targets)

\* It asks the user for the password that was missing and, once, does the same.
Retry ==
    /\ pc = "over" /\ verdict = "sudo_required" /\ ~retried
    /\ password' = TRUE /\ retried' = TRUE
    /\ UNCHANGED <<op, asked, zone, disturbed, writes, confirmed>>
    /\ Begin(op, asked)

\* Another administrator, another instance of the program, NetworkManager.
Interfere ==
    /\ pc # "over" \/ verdict = "sudo_required"
    /\ ~disturbed
    /\ disturbed' = TRUE
    /\ \/ /\ config' \in SUBSET Targets
          /\ UNCHANGED default_zone
       \/ default_zone' \in Zones /\ UNCHANGED config
    /\ UNCHANGED <<request, pc, change, verdict, outcome, snapshot, test,
                   writes, confirmed, denied>>

-----------------------------------------------------------------------------
(* _apply_targets: permanent first.                                         *)

Selected == IF "permanent" \in todo THEN "permanent" ELSE "runtime"

Refused(e) == denied' = (denied \/ e \in SudoErrors)

\* The service raises before the job has reloaded anything: so does the job.
Raise(e) ==
    /\ verdict' = e
    /\ pc' = "over"
    /\ UNCHANGED <<change, outcome, snapshot, test, confirmed>>

\* return self._composite(...), and on with load_snapshot.
Return(composite) ==
    /\ results' = composite
    /\ verdict' = Classify(op, composite)
    /\ pc' = "hostname"

\* The next target, or the end of the loop.
GoOn(composite) ==
    /\ todo' = todo \ {Selected}
    /\ IF todo' = {}
       THEN Return(composite)
       ELSE pc' = "execute" /\ results' = composite /\ UNCHANGED verdict

\* "break": the targets left are reported as not run.
Abandon(result) ==
    /\ todo' = {}
    /\ Return([t \in Targets |-> IF t = Selected THEN result
                                 ELSE IF t \in todo THEN TargetNotRun
                                 ELSE results[t]])

Accepted(S) == writes' = [t \in Targets |-> IF t \in S THEN writes[t] + 1 ELSE writes[t]]

\* A command that exits 0 need not have had the effect; one that never answered
\* may have had it.
MayTakeEffect ==
    \/ config' = config \cup {Selected}
    \/ UNCHANGED config

ExecuteOk ==
    /\ pc = "execute"
    /\ MayTakeEffect
    /\ mutation_succeeded' = TRUE
    /\ pc' = "verify"
    /\ Accepted({Selected})
    /\ UNCHANGED <<default_zone, disturbed, request, todo, results, verdict, outcome,
                   snapshot, test, confirmed, denied>>

\* Mutant: a sudo error is raised though a target was changed.
ExecuteDeniedRaises ==
    /\ pc = "execute"
    /\ Raise(SudoError)
    /\ denied' = TRUE
    /\ UNCHANGED <<remote, request, writes>>

ExecuteDenied ==
    /\ pc = "execute"
    /\ IF mutation_succeeded
       THEN /\ Abandon(ExecutionFailed(TRUE))
            /\ UNCHANGED <<mutation_succeeded, outcome, snapshot, test, confirmed>>
       ELSE Raise(SudoError)
    /\ denied' = TRUE
    /\ UNCHANGED <<remote, request, writes>>

ExecuteRaises(e) ==
    /\ pc = "execute"
    /\ e \in Terminal \cup SSHErrors
    /\ IF e \in SSHErrors THEN MayTakeEffect ELSE UNCHANGED config
    /\ Raise(e)
    /\ UNCHANGED <<default_zone, disturbed, request, writes, denied>>

\* Mutant: the verification of a failed command is called unverified.
ExecuteFailsUnverified ==
    /\ pc = "execute"
    /\ GoOn([results EXCEPT ![Selected] = TargetResult("failed", "unverified", FALSE)])
    /\ UNCHANGED <<remote, request, mutation_succeeded, outcome, snapshot, test,
                   writes, confirmed, denied>>

ExecuteFails ==
    /\ pc = "execute"
    /\ GoOn([results EXCEPT ![Selected] = ExecutionFailed(FALSE)])
    /\ UNCHANGED <<remote, request, mutation_succeeded, outcome, snapshot, test,
                   writes, confirmed, denied>>

\* Mutant: the runtime inventory, whichever the target.
VerifiedInRuntime == "runtime" \in config

\* The inventory of the target, read again.
Verified == Selected \in config

VerifyRead ==
    /\ pc = "verify"
    /\ GoOn([results EXCEPT ![Selected] =
               IF Verified THEN TargetSuccess ELSE Unverified(FALSE)])
    /\ confirmed' = IF Verified THEN confirmed \cup {Selected} ELSE confirmed
    /\ UNCHANGED <<remote, request, mutation_succeeded, outcome, snapshot, test,
                   writes, denied>>

\* Mutant: a read that failed counts as verified.
VerifyFailsTrusting ==
    /\ pc = "verify"
    /\ GoOn([results EXCEPT ![Selected] = TargetSuccess])
    /\ UNCHANGED <<remote, request, mutation_succeeded, outcome, snapshot, test,
                   writes, confirmed, denied>>

VerifyFails ==
    /\ pc = "verify"
    /\ GoOn([results EXCEPT ![Selected] = Unverified(FALSE)])
    /\ UNCHANGED <<remote, request, mutation_succeeded, outcome, snapshot, test,
                   writes, confirmed, denied>>

VerifyDenied ==
    /\ pc = "verify"
    /\ Abandon(Unverified(TRUE))
    /\ denied' = TRUE
    /\ UNCHANGED <<remote, request, mutation_succeeded, outcome, snapshot, test,
                   writes, confirmed>>

VerifyRaises(e) ==
    /\ pc = "verify"
    /\ e \in Terminal \cup SSHErrors
    /\ Raise(e)
    /\ UNCHANGED <<remote, request, writes, denied>>

ApplyTargets ==
    \/ ExecuteOk \/ ExecuteDenied \/ ExecuteFails
    \/ VerifyRead \/ VerifyFails \/ VerifyDenied
    \/ \E e \in Errors : ExecuteRaises(e) \/ VerifyRaises(e)

-----------------------------------------------------------------------------
(* _apply_global: one command for both targets.                             *)

Both(result) == [t \in Targets |-> result]

GlobalMayTakeEffect ==
    \/ UNCHANGED <<config, default_zone>>
    \/ /\ op = "set_default_zone"
       /\ default_zone' = zone /\ UNCHANGED config
    \/ /\ op = "reload_firewalld"
       /\ config' = IF "permanent" \in config THEN Targets ELSE {}
       /\ UNCHANGED default_zone

\* _require_global_target: an InvalidFirewallArgumentError before any command.
RejectTarget ==
    /\ pc = "global_execute" /\ asked # Targets
    /\ Raise("command")
    /\ UNCHANGED <<remote, request, writes, denied>>

GlobalExecuteOk ==
    /\ pc = "global_execute" /\ asked = Targets
    /\ GlobalMayTakeEffect
    /\ pc' = "global_verify"
    /\ Accepted(Targets)
    /\ UNCHANGED <<disturbed, request, change, verdict, outcome, snapshot, test,
                   confirmed, denied>>

GlobalExecuteFails ==
    /\ pc = "global_execute" /\ asked = Targets
    /\ Return(Both(ExecutionFailed(FALSE)))
    /\ UNCHANGED <<remote, request, todo, mutation_succeeded, outcome, snapshot, test,
                   writes, confirmed, denied>>

GlobalExecuteRaises(e) ==
    /\ pc = "global_execute" /\ asked = Targets
    /\ e \in {SudoError} \cup Terminal \cup SSHErrors
    /\ IF e \in SSHErrors THEN GlobalMayTakeEffect ELSE UNCHANGED <<config, default_zone>>
    /\ Raise(e)
    /\ Refused(e)
    /\ UNCHANGED <<disturbed, request, writes>>

\* The default zone, or "running": firewalld may also say it is not, with exit 0.
GlobalVerified ==
    IF op = "set_default_zone" THEN {default_zone = zone} ELSE BOOLEAN

GlobalVerifyRead ==
    /\ pc = "global_verify"
    /\ \E verified \in GlobalVerified :
         /\ Return(Both(IF verified THEN TargetSuccess ELSE Unverified(FALSE)))
         /\ confirmed' = IF verified THEN Targets ELSE confirmed
    /\ UNCHANGED <<remote, request, todo, mutation_succeeded, outcome, snapshot, test,
                   writes, denied>>

GlobalVerifyFails ==
    /\ pc = "global_verify"
    /\ Return(Both(Unverified(FALSE)))
    /\ UNCHANGED <<remote, request, todo, mutation_succeeded, outcome, snapshot, test,
                   writes, confirmed, denied>>

GlobalVerifyRaises(e) ==
    /\ pc = "global_verify"
    /\ e \in {SudoError} \cup Terminal \cup SSHErrors
    /\ Raise(IF e \in SudoErrors THEN "post" ELSE e)
    /\ Refused(e)
    /\ UNCHANGED <<remote, request, writes>>

ApplyGlobal ==
    \/ RejectTarget \/ GlobalExecuteOk \/ GlobalExecuteFails
    \/ GlobalVerifyRead \/ GlobalVerifyFails
    \/ \E e \in Errors : GlobalExecuteRaises(e) \/ GlobalVerifyRaises(e)

-----------------------------------------------------------------------------
(* load_snapshot, by itself or after a change.                              *)

Loaded(step) ==
    CASE step = "hostname"        -> "distribution"
      [] step = "distribution"    -> "state"
      [] step = "state"           -> "version"
      [] step = "version"         -> "default_zone"
      [] step = "default_zone"    -> "active_zones"
      [] step = "active_zones"    -> "runtime_names"
      [] step = "runtime_names"   -> "runtime_zones"
      [] step = "runtime_zones"   -> "permanent_names"
      [] step = "permanent_names" -> "permanent_zones"
      [] step = "permanent_zones" -> "services"
      [] step = "services"        -> "over"

View == IF pc \in {"runtime_names", "runtime_zones"} THEN "runtime" ELSE "permanent"

\* Mutant: only the first target's result is looked at.
AuthenticationFailedFirst == results["permanent"].authentication_failed

AuthenticationFailed == \E t \in Targets : results[t].authentication_failed

\* After a change the failure is part of the outcome, and with a refused password
\* the session forgets its own; otherwise it is the job's failure.
LoadFails(e) ==
    /\ pc' = "over"
    /\ IF op \in Mutations
       THEN /\ refresh' = IF e = "transport" THEN "transport" ELSE "failed"
            /\ clear_sudo' = (e \in SudoErrors \/ AuthenticationFailed)
            /\ UNCHANGED verdict
       ELSE verdict' = e /\ UNCHANGED outcome
    /\ Refused(e)
    /\ UNCHANGED <<remote, request, change, snapshot, test, writes, confirmed>>

\* The services are the last thing to read.
LoadGoesOn ==
    /\ pc' = Loaded(pc)
    /\ IF pc = "services"
       THEN /\ refresh' = "fresh"
            /\ IF op \in Mutations
               THEN clear_sudo' = AuthenticationFailed /\ UNCHANGED verdict
               ELSE verdict' = "read" /\ UNCHANGED clear_sudo
       ELSE UNCHANGED <<verdict, outcome>>
    /\ UNCHANGED <<remote, request, change, test, writes, confirmed, denied>>

ReadProbe ==
    /\ pc \in {"hostname", "distribution"}
    /\ \/ LoadGoesOn /\ UNCHANGED snapshot
       \/ \E e \in ProbeErrors : LoadFails(e)

\* detect() and the default zone: there is no snapshot without them.
ReadMandatory ==
    /\ pc \in {"state", "version", "default_zone"}
    /\ \/ /\ LoadGoesOn
          /\ snapshot_default' = IF pc = "default_zone" THEN default_zone ELSE snapshot_default
          /\ UNCHANGED <<unread, listed, seen, parts, stale>>
       \/ \E e \in ReadErrors : LoadFails(e)

\* The active zones and the available services: a failure makes it stale.
ReadPart ==
    /\ pc \in {"active_zones", "services"}
    /\ \/ /\ LoadGoesOn
          /\ \/ parts' = parts \cup {pc} /\ UNCHANGED stale
             \/ stale' = TRUE /\ UNCHANGED parts
          /\ UNCHANGED <<unread, listed, seen, snapshot_default>>
       \/ \E e \in ReadErrors \ Tolerated : LoadFails(e)

ReadNames ==
    /\ pc \in {"runtime_names", "permanent_names"}
    /\ \/ /\ LoadGoesOn
          /\ unread' = Zones
          /\ UNCHANGED <<listed, seen, parts, snapshot_default, stale>>
       \/ /\ pc' = Loaded(Loaded(pc))
          /\ stale' = TRUE
          /\ UNCHANGED <<remote, request, change, verdict, outcome, test, writes, confirmed,
                         denied, unread, listed, seen, parts, snapshot_default>>
       \/ \E e \in ReadErrors \ Tolerated : LoadFails(e)

\* One zone after the other, in the order the server named them.
ReadZone(z) ==
    /\ pc \in {"runtime_zones", "permanent_zones"}
    /\ z \in unread
    /\ \/ /\ unread' = unread \ {z}
          /\ pc' = IF unread' = {} THEN Loaded(pc) ELSE pc
          /\ \/ /\ listed' = [listed EXCEPT ![View] = @ \cup {z}]
                /\ seen' = IF z = zone THEN seen \cup (config \cap {View}) ELSE seen
                /\ UNCHANGED stale
             \/ stale' = TRUE /\ UNCHANGED <<listed, seen>>
          /\ UNCHANGED <<remote, request, change, verdict, outcome, test, writes, confirmed,
                         denied, parts, snapshot_default>>
       \/ \E e \in ReadErrors \ Tolerated : LoadFails(e)

LoadSnapshot ==
    \/ ReadProbe \/ ReadMandatory \/ ReadPart \/ ReadNames
    \/ \E z \in Zones : ReadZone(z)

-----------------------------------------------------------------------------
(* connection_test: five checks, whatever the server answers.               *)

Check(name, passed) == [name |-> name, passed |-> passed]

TestRaises(e) ==
    /\ verdict' = e
    /\ pc' = "over"
    /\ Refused(e)
    /\ UNCHANGED <<checks, info>>

TestProbe ==
    /\ pc \in {"test_hostname", "test_distribution", "test_uid"}
    /\ \/ /\ \E passed \in BOOLEAN : checks' = Append(checks, Check(pc, passed))
          /\ pc' = CASE pc = "test_hostname"     -> "test_distribution"
                     [] pc = "test_distribution" -> "test_uid"
                     [] pc = "test_uid"          -> "test_state"
          /\ UNCHANGED <<info, verdict, denied>>
       \/ \E e \in SSHErrors : TestRaises(e)

TestEnds(history, found) ==
    /\ checks' = history
    /\ info' = found
    /\ verdict' = "read"
    /\ pc' = "over"
    /\ UNCHANGED denied

TestState ==
    /\ pc = "test_state"
    /\ \/ /\ info' = Info(TRUE, TRUE, FALSE)
          /\ checks' = Append(checks, Check("test_state", TRUE))
          /\ pc' = "test_version"
          /\ UNCHANGED <<verdict, denied>>
       \/ \E found \in {NoInfo, Info(FALSE, FALSE, FALSE), Info(TRUE, FALSE, FALSE)} :
            TestEnds(checks \o <<Check("test_state", FALSE), Check("test_version", FALSE)>>,
                     found)
       \/ \E e \in {SudoError} \cup SSHErrors : TestRaises(e)

\* Mutant: the state's check is left as it was.
TestVersionLate ==
    /\ pc = "test_version"
    /\ \/ TestEnds(Append(checks, Check("test_version", TRUE)), Info(TRUE, TRUE, TRUE))
       \/ \E installed, running \in BOOLEAN :
            /\ running => installed
            /\ TestEnds(Append(checks, Check("test_version", FALSE)),
                        Info(installed, running, FALSE))
       \/ \E e \in {SudoError} \cup SSHErrors : TestRaises(e)

\* firewalld may go away between the two commands: the state's check is corrected.
TestVersion ==
    /\ pc = "test_version"
    /\ \/ TestEnds(Append(checks, Check("test_version", TRUE)), Info(TRUE, TRUE, TRUE))
       \/ TestEnds(Append(checks, Check("test_version", FALSE)), Info(TRUE, TRUE, FALSE))
       \/ \E installed \in BOOLEAN :
            TestEnds(Append([checks EXCEPT ![Len(checks)] = Check("test_state", FALSE)],
                            Check("test_version", FALSE)),
                     Info(installed, FALSE, FALSE))
       \/ \E e \in {SudoError} \cup SSHErrors : TestRaises(e)

ConnectionTest ==
    /\ TestProbe \/ TestState \/ TestVersion
    /\ UNCHANGED <<remote, request, change, outcome, snapshot, writes, confirmed>>

-----------------------------------------------------------------------------
Next ==
    \/ \E operation \in Mutations \cup Reads, targets \in SUBSET Targets :
         Ask(operation, targets)
    \/ Retry \/ Interfere
    \/ ApplyTargets \/ ApplyGlobal \/ LoadSnapshot \/ ConnectionTest

Spec == Init /\ [][Next]_vars

-----------------------------------------------------------------------------
(* Properties.                                                              *)

Steps ==
    {"over", "execute", "verify", "global_execute", "global_verify",
     "hostname", "distribution", "state", "version", "default_zone", "active_zones",
     "runtime_names", "runtime_zones", "permanent_names", "permanent_zones", "services",
     "test_hostname", "test_distribution", "test_uid", "test_state", "test_version"}

RemoteType ==
    config \in SUBSET Targets /\ default_zone \in Zones /\ disturbed \in BOOLEAN
RequestType ==
    /\ op \in Mutations \cup Reads /\ asked \in SUBSET Targets /\ zone \in Zones
    /\ password \in BOOLEAN /\ retried \in BOOLEAN
ChangeType ==
    /\ todo \in SUBSET Targets /\ mutation_succeeded \in BOOLEAN
    /\ results \in [Targets -> TargetResults]
VerdictType == verdict \in {"idle", "none", "read"} \cup Outcomes \cup Errors
OutcomeType ==
    refresh \in {"none", "fresh", "failed", "transport"} /\ clear_sudo \in BOOLEAN
SnapshotType ==
    /\ unread \in SUBSET Zones
    /\ listed \in [Targets -> SUBSET Zones] /\ seen \in SUBSET Targets
    /\ parts \in SUBSET {"active_zones", "services"}
    /\ snapshot_default \in Zones /\ stale \in BOOLEAN
ConnectionCheck == [name : Steps, passed : BOOLEAN]
FirewalldInfo ==
    [known : BOOLEAN, installed : BOOLEAN, running : BOOLEAN, version : BOOLEAN]
TestType == checks \in Seq(ConnectionCheck) /\ info \in FirewalldInfo
HistoryType ==
    writes \in [Targets -> Nat] /\ confirmed \in SUBSET Targets /\ denied \in BOOLEAN

\* Every variable has its type.
TypeOK ==
    /\ RemoteType /\ RequestType /\ pc \in Steps /\ ChangeType /\ VerdictType
    /\ OutcomeType /\ SnapshotType /\ TestType /\ HistoryType

\* A change reported as successful was read back from every target it was asked
\* for, and holds there unless somebody else undid it.
SucceededMeansConfirmed ==
    verdict = "succeeded" =>
        /\ confirmed = asked
        /\ op \in Scoped /\ ~disturbed => asked \subseteq config
        /\ op = "set_default_zone" /\ ~disturbed => default_zone = zone

\* The snapshot loaded after a change shows what the change has confirmed: the
\* tables never fall back to the state before it, though every zone that could
\* not be read may be missing.
SnapshotShowsTheChange ==
    pc = "over" /\ refresh = "fresh" /\ ~disturbed =>
        /\ op \in Scoped =>
             \A t \in confirmed : zone \in listed[t] => t \in seen
        /\ op = "set_default_zone" /\ confirmed # {} => snapshot_default = zone

\* A snapshot is marked stale exactly when something of it could not be read.
StaleMeansIncomplete ==
    refresh = "fresh" =>
        (stale <=> \/ \E t \in Targets : listed[t] # Zones
                   \/ parts # {"active_zones", "services"})

\* What the tables show may be acted on, or is marked as stale (load_snapshot).
SnapshotsAreHonest == SnapshotShowsTheChange /\ StaleMeansIncomplete

\* A password that was refused at any point of a job does not stay in the session:
\* the outcome says so, or the error is one for which _apply_failure drops it or
\* asks for one.
RefusedPasswordIsForgotten ==
    pc = "over" /\ denied =>
        clear_sudo \/ verdict \in SudoErrors \cup {"post"}

\* The tabs look at is_success and is_partial, the log and the overview at
\* classify_composite_outcome: they never tell different stories.
LabelsAgree ==
    verdict \in Outcomes =>
        /\ IsSuccess(results) <=> verdict = "succeeded"
        /\ IsPartial(results) <=> verdict = "partial"

\* A connection test has its five checks, once and in order, and they agree with
\* what it found out about firewalld, even if that went away in between.
ChecksAgree ==
    pc = "over" /\ op = "test" /\ verdict = "read" =>
        /\ [i \in DOMAIN checks |-> checks[i].name] =
             <<"test_hostname", "test_distribution", "test_uid", "test_state", "test_version">>
        /\ checks[4].passed <=> info.running
        /\ checks[5].passed <=> info.version
        /\ info.version => info.running
        /\ info.running => info.installed

\* What is said of one request in several places is the same everywhere, whatever
\* was refused, lost or changed by others on the way (CompositeOperationResult,
\* classify_composite_outcome, connection_test).
ReportsAgree == LabelsAgree /\ ChecksAgree

\* No request writes a target twice, not even when it is sent again with a
\* password, none writes after a refusal, and what it reports fits what it wrote.
Abstract == INSTANCE RemoteChange WITH report <- verdict
ImplementsRemoteChange == Abstract!Spec

(* "Execution and verification are tracked independently for both targets.   *)
(* Partial success is explicit" (docs/superpowers/specs/2026-08-28-remote-   *)
(* firewalld-manager-design.md:118): a change with a confirmed target never  *)
(* ends as if all of it had failed.                                          *)
PartialSuccessIsExplicit ==
    pc = "over" /\ confirmed # {} => verdict \in Abstract!Touched
=============================================================================
