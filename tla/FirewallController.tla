------------------------- MODULE FirewallController -------------------------
(***************************************************************************)
(* app/controllers/firewall_controller.py for one server: a change is      *)
(* previewed against the session's snapshot, confirmed by the user,        *)
(* previewed again when it is applied, and handed to ServerController; a   *)
(* facade, kept in _pending until it has finished, repeats the signals of  *)
(* the logical job.                                                        *)
(*                                                                         *)
(* ServerController is here what that code sees of it: the session view,   *)
(* whether the server is selected, and the one logical job that can be     *)
(* open.  Its signals are direct calls, so a handler and what the facade   *)
(* does in it are one step (ServerController has the queued signals and    *)
(* the dialogs).  The caller keeps a preview as long as it likes and may   *)
(* apply it twice: nothing here depends on the dialogs being modal.        *)
(***************************************************************************)
EXTENDS Lockout, Sequences, FiniteSets

CONSTANTS
    Snapshots,      \* what FirewalldService.load_snapshot may return
    Changes,        \* the changes a caller may ask for
    MaxChanges,     \* bound: changes submitted
    MaxGeneration   \* bound: generations of the session

PortOps      == {"add_port", "remove_port"}
ServiceOps   == {"add_service", "remove_service"}
RuleOps      == {"add_rich_rule", "remove_rich_rule"}
Additions    == {"add_port", "add_service", "add_rich_rule"}
ItemOps      == PortOps \cup ServiceOps \cup RuleOps
GlobalOps    == {"set_default_zone", "reload_firewalld"}
Reads        == {"refresh", "test_connection"}
Operations   == ItemOps \cup GlobalOps \cup {"change_interface_zone"}

\* A request or a row with its target.  from: the zone an interface leaves;
\* row: the targets the selected table row shows the item in.
Change(op, zone, from, resource, targets, row) ==
    [op |-> op, zone |-> zone, from |-> from, resource |-> resource,
     targets |-> targets, row |-> row]

Stale(snapshot) ==
    IF snapshot = None THEN None ELSE [snapshot EXCEPT !.stale = TRUE]

SnapshotValues == {None} \cup Snapshots \cup {Stale(s) : s \in Snapshots}

Statuses == {"disconnected", "connected", "error"}
Jobs     == {"connect", "disconnect"} \cup Reads \cup Operations
Phases   == {"queued", "running", "held", "answered", "waiting", "told"}

Sessions ==
    [present : BOOLEAN, generation : 0 .. MaxGeneration, status : Statuses,
     live : BOOLEAN, busy : {None} \cup Jobs, snapshot : SnapshotValues]

\* The values of ChangePreview, _LogicalFirewallJob and FirewallJobHandle.
Previews ==
    [change : Changes, generation : 0 .. MaxGeneration, risk : {"none", "high"},
     from : {s.default : s \in Snapshots} \cup {c.from : c \in Changes}]

LogicalJobs ==
    [id : Nat, op : Operations, phase : Phases, started : BOOLEAN,
     retried : BOOLEAN, confirmed : Previews, targets : SUBSET Targets]

Facades ==
    [generation : Nat, started : 0 .. 1, succeeded : 0 .. 1, failed : 0 .. 2,
     finished : 0 .. 1]

ASSUME SnapshotsAssumption ==
    /\ Snapshots # {}
    /\ \A s \in Snapshots : IsSnapshot(s) /\ s.stale = FALSE
ASSUME ChangesAssumption ==
    \A c \in Changes : c.op \in Operations /\ c.targets \in (SUBSET Targets) \ {{}}
ASSUME BoundsAssumption == MaxChanges \in Nat /\ MaxGeneration \in Nat
ASSUME NoneAssumption ==
    /\ None \notin Jobs
    /\ None \notin LogicalJobs
    /\ \A s \in Snapshots : s # None /\ Stale(s) # None

VARIABLES
    session,    \* the ServerSession: present, generation, status, live (it owns
                \* an SSH manager and a service), busy, snapshot
    selected,   \* selected_server_id is this server
    plan,       \* a change and the ChangePreview the caller was shown, or None
    logical,    \* the open _LogicalFirewallJob of the server, or None
    pending,    \* _pending: the intents whose facade has not finished
    facades     \* of every change submitted: how often its facade emitted what

vars == <<session, selected, plan, logical, pending, facades>>

NewSession(generation) ==
    [present |-> TRUE, generation |-> generation, status |-> "disconnected",
     live |-> FALSE, busy |-> None, snapshot |-> None]

\* A FirewallJobHandle.
NewFacade(generation) ==
    [generation |-> generation,
     started |-> 0, succeeded |-> 0, failed |-> 0, finished |-> 0]

Init ==
    /\ session  = NewSession(0)
    /\ selected \in BOOLEAN
    /\ plan     = None
    /\ logical  = None
    /\ pending  = {}
    /\ facades  = <<>>

-----------------------------------------------------------------------------
(* Previews.                                                                *)

\* _actionable_snapshot of a view.
Actionable(view) ==
    /\ view.present
    /\ view.status = "connected"
    /\ view.busy = None
    /\ view.snapshot # None
    /\ ~view.snapshot.stale

ItemsOf(state, op) ==
    CASE op \in PortOps    -> state.ports
      [] op \in ServiceOps -> state.services
      [] op \in RuleOps    -> state.rules

\* has_port, has_service, _has_rich_rule: the targets that have the item.
Holding(c, snapshot) ==
    {t \in Targets : /\ HasZone(snapshot, c.zone, t)
                     /\ c.resource \in ItemsOf(snapshot.zones[t][c.zone], c.op)}

\* _interface_assignments: the zones of an interface; more than one is refused.
Assigned(snapshot, t, interface) ==
    {z \in DOMAIN snapshot.zones[t] : interface \in snapshot.zones[t][z].interfaces}

Unambiguous(snapshot, t) ==
    \A z \in DOMAIN snapshot.zones[t] : \A i \in snapshot.zones[t][z].interfaces :
        Assigned(snapshot, t, i) = {z}

RequireTargetZones(c, snapshot) == \A t \in c.targets : HasZone(snapshot, c.zone, t)

\* validate_inventory_value("service", ...), also of a rule to be added.
KnownService(c, snapshot) ==
    /\ c.op \in ServiceOps => c.resource \in snapshot.services
    /\ c.op = "add_rich_rule" /\ c.resource.service # None
         => c.resource.service \in snapshot.services

\* A port that is in one of the targets is refused, a service or a rule only
\* if it is in all of them.
Missing(c, snapshot) ==
    IF c.op = "add_port" THEN c.targets \cap Holding(c, snapshot) = {}
    ELSE c.targets \ Holding(c, snapshot) # {}

\* RichRuleRow.supported
Supported(c) == c.op = "remove_rich_rule" => c.resource.action # None

\* The row is what the snapshot shows, and every target has the item.
Removable(c, snapshot) ==
    /\ Supported(c)
    /\ c.row = Holding(c, snapshot)
    /\ c.targets \subseteq c.row

\* The interface is in the zone it is to leave, in every target.
Movable(c, snapshot) ==
    /\ \A t \in Targets : Unambiguous(snapshot, t)
    /\ \E t \in Targets : Assigned(snapshot, t, c.resource) # {}
    /\ \A t \in c.targets :
        Assigned(snapshot, t, c.resource) = (IF c.from = None THEN {} ELSE {c.from})

\* What the preview_ function of the operation asks of the snapshot.
Valid(c, snapshot) ==
    CASE c.op \in Additions -> /\ RequireTargetZones(c, snapshot)
                               /\ KnownService(c, snapshot)
                               /\ Missing(c, snapshot)
      [] c.op \in ItemOps \ Additions -> /\ RequireTargetZones(c, snapshot)
                                         /\ KnownService(c, snapshot)
                                         /\ Removable(c, snapshot)
      [] c.op = "change_interface_zone" -> /\ Movable(c, snapshot)
                                           /\ RequireTargetZones(c, snapshot)
      [] c.op = "set_default_zone" -> /\ \E t \in Targets : HasZone(snapshot, c.zone, t)
                                      /\ c.zone # snapshot.default
      [] c.op = "reload_firewalld" -> TRUE

RiskOf(c, snapshot) ==
    CASE c.op \in ItemOps \ Additions -> AssessLockoutRisk(c, snapshot)
      [] c.op = "change_interface_zone" ->
            IF Assigned(snapshot, "runtime", c.resource) # {} THEN "high" ELSE "none"
      [] OTHER -> "none"

\* The ChangePreview; its resource names the old default zone.
PreviewOf(c, view) ==
    [change |-> c, generation |-> view.generation, risk |-> RiskOf(c, view.snapshot),
     from |-> IF c.op = "set_default_zone" THEN view.snapshot.default ELSE c.from]

\* preview_<operation>; where it raises, nothing changes.
Preview(c) ==
    /\ Actionable(session)
    /\ Valid(c, session.snapshot)
    /\ plan' = PreviewOf(c, session)
    /\ UNCHANGED <<session, selected, logical, pending, facades>>

\* The caller drops the preview: the user cancelled the confirmation.
Cancel ==
    /\ plan # None
    /\ plan' = None
    /\ UNCHANGED <<session, selected, logical, pending, facades>>

-----------------------------------------------------------------------------
(* Applying what was confirmed.                                             *)

Intent(id, op, generation) ==
    [id |-> id, op |-> op, generation |-> generation, error_emitted |-> FALSE]

\* _missing_service_target, _missing_rich_rule_target: only what is missing is
\* added; every other change is made in all the targets asked for.
EffectiveTargets(c, snapshot) ==
    IF c.op \in {"add_service", "add_rich_rule"}
    THEN c.targets \ Holding(c, snapshot) ELSE c.targets

KeyPending(op, generation) ==
    \E p \in pending : p.op = op /\ p.generation = generation

\* Mutant: the change is validated again, the preview not compared.
ValidPreview(preview) == TRUE

\* _require_exact_preview: the preview would read the same now.
ExactPreview(preview) == preview = PreviewOf(preview.change, session)

\* What apply_<operation> asks for, with the guards of
\* ServerController._schedule_<family> and _launch_firewall_attempt.  The
\* families of ports and services look at _pending first, the others when the
\* job has been submitted: with a pending key its facade would stay unbound.
Applicable(preview) ==
    LET c == preview.change
    IN  /\ selected
        /\ Actionable(session)
        /\ Valid(c, session.snapshot)
        /\ ExactPreview(preview)
        /\ session.live
        /\ logical = None
        /\ c.op \in PortOps \cup ServiceOps => ~KeyPending(c.op, session.generation)

\* apply_<operation>, _schedule_<family> and _bind_internal.
Apply ==
    LET c  == plan.change
        id == Len(facades) + 1
    IN  /\ plan # None
        /\ Len(facades) < MaxChanges
        /\ Applicable(plan)
        /\ session' = [session EXCEPT !.busy = c.op]
        /\ logical' = [id |-> id, op |-> c.op, phase |-> "queued",
                       started |-> FALSE, retried |-> FALSE, confirmed |-> plan,
                       targets |-> EffectiveTargets(c, session.snapshot)]
        /\ facades' = Append(facades, NewFacade(session.generation))
        /\ pending' = IF KeyPending(c.op, session.generation) THEN pending
                      ELSE pending \cup {Intent(id, c.op, session.generation)}
        /\ UNCHANGED <<selected, plan>>

-----------------------------------------------------------------------------
(* What the facade repeats.                                                 *)

\* _matching: the intent of the open logical job, if its generation is that of
\* the view.
Matching(view) ==
    {p \in pending : /\ p.id = logical.id
                     /\ view.present /\ p.generation = view.generation}

\* A facade that has emitted these signals.
Heard(facade, signals) ==
    LET count(signal) == IF signal \in signals THEN 1 ELSE 0
    IN  [generation |-> facade.generation,
         started    |-> facade.started + count("started"),
         succeeded  |-> facade.succeeded + count("succeeded"),
         failed     |-> facade.failed + count("failed"),
         finished   |-> facade.finished + count("finished")]

\* The signals the facade of the open logical job emits.
Repeated(signals, view) ==
    IF Matching(view) = {} THEN facades
    ELSE [facades EXCEPT ![logical.id] = Heard(@, signals)]

\* _internal_finished
Finished(view) == pending \ Matching(view)

\* _forward_matching_error: an error of the operation is passed on once.
ErrorForwarded == {[p EXCEPT !.error_emitted = @ \/ p.op = logical.op] : p \in pending}

\* Mutant: a change that is called off ends without an outcome.
CallOffUntold(view) ==
    IF logical = None THEN UNCHANGED <<logical, pending, facades>>
    ELSE /\ logical' = None
         /\ pending' = Finished(view)
         /\ facades' = Repeated({"finished"}, view)

\* The logical job is given up: _cancel_firewall_job(s).
CallOff(view) ==
    IF logical = None THEN UNCHANGED <<logical, pending, facades>>
    ELSE /\ logical' = None
         /\ pending' = Finished(view)
         /\ facades' = Repeated({"failed", "finished"}, view)

-----------------------------------------------------------------------------
(* The attempts of the logical job.                                         *)

InPhase(phases) == logical # None /\ logical.phase \in phases

\* Mutant: every attempt announces itself.
EveryStart == Repeated({"started"}, session)

\* _firewall_attempt_started: the first one does.
FirstStart == IF logical.started THEN facades ELSE Repeated({"started"}, session)

AttemptStarts ==
    /\ InPhase({"queued"})
    /\ logical' = [logical EXCEPT !.phase = "running", !.started = TRUE]
    /\ facades' = FirstStart
    /\ UNCHANGED <<session, selected, plan, pending>>

\* The change was carried out, and a snapshot loaded, or refused, or the
\* connection lost on the way.
SessionsAfterSuccess ==
    {[session EXCEPT !.snapshot = s] : s \in Snapshots}
    \cup {[session EXCEPT !.snapshot = Stale(@)],
          [session EXCEPT !.snapshot = Stale(@), !.status = "error", !.live = FALSE]}

\* _internal_succeeded wants a snapshot to publish.
AttemptSucceeds ==
    /\ InPhase({"running"})
    /\ session' \in SessionsAfterSuccess
    /\ logical' = [logical EXCEPT !.phase = "told"]
    /\ pending' = IF session'.snapshot \in Snapshots THEN pending ELSE ErrorForwarded
    /\ facades' = IF session'.snapshot = None THEN facades
                  ELSE Repeated({"succeeded"}, session)
    /\ UNCHANGED <<selected, plan>>

\* _apply_failure for an error that is an outcome.  A reload marks the snapshot
\* stale whatever the error.
SessionsAfterFailure ==
    LET mark(stale) == IF stale \/ logical.op = "reload_firewalld"
                       THEN Stale(session.snapshot) ELSE session.snapshot
    IN  {[session EXCEPT !.snapshot = mark(FALSE)],                     \* a command
         [session EXCEPT !.snapshot = mark(FALSE), !.status = "error"], \* permission
         [session EXCEPT !.snapshot = mark(TRUE)],                      \* post-mutation
         [session EXCEPT !.snapshot = mark(TRUE), !.status = "error", !.live = FALSE]}

AttemptFails ==
    /\ InPhase({"running"})
    /\ session' \in SessionsAfterFailure
    /\ logical' = [logical EXCEPT !.phase = "told"]
    /\ pending' = ErrorForwarded
    /\ facades' = Repeated({"failed"}, session)
    /\ UNCHANGED <<selected, plan>>

\* SudoAuthenticationRequiredError of the first attempt: a password is asked
\* for, and the logical job stays open.
AttemptAsks ==
    /\ InPhase({"running"})
    /\ ~logical.retried
    /\ session' = [session EXCEPT !.status = "error",
                     !.snapshot = IF logical.op = "reload_firewalld" THEN Stale(@) ELSE @]
    /\ logical' = [logical EXCEPT !.phase = "held"]
    /\ pending' = ErrorForwarded
    /\ UNCHANGED <<selected, plan, facades>>

\* Mutant: the answer is consumed, and nothing repeated.
RelaunchNothing ==
    /\ session' = [session EXCEPT !.busy = None]
    /\ UNCHANGED logical

\* _retry_sudo_operation
Relaunch ==
    /\ session' = [session EXCEPT !.status = "connected", !.busy = logical.op]
    /\ logical' = [logical EXCEPT !.phase = "queued", !.retried = TRUE]

\* _on_finished and _firewall_attempt_finished; with the answered password the
\* operation is repeated.
AttemptFinishes ==
    /\ InPhase({"told", "held", "answered"})
    /\ CASE logical.phase = "told" ->
                /\ session' = [session EXCEPT !.busy = None]
                /\ logical' = None
                /\ pending' = Finished(session)
                /\ facades' = Repeated({"finished"}, session)
         [] logical.phase = "held" ->
                /\ session' = [session EXCEPT !.busy = None]
                /\ logical' = [logical EXCEPT !.phase = "waiting"]
                /\ UNCHANGED <<pending, facades>>
         [] OTHER -> Relaunch /\ UNCHANGED <<pending, facades>>
    /\ UNCHANGED <<selected, plan>>

\* resolve_sudo_password with a password, before or after the job's finish.
AnswerPassword ==
    /\ \/ /\ InPhase({"held"})
          /\ logical' = [logical EXCEPT !.phase = "answered"]
          /\ UNCHANGED session
       \/ InPhase({"waiting"}) /\ Relaunch
    /\ UNCHANGED <<selected, plan, pending, facades>>

\* resolve_sudo_password without one.
DeclinePassword ==
    /\ InPhase({"held", "waiting"})
    /\ CallOff(session)
    /\ UNCHANGED <<session, selected, plan>>

-----------------------------------------------------------------------------
(* What else happens to the session.                                        *)

\* A refresh or a connection test: its outcome and its finish in one step, as
\* nothing may be applied in between.  (One that is repeated with a password
\* adds no state.)
ReadStarts(op) ==
    /\ session.status = "connected" /\ session.live /\ session.busy = None
    /\ session' = [session EXCEPT !.busy = op]
    /\ UNCHANGED <<selected, plan, logical, pending, facades>>

RefreshEnds ==
    /\ session.busy = "refresh"
    /\ \E lost \in BOOLEAN, status \in {"connected", "error"},
          s \in Snapshots \cup {Stale(session.snapshot)} :
        /\ lost => status = "error"
        /\ status = "error" => s = Stale(session.snapshot)
        /\ session' = [session EXCEPT !.busy = None, !.snapshot = s,
                         !.status = status, !.live = ~lost]
    /\ UNCHANGED <<selected, plan, logical, pending, facades>>

TestSucceeds ==
    /\ session.busy = "test_connection"
    /\ session' = [session EXCEPT !.busy = None]
    /\ UNCHANGED <<selected, plan, logical, pending, facades>>

TestFails ==
    /\ session.busy = "test_connection"
    /\ \E lost \in BOOLEAN, status \in {"connected", "error"} :
        /\ lost => status = "error"
        /\ session' = [session EXCEPT !.busy = None, !.status = status, !.live = ~lost]
    /\ UNCHANGED <<selected, plan, logical, pending, facades>>

\* A job whose logical job was given up finishes, or the closing of a
\* disconnected session does.
OtherJobFinishes ==
    /\ logical = None
    /\ session.busy \in Operations \cup {"disconnect"}
    /\ session' = [session EXCEPT !.busy = None]
    /\ UNCHANGED <<selected, plan, logical, pending, facades>>

\* connect gives up the logical job before it finds a live session.
Connect ==
    /\ session.present
    /\ session.status # "connected" /\ session.busy = None
    /\ CallOff(session)
    /\ session' = IF session.live THEN session
                  ELSE [session EXCEPT !.snapshot = None, !.busy = "connect",
                          !.status = "error"]
    /\ UNCHANGED <<selected, plan>>

ConnectEnds ==
    /\ session.busy = "connect"
    /\ \/ \E s \in Snapshots :
            session' = [session EXCEPT !.busy = None, !.status = "connected",
                          !.live = TRUE, !.snapshot = s]
       \/ session' = [session EXCEPT !.busy = None, !.status = "error"]
    /\ UNCHANGED <<selected, plan, logical, pending, facades>>

\* The session as _advance_generation and _detach leave it.
Detached(status, busy) ==
    [session EXCEPT !.generation = @ + 1, !.status = status, !.live = FALSE,
                    !.busy = busy, !.snapshot = None]

\* Mutant: the generation advances before the logical jobs are given up.
AdvancedView(next) == next

\* The view the cancelled jobs are matched against.
CancelView(next) == session

\* disconnect, reconnect, shutdown, and a configuration without the profile or
\* with another one: _clear_pending_decisions comes first.
GiveUp(next) ==
    /\ session.present
    /\ session.generation < MaxGeneration
    /\ session' = next
    /\ CallOff(CancelView(next))
    /\ UNCHANGED plan

Detach ==
    /\ \/ session.status # "disconnected" /\ GiveUp(Detached("disconnected", "disconnect"))
       \/ /\ session.status # "disconnected" /\ session.busy = None
          /\ GiveUp(Detached("error", "connect"))
       \/ GiveUp(Detached("disconnected", None))
    /\ UNCHANGED selected

\* reload_configuration without the server, and later with it again.
ConfigRemoved ==
    /\ GiveUp([Detached("disconnected", None) EXCEPT !.present = FALSE])
    /\ selected' = FALSE

ConfigAdded ==
    /\ ~session.present
    /\ session.generation < MaxGeneration
    /\ session' = NewSession(session.generation + 1)
    /\ selected' \in BOOLEAN
    /\ UNCHANGED <<plan, logical, pending, facades>>

\* The user selects this server or another.
Select ==
    /\ session.present \/ selected
    /\ selected' = ~selected
    /\ UNCHANGED <<session, plan, logical, pending, facades>>

-----------------------------------------------------------------------------
Attempts == AttemptStarts \/ AttemptSucceeds \/ AttemptFails \/ AttemptAsks
            \/ AttemptFinishes
Answers  == AnswerPassword \/ DeclinePassword
Session  == (\E op \in Reads : ReadStarts(op)) \/ RefreshEnds \/ TestFails
            \/ OtherJobFinishes \/ Connect \/ ConnectEnds \/ Detach \/ ConfigRemoved \/ ConfigAdded \/ Select

\* All steps but the one that has a result of its own to show.
OtherSteps == (\E c \in Changes : Preview(c)) \/ Cancel \/ Apply
              \/ Attempts \/ Answers \/ Session

Next == OtherSteps \/ TestSucceeds

\* Workers run, the event loop handles their signals and a prompt is answered.
Fairness == WF_vars(Attempts) /\ WF_vars(Answers)

Spec == Init /\ [][Next]_vars /\ Fairness

-----------------------------------------------------------------------------
(* Properties.                                                              *)

\* The types of the variables.
TypeOK ==
    /\ session \in Sessions
    /\ selected \in BOOLEAN
    /\ plan \in {None} \cup Previews
    /\ logical \in {None} \cup LogicalJobs
    /\ logical # None =>
        /\ logical.id \in DOMAIN facades
        /\ logical.op = logical.confirmed.change.op
    /\ Len(facades) <= MaxChanges
    /\ facades \in Seq(Facades)

Untold == logical # None /\ logical.phase # "told"

\* The item of the change is where the change expects it.
StillToDo(c, targets, snapshot) ==
    CASE c.op \in Additions -> targets \cap Holding(c, snapshot) = {}
      [] c.op \in ItemOps \ Additions -> targets \subseteq Holding(c, snapshot)
      [] c.op = "change_interface_zone" ->
            \A t \in targets : Assigned(snapshot, t, c.resource)
                                 = (IF c.from = None THEN {} ELSE {c.from})
      [] c.op = "set_default_zone" -> c.zone # snapshot.default
      [] OTHER -> TRUE

\* Until its outcome is told, also while a password is asked for and when the
\* attempt is repeated, a change is the one the user confirmed: of this session
\* and its inventory, in targets that were confirmed and where it is still to
\* be made, with the risk the user was shown (FirewallController.apply_*,
\* ServerController._launch_firewall_attempt).
ChangesStillApply ==
    Untold =>
        LET c == logical.confirmed.change IN
        /\ session.snapshot # None
        /\ logical.confirmed = PreviewOf(c, session)
        /\ logical.targets # {} /\ logical.targets \subseteq c.targets
        /\ StillToDo(c, logical.targets, session.snapshot)

\* A change that closes the way the application's own connection comes in, in
\* the inventory it is applied to, was confirmed as a high risk
\* (assess_lockout_risk, preview_remove_*, preview_change_interface_zone).
LockoutsAreFlagged ==
    Untold /\ LocksOut(logical.confirmed.change, session.snapshot, logical.targets)
        => logical.confirmed.risk = "high"

\* _pending has the facade of the open logical job and no other, its key is
\* that of the session, and no facade is left unfinished beside it: the key of
\* the next change is free, and every signal finds its facade (_bind_internal,
\* _matching, _cancel_firewall_jobs before _advance_generation).
FacadesMirrorJobs ==
    /\ {<<p.id, p.op, p.generation>> : p \in pending} =
         (IF logical = None THEN {} ELSE {<<logical.id, logical.op, session.generation>>})
    /\ \A i \in DOMAIN facades :
        facades[i].finished = 0 <=> logical # None /\ logical.id = i

\* The facade of every change finishes (FirewallJobHandle.finished).
FacadesFinish ==
    \A i \in 1 .. MaxChanges :
        i \in DOMAIN facades ~> i \in DOMAIN facades /\ facades[i].finished > 0

\* The facades keep what ConfirmedChanges promises.
Promise == INSTANCE ConfirmedChanges WITH
    generation <- session.generation,
    told       <- facades

ImplementsConfirmedChanges == Promise!Spec

=============================================================================
