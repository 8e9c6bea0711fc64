---------------------- MODULE FirewallControllerProofs ----------------------
(***************************************************************************)
(* The firewall controller for any inventories, changes and bounds: what   *)
(* is applied is what was confirmed, a change that locks the user out was  *)
(* flagged, and the facade of every change hears what ConfirmedChanges     *)
(* promises.  Then the window around it: what its labels show is of the    *)
(* session on display.                                                     *)
(***************************************************************************)
EXTENDS MainWindow, TLAPS

Facade == facades[logical.id]

\* The open logical job and its facade: the session is busy with it except while
\* a password is waited for, it belongs to the generation of the session, and its
\* facade was told of the start once and of an outcome only at the end.
OpenInv ==
    logical # None =>
        /\ session.present
        /\ session.busy = IF logical.phase = "waiting" THEN None ELSE logical.op
        /\ logical.phase \in {"held", "answered", "waiting"} => session.status = "error"
        /\ Facade.generation = session.generation
        /\ Facade.finished = 0
        /\ Facade.started = IF logical.started THEN 1 ELSE 0
        /\ logical.phase # "queued" => logical.started
        /\ Facade.succeeded + Facade.failed = IF logical.phase = "told" THEN 1 ELSE 0

Intents == [id : Nat, op : Operations, generation : Nat, error_emitted : BOOLEAN]

\* _pending has that facade and no other.
PendingInv ==
    IF logical = None THEN pending = {}
    ELSE \E p \in pending :
            /\ p \in Intents /\ pending = {p}
            /\ p.id = logical.id /\ p.op = logical.op
            /\ p.generation = session.generation

\* Every other facade has finished.
DoneInv ==
    \A i \in DOMAIN facades : facades[i].finished = 0 => logical # None /\ logical.id = i

ControllerInv == OpenInv /\ PendingInv /\ DoneInv /\ ChangesStillApply

-----------------------------------------------------------------------------
(* Snapshots and previews.                                                  *)

\* A snapshot keeps its shape and its contents when it is marked stale.
LEMMA StaleShape ==
  ASSUME NEW s \in Snapshots
  PROVE  /\ IsSnapshot(s) /\ IsSnapshot(Stale(s))
         /\ Stale(s).default = s.default /\ Stale(s).zones = s.zones
         /\ Stale(Stale(s)) = Stale(s)
<1>1. IsSnapshot(s) /\ s # None /\ Stale(s) # None
  BY SnapshotsAssumption, NoneAssumption
<1>2. s = [running |-> s.running, stale |-> s.stale, default |-> s.default,
           services |-> s.services, zones |-> s.zones]
  BY <1>1 DEF IsSnapshot
<1>3. Stale(s) = [running |-> s.running, stale |-> TRUE, default |-> s.default,
                  services |-> s.services, zones |-> s.zones]
  BY <1>1, <1>2 DEF Stale
<1>4. Stale(Stale(s)) = [running |-> s.running, stale |-> TRUE, default |-> s.default,
                         services |-> s.services, zones |-> s.zones]
  BY <1>1, <1>3 DEF Stale
<1>5. IsSnapshot(Stale(s))
  BY <1>1, <1>3 DEF IsSnapshot
<1> QED
  BY <1>1, <1>3, <1>4, <1>5

\* Marking a session's snapshot keeps it a snapshot value, and one that is there.
LEMMA StaleValues ==
  ASSUME NEW v \in SnapshotValues
  PROVE  Stale(v) \in SnapshotValues /\ (v # None => Stale(v) # None)
<1>1. CASE v = None
  BY <1>1 DEF Stale, SnapshotValues
<1>2. CASE v \in Snapshots
  BY <1>2, NoneAssumption DEF SnapshotValues
<1>3. ASSUME NEW s \in Snapshots, v = Stale(s) PROVE Stale(v) = v
  BY <1>3, StaleShape
<1> QED
  BY <1>1, <1>2, <1>3 DEF SnapshotValues

\* The snapshot of a session is one of the inventory, fresh or stale.
LEMMA SnapshotShape ==
  ASSUME NEW v \in SnapshotValues, v # None
  PROVE  /\ IsSnapshot(v)
         /\ v.default \in {s.default : s \in Snapshots}
<1>1. CASE v \in Snapshots
  BY <1>1, StaleShape
<1>2. ASSUME NEW s \in Snapshots, v = Stale(s)
      PROVE  IsSnapshot(v) /\ v.default \in {t.default : t \in Snapshots}
  BY <1>2, StaleShape
<1> QED
  BY <1>1, <1>2 DEF SnapshotValues

LEMMA PreviewType ==
  ASSUME NEW c \in Changes, session \in Sessions, session.snapshot # None
  PROVE  PreviewOf(c, session) \in Previews
<1>1. session.snapshot.default \in {s.default : s \in Snapshots}
  BY SnapshotShape DEF Sessions
<1>2. RiskOf(c, session.snapshot) \in {"none", "high"}
  BY ChangesAssumption DEF RiskOf, AssessLockoutRisk, Operations, ItemOps, GlobalOps
<1> QED
  BY <1>1, <1>2 DEF PreviewOf, Previews, Sessions

-----------------------------------------------------------------------------
(* Lockouts.                                                                *)

\* A port that lets the management connection in is one the analysis looks for.
LEMMA OpenPortsAreReasons ==
  ASSUME NEW p, {p.first, p.last} \subseteq Nat, OpensPort(p)
  PROVE  PortReasons(p)
BY SSHPortAssumption DEF OpensPort, PortReasons, PortContains

\* assess_lockout_risk finds every removal that closes a zone to the management
\* connection.
THEOREM RemovalsAreFlagged ==
  ASSUME NEW c, NEW state, IsZoneState(state), c.op \in Removals,
         Admits(state), ~Admits(Without(state, c)), NEW snapshot
  PROVE  AssessLockoutRisk(c, snapshot) = "high"
<1>1. state = [interfaces |-> state.interfaces, services |-> state.services,
               ports |-> state.ports, rules |-> state.rules]
  BY DEF IsZoneState
<1>2. CASE c.op = "remove_port"
  <2>1. Without(state, c) = [interfaces |-> state.interfaces, services |-> state.services,
                             ports |-> state.ports \ {c.resource}, rules |-> state.rules]
    BY <1>1, <1>2 DEF Without
  <2>2. c.resource \in state.ports /\ OpensPort(c.resource)
    BY <2>1 DEF Admits
  <2> QED
    BY <1>2, <2>2, OpenPortsAreReasons DEF IsZoneState, AssessLockoutRisk
<1>3. CASE c.op = "remove_service"
  <2>1. Without(state, c) = [interfaces |-> state.interfaces,
                             services |-> state.services \ {c.resource},
                             ports |-> state.ports, rules |-> state.rules]
    BY <1>1, <1>3 DEF Without
  <2>2. c.resource = "ssh"
    BY <2>1 DEF Admits
  <2> QED
    BY <1>3, <2>2 DEF AssessLockoutRisk, ServiceReasons
<1>4. CASE c.op = "remove_rich_rule"
  <2> DEFINE r == c.resource
  <2>1. Without(state, c) = [interfaces |-> state.interfaces, services |-> state.services,
                             ports |-> state.ports, rules |-> state.rules \ {r}]
    BY <1>1, <1>4 DEF Without
  <2>2. /\ r \in state.rules /\ r.action = "accept"
        /\ r.service = "ssh" \/ (r.port # None /\ OpensPort(r.port))
    BY <2>1 DEF Admits
  <2>3. RichRuleReasons(r)
    BY <2>2, OpenPortsAreReasons, NoServiceAssumption
    DEF RichRuleReasons, ServiceReasons, IsZoneState
  <2> QED
    BY <1>4, <2>3 DEF AssessLockoutRisk
<1> QED
  BY <1>2, <1>3, <1>4 DEF Removals

-----------------------------------------------------------------------------
(* The signals of the open logical job.                                     *)

\* Every signal of the logical job finds its facade.
LEMMA FacadeMatches ==
  ASSUME TypeOK, OpenInv, PendingInv, logical # None
  PROVE  /\ Matching(session) = pending /\ pending # {}
         /\ Finished(session) = {}
         /\ logical \in LogicalJobs /\ logical.id \in 1 .. Len(facades)
         /\ Facade \in Facades
         /\ \A signals :
                Repeated(signals, session)
                  = [facades EXCEPT ![logical.id] = Heard(Facade, signals)]
<1>1. logical \in LogicalJobs /\ logical.id \in 1 .. Len(facades) /\ Facade \in Facades
  BY DEF TypeOK, Facade
<1>2. PICK p \in Intents :
          pending = {p} /\ p.id = logical.id /\ p.generation = session.generation
  BY DEF PendingInv
<1>3. Matching(session) = pending /\ pending # {}
  BY <1>2 DEF Matching, OpenInv
<1> QED
  BY <1>1, <1>3 DEF Finished, Repeated, Facade

\* What is left when the logical job has finished, in any way.
LEMMA FinishKeeps ==
  ASSUME TypeOK, ControllerInv,
         logical' = None, pending' = {},
         logical = None => UNCHANGED facades,
         logical # None =>
            \E f \in Facades : f.finished = 1 /\ facades' = [facades EXCEPT ![logical.id] = f]
  PROVE  /\ Len(facades') <= MaxChanges /\ facades' \in Seq(Facades)
         /\ ControllerInv'
<1>1. Len(facades') <= MaxChanges /\ facades' \in Seq(Facades)
  BY DEF TypeOK
<1>2. DoneInv'
  BY DEF TypeOK, ControllerInv, DoneInv
<1> QED
  BY <1>1, <1>2 DEF ControllerInv, OpenInv, PendingInv, ChangesStillApply, Untold

\* A change that is called off.
LEMMA CallOffKeeps ==
  ASSUME TypeOK, ControllerInv, CallOff(session)
  PROVE  /\ logical' = None
         /\ Len(facades') <= MaxChanges /\ facades' \in Seq(Facades)
         /\ ControllerInv'
<1>1. CASE logical = None
  BY <1>1, FinishKeeps DEF CallOff, ControllerInv, PendingInv
<1>2. CASE logical # None
  <2> DEFINE f == Heard(Facade, {"failed", "finished"})
  <2>1. /\ logical' = None /\ pending' = {}
        /\ facades' = [facades EXCEPT ![logical.id] = f]
        /\ Facade \in Facades
    BY <1>2, FacadeMatches DEF CallOff, ControllerInv
  <2>2. Facade.failed \in 0 .. 1 /\ Facade.finished = 0
    BY <1>2, <2>1 DEF ControllerInv, OpenInv, Facades
  <2>3. f \in Facades /\ f.finished = 1
    BY <2>1, <2>2 DEF Heard, Facades
  <2> QED
    BY <1>2, <2>1, <2>3, FinishKeeps
<1> QED
  BY <1>1, <1>2

\* A step of an attempt that ends nothing: the facade may hear something, and the
\* entry of _pending is told that the error has been passed on.
LEMMA AttemptKeeps ==
  ASSUME TypeOK, ControllerInv, logical # None,
         NEW f \in Facades, NEW next \in LogicalJobs, NEW view \in Sessions,
         logical' = next, session' = view,
         next.id = logical.id, next.op = logical.op,
         next.confirmed = logical.confirmed, next.targets = logical.targets,
         facades' = [facades EXCEPT ![logical.id] = f],
         pending' \in {pending, ErrorForwarded},
         view.present, view.generation = session.generation,
         view.busy = IF next.phase = "waiting" THEN None ELSE next.op,
         next.phase \in {"held", "answered", "waiting"} => view.status = "error",
         f.generation = Facade.generation, f.finished = 0,
         f.started = IF next.started THEN 1 ELSE 0,
         next.phase # "queued" => next.started,
         f.succeeded + f.failed = IF next.phase = "told" THEN 1 ELSE 0,
         ChangesStillApply'
  PROVE  /\ logical' # None /\ logical' \in LogicalJobs
         /\ logical'.id \in DOMAIN facades' /\ logical'.op = logical'.confirmed.change.op
         /\ Len(facades') <= MaxChanges /\ facades' \in Seq(Facades)
         /\ ControllerInv'
<1>1. next # None
  BY NoneAssumption
<1>2. /\ logical'.id \in DOMAIN facades' /\ logical'.op = logical'.confirmed.change.op
      /\ Len(facades') <= MaxChanges /\ facades' \in Seq(Facades)
      /\ facades'[logical.id] = f
  BY DEF TypeOK
<1>3. OpenInv'
  BY <1>1, <1>2 DEF ControllerInv, OpenInv, Facade
<1>4. PendingInv'
  <2>1. PICK p \in Intents :
            /\ pending = {p}
            /\ p.id = logical.id /\ p.op = logical.op
            /\ p.generation = session.generation
    BY DEF ControllerInv, PendingInv
  <2> DEFINE q == [p EXCEPT !.error_emitted = @ \/ p.op = logical.op]
  <2>2. q \in Intents /\ q.id = p.id /\ q.op = p.op /\ q.generation = p.generation
    <3> DEFINE b == p.error_emitted \/ p.op = logical.op
    <3>1. b \in BOOLEAN
      OBVIOUS
    <3> QED
      BY <3>1 DEF Intents
  <2>3. pending' \in {{p}, {q}}
    BY <2>1 DEF ErrorForwarded
  <2> HIDE DEF q
  <2> QED
    BY <1>1, <2>1, <2>2, <2>3 DEF PendingInv
<1>5. DoneInv'
  BY <1>1, <1>2 DEF ControllerInv, DoneInv, TypeOK
<1> QED
  BY <1>1, <1>2, <1>3, <1>4, <1>5 DEF ControllerInv

\* While no logical job is open the session may change in any way.
LEMMA IdleKeeps ==
  ASSUME TypeOK, ControllerInv, logical = None, UNCHANGED <<logical, pending, facades>>
  PROVE  ControllerInv'
BY DEF ControllerInv, OpenInv, PendingInv, DoneInv, ChangesStillApply, Untold

\* A session that is busy with something else has no logical job.
LEMMA BusyElsewhere ==
  ASSUME TypeOK, ControllerInv,
         \/ session.busy \in Reads \cup {"connect", "disconnect"}
         \/ session.status = "connected" /\ session.busy = None
         \/ ~session.present
  PROVE  logical = None
BY NoneAssumption
DEF TypeOK, ControllerInv, OpenInv, LogicalJobs, Phases, Jobs, Operations, ItemOps, PortOps,
    ServiceOps, RuleOps, GlobalOps, Reads

\* A confirmed change still applies while its session keeps the generation and
\* the snapshot; a reload does not depend on the snapshot.
LEMMA StillConfirmed ==
  ASSUME TypeOK, ChangesStillApply, logical # None, NEW next, NEW view,
         logical' = next, session' = view,
         next.confirmed = logical.confirmed, next.targets = logical.targets,
         view.generation = session.generation,
         \/ next.phase = "told"
         \/ /\ logical.phase # "told"
            /\ \/ view.snapshot = session.snapshot
               \/ logical.op = "reload_firewalld" /\ view.snapshot = Stale(session.snapshot)
  PROVE  ChangesStillApply'
<1>1. CASE next.phase = "told"
  BY <1>1 DEF ChangesStillApply, Untold
<1>2. CASE logical.phase # "told" /\ view.snapshot = session.snapshot
  BY <1>2 DEF ChangesStillApply, Untold, PreviewOf
<1>3. CASE /\ logical.phase # "told"
           /\ logical.op = "reload_firewalld" /\ view.snapshot = Stale(session.snapshot)
  <2> DEFINE c == logical.confirmed.change
  <2>1. c.op = "reload_firewalld"
    BY <1>3 DEF TypeOK
  <2>2. \A v : RiskOf(c, v) = "none"
    BY <2>1 DEF RiskOf, ItemOps, PortOps, ServiceOps, RuleOps, Additions
  <2>3. \A v, targets : StillToDo(c, targets, v)
    BY <2>1 DEF StillToDo, ItemOps, PortOps, ServiceOps, RuleOps, Additions
  <2>4. view.snapshot # None
    BY <1>3, StaleValues DEF ChangesStillApply, Untold, TypeOK, Sessions
  <2>5. PreviewOf(c, session) = PreviewOf(c, view)
    BY <2>1, <2>2 DEF PreviewOf
  <2>6. /\ logical.confirmed = PreviewOf(c, session)
        /\ logical.targets # {} /\ logical.targets \subseteq c.targets
    BY <1>3 DEF ChangesStillApply, Untold
  <2> QED
    BY <2>3, <2>4, <2>5, <2>6 DEF ChangesStillApply
<1> QED
  BY <1>1, <1>2, <1>3

-----------------------------------------------------------------------------
(* The steps.                                                               *)

\* A preview, its confirmation dropped, another server selected.
LEMMA CallerKeeps ==
  ASSUME TypeOK, ControllerInv, (\E c \in Changes : Preview(c)) \/ Cancel \/ Select
  PROVE  TypeOK' /\ ControllerInv'
<1>1. UNCHANGED <<session, logical, pending, facades>>
  BY DEF Preview, Cancel, Select
<1>2. plan' \in {None} \cup Previews
  BY PreviewType DEF TypeOK, Preview, Actionable, Cancel, Select
<1>3. selected' \in BOOLEAN
  BY DEF TypeOK, Preview, Cancel, Select
<1>4. ControllerInv'
  BY <1>1
  DEF ControllerInv, OpenInv, PendingInv, DoneInv, ChangesStillApply, Untold, Facade,
      PreviewOf
<1> QED
  BY <1>1, <1>2, <1>3, <1>4 DEF TypeOK

\* What a preview that is applied was confirmed for.
LEMMA AppliedAsConfirmed ==
  ASSUME TypeOK, plan # None, Applicable(plan)
  PROVE  LET c       == plan.change
             targets == EffectiveTargets(c, session.snapshot)
         IN  /\ c \in Changes /\ c.op \in Operations /\ plan \in Previews
             /\ session.snapshot # None /\ plan = PreviewOf(c, session)
             /\ targets \in SUBSET Targets /\ targets # {} /\ targets \subseteq c.targets
             /\ StillToDo(c, targets, session.snapshot)
<1> DEFINE c == plan.change
           targets == EffectiveTargets(c, session.snapshot)
<1>1. c \in Changes /\ c.op \in Operations /\ plan \in Previews
  BY ChangesAssumption DEF TypeOK, Previews
<1>2. /\ session.snapshot # None /\ plan = PreviewOf(c, session)
      /\ Valid(c, session.snapshot)
  BY DEF Applicable, Actionable, ExactPreview
<1>3. c.targets \in (SUBSET Targets) \ {{}}
  BY <1>1, ChangesAssumption
<1>4. targets \subseteq c.targets
  BY DEF EffectiveTargets
<1> USE DEF ItemOps, PortOps, ServiceOps, RuleOps, Additions
<1>5. targets # {}
  <2>1. CASE c.op \in {"add_service", "add_rich_rule"}
    BY <1>2, <2>1 DEF Valid, Missing, EffectiveTargets
  <2>2. CASE c.op \notin {"add_service", "add_rich_rule"}
    BY <1>3, <2>2 DEF EffectiveTargets
  <2> QED
    BY <2>1, <2>2
<1>6. StillToDo(c, targets, session.snapshot)
  <2>1. CASE c.op \in {"add_service", "add_rich_rule"}
    BY <2>1 DEF StillToDo, EffectiveTargets
  <2>2. CASE c.op = "add_port"
    BY <1>2, <2>2 DEF StillToDo, EffectiveTargets, Valid, Missing
  <2>3. CASE c.op \in ItemOps \ Additions
    BY <1>2, <2>3 DEF StillToDo, EffectiveTargets, Valid, Removable
  <2>4. CASE c.op = "change_interface_zone"
    BY <1>2, <2>4 DEF StillToDo, EffectiveTargets, Valid, Movable
  <2>5. CASE c.op = "set_default_zone"
    BY <1>2, <2>5 DEF StillToDo, Valid
  <2>6. CASE c.op = "reload_firewalld"
    BY <2>6 DEF StillToDo
  <2> QED
    BY <1>1, <2>1, <2>2, <2>3, <2>4, <2>5, <2>6 DEF Operations, GlobalOps
<1> QED
  BY <1>1, <1>2, <1>3, <1>4, <1>5, <1>6

\* A change is submitted: a new logical job with a new facade.
LEMMA ApplyKeeps ==
  ASSUME TypeOK, ControllerInv, Apply
  PROVE  TypeOK' /\ ControllerInv'
<1> DEFINE c       == plan.change
           id      == Len(facades) + 1
           targets == EffectiveTargets(c, session.snapshot)
           job     == [id |-> id, op |-> c.op, phase |-> "queued", started |-> FALSE,
                       retried |-> FALSE, confirmed |-> plan, targets |-> targets]
           facade  == NewFacade(session.generation)
<1>1. /\ plan # None /\ Len(facades) < MaxChanges /\ Applicable(plan)
      /\ session' = [session EXCEPT !.busy = c.op] /\ logical' = job
      /\ facades' = Append(facades, facade)
      /\ logical = None /\ pending = {} /\ session.present
      /\ UNCHANGED <<selected, plan>>
  BY DEF Apply, Applicable, Actionable, ControllerInv, PendingInv
<1>2. /\ c \in Changes /\ c.op \in Operations /\ plan \in Previews
      /\ session.snapshot # None /\ plan = PreviewOf(c, session)
      /\ targets \in SUBSET Targets /\ targets # {} /\ targets \subseteq c.targets
      /\ StillToDo(c, targets, session.snapshot)
  BY <1>1, AppliedAsConfirmed
<1>3. pending' = {Intent(id, c.op, session.generation)}
  BY <1>1 DEF Apply, KeyPending
<1>4. /\ facades \in Seq(Facades) /\ Len(facades) \in Nat /\ id \in Nat
      /\ facade \in Facades /\ session.generation \in Nat
  BY BoundsAssumption DEF TypeOK, Sessions, NewFacade, Facades
<1>5. /\ facades' \in Seq(Facades) /\ Len(facades') = id /\ facades'[id] = facade
      /\ \A i \in 1 .. Len(facades) : facades'[i] = facades[i]
  BY <1>1, <1>4
<1>6. job \in LogicalJobs /\ job # None
  <2>1. job \in LogicalJobs
    <3> HIDE DEF c, id, targets
    <3> QED
      BY <1>2, <1>4 DEF LogicalJobs, Phases
  <2> QED
    BY <2>1, NoneAssumption
<1>7. /\ session' \in Sessions /\ session'.busy = c.op
      /\ session'.present /\ session'.generation = session.generation
      /\ session'.snapshot = session.snapshot
  BY <1>1, <1>2 DEF TypeOK, Sessions, Jobs
<1>8. TypeOK'
  <2>1. Len(facades') <= MaxChanges
    BY <1>1, <1>4, <1>5, BoundsAssumption
  <2> QED
    BY <1>1, <1>4, <1>5, <1>6, <1>7, <2>1 DEF TypeOK
<1>9. OpenInv'
  BY <1>1, <1>5, <1>7 DEF OpenInv, Facade, NewFacade
<1>10. PendingInv'
  <2>1. Intent(id, c.op, session.generation) \in Intents
    BY <1>2, <1>4 DEF Intent, Intents
  <2> QED
    BY <1>1, <1>3, <1>6, <1>7, <2>1 DEF PendingInv, Intent
<1>11. DoneInv'
  BY <1>1, <1>4, <1>5, <1>6 DEF ControllerInv, DoneInv
<1>12. ChangesStillApply'
  BY <1>1, <1>2, <1>7 DEF ChangesStillApply, PreviewOf
<1> QED
  BY <1>8, <1>9, <1>10, <1>11, <1>12 DEF ControllerInv

\* What happens to a session without a logical job.
LEMMA SessionKeeps ==
  ASSUME TypeOK, ControllerInv,
         \/ \E op \in Reads : ReadStarts(op)
         \/ RefreshEnds \/ TestSucceeds \/ TestFails \/ OtherJobFinishes \/ ConnectEnds
         \/ ConfigAdded
  PROVE  TypeOK' /\ ControllerInv'
<1>1. logical = None /\ UNCHANGED <<plan, logical, pending, facades>>
  BY BusyElsewhere
  DEF ReadStarts, RefreshEnds, TestSucceeds, TestFails, OtherJobFinishes, ConnectEnds,
      ConfigAdded, Reads
<1>2. Stale(session.snapshot) \in SnapshotValues
  BY StaleValues DEF TypeOK, Sessions
<1>3. Snapshots \subseteq SnapshotValues /\ None \in SnapshotValues
  BY DEF SnapshotValues
<1> USE DEF TypeOK, Sessions
<1>4. session' \in Sessions /\ selected' \in BOOLEAN
  <2>1. CASE \E op \in Reads : ReadStarts(op)
    BY <2>1 DEF ReadStarts, Jobs
  <2>2. CASE RefreshEnds
    <3>1. PICK lost \in BOOLEAN, status \in {"connected", "error"},
               s \in Snapshots \cup {Stale(session.snapshot)} :
            session' = [session EXCEPT !.busy = None, !.snapshot = s,
                          !.status = status, !.live = ~lost]
      BY <2>2 DEF RefreshEnds
    <3>2. s \in SnapshotValues /\ status \in Statuses /\ (~lost) \in BOOLEAN
      BY <1>2, <1>3 DEF Statuses
    <3> QED
      BY <2>2, <3>1, <3>2 DEF RefreshEnds
  <2>3. CASE TestSucceeds \/ TestFails \/ OtherJobFinishes
    BY <2>3 DEF TestSucceeds, TestFails, OtherJobFinishes, Statuses
  <2>4. CASE ConnectEnds
    BY <1>3, <2>4 DEF ConnectEnds, Statuses
  <2>5. CASE ConfigAdded
    BY <1>3, <2>5, BoundsAssumption DEF ConfigAdded, NewSession, Statuses
  <2> QED
    BY <2>1, <2>2, <2>3, <2>4, <2>5
<1>5. ControllerInv'
  BY <1>1, IdleKeeps
<1> QED
  BY <1>1, <1>4, <1>5

\* A connection that is begun, given up or replaced calls the change off.
LEMMA CallingOffKeeps ==
  ASSUME TypeOK, ControllerInv,
         DeclinePassword \/ Connect \/ Detach \/ ConfigRemoved
  PROVE  TypeOK' /\ ControllerInv'
<1>1. CallOff(session) /\ UNCHANGED plan
  BY DEF DeclinePassword, Connect, Detach, ConfigRemoved, GiveUp, CancelView
<1>2. None \in SnapshotValues
  BY DEF SnapshotValues
<1>3. session' \in Sessions /\ selected' \in BOOLEAN
  <2> USE DEF TypeOK, Sessions
  <2>1. CASE DeclinePassword
    BY <2>1 DEF DeclinePassword
  <2>2. CASE Connect
    BY <1>2, <2>2 DEF Connect, Statuses, Jobs
  <2>3. ASSUME session.generation < MaxGeneration,
               NEW status \in Statuses, NEW busy \in {None} \cup Jobs
        PROVE  Detached(status, busy) \in Sessions
    <3>1. session.generation + 1 \in 0 .. MaxGeneration
      BY <2>3, BoundsAssumption
    <3> QED
      BY <1>2, <3>1 DEF Detached
  <2>4. CASE Detach
    <3>1. /\ session.generation < MaxGeneration
          /\ \/ session' = Detached("disconnected", "disconnect")
             \/ session' = Detached("error", "connect")
             \/ session' = Detached("disconnected", None)
      BY <2>4 DEF Detach, GiveUp
    <3> QED
      BY <2>3, <2>4, <3>1 DEF Detach, Statuses, Jobs
  <2>5. CASE ConfigRemoved
    <3> DEFINE left == Detached("disconnected", None)
    <3>1. left \in Sessions
      BY <2>3, <2>5 DEF ConfigRemoved, GiveUp, Statuses
    <3>2. session' = [left EXCEPT !.present = FALSE] /\ selected' = FALSE
      BY <2>5 DEF ConfigRemoved, GiveUp
    <3> HIDE DEF left
    <3> QED
      BY <3>1, <3>2
  <2> QED
    BY <2>1, <2>2, <2>4, <2>5
<1>4. /\ logical' = None
      /\ Len(facades') <= MaxChanges /\ facades' \in Seq(Facades)
      /\ ControllerInv'
  BY <1>1, CallOffKeeps
<1> QED
  BY <1>1, <1>3, <1>4 DEF TypeOK

\* The first start of the change is repeated by its facade, a later one is not.
LEMMA StartKeeps ==
  ASSUME TypeOK, ControllerInv, AttemptStarts
  PROVE  TypeOK' /\ ControllerInv'
<1> DEFINE next == [logical EXCEPT !.phase = "running", !.started = TRUE]
           f    == IF logical.started THEN Facade ELSE Heard(Facade, {"started"})
<1>1. /\ logical # None /\ logical.phase = "queued"
      /\ logical' = next /\ UNCHANGED <<session, selected, plan, pending>>
  BY DEF AttemptStarts, InPhase
<1>2. /\ logical \in LogicalJobs /\ Facade \in Facades
      /\ facades' = [facades EXCEPT ![logical.id] = f]
  BY <1>1, FacadeMatches DEF AttemptStarts, FirstStart, ControllerInv, TypeOK, Facade
<1>3. /\ next \in LogicalJobs /\ next.phase = "running" /\ next.started
      /\ next.id = logical.id /\ next.op = logical.op
      /\ next.confirmed = logical.confirmed /\ next.targets = logical.targets
  BY <1>2 DEF LogicalJobs, Phases
<1>4. /\ f \in Facades /\ f.generation = Facade.generation /\ f.finished = 0
      /\ f.started = 1 /\ f.succeeded + f.failed = 0
  BY <1>1, <1>2 DEF ControllerInv, OpenInv, Heard, Facades
<1>5. /\ session \in Sessions /\ session.present /\ session.busy = logical.op
  BY <1>1 DEF TypeOK, ControllerInv, OpenInv
<1> HIDE DEF next, f
<1>6. ChangesStillApply'
  BY <1>1, <1>3, StillConfirmed DEF ControllerInv
<1>7. /\ logical' # None /\ logical' \in LogicalJobs
      /\ logical'.id \in DOMAIN facades' /\ logical'.op = logical'.confirmed.change.op
      /\ Len(facades') <= MaxChanges /\ facades' \in Seq(Facades)
      /\ ControllerInv'
  BY <1>1, <1>2, <1>3, <1>4, <1>5, <1>6, AttemptKeeps
<1> QED
  BY <1>1, <1>5, <1>7 DEF TypeOK

\* The attempt's outcome is told once.
LEMMA OutcomeKeeps ==
  ASSUME TypeOK, ControllerInv, AttemptSucceeds \/ AttemptFails
  PROVE  TypeOK' /\ ControllerInv'
<1> DEFINE next    == [logical EXCEPT !.phase = "told"]
           outcome == IF AttemptSucceeds THEN "succeeded" ELSE "failed"
           f       == Heard(Facade, {outcome})
<1>1. /\ logical # None /\ logical.phase = "running"
      /\ logical' = next /\ UNCHANGED <<selected, plan>>
      /\ pending' \in {pending, ErrorForwarded}
      /\ session' \in SessionsAfterSuccess \cup SessionsAfterFailure
  BY DEF AttemptSucceeds, AttemptFails, InPhase
<1>2. /\ session \in Sessions /\ session.snapshot \in SnapshotValues
      /\ session.snapshot # None
      /\ Stale(session.snapshot) \in SnapshotValues /\ Stale(session.snapshot) # None
      /\ \A s \in Snapshots : s \in SnapshotValues /\ s # None
  BY <1>1, StaleValues, NoneAssumption
  DEF TypeOK, Sessions, SnapshotValues, ControllerInv, ChangesStillApply, Untold
<1>3. /\ session' \in Sessions /\ session'.present = session.present
      /\ session'.generation = session.generation /\ session'.busy = session.busy
      /\ session'.snapshot # None
  BY <1>1, <1>2 DEF SessionsAfterSuccess, SessionsAfterFailure, Sessions, Statuses
<1>4. /\ logical \in LogicalJobs /\ Facade \in Facades
      /\ facades' = [facades EXCEPT ![logical.id] = f]
  BY <1>1, <1>3, FacadeMatches DEF AttemptSucceeds, AttemptFails, ControllerInv
<1>5. /\ next \in LogicalJobs /\ next.phase = "told" /\ next.started = logical.started
      /\ next.id = logical.id /\ next.op = logical.op
      /\ next.confirmed = logical.confirmed /\ next.targets = logical.targets
  BY <1>4 DEF LogicalJobs, Phases
<1>6. /\ Facade.succeeded = 0 /\ Facade.failed = 0 /\ Facade.finished = 0
      /\ Facade.started = 1 /\ logical.started
      /\ session.present /\ session.busy = logical.op
  BY <1>1, <1>4 DEF ControllerInv, OpenInv, Facades, LogicalJobs
<1>7. /\ f \in Facades /\ f.generation = Facade.generation /\ f.finished = 0
      /\ f.started = 1 /\ f.succeeded + f.failed = 1
  BY <1>4, <1>6 DEF Heard, Facades
<1> HIDE DEF next, f
<1>8. ChangesStillApply'
  BY <1>1, <1>3, <1>5, StillConfirmed DEF ControllerInv
<1>9. /\ logical' # None /\ logical' \in LogicalJobs
      /\ logical'.id \in DOMAIN facades' /\ logical'.op = logical'.confirmed.change.op
      /\ Len(facades') <= MaxChanges /\ facades' \in Seq(Facades)
      /\ ControllerInv'
  BY <1>1, <1>3, <1>4, <1>5, <1>6, <1>7, <1>8, AttemptKeeps
<1> QED
  BY <1>1, <1>3, <1>9 DEF TypeOK

\* While a password is asked for the logical job stays open, and its facade
\* hears nothing.
LEMMA HeldKeeps ==
  ASSUME TypeOK, ControllerInv, logical # None, NEW next \in LogicalJobs,
         NEW view \in Sessions,
         logical' = next, session' = view, UNCHANGED <<selected, plan, facades>>,
         logical.phase \in {"running", "held", "answered", "waiting"},
         next.phase \in {"queued", "held", "answered", "waiting"},
         next.id = logical.id, next.op = logical.op, next.started = logical.started,
         next.confirmed = logical.confirmed, next.targets = logical.targets,
         pending' \in {pending, ErrorForwarded},
         view.present = session.present, view.generation = session.generation,
         view.busy = IF next.phase = "waiting" THEN None ELSE next.op,
         next.phase # "queued" => view.status = "error",
         \/ view.snapshot = session.snapshot
         \/ logical.op = "reload_firewalld" /\ view.snapshot = Stale(session.snapshot)
  PROVE  TypeOK' /\ ControllerInv'
<1>1. /\ logical.id \in DOMAIN facades /\ Facade \in Facades
      /\ facades' = [facades EXCEPT ![logical.id] = Facade]
  BY DEF TypeOK, Facade
<1>2. /\ session.present /\ Facade.finished = 0
      /\ Facade.started = IF next.started THEN 1 ELSE 0
      /\ next.started /\ Facade.succeeded + Facade.failed = 0
  BY DEF ControllerInv, OpenInv
<1>3. ChangesStillApply'
  BY StillConfirmed DEF ControllerInv
<1>4. /\ logical' # None /\ logical' \in LogicalJobs
      /\ logical'.id \in DOMAIN facades' /\ logical'.op = logical'.confirmed.change.op
      /\ Len(facades') <= MaxChanges /\ facades' \in Seq(Facades)
      /\ ControllerInv'
  BY <1>1, <1>2, <1>3, AttemptKeeps
<1> QED
  BY <1>4 DEF TypeOK

\* The operation is repeated with the password that was given.
LEMMA RelaunchKeeps ==
  ASSUME TypeOK, ControllerInv, InPhase({"answered", "waiting"}), Relaunch,
         UNCHANGED <<selected, plan, pending, facades>>
  PROVE  TypeOK' /\ ControllerInv'
<1> DEFINE next == [logical EXCEPT !.phase = "queued", !.retried = TRUE]
           view == [session EXCEPT !.status = "connected", !.busy = logical.op]
<1>1. logical # None /\ logical' = next /\ session' = view
  BY DEF InPhase, Relaunch
<1>2. /\ logical \in LogicalJobs /\ session \in Sessions
      /\ logical.phase \in {"answered", "waiting"}
  BY <1>1 DEF TypeOK, InPhase
<1>3. /\ next \in LogicalJobs /\ next.phase = "queued" /\ next.started = logical.started
      /\ next.id = logical.id /\ next.op = logical.op
      /\ next.confirmed = logical.confirmed /\ next.targets = logical.targets
  BY <1>2 DEF LogicalJobs, Phases
<1>4. /\ view \in Sessions /\ view.busy = logical.op
      /\ view.present = session.present /\ view.generation = session.generation
      /\ view.snapshot = session.snapshot
  BY <1>2 DEF LogicalJobs, Sessions, Statuses, Jobs
<1> HIDE DEF next, view
<1> QED
  BY <1>1, <1>2, <1>3, <1>4, HeldKeeps

\* sudo asks for a password; the job finishes; the password is given.
LEMMA PasswordKeeps ==
  ASSUME TypeOK, ControllerInv, AttemptAsks \/ AttemptFinishes \/ AnswerPassword
  PROVE  TypeOK' /\ ControllerInv'
<1>1. logical # None
  BY DEF AttemptAsks, AttemptFinishes, AnswerPassword, InPhase
<1>2. /\ logical \in LogicalJobs /\ session \in Sessions
      /\ session.snapshot \in SnapshotValues /\ Stale(session.snapshot) \in SnapshotValues
  BY <1>1, StaleValues DEF TypeOK, Sessions
<1>3. ASSUME NEW phase \in Phases
      PROVE  LET next == [logical EXCEPT !.phase = phase]
             IN  /\ next \in LogicalJobs /\ next.phase = phase
                 /\ next.started = logical.started
                 /\ next.id = logical.id /\ next.op = logical.op
                 /\ next.confirmed = logical.confirmed /\ next.targets = logical.targets
  BY <1>2 DEF LogicalJobs
<1>4. logical.op \in Operations /\ logical.op \in {None} \cup Jobs
  BY <1>2 DEF LogicalJobs, Jobs
<1>5. CASE AttemptAsks
  <2> DEFINE next == [logical EXCEPT !.phase = "held"]
             view == [session EXCEPT !.status = "error",
                        !.snapshot = IF logical.op = "reload_firewalld"
                                     THEN Stale(@) ELSE @]
  <2>1. /\ logical.phase = "running" /\ logical' = next /\ session' = view
        /\ pending' = ErrorForwarded /\ UNCHANGED <<selected, plan, facades>>
    BY <1>5 DEF AttemptAsks, InPhase
  <2>2. /\ view \in Sessions /\ view.status = "error"
        /\ view.present = session.present /\ view.generation = session.generation
        /\ view.busy = session.busy
        /\ \/ view.snapshot = session.snapshot
           \/ logical.op = "reload_firewalld" /\ view.snapshot = Stale(session.snapshot)
    BY <1>2 DEF Sessions, Statuses
  <2>3. session.busy = logical.op
    BY <1>1, <2>1 DEF ControllerInv, OpenInv
  <2>4. /\ next \in LogicalJobs /\ next.phase = "held" /\ next.started = logical.started
        /\ next.id = logical.id /\ next.op = logical.op
        /\ next.confirmed = logical.confirmed /\ next.targets = logical.targets
    BY <1>3 DEF Phases
  <2> HIDE DEF next, view
  <2> QED
    BY <1>1, <2>1, <2>2, <2>3, <2>4, HeldKeeps
<1>6. CASE AttemptFinishes /\ logical.phase = "told"
  <2> DEFINE f == Heard(Facade, {"finished"})
  <2>1. /\ session' = [session EXCEPT !.busy = None]
        /\ logical' = None /\ UNCHANGED <<selected, plan>>
        /\ pending' = Finished(session)
        /\ facades' = Repeated({"finished"}, session)
    BY <1>6 DEF AttemptFinishes
  <2>2. /\ pending' = {} /\ Facade \in Facades
        /\ facades' = [facades EXCEPT ![logical.id] = f]
    BY <1>1, <2>1, FacadeMatches DEF ControllerInv
  <2>3. f \in Facades /\ f.finished = 1
    BY <1>1, <2>2 DEF ControllerInv, OpenInv, Heard, Facades
  <2>4. session' \in Sessions
    BY <1>2, <2>1 DEF Sessions
  <2> HIDE DEF f
  <2>5. Len(facades') <= MaxChanges /\ facades' \in Seq(Facades) /\ ControllerInv'
    BY <1>1, <2>1, <2>2, <2>3, FinishKeeps
  <2> QED
    BY <2>1, <2>4, <2>5 DEF TypeOK
<1>7. CASE AttemptFinishes /\ logical.phase = "held"
  <2> DEFINE next == [logical EXCEPT !.phase = "waiting"]
             view == [session EXCEPT !.busy = None]
  <2>1. /\ logical' = next /\ session' = view
        /\ UNCHANGED <<selected, plan, pending, facades>>
    BY <1>7 DEF AttemptFinishes
  <2>2. /\ view \in Sessions /\ view.busy = None
        /\ view.present = session.present /\ view.generation = session.generation
        /\ view.snapshot = session.snapshot /\ view.status = session.status
    BY <1>2 DEF Sessions
  <2>3. session.status = "error"
    BY <1>1, <1>7 DEF ControllerInv, OpenInv
  <2>4. /\ next \in LogicalJobs /\ next.phase = "waiting"
        /\ next.started = logical.started
        /\ next.id = logical.id /\ next.op = logical.op
        /\ next.confirmed = logical.confirmed /\ next.targets = logical.targets
    BY <1>3 DEF Phases
  <2> HIDE DEF next, view
  <2> QED
    BY <1>1, <1>7, <2>1, <2>2, <2>3, <2>4, HeldKeeps
<1>8. CASE AttemptFinishes /\ logical.phase = "answered"
  BY <1>1, <1>8, RelaunchKeeps DEF AttemptFinishes, InPhase
<1>9. CASE AnswerPassword /\ logical.phase = "held"
  <2> DEFINE next == [logical EXCEPT !.phase = "answered"]
  <2>1. /\ logical' = next /\ UNCHANGED <<session, selected, plan, pending, facades>>
    BY <1>9 DEF AnswerPassword, InPhase
  <2>2. session.status = "error" /\ session.busy = logical.op
    BY <1>1, <1>9 DEF ControllerInv, OpenInv
  <2>3. /\ next \in LogicalJobs /\ next.phase = "answered"
        /\ next.started = logical.started
        /\ next.id = logical.id /\ next.op = logical.op
        /\ next.confirmed = logical.confirmed /\ next.targets = logical.targets
    BY <1>3 DEF Phases
  <2> HIDE DEF next
  <2> QED
    BY <1>1, <1>2, <1>9, <2>1, <2>2, <2>3, HeldKeeps
<1>10. CASE AnswerPassword /\ logical.phase = "waiting"
  BY <1>1, <1>10, RelaunchKeeps DEF AnswerPassword, InPhase
<1> QED
  BY <1>5, <1>6, <1>7, <1>8, <1>9, <1>10 DEF AttemptFinishes, AnswerPassword, InPhase

\* The controller is created with the session, before any change.
LEMMA InitController == Init => TypeOK /\ ControllerInv
<1> SUFFICES ASSUME Init PROVE TypeOK /\ ControllerInv
  OBVIOUS
<1>1. session \in Sessions
  <2>1. /\ session = [present |-> TRUE, generation |-> 0, status |-> "disconnected",
                      live |-> FALSE, busy |-> None, snapshot |-> None]
    BY DEF Init, NewSession
  <2>2. 0 \in 0 .. MaxGeneration
    BY BoundsAssumption
  <2>3. None \in SnapshotValues
    BY DEF SnapshotValues
  <2> QED
    BY <2>1, <2>2, <2>3 DEF Sessions, Statuses
<1>2. TypeOK
  BY <1>1, BoundsAssumption DEF Init, TypeOK
<1>3. ControllerInv
  BY DEF Init, ControllerInv, OpenInv, PendingInv, DoneInv, ChangesStillApply, Untold
<1> QED
  BY <1>2, <1>3

LEMMA NextController ==
  TypeOK /\ ControllerInv /\ [Next]_vars => TypeOK' /\ ControllerInv'
<1> SUFFICES ASSUME TypeOK, ControllerInv, [Next]_vars
             PROVE  TypeOK' /\ ControllerInv'
  OBVIOUS
<1>1. CASE UNCHANGED vars
  BY <1>1
  DEF vars, TypeOK, ControllerInv, OpenInv, PendingInv, DoneInv, ChangesStillApply, Untold,
      Facade, PreviewOf
<1>2. CASE (\E c \in Changes : Preview(c)) \/ Cancel \/ Select
  BY <1>2, CallerKeeps
<1>3. CASE Apply
  BY <1>3, ApplyKeeps
<1>4. CASE Attempts \/ Answers
  BY <1>4, StartKeeps, OutcomeKeeps, PasswordKeeps, CallingOffKeeps
  DEF Attempts, Answers
<1>5. CASE Session \/ TestSucceeds
  BY <1>5, SessionKeeps, CallingOffKeeps, CallerKeeps DEF Session
<1> QED
  BY <1>1, <1>2, <1>3, <1>4, <1>5 DEF Next, OtherSteps

\* The type invariant and the strengthening the properties need.
THEOREM ControllerInOrder == Spec => [](TypeOK /\ ControllerInv)
BY InitController, NextController, PTL DEF Spec

\* The variables keep their types, for any inventories, changes and bounds.
THEOREM TypeCorrect == Spec => []TypeOK
BY ControllerInOrder, PTL

\* Until its outcome is told a change is the one the user confirmed, and it is
\* still to be made in the targets it is made in.
THEOREM ConfirmedStillApplies == Spec => []ChangesStillApply
<1>1. ControllerInv => ChangesStillApply
  BY DEF ControllerInv
<1> QED
  BY <1>1, ControllerInOrder, PTL

-----------------------------------------------------------------------------
(* The properties that follow from the invariant.                           *)

\* _pending has the facade of the open logical job and no other, and no other
\* facade is left unfinished.
THEOREM FacadesInOrder == Spec => []FacadesMirrorJobs
<1>1. TypeOK /\ ControllerInv => FacadesMirrorJobs
  <2> SUFFICES ASSUME TypeOK, ControllerInv PROVE FacadesMirrorJobs
    OBVIOUS
  <2>1. {<<p.id, p.op, p.generation>> : p \in pending} =
          (IF logical = None THEN {}
           ELSE {<<logical.id, logical.op, session.generation>>})
    BY DEF ControllerInv, PendingInv
  <2>2. ASSUME NEW i \in DOMAIN facades
        PROVE  facades[i].finished = 0 <=> logical # None /\ logical.id = i
    BY DEF ControllerInv, OpenInv, DoneInv, Facade
  <2> QED
    BY <2>1, <2>2 DEF FacadesMirrorJobs
<1> QED
  BY <1>1, ControllerInOrder, PTL

\* A change that locks the user out, in the inventory it is applied to, was
\* confirmed as a high risk.
THEOREM LockoutsFlagged == Spec => []LockoutsAreFlagged
<1>1. TypeOK /\ ControllerInv => LockoutsAreFlagged
  <2> DEFINE c     == logical.confirmed.change
             shown == session.snapshot
  <2> SUFFICES ASSUME TypeOK, ControllerInv, Untold,
                      LocksOut(c, shown, logical.targets)
               PROVE  logical.confirmed.risk = "high"
    BY DEF LockoutsAreFlagged
  <2>1. /\ shown # None /\ shown \in SnapshotValues
        /\ logical.confirmed.risk = RiskOf(c, shown)
        /\ logical.targets \in SUBSET Targets
    BY DEF ControllerInv, ChangesStillApply, PreviewOf, TypeOK, Sessions, Untold, LogicalJobs
  <2>2. IsSnapshot(shown)
    BY <2>1, SnapshotShape
  <2>3. PICK t \in Targets :
          /\ HasZone(shown, c.zone, t)
          /\ \/ /\ c.op \in Removals
                /\ Admits(shown.zones[t][c.zone])
                /\ ~Admits(Without(shown.zones[t][c.zone], c))
             \/ MovesOut(c, shown, t)
    BY <2>1 DEF LocksOut
  <2>4. CASE c.op \in Removals
    <3>1. IsZoneState(shown.zones[t][c.zone])
      BY <2>2, <2>3 DEF IsSnapshot, HasZone
    <3>2. AssessLockoutRisk(c, shown) = "high"
      BY <2>3, <2>4, <3>1, RemovalsAreFlagged DEF MovesOut, Removals
    <3> QED
      BY <2>1, <2>4, <3>2
      DEF RiskOf, Removals, ItemOps, PortOps, ServiceOps, RuleOps, Additions
  <2>5. CASE MovesOut(c, shown, t)
    <3>1. c.op = "change_interface_zone" /\ Assigned(shown, "runtime", c.resource) # {}
      BY <2>5 DEF MovesOut, Assigned
    <3> QED
      BY <2>1, <3>1 DEF RiskOf, ItemOps, PortOps, ServiceOps, RuleOps, Additions
  <2> QED
    BY <2>3, <2>4, <2>5
<1> QED
  BY <1>1, ControllerInOrder, PTL

-----------------------------------------------------------------------------
(* The facades keep the promise of ConfirmedChanges.                        *)

\* The facade of the open logical job is open in the promise, too, and of the
\* present generation.
LEMMA OpenMaps ==
  ASSUME TypeOK, ControllerInv, logical # None
  PROVE  /\ logical.id \in DOMAIN facades /\ facades[logical.id] \in Facades
         /\ Promise!Open(logical.id)
         /\ facades[logical.id].generation = session.generation
BY DEF TypeOK, ControllerInv, OpenInv, Facade, Promise!Open

\* What is called off hears of a failure and is finished.
LEMMA CallOffMaps ==
  ASSUME TypeOK, ControllerInv, CallOff(session)
  PROVE  IF logical = None
         THEN UNCHANGED facades /\ \A i \in DOMAIN facades : ~Promise!Open(i)
         ELSE facades' = Promise!CalledOff(logical.id)
<1>1. CASE logical = None
  BY <1>1 DEF CallOff, ControllerInv, DoneInv, Promise!Open
<1>2. CASE logical # None
  <2>1. /\ facades' = [facades EXCEPT ![logical.id] = Heard(Facade, {"failed", "finished"})]
        /\ Facade \in Facades /\ Facade.finished = 0
    BY <1>2, FacadeMatches DEF CallOff, ControllerInv, OpenInv
  <2>2. ASSUME NEW g \in Facades, g.finished = 0
        PROVE  Heard(g, {"failed", "finished"}) = [g EXCEPT !.failed = @ + 1, !.finished = 1]
    <3>1. {"failed", "finished"} \cap {"started", "succeeded"} = {}
      OBVIOUS
    <3>2. Heard(g, {"failed", "finished"})
            = [generation |-> g.generation, started |-> g.started,
               succeeded |-> g.succeeded, failed |-> g.failed + 1, finished |-> 1]
      BY <2>2, <3>1 DEF Heard, Facades
    <3> DEFINE h == [g EXCEPT !.failed = @ + 1]
    <3>3. h = [generation |-> g.generation, started |-> g.started,
               succeeded |-> g.succeeded, failed |-> g.failed + 1, finished |-> g.finished]
      BY DEF Facades
    <3> HIDE DEF h
    <3>4. [h EXCEPT !.finished = 1] = Heard(g, {"failed", "finished"})
      BY <3>2, <3>3
    <3> QED
      BY <3>4, Zenon DEF h
  <2>3. PICK g \in Facades : g = Facade /\ g.finished = 0
    BY <2>1
  <2>4. facades' = [facades EXCEPT ![logical.id] =
                      [g EXCEPT !.failed = @ + 1, !.finished = 1]]
    BY <2>1, <2>2, <2>3
  <2>5. facades \in Seq(Facades) /\ logical.id \in DOMAIN facades
    BY <1>2 DEF TypeOK
  <2> QED
    BY <1>2, <2>3, <2>4, <2>5 DEF Promise!CalledOff, Facade
<1> QED
  BY <1>1, <1>2

\* What the facade of the open logical job hears.
LEMMA TellMaps ==
  ASSUME TypeOK, ControllerInv, AttemptStarts \/ AttemptSucceeds \/ AttemptFails
  PROVE  UNCHANGED facades \/ Promise!Tell(logical.id)
<1>1. /\ logical # None /\ logical.phase \in {"queued", "running"}
      /\ logical \in LogicalJobs
  BY DEF AttemptStarts, AttemptSucceeds, AttemptFails, InPhase, TypeOK
<1>2. /\ Facade \in Facades /\ Facade.finished = 0
      /\ Facade.succeeded = 0 /\ Facade.failed = 0
      /\ Facade.started = IF logical.started THEN 1 ELSE 0
      /\ Promise!Outcomes(logical.id) = 0
  BY <1>1, FacadeMatches
  DEF ControllerInv, OpenInv, Facades, Promise!Outcomes, Facade, LogicalJobs
<1>3. facades \in Seq(Facades) /\ logical.id \in DOMAIN facades
  BY <1>1 DEF TypeOK
<1>4. /\ ~logical.started =>
            Heard(Facade, {"started"}) = [Facade EXCEPT !.started = 1]
      /\ Heard(Facade, {"succeeded"}) = [Facade EXCEPT !.succeeded = 1]
      /\ Heard(Facade, {"failed"}) = [Facade EXCEPT !.failed = 1]
  BY <1>2 DEF Heard, Facades
<1>5. \/ UNCHANGED facades
      \/ /\ ~logical.started
         /\ facades' = [facades EXCEPT ![logical.id] = [Facade EXCEPT !.started = 1]]
      \/ facades' = [facades EXCEPT ![logical.id] = [Facade EXCEPT !.succeeded = 1]]
      \/ facades' = [facades EXCEPT ![logical.id] = [Facade EXCEPT !.failed = 1]]
  BY <1>1, <1>4, FacadeMatches
  DEF AttemptStarts, FirstStart, AttemptSucceeds, AttemptFails, ControllerInv
<1>6. \/ UNCHANGED facades
      \/ /\ ~logical.started
         /\ facades' = [facades EXCEPT ![logical.id].started = 1]
      \/ facades' = [facades EXCEPT ![logical.id].succeeded = 1]
      \/ facades' = [facades EXCEPT ![logical.id].failed = 1]
  BY <1>3, <1>5 DEF Facade
<1> QED
  BY <1>1, <1>2, <1>6, OpenMaps DEF Promise!Tell, Facade

\* The connection is given up, and with it the change that is open.
LEMMA AgeMaps ==
  ASSUME TypeOK, ControllerInv, Detach \/ ConfigRemoved \/ ConfigAdded
  PROVE  Promise!Age
<1>1. session \in Sessions
  BY DEF TypeOK
<1>2. session'.generation = session.generation + 1
  <2>1. \A status, busy :
            /\ Detached(status, busy).generation = session.generation + 1
            /\ [Detached(status, busy) EXCEPT !.present = FALSE].generation
                  = session.generation + 1
    BY <1>1 DEF Detached, Sessions
  <2>2. CASE Detach
    BY <2>1, <2>2 DEF Detach, GiveUp
  <2>3. CASE ConfigRemoved
    BY <2>1, <2>3 DEF ConfigRemoved, GiveUp
  <2>4. CASE ConfigAdded
    BY <2>4 DEF ConfigAdded, NewSession
  <2> QED
    BY <2>2, <2>3, <2>4
<1>3. CASE Detach \/ ConfigRemoved
  <2>1. CallOff(session)
    BY <1>3 DEF Detach, ConfigRemoved, GiveUp, CancelView
  <2> QED
    BY <1>2, <2>1, CallOffMaps, OpenMaps DEF Promise!Age
<1>4. CASE ConfigAdded
  <2>1. logical = None /\ UNCHANGED facades
    BY <1>4, BusyElsewhere DEF ConfigAdded
  <2> QED
    BY <1>2, <2>1 DEF Promise!Age, Promise!Open, ControllerInv, DoneInv
<1> QED
  BY <1>3, <1>4

LEMMA InitPromise == Init => Promise!Init
BY DEF Init, NewSession, Promise!Init

\* Every step is one of the promise, or none of its business.
LEMMA NextPromise ==
  TypeOK /\ ControllerInv /\ [Next]_vars => [Promise!Next]_(Promise!changesVars)
<1> SUFFICES ASSUME TypeOK, ControllerInv, [Next]_vars
             PROVE  Promise!Next \/ UNCHANGED Promise!changesVars
  OBVIOUS
<1>1. session \in Sessions /\ facades \in Seq(Facades)
  BY DEF TypeOK
<1> USE DEF Promise!changesVars
<1>2. CASE UNCHANGED <<session.generation, facades>>
  BY <1>2
<1>3. CASE \/ UNCHANGED vars \/ (\E c \in Changes : Preview(c)) \/ Cancel \/ Select
           \/ AttemptAsks \/ AnswerPassword
  BY <1>1, <1>3
  DEF vars, Preview, Cancel, Select, AttemptAsks, AnswerPassword, Relaunch, Sessions
<1>4. CASE \/ \E op \in Reads : ReadStarts(op)
           \/ RefreshEnds \/ TestSucceeds \/ TestFails \/ OtherJobFinishes \/ ConnectEnds
  BY <1>1, <1>4
  DEF ReadStarts, RefreshEnds, TestSucceeds, TestFails, OtherJobFinishes, ConnectEnds,
      Sessions
<1>5. CASE Apply
  <2>1. /\ Len(facades) < MaxChanges /\ logical = None
        /\ facades' = Append(facades, NewFacade(session.generation))
        /\ session'.generation = session.generation
    BY <1>1, <1>5 DEF Apply, Applicable, Sessions
  <2>2. \A i \in DOMAIN facades : ~Promise!Open(i)
    BY <2>1 DEF Promise!Open, ControllerInv, DoneInv
  <2> QED
    BY <2>1, <2>2 DEF Promise!Next, Promise!Submit, Promise!New, NewFacade
<1>6. CASE AttemptStarts \/ AttemptSucceeds \/ AttemptFails
  <2>1. logical # None
    BY <1>6 DEF AttemptStarts, AttemptSucceeds, AttemptFails, InPhase
  <2>2. session'.generation = session.generation
    BY <1>1, <1>6
    DEF AttemptStarts, AttemptSucceeds, AttemptFails, SessionsAfterSuccess,
        SessionsAfterFailure, Sessions
  <2> QED
    BY <1>6, <2>1, <2>2, TellMaps, OpenMaps DEF Promise!Next
<1>7. CASE AttemptFinishes /\ logical.phase = "told"
  <2>1. /\ logical # None /\ session'.generation = session.generation
        /\ facades' = Repeated({"finished"}, session)
    BY <1>1, <1>7 DEF AttemptFinishes, InPhase, Sessions
  <2>2. /\ facades' = [facades EXCEPT ![logical.id] = Heard(Facade, {"finished"})]
        /\ Facade \in Facades /\ Facade.finished = 0
        /\ Promise!Outcomes(logical.id) = 1
    BY <1>7, <2>1, FacadeMatches DEF ControllerInv, OpenInv, Promise!Outcomes, Facade
  <2>3. Heard(Facade, {"finished"}) = [Facade EXCEPT !.finished = 1]
    BY <2>2 DEF Heard, Facades
  <2>4. facades' = [facades EXCEPT ![logical.id].finished = 1]
    BY <1>1, <2>1, <2>2, <2>3, OpenMaps DEF Facade
  <2>5. Promise!Tell(logical.id)
    BY <2>1, <2>2, <2>4, OpenMaps DEF Promise!Tell
  <2> QED
    BY <2>1, <2>5, OpenMaps DEF Promise!Next
<1>8. CASE AttemptFinishes /\ logical.phase # "told"
  BY <1>1, <1>8 DEF AttemptFinishes, Relaunch, InPhase, Sessions
<1>9. CASE DeclinePassword \/ Connect
  <2>1. CallOff(session) /\ session'.generation = session.generation
    BY <1>1, <1>9 DEF DeclinePassword, Connect, Sessions
  <2> QED
    BY <2>1, CallOffMaps, OpenMaps DEF Promise!Next, Promise!CallOff
<1>10. CASE Detach \/ ConfigRemoved \/ ConfigAdded
  BY <1>10, AgeMaps DEF Promise!Next
<1> QED
  BY <1>3, <1>4, <1>5, <1>6, <1>7, <1>8, <1>9, <1>10
  DEF Next, OtherSteps, Attempts, Answers, Session

\* The facade the GUI was given hears what ConfirmedChanges promises: at most one
\* change is open, none outlives its generation, and each is told an outcome
\* before it is finished and nothing afterwards.
THEOREM KeepsThePromise == Spec => ImplementsConfirmedChanges
BY InitPromise, NextPromise, ControllerInOrder, PTL
DEF Spec, ImplementsConfirmedChanges, Promise!Spec

-----------------------------------------------------------------------------
(* What the main window shows is of the session on display.                 *)

\* What a tab shows: the success of a facade of the session on display.
Shown(l) ==
    label[l] # None =>
        /\ label[l] \in DOMAIN facades
        /\ facades[label[l]].generation = Identity
        /\ facades[label[l]].succeeded = 1

\* An unfinished reload has its facade among those the overview listens to, and
\* no result of an earlier one beside it.
ReloadInv ==
    Untold /\ logical.op = "reload_firewalld" =>
        /\ label["reload"] = None
        /\ logical.id \in reload_facades

WindowInv ==
    /\ \A l \in Labels \ {"test"} : Shown(l)
    /\ label["test"] \in {None, Identity}
    /\ ReloadInv

-----------------------------------------------------------------------------
\* The window adds nothing to the controller and takes nothing from it: what is
\* proved of the controller holds with the window on top.
THEOREM WindowKeepsController == WindowSpec => Spec
<1>1. WindowInit => Init
  BY DEF WindowInit
<1>2. [WindowNext]_windowVars => [Next]_vars
  BY DEF WindowNext, Next, windowVars
<1> QED
  BY <1>1, <1>2, PTL DEF WindowSpec, Spec

LEMMA LabelNames ==
  Labels = {"ports", "services", "zones", "interfaces", "rich_rules", "reload", "test"}
BY DEF Labels, Accepts

\* A facade keeps its generation and the success it was told; it is told one only
\* in a step of its session.
LEMMA FacadesGrow ==
  ASSUME TypeOK, ControllerInv, [Next]_vars, NEW i \in DOMAIN facades
  PROVE  /\ i \in DOMAIN facades'
         /\ facades'[i].generation = facades[i].generation
         /\ facades[i].succeeded = 1 => facades'[i].succeeded = 1
         /\ facades'[i].succeeded > facades[i].succeeded =>
                /\ facades'[i].succeeded = 1
                /\ session'.generation = session.generation
<1>1. facades \in Seq(Facades) /\ facades[i] \in Facades
  BY DEF TypeOK
<1>2. Promise!Next \/ UNCHANGED <<session.generation, facades>>
  BY NextPromise DEF Promise!changesVars
<1>3. CASE UNCHANGED facades
  BY <1>1, <1>3 DEF Facades
<1>4. CASE Promise!Submit
  BY <1>1, <1>4 DEF Promise!Submit, Facades
<1>5. ASSUME NEW k \in DOMAIN facades, facades' = Promise!CalledOff(k)
      PROVE  /\ i \in DOMAIN facades'
             /\ facades'[i].generation = facades[i].generation
             /\ facades'[i].succeeded = facades[i].succeeded
  BY <1>1, <1>5 DEF Promise!CalledOff, Facades, TypeOK
<1>6. ASSUME NEW k \in DOMAIN facades, Promise!Tell(k), UNCHANGED session.generation
      PROVE  /\ i \in DOMAIN facades'
             /\ facades'[i].generation = facades[i].generation
             /\ facades'[i].succeeded \in {1, facades[i].succeeded}
  BY <1>1, <1>6 DEF Promise!Tell, Facades, TypeOK
<1>7. CASE Promise!Age
  BY <1>1, <1>3, <1>5, <1>7 DEF Promise!Age, Facades
<1>8. ASSUME NEW k \in DOMAIN facades,
             (Promise!Tell(k) /\ UNCHANGED session.generation) \/ Promise!CallOff(k)
      PROVE  /\ i \in DOMAIN facades'
             /\ facades'[i].generation = facades[i].generation
             /\ facades'[i].succeeded \in {1, facades[i].succeeded}
             /\ session'.generation = session.generation
  BY <1>5, <1>6, <1>8 DEF Promise!CallOff
<1> QED
  BY <1>1, <1>2, <1>3, <1>4, <1>7, <1>8 DEF Promise!Next, Facades

\* A logical job that has not told its outcome has just been submitted, or was
\* there before and had not told it either.
LEMMA UntoldBefore ==
  ASSUME TypeOK, ControllerInv, [Next]_vars, Untold'
  PROVE  \/ logical' # logical /\ logical'.phase = "queued"
         \/ Untold /\ logical'.op = logical.op
<1>1. logical' # None /\ logical'.phase # "told"
  BY DEF Untold
<1>2. CASE UNCHANGED logical
  BY <1>1, <1>2 DEF Untold
<1>3. CASE Apply
  <2>1. logical = None /\ logical'.phase = "queued"
    BY <1>3 DEF Apply, Applicable
  <2> QED
    BY <1>1, <2>1
<1>4. CASE Attempts \/ AnswerPassword
  <2>1. logical # None /\ logical \in LogicalJobs
    BY <1>4
    DEF Attempts, AttemptStarts, AttemptSucceeds, AttemptFails, AttemptAsks,
        AttemptFinishes, AnswerPassword, InPhase, TypeOK
  <2>2. logical.phase # "told" /\ logical'.op = logical.op
    BY <1>1, <1>4, <2>1
    DEF Attempts, AttemptStarts, AttemptSucceeds, AttemptFails, AttemptAsks,
        AttemptFinishes, AnswerPassword, InPhase, Relaunch, LogicalJobs, Phases
  <2> QED
    BY <2>1, <2>2 DEF Untold
<1>5. CASE DeclinePassword \/ Session \/ TestSucceeds
           \/ (\E c \in Changes : Preview(c)) \/ Cancel \/ UNCHANGED vars
  <2>1. UNCHANGED logical \/ logical' = None
    BY <1>5
    DEF DeclinePassword, Session, TestSucceeds, Preview, Cancel, vars, ReadStarts,
        RefreshEnds, TestFails, OtherJobFinishes, Connect, ConnectEnds, Detach,
        ConfigRemoved, ConfigAdded, Select, GiveUp, CancelView, CallOff
  <2> QED
    BY <1>1, <1>2, <2>1
<1> QED
  BY <1>3, <1>4, <1>5 DEF Next, OtherSteps, Answers

\* The next logical job is opened only when there is none.
LEMMA OneJobAtATime ==
  ASSUME TypeOK, [Next]_vars, logical # None, logical' # None
  PROVE  logical'.id = logical.id
<1>1. logical \in LogicalJobs
  BY DEF TypeOK
<1>2. CASE Attempts \/ Answers
  BY <1>1, <1>2
  DEF Attempts, Answers, AttemptStarts, AttemptSucceeds, AttemptFails, AttemptAsks,
      AttemptFinishes, AnswerPassword, DeclinePassword, CallOff, Relaunch, LogicalJobs
<1>3. CASE Session \/ TestSucceeds
           \/ (\E c \in Changes : Preview(c)) \/ Cancel \/ UNCHANGED vars
  BY <1>3
  DEF Session, TestSucceeds, Preview, Cancel, vars, ReadStarts, RefreshEnds, TestFails,
      OtherJobFinishes, Connect, ConnectEnds, Detach, ConfigRemoved, ConfigAdded, Select,
      GiveUp, CancelView, CallOff
<1>4. ~Apply
  BY DEF Apply, Applicable
<1> QED
  BY <1>2, <1>3, <1>4 DEF Next, OtherSteps

-----------------------------------------------------------------------------
\* A step of the controllers, and what the window does on its signals.
LEMMA ShowsKeeps ==
  ASSUME TypeOK, ControllerInv, TypeOK', ControllerInv', WindowInv,
         [Next]_vars, NEW tested \in BOOLEAN, Shows(tested)
  PROVE  WindowInv'
<1>1. /\ Identity' # None => Identity' = session'.generation
      /\ {"reload", "test"} \subseteq Labels
      /\ \A l \in Labels :
            label'[l] = IF ResultFor(l) THEN logical.id
                        ELSE IF TestFor(l, tested) THEN session'.generation
                        ELSE Rendered[l]
  BY LabelNames DEF Identity, Shows
<1>2. \A l \in Labels : Rendered[l] # None => Identity' = Identity /\ Rendered[l] = label[l]
  BY DEF Rendered
<1>3. ASSUME ToldSuccess, Identity' # None
      PROVE  /\ logical.id \in DOMAIN facades'
             /\ facades'[logical.id].generation = Identity'
             /\ facades'[logical.id].succeeded = 1
  <2>1. /\ logical # None /\ logical.id \in DOMAIN facades
        /\ facades[logical.id].generation = session.generation
    BY <1>3 DEF ToldSuccess, TypeOK, ControllerInv, OpenInv, Facade
  <2> QED
    BY <1>1, <1>3, <2>1, FacadesGrow DEF ToldSuccess
<1>4. ASSUME NEW l \in Labels \ {"test"} PROVE Shown(l)'
  <2>1. CASE ResultFor(l)
    BY <1>1, <1>3, <2>1 DEF Shown, ResultFor
  <2>2. CASE ~ResultFor(l) /\ label'[l] # None
    <3>1. label'[l] = label[l] /\ label[l] # None /\ Identity' = Identity
      BY <1>1, <1>2, <2>2 DEF TestFor
    <3>2. /\ label[l] \in DOMAIN facades
          /\ facades[label[l]].generation = Identity
          /\ facades[label[l]].succeeded = 1
      BY <3>1 DEF WindowInv, Shown
    <3> QED
      BY <3>1, <3>2, FacadesGrow DEF Shown
  <2> QED
    BY <2>1, <2>2 DEF Shown
<1>5. label'["test"] \in {None, Identity'}
  <2>1. ~ResultFor("test")
    <3>1. Accepts["test"] = {"test_connection"}
      BY DEF Accepts
    <3>2. logical # None => logical.op \in Operations
      BY DEF TypeOK, LogicalJobs
    <3> QED
      BY <3>1, <3>2
      DEF ResultFor, ToldSuccess, Operations, ItemOps, PortOps, ServiceOps, RuleOps, GlobalOps
  <2> QED
    BY <1>1, <1>2, <2>1 DEF TestFor, WindowInv
<1>6. ASSUME Untold', logical'.op = "reload_firewalld"
      PROVE  label'["reload"] = None /\ logical'.id \in reload_facades'
  <2>1. logical' # None /\ logical'.phase # "told"
    BY <1>6 DEF Untold
  <2>2. /\ facades'[logical'.id].finished = 0
        /\ facades'[logical'.id].succeeded + facades'[logical'.id].failed = 0
        /\ facades'[logical'.id] \in Facades
    BY <2>1 DEF ControllerInv, OpenInv, Facade, TypeOK
  <2>3. PICK p \in pending' : p.id = logical'.id /\ p.op = logical'.op
    BY <2>1 DEF ControllerInv, PendingInv
  <2>4. logical'.id \in reload_facades'
    BY <1>6, <2>2, <2>3 DEF Shows, KeepsReload
  <2>5. ~ResultFor("reload")
    <3>1. ASSUME ToldSuccess PROVE FALSE
      <4>1. logical # None /\ logical.id \in DOMAIN facades
        BY <3>1 DEF ToldSuccess, TypeOK
      <4>2. facades'[logical.id].succeeded = 1
        BY <3>1, <4>1, FacadesGrow DEF ToldSuccess
      <4>3. logical'.id = logical.id
        BY <2>1, <4>1, OneJobAtATime
      <4> QED
        BY <2>2, <4>2, <4>3 DEF Facades
    <3> QED
      BY <3>1 DEF ResultFor
  <2>6. Rendered["reload"] = None
    <3>1. CASE ReloadBegins
      BY <1>1, <3>1 DEF Rendered
    <3>2. CASE ~ReloadBegins
      <4>1. Untold /\ logical.op = "reload_firewalld"
        BY <1>6, <2>1, <3>2, UntoldBefore DEF ReloadBegins
      <4> QED
        BY <1>1, <1>2, <4>1 DEF WindowInv, ReloadInv
    <3> QED
      BY <3>1, <3>2
  <2> QED
    BY <1>1, <2>4, <2>5, <2>6 DEF TestFor
<1> QED
  BY <1>4, <1>5, <1>6 DEF WindowInv, ReloadInv

LEMMA InitWindow == WindowInit => WindowInv
<1> SUFFICES ASSUME WindowInit PROVE WindowInv
  OBVIOUS
<1>1. \A l \in Labels : label[l] = None
  BY DEF WindowInit
<1> QED
  BY <1>1, LabelNames DEF WindowInit, Init, WindowInv, Shown, ReloadInv, Untold

LEMMA NextWindow ==
  /\ TypeOK /\ ControllerInv /\ TypeOK' /\ ControllerInv'
  /\ WindowInv /\ [WindowNext]_windowVars
  => WindowInv'
<1> SUFFICES ASSUME TypeOK, ControllerInv, TypeOK', ControllerInv',
                    WindowInv, [WindowNext]_windowVars
             PROVE  WindowInv'
  OBVIOUS
<1>1. CASE UNCHANGED windowVars
  BY <1>1 DEF windowVars, vars, WindowInv, Shown, ReloadInv, Untold, Identity
<1>2. CASE WindowNext
  BY <1>2, ShowsKeeps DEF WindowNext, Next
<1> QED
  BY <1>1, <1>2

\* The window shows nothing of a session that has gone or is not on display, nor
\* the success of a reload beside another one.
THEOREM WindowInOrder == WindowSpec => []WindowInv
BY InitWindow, NextWindow, WindowKeepsController, ControllerInOrder, PTL DEF WindowSpec

\* A result on display is that of the session on display, and none of an earlier
\* reload is shown while one is underway.
THEOREM ResultsInOrder == WindowSpec => []ResultsAreOfTheSession
<1>1. WindowInv => ResultsAreOfTheSession
  BY DEF WindowInv, Shown, ReloadInv, ResultsAreOfTheSession
<1> QED
  BY <1>1, WindowInOrder, PTL

=============================================================================
