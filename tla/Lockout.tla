------------------------------ MODULE Lockout ------------------------------
(***************************************************************************)
(* app/firewalld/lockout.py: which changes may cut the SSH connection the  *)
(* application itself uses.  A pure analysis of one change on one          *)
(* FirewallSnapshot; FirewallController shows its answer before the user   *)
(* confirms.  The reasons are reduced to whether there is one: the texts   *)
(* are display only.                                                       *)
(*                                                                         *)
(* A snapshot is [running, stale, default, services, zones]: zones[t] maps *)
(* the zones of target t to their ZoneState, reduced to the sets of its    *)
(* interfaces, services, ports and rich rules.  A port is                  *)
(* [first, last, protocol]; a rule [service, port, action] has None for    *)
(* what it lacks, and a rule that is not of the structured subset lacks    *)
(* everything.                                                             *)
(***************************************************************************)
EXTENDS Naturals

CONSTANTS
    None,       \* Python's None
    SSHPort     \* the port of the server's profile, ServerSessionView.port

ASSUME SSHPortAssumption == SSHPort \in 1 .. 65535
ASSUME NoServiceAssumption == None # "ssh"

Targets == {"runtime", "permanent"}

\* A ZoneState and a FirewallSnapshot, their ports being whole numbers.
IsZoneState(state) ==
    /\ state = [interfaces |-> state.interfaces, services |-> state.services,
                ports |-> state.ports, rules |-> state.rules]
    /\ \A p \in state.ports : {p.first, p.last} \subseteq Nat
    /\ \A r \in state.rules :
        r.port # None => {r.port.first, r.port.last} \subseteq Nat

IsSnapshot(s) ==
    /\ s = [running |-> s.running, stale |-> s.stale, default |-> s.default,
            services |-> s.services, zones |-> s.zones]
    /\ s.running \in BOOLEAN /\ s.stale \in BOOLEAN
    /\ \A t \in Targets : \A z \in DOMAIN s.zones[t] : IsZoneState(s.zones[t][z])

\* FirewallSnapshot.zone(name, permanent) is not None.
HasZone(snapshot, zone, t) == zone \in DOMAIN snapshot.zones[t]

-----------------------------------------------------------------------------
(* The analysis.                                                            *)

\* Mutant: the first port of a range is left out.
PortContainsAfterFirst(port) == port.first < SSHPort /\ SSHPort <= port.last

PortContains(port) == port.first <= SSHPort /\ SSHPort <= port.last

PortReasons(port) == port.protocol = "tcp" /\ PortContains(port)

ServiceReasons(service) == service = "ssh"

\* The interface is in a runtime zone, the one the change names or another.
InterfaceReasons(interface, snapshot) ==
    \E z \in DOMAIN snapshot.zones["runtime"] :
        interface \in snapshot.zones["runtime"][z].interfaces

\* A rule without its structured fields adds a reason that is not counted.
RichRuleReasons(rule) ==
    /\ rule.action = "accept"
    /\ \/ rule.service # None /\ ServiceReasons(rule.service)
       \/ rule.port # None /\ PortReasons(rule.port)

InventoryReasons(zones, snapshot) ==
    \/ snapshot.stale
    \/ ~snapshot.running
    \/ \E z \in zones : \A t \in Targets : ~HasZone(snapshot, z, t)

\* assess_lockout_risk: a change is [op, zone, from, resource, ...], where from
\* is the zone an interface leaves.
AssessLockoutRisk(change, snapshot) ==
    LET required == IF change.op = "change_interface_zone"
                    THEN {change.from, change.zone} ELSE {change.zone}
        detected ==
            \/ InventoryReasons(required, snapshot)
            \/ change.op = "remove_port" /\ PortReasons(change.resource)
            \/ change.op = "remove_service" /\ ServiceReasons(change.resource)
            \/ change.op = "remove_rich_rule" /\ RichRuleReasons(change.resource)
            \/ /\ change.op = "change_interface_zone"
               /\ InterfaceReasons(change.resource, snapshot)
    IN  IF detected THEN "high" ELSE "none"

-----------------------------------------------------------------------------
(* What the analysis is about, defined without it: a zone lets the          *)
(* management connection in by the ssh service, by a TCP port or by an      *)
(* accepting rule, and a change locks the user out of a zone when the zone  *)
(* let it in before and does not after.  (That a service other than ssh     *)
(* may name the port is not in a snapshot.)                                 *)

OpensPort(port) == port.protocol = "tcp" /\ SSHPort \in port.first .. port.last

Admits(state) ==
    \/ "ssh" \in state.services
    \/ \E p \in state.ports : OpensPort(p)
    \/ \E r \in state.rules :
        /\ r.action = "accept"
        /\ \/ r.service = "ssh"
           \/ r.port # None /\ OpensPort(r.port)

Without(state, change) ==
    CASE change.op = "remove_port" ->
            [state EXCEPT !.ports = @ \ {change.resource}]
      [] change.op = "remove_service" ->
            [state EXCEPT !.services = @ \ {change.resource}]
      [] change.op = "remove_rich_rule" ->
            [state EXCEPT !.rules = @ \ {change.resource}]
      [] OTHER -> state

Removals == {"remove_port", "remove_service", "remove_rich_rule"}

\* The interface carries traffic now, and moves to a zone that keeps ssh out.
MovesOut(change, snapshot, t) ==
    /\ change.op = "change_interface_zone"
    /\ \E z \in DOMAIN snapshot.zones["runtime"] :
        /\ change.resource \in snapshot.zones["runtime"][z].interfaces
        /\ Admits(snapshot.zones["runtime"][z])
    /\ ~Admits(snapshot.zones[t][change.zone])

LocksOut(change, snapshot, targets) ==
    \E t \in targets :
        /\ HasZone(snapshot, change.zone, t)
        /\ \/ /\ change.op \in Removals
              /\ Admits(snapshot.zones[t][change.zone])
              /\ ~Admits(Without(snapshot.zones[t][change.zone], change))
           \/ MovesOut(change, snapshot, t)

=============================================================================
