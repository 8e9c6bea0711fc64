---------------------------- MODULE MCMainWindow ----------------------------
(* Two zones; ssh enters by a service, by a port range or by a rule.        *)
EXTENDS MainWindow

Range22 == [first |-> SSHPort, last |-> SSHPort + 1, protocol |-> "tcp"]
SSHRule == [service |-> "ssh", port |-> None, action |-> "accept"]
RawRule == [service |-> None, port |-> None, action |-> None]

Zone(interfaces, services, ports, rules) ==
    [interfaces |-> interfaces, services |-> services, ports |-> ports, rules |-> rules]

Empty == Zone({}, {}, {}, {})

FirewallSnapshot(default, runtime, permanent) ==
    [running |-> TRUE, stale |-> FALSE, default |-> default,
     services |-> {"ssh", "http"},
     zones |-> [t \in Targets |-> IF t = "runtime" THEN runtime ELSE permanent]]

\* ssh by a port range in both targets; the interface is in the zone "a".
ByPort ==
    LET a == Zone({"eth"}, {}, {Range22}, {})
    IN  FirewallSnapshot("a", [a |-> a, b |-> Empty], [a |-> a, b |-> Empty])

\* ssh by the service, at run time only.
ByService ==
    FirewallSnapshot("a", [a |-> Zone({"eth"}, {"ssh"}, {}, {}), b |-> Empty],
                          [a |-> Zone({"eth"}, {}, {}, {RawRule}), b |-> Empty])

\* ssh by a rule and by the service; the zone "b" is gone at run time.
ByRule ==
    LET a == Zone({}, {"http"}, {}, {SSHRule})
    IN  FirewallSnapshot("b", [a |-> a], [a |-> a, b |-> Zone({"eth"}, {"ssh"}, {}, {})])

MCSnapshots == {ByPort, ByService, ByRule}

Both == Targets

MCChanges ==
    {Change("add_port", "a", None, Range22, Both, None),
     Change("remove_port", "a", None, Range22, Both, Both),
     Change("add_service", "a", None, "ssh", Both, None),
     Change("remove_service", "a", None, "ssh", {"runtime"}, {"runtime"}),
     Change("add_rich_rule", "a", None, SSHRule, Both, None),
     Change("remove_rich_rule", "a", None, SSHRule, {"permanent"}, Both),
     Change("remove_rich_rule", "a", None, RawRule, {"permanent"}, {"permanent"}),
     Change("change_interface_zone", "b", "a", "eth", Both, None),
     Change("set_default_zone", "b", None, None, Both, None),
     Change("reload_firewalld", None, None, None, Both, None)}
=============================================================================
