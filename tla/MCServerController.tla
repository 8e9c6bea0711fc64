------------------------- MODULE MCServerController -------------------------
(* One server.  The calls the user makes are chosen per run; the runs name   *)
(* one of these sets.                                                        *)
EXTENDS ServerController

\* Everything the user may do.
Everything == RequestKinds

\* Connections that come and go, while the configuration changes.
Lifecycle ==
    {"connect", "disconnect", "reconnect", "refresh", "add_port", "reload_changed",
     "reload_removed", "reload_added", "shutdown"}

\* Firewall changes and what gets in their way.
Changes ==
    {"connect", "disconnect", "refresh", "add_port", "reload_firewalld",
     "provide_sudo_password"}
=============================================================================
