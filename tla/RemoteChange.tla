---------------------------- MODULE RemoteChange ----------------------------
(***************************************************************************)
(* What a request to the firewall of one server promises about the         *)
(* commands it sends: each target is written at most once, nothing is      *)
(* written after a password failed, only a request that has written        *)
(* nothing is sent again, and the report fits what was written.            *)
(***************************************************************************)
EXTENDS Naturals

CONSTANT Targets

VARIABLES
    asked,    \* the targets to change
    writes,   \* how many commands the server accepted for each
    denied,   \* the server refused a command for want of a password
    report    \* what the caller is told: "none" while the request is underway

vars == <<asked, writes, denied, report>>

Written   == {t \in Targets : writes[t] > 0}
Unwritten == [t \in Targets |-> 0]

\* The reports after which nothing was written, and those after which something
\* was.  After the others (the connection failed, firewalld went away) either.
Clean   == {"sudo_required", "sudo_rejected", "command", "parse", "probe", "failed", "read"}
Touched == {"succeeded", "partial", "verification_failed", "post"}
Unsure  == {"not_installed", "not_running", "timeout", "transport"}

Fits(r) ==
    /\ r \in Clean => Written = {}
    /\ r \in Touched => Written # {}
    /\ r = "succeeded" => Written = asked /\ ~denied

Init ==
    /\ asked = {}
    /\ writes = Unwritten
    /\ denied = FALSE
    /\ report = "idle"

Ask(S) ==
    /\ report # "none"
    /\ asked' = S
    /\ writes' = Unwritten
    /\ denied' = FALSE
    /\ report' = "none"

\* The same request with the password that was missing.
Retry ==
    /\ report = "sudo_required"
    /\ denied' = FALSE
    /\ report' = "none"
    /\ UNCHANGED <<asked, writes>>

Accept(S) ==
    /\ report = "none"
    /\ ~denied
    /\ S \subseteq asked /\ S # {}
    /\ \A t \in S : writes[t] = 0
    /\ writes' = [t \in Targets |-> IF t \in S THEN 1 ELSE writes[t]]
    /\ UNCHANGED <<asked, denied, report>>

\* A refused command may end the request at once, or come from a read after it.
Report(r) ==
    /\ report = "none"
    /\ Fits(r)
    /\ report' = r
    /\ denied' \in BOOLEAN
    /\ denied => denied'
    /\ r = "succeeded" => ~denied'
    /\ UNCHANGED <<asked, writes>>

Deny ==
    /\ denied' = TRUE
    /\ UNCHANGED <<asked, writes, report>>

Next ==
    \/ \E S \in SUBSET Targets : Ask(S) \/ Accept(S)
    \/ \E r \in Clean \cup Touched \cup Unsure : Report(r)
    \/ Retry \/ Deny

Spec == Init /\ [][Next]_vars
=============================================================================
