----------------------------- MODULE MainWindow -----------------------------
(***************************************************************************)
(* What app/gui/main_window.py and its tabs show of one server, on top of  *)
(* FirewallController: the result of the latest change in the tab of its   *)
(* kind, that of the latest reload and of the latest connection test in    *)
(* the overview.  The tabs belong to the selected server; while another    *)
(* one is selected, nothing of this one is shown.                          *)
(*                                                                         *)
(* Every step of the controllers that changes the session ends with a      *)
(* signal on which the window renders the view (_session_changed,          *)
(* _sessions_changed, _selection_changed), and a result comes before the   *)
(* finish of its job, so a step and what the window does on its signals    *)
(* are one step.                                                           *)
(***************************************************************************)
EXTENDS FirewallController

\* The labels; each accepts the results of some operations.
Accepts ==
    [ports      |-> PortOps,
     services   |-> ServiceOps,
     zones      |-> {"set_default_zone"},
     interfaces |-> {"change_interface_zone"},
     rich_rules |-> RuleOps,
     reload     |-> {"reload_firewalld"},
     test       |-> {"test_connection"}]

Labels == DOMAIN Accepts

VARIABLES
    label,          \* of each label: the facade whose result it shows (of "test",
                    \* the generation that was tested), or None
    reload_facades  \* _reload_facades: the facades of reloads, by their generation

windowVars == <<vars, label, reload_facades>>

WindowInit ==
    /\ Init
    /\ label = [l \in Labels |-> None]
    /\ reload_facades = {}

\* Mutant: the tabs tell servers apart, not their sessions.
ServerShown == IF selected /\ session.present THEN 0 ELSE None

\* The identity of the view the tabs have rendered.
Identity == IF selected /\ session.present THEN session.generation ELSE None

\* Mutant: the overview clears the reload's result with the session only.
NeverBegins == FALSE

\* reload_busy and not self._reload_busy: the first attempt or the repeated one
\* marks the session as busy.
ReloadBegins ==
    /\ logical' # None /\ logical' # logical
    /\ logical'.op = "reload_firewalld" /\ logical'.phase = "queued"

\* set_session of the tabs and of the overview.
Rendered ==
    [l \in Labels |->
        IF Identity' # Identity \/ (l = "reload" /\ ReloadBegins) THEN None ELSE label[l]]

\* The facade of the open logical job told its success in this step.
ToldSuccess ==
    logical # None /\ facades'[logical.id].succeeded > facades[logical.id].succeeded

\* _reload_operation_result asks for its own facade and a session that is busy
\* with it; _firewall_operation_result passes the result to the five tabs.
ResultFor(l) ==
    /\ ToldSuccess
    /\ logical.op \in Accepts[l]
    /\ Identity' # None
    /\ l = "reload" => /\ logical.id \in reload_facades
                       /\ session'.busy = "reload_firewalld"

\* _connection_test_succeeded
TestFor(l, tested) == l = "test" /\ tested /\ Identity' # None

\* _reload_firewalld_selected keeps the facade it was given, until
\* _reload_operation_finished.  (FacadesMirrorJobs: its key is free.)
KeepsReload ==
    LET given == {p.id : p \in {q \in pending' : q.op = "reload_firewalld"}}
    IN  {i \in reload_facades \cup given : facades'[i].finished = 0}

Shows(tested) ==
    /\ label' = [l \in Labels |->
                    IF ResultFor(l) THEN logical.id
                    ELSE IF TestFor(l, tested) THEN session'.generation
                    ELSE Rendered[l]]
    /\ reload_facades' = KeepsReload

WindowNext ==
    \/ TestSucceeds /\ Shows(TRUE)
    \/ OtherSteps /\ Shows(FALSE)

WindowSpec == WindowInit /\ [][WindowNext]_windowVars /\ Fairness

-----------------------------------------------------------------------------
(* Properties.                                                              *)

\* A result on display is that of the session on display, told by the facade of
\* a change confirmed in it: none is left from before a reconnect or from the time
\* before another server was selected.  And no result of an earlier reload is
\* shown while one is underway, from its first attempt to its outcome, so that
\* one that fails does not leave the success of another (OverviewTab.set_session,
\* PortsTab.set_session and its siblings, MainWindow._reload_operation_result).
ResultsAreOfTheSession ==
    /\ \A l \in Labels \ {"test"} : label[l] # None =>
        /\ facades[label[l]].generation = Identity
        /\ facades[label[l]].succeeded = 1
    /\ label["test"] \in {None, Identity}
    /\ Untold /\ logical.op = "reload_firewalld" =>
        /\ label["reload"] = None
        /\ logical.id \in reload_facades

=============================================================================
