-------------------------- MODULE ManagerOwnership --------------------------
(***************************************************************************)
(* Who is responsible for an SSH manager.  A manager (one SSH connection)  *)
(* is made by a connection job on a worker thread, handed to the Qt thread *)
(* as the job's result, adopted by the server's session and in the end     *)
(* closed by exactly one closer.  This is the promise server_controller.py *)
(* keeps with _ConnectionAttempt, _ManagerCloseToken and the generation of *)
(* a session; the protocol itself is in ConnectionAttempt.                 *)
(***************************************************************************)
EXTENDS Naturals

CONSTANT Managers

VARIABLE owner   \* owner[m]: who has to close m, or what became of it

Owners == {"unmade", "worker", "result", "session", "closer", "closed"}

Init == owner = [m \in Managers |-> "unmade"]

\* The managers that change hands in this step go from one of from to to.
Pass(from, to) ==
    /\ owner' \in [Managers -> Owners]
    /\ \A m \in Managers :
         owner'[m] # owner[m] => owner[m] \in from /\ owner'[m] = to

Make  == Pass({"unmade"}, "worker")
Offer == Pass({"worker"}, "result")

\* One session has at most one manager.
Adopt ==
    /\ Pass({"result"}, "session")
    /\ \A m, n \in Managers :
         owner'[m] = "session" /\ owner'[n] = "session" => m = n

\* Ownership goes to the closer once, from whoever had it.
Retire == Pass({"worker", "result", "session"}, "closer")

\* The closer closes; and a worker that fails closes the manager it has not
\* handed on.
Close == Pass({"closer", "worker"}, "closed")

Next == Make \/ Offer \/ Adopt \/ Retire \/ Close

Spec == Init /\ [][Next]_owner
=============================================================================
