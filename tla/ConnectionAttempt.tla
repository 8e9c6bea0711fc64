------------------------- MODULE ConnectionAttempt -------------------------
(***************************************************************************)
(* The ownership protocol of app/controllers/server_controller.py between  *)
(* the worker thread that opens an SSH connection and the Qt thread that   *)
(* may give the connection up at any moment: _ConnectionAttempt (an event  *)
(* and three fields under a lock), the work() of _submit_connection, and   *)
(* _ManagerCloseToken.  One server; every attempt makes at most one        *)
(* manager, so an attempt also names its manager.                          *)
(*                                                                         *)
(* The grain is one action per critical section and per statement that     *)
(* touches shared state.  The event is set outside the lock, so the Qt     *)
(* thread's invalidate() is two actions.  The scheduler runs the jobs of   *)
(* one server one after the other; the protocol does not rely on it, so    *)
(* here the workers of several attempts may overlap.                       *)
(***************************************************************************)
EXTENDS Naturals, FiniteSets

CONSTANTS
    Attempts,   \* the connection attempts of one server
    None        \* no attempt

ASSUME NoneAssumption == None \notin Attempts

VARIABLES
    invalidated,      \* _invalidated: the Event of the attempt
    registered,       \* _manager # None
    worker_finished,  \* _worker_finished
    close_claimed,    \* _close_claimed
    worker,           \* where work() of the attempt is
    socket,           \* the manager's connection: how often it was closed, or not made
    token,            \* _ManagerCloseToken._state of the manager's token
    current,          \* session._connection_attempt
    live,             \* session._ssh_manager
    qt                \* what the Qt thread is in the middle of

fields == <<invalidated, registered, worker_finished, close_claimed>>
vars   == <<fields, worker, socket, token, current, live, qt>>

(***************************************************************************)
(* The statements of work(): four looks at the event around the factory,   *)
(* connect(), the service factory and load_snapshot(), then commit.        *)
(* "resigning" is inside "if not commit_success(): manager.disconnect()";  *)
(* "failing" is the except clause; "closing" its manager_to_close          *)
(* .disconnect(); "offered" a returned _ConnectedResources whose success   *)
(* signal the Qt thread has not handled yet; "gone" is over.               *)
(***************************************************************************)
Checks      == {"before_factory", "before_connect", "before_service", "before_load"}
Statements  == {"factory", "register", "connect", "service", "load"}
WorkerSteps == Checks \cup Statements \cup
               {"unborn", "commit", "resigning", "failing", "closing", "offered", "gone"}

AfterCheck(pc) ==
    CASE pc = "before_factory" -> "factory"
      [] pc = "before_connect" -> "connect"
      [] pc = "before_service" -> "service"
      [] pc = "before_load"    -> "load"

AfterStatement(pc) ==
    CASE pc = "connect" -> "before_service"
      [] pc = "service" -> "before_load"
      [] pc = "load"    -> "commit"

Unmade == "unmade"
Open   == "open"
Closed == "closed"
Twice  == "closed twice"

\* manager.disconnect(): closing a second time is the error to exclude.
Disconnected(state) == IF state = Open THEN Closed ELSE Twice

GoTo(a, pc) == worker' = [worker EXCEPT ![a] = pc]

Init ==
    /\ invalidated     = [a \in Attempts |-> FALSE]
    /\ registered      = [a \in Attempts |-> FALSE]
    /\ worker_finished = [a \in Attempts |-> FALSE]
    /\ close_claimed   = [a \in Attempts |-> FALSE]
    /\ worker          = [a \in Attempts |-> "unborn"]
    /\ socket          = [a \in Attempts |-> Unmade]
    /\ token           = [a \in Attempts |-> "none"]
    /\ current = None
    /\ live    = None
    /\ qt      = "loop"

-----------------------------------------------------------------------------
(* The worker: work() of _submit_connection.                                *)

Check(a) ==
    /\ worker[a] \in Checks
    /\ GoTo(a, IF invalidated[a] THEN "failing" ELSE AfterCheck(worker[a]))
    /\ UNCHANGED <<fields, socket, token, current, live, qt>>

\* Mutant: an exception of the factory passes the except clause by.
FactoryEscapes(a) ==
    /\ worker[a] = "factory"
    /\ \/ GoTo(a, "register") /\ socket' = [socket EXCEPT ![a] = Open]
       \/ GoTo(a, "escaped") /\ UNCHANGED socket
    /\ UNCHANGED <<fields, token, current, live, qt>>

\* The factory may raise; then there is no manager to register.
Factory(a) ==
    /\ worker[a] = "factory"
    /\ \/ GoTo(a, "register") /\ socket' = [socket EXCEPT ![a] = Open]
       \/ GoTo(a, "failing") /\ UNCHANGED socket
    /\ UNCHANGED <<fields, token, current, live, qt>>

RegisterManager(a) ==
    /\ worker[a] = "register"
    /\ registered' = [registered EXCEPT ![a] = TRUE]
    /\ GoTo(a, "before_connect")
    /\ UNCHANGED <<invalidated, worker_finished, close_claimed,
                   socket, token, current, live, qt>>

Remote(a) ==
    /\ worker[a] \in {"connect", "service", "load"}
    /\ GoTo(a, AfterStatement(worker[a])) \/ GoTo(a, "failing")
    /\ UNCHANGED <<fields, socket, token, current, live, qt>>

CommitSuccess(a) ==
    /\ worker[a] = "commit"
    /\ worker_finished' = [worker_finished EXCEPT ![a] = TRUE]
    /\ close_claimed' = [close_claimed EXCEPT ![a] = @ \/ invalidated[a]]
    /\ GoTo(a, IF invalidated[a] THEN "resigning" ELSE "offered")
    /\ UNCHANGED <<invalidated, registered, socket, token, current, live, qt>>

\* Mutant: the manager is left open.
ResignSilently(a) ==
    /\ worker[a] = "resigning"
    /\ GoTo(a, "failing")
    /\ UNCHANGED <<fields, socket, token, current, live, qt>>

\* manager.disconnect(); raise _ConnectionInvalidated().
Resign(a) ==
    /\ worker[a] = "resigning"
    /\ socket' = [socket EXCEPT ![a] = Disconnected(@)]
    /\ GoTo(a, "failing")
    /\ UNCHANGED <<fields, token, current, live, qt>>

FailureClaims(a) == registered[a] /\ ~close_claimed[a]

ClaimFailureClose(a) ==
    /\ worker[a] = "failing"
    /\ worker_finished' = [worker_finished EXCEPT ![a] = TRUE]
    /\ IF FailureClaims(a)
       THEN /\ close_claimed' = [close_claimed EXCEPT ![a] = TRUE]
            /\ GoTo(a, "closing")
       ELSE /\ GoTo(a, "gone")
            /\ UNCHANGED close_claimed
    /\ UNCHANGED <<invalidated, registered, socket, token, current, live, qt>>

CloseFailed(a) ==
    /\ worker[a] = "closing"
    /\ socket' = [socket EXCEPT ![a] = Disconnected(@)]
    /\ GoTo(a, "gone")
    /\ UNCHANGED <<fields, token, current, live, qt>>

-----------------------------------------------------------------------------
(* A close job: close_once of a token, on some pool thread.                 *)

CloseOnce(a) ==
    /\ token[a] = "open"
    /\ token' = [token EXCEPT ![a] = "closing"]
    /\ UNCHANGED <<fields, worker, socket, current, live, qt>>

CloseOnceDone(a) ==
    /\ token[a] = "closing"
    /\ token' = [token EXCEPT ![a] = "closed"]
    /\ socket' = [socket EXCEPT ![a] = Disconnected(@)]
    /\ UNCHANGED <<fields, worker, current, live, qt>>

-----------------------------------------------------------------------------
(* The Qt thread.                                                           *)

\* Mutant: connect() does not look for a live manager.
LaunchAnyway(a) ==
    /\ qt = "loop"
    /\ current = None
    /\ worker[a] = "unborn"
    /\ current' = a
    /\ GoTo(a, "before_factory")
    /\ UNCHANGED <<fields, socket, token, live, qt>>

\* connect(), reconnect() after its Detach, or _restart_connection.
Launch(a) ==
    /\ qt = "loop"
    /\ current = None /\ live = None
    /\ worker[a] = "unborn"
    /\ current' = a
    /\ GoTo(a, "before_factory")
    /\ UNCHANGED <<fields, socket, token, live, qt>>

\* disconnect(), reconnect(), reload_configuration() or shutdown() calls
\* _invalidate_attempt: the event first, without the lock ...
InvalidateSet ==
    /\ qt = "loop"
    /\ current # None
    /\ invalidated' = [invalidated EXCEPT ![current] = TRUE]
    /\ qt' = "invalidating"
    /\ UNCHANGED <<registered, worker_finished, close_claimed,
                   worker, socket, token, current, live>>

\* Mutant: invalidate() claims the manager of a running worker.
InvalidateClaimsAnyway(a) == registered[a] /\ ~close_claimed[a]

\* ... then the claim under the lock, the token and _detach.
InvalidateClaims(a) == worker_finished[a] /\ registered[a] /\ ~close_claimed[a]

InvalidateClaim ==
    /\ qt = "invalidating"
    /\ IF InvalidateClaims(current)
       THEN /\ close_claimed' = [close_claimed EXCEPT ![current] = TRUE]
            /\ token' = [token EXCEPT ![current] = "open"]
       ELSE UNCHANGED <<close_claimed, token>>
    /\ current' = None
    /\ qt' = "loop"
    /\ UNCHANGED <<invalidated, registered, worker_finished, worker, socket, live>>

\* The same callers without an attempt: the session's manager gets a token.
DetachLive ==
    /\ qt = "loop"
    /\ current = None /\ live # None
    /\ token' = [token EXCEPT ![live] = "open"]
    /\ live' = None
    /\ UNCHANGED <<fields, worker, socket, current, qt>>

\* _is_current.
Adopts(a) == current = a

\* _on_succeeded: a result of the current generation is adopted; a stale one
\* has been invalidated already, which this claim attempt observes.
OnSucceeded(a) ==
    /\ qt = "loop"
    /\ worker[a] = "offered"
    /\ GoTo(a, "gone")
    /\ IF Adopts(a)
       THEN /\ live' = a
            /\ current' = None
            /\ UNCHANGED <<invalidated, close_claimed, token>>
       ELSE /\ invalidated' = [invalidated EXCEPT ![a] = TRUE]
            /\ IF InvalidateClaims(a)
               THEN /\ close_claimed' = [close_claimed EXCEPT ![a] = TRUE]
                    /\ token' = [token EXCEPT ![a] = "open"]
               ELSE UNCHANGED <<close_claimed, token>>
            /\ UNCHANGED <<current, live>>
    /\ UNCHANGED <<registered, worker_finished, socket, qt>>

\* _apply_failure forgets the attempt once its worker is over.
OnFailed(a) ==
    /\ qt = "loop"
    /\ current = a
    /\ worker[a] = "gone"
    /\ current' = None
    /\ UNCHANGED <<fields, worker, socket, token, live, qt>>

WorkerStep(a) ==
    \/ Check(a)
    \/ Factory(a)
    \/ RegisterManager(a)
    \/ Remote(a)
    \/ CommitSuccess(a)
    \/ Resign(a)
    \/ ClaimFailureClose(a)
    \/ CloseFailed(a)

CloseStep(a) == CloseOnce(a) \/ CloseOnceDone(a)

Deliver(a) == OnSucceeded(a) \/ OnFailed(a)

Next ==
    \/ \E a \in Attempts : WorkerStep(a) \/ CloseStep(a) \/ Launch(a) \/ Deliver(a)
    \/ InvalidateSet
    \/ InvalidateClaim
    \/ DetachLive

\* Threads run, queued signals are delivered, a started handler returns.
\* Launching and giving up are choices of the user.
Fairness ==
    /\ \A a \in Attempts : WF_vars(WorkerStep(a)) /\ WF_vars(CloseStep(a))
    /\ \A a \in Attempts : WF_vars(Deliver(a))
    /\ WF_vars(InvalidateClaim)

Spec == Init /\ [][Next]_vars /\ Fairness

-----------------------------------------------------------------------------
TypeOK ==
    /\ invalidated     \in [Attempts -> BOOLEAN]
    /\ registered      \in [Attempts -> BOOLEAN]
    /\ worker_finished \in [Attempts -> BOOLEAN]
    /\ close_claimed   \in [Attempts -> BOOLEAN]
    /\ worker          \in [Attempts -> WorkerSteps]
    /\ socket          \in [Attempts -> {Unmade, Open, Closed, Twice}]
    /\ token           \in [Attempts -> {"none", "open", "closing", "closed"}]
    /\ current         \in Attempts \cup {None}
    /\ live            \in Attempts \cup {None}
    /\ qt              \in {"loop", "invalidating"}

\* No connection is closed twice: the worker that fails or resigns, the Qt
\* thread that invalidates at that moment and the close job never all believe
\* that closing is theirs.
ClosedOnce == \A a \in Attempts : socket[a] # Twice

\* The session never talks through a connection somebody closes or is to close.
LiveIsOpen ==
    live # None => socket[live] = Open /\ token[live] = "none" /\ ~close_claimed[live]

\* Somebody answers for every open connection: its worker, the undelivered
\* result of an attempt nobody has given up, the session, or an open token.
OwnerOf(a) ==
    IF socket[a] = Unmade THEN "unmade"
    ELSE IF socket[a] \in {Closed, Twice} THEN "closed"
    ELSE IF live = a THEN "session"
    ELSE IF token[a] \in {"open", "closing"} THEN "closer"
    ELSE IF close_claimed[a]
         THEN IF worker[a] \in {"resigning", "closing"} THEN "closer" ELSE "nobody"
    ELSE IF worker[a] = "offered" THEN "result"
    ELSE IF worker[a] \in {"unborn", "gone"} THEN "nobody"
    ELSE "worker"

NobodyLeaks == \A a \in Attempts : OwnerOf(a) # "nobody"

\* Every connection has one who answers for it, and one only, whichever statement
\* of work() an invalidation meets (_ConnectionAttempt, _ManagerCloseToken).
OneResponsible == ClosedOnce /\ LiveIsOpen /\ NobodyLeaks

\* An attempt the user gave up leaves no connection behind, whichever
\* statement of work() the invalidation met.
GivenUpIsClosed ==
    \A a \in Attempts : invalidated[a] ~> socket[a] \in {Unmade, Closed} /\ worker[a] = "gone"

Ownership == INSTANCE ManagerOwnership WITH
    Managers <- Attempts,
    owner    <- [a \in Attempts |-> OwnerOf(a)]

ImplementsManagerOwnership == Ownership!Spec
=============================================================================
