-------------------------- MODULE ServerController --------------------------
(***************************************************************************)
(* app/controllers/server_controller.py for one server: the session, its   *)
(* generation, its jobs, the decisions waiting for the user, the close     *)
(* tokens and the logical firewall changes; and, with NestedDialogs, the   *)
(* modal dialogs app/gui/main_window.py opens inside the controller's      *)
(* signals.  Servers share no state but the pool, so one is enough.        *)
(*                                                                         *)
(* The scheduler is what SerialExecutor promises: a line of jobs whose     *)
(* head runs, with the results queued to the Qt thread in order.  A        *)
(* connection job names its _ConnectionAttempt and its manager.            *)
(* ConnectionAttempt has the attempt's races at full grain; here a worker  *)
(* looks at the event when it makes the manager and when it commits.       *)
(*                                                                         *)
(* The Qt thread is a stack of handler remainders.  A handler that emits   *)
(* a signal on whose slot a modal dialog opens is suspended below it, and  *)
(* the dialog runs the event loop: queued results are handled meanwhile.   *)
(***************************************************************************)
EXTENDS Naturals, Sequences, FiniteSets

CONSTANTS
    None,          \* Python's None
    Requests,      \* the calls the user may make, a subset of RequestKinds
    MaxRequests,   \* bound: how many of them (retries and closes come on top)
    NestedDialogs  \* TRUE: MainWindow's slots are connected

Reads         == {"refresh", "test_connection"}
Mutations     == {"reload_firewalld", "add_port"}  \* add_port: any but a reload
ConnectionOps == {"connect", "reconnect"}
RequestKinds  == Reads \cup Mutations \cup ConnectionOps \cup
                 {"disconnect", "provide_sudo_password", "select", "shutdown",
                  "reload_changed", "reload_removed", "reload_added"}

ASSUME RequestsAssumption      == Requests \subseteq RequestKinds
ASSUME MaxRequestsAssumption   == MaxRequests \in Nat
ASSUME NestedDialogsAssumption == NestedDialogs \in BOOLEAN
ASSUME NoneAssumption ==
    None \notin Nat \cup RequestKinds \cup [generation : Nat, op : RequestKinds]
                \cup [stale : BOOLEAN, job : Nat]

VARIABLES
    session,   \* the ServerSession
    pending,   \* decisions and retries in waiting
    records,   \* _jobs: the jobs with a public handle
    logicals,  \* every _LogicalFirewallJob; _firewall_jobs holds the open ones
    jobs,      \* every job submitted, with its attempt's and manager's state
    line,      \* the scheduler's queue of this server
    step,      \* how far the job at the head of the line has run
    tokens,    \* _close_tokens: the managers whose close token is not closed
    events,    \* queued signals to the controller's slots
    stack,     \* the Qt thread: handler remainders and dialogs, innermost first
    known,     \* the server's host key is in known_hosts
    remote,    \* the last job that may have changed the remote firewall, or 0
    requests,  \* how many calls the user made
    down       \* "no", or what shutdown() is at or returned

vars == <<session, pending, records, logicals, jobs, line, step, tokens,
          events, stack, known, remote, requests, down>>

NoDecisions == [key |-> None, sudo |-> None,
                trusted |-> {}, accepted |-> {}, retried |-> {}]

\* A ServerSession as the constructor leaves it.
NewSession(generation) ==
    [present |-> TRUE, generation |-> generation, status |-> "disconnected",
     busy |-> None, manager |-> None, attempt |-> None,
     sudo |-> FALSE, snapshot |-> None]

\* The identity (generation, operation) of a job, a decision or a retry.
Key(generation, op) == [generation |-> generation, op |-> op]
KeyOf(j) == Key(jobs[j].generation, jobs[j].op)

\* sudo: a password was captured; closes: the tokens captured; logical: which
\* logical firewall job it is an attempt of, or 0.
NewJob(op, generation, sudo, closes, logical) ==
    [op |-> op, generation |-> generation, sudo |-> sudo, closes |-> closes,
     logical |-> logical,
     invalidated |-> FALSE, finished |-> FALSE, claimed |-> FALSE,
     socket |-> "unmade"]

IsPublic(j)     == jobs[j].op # "close"
IsConnection(j) == jobs[j].op \in ConnectionOps

\* Mutant: _is_current forgets the generation.
CurrentAnyway(j) == session.present

Current(j)      == session.present /\ session.generation = jobs[j].generation

\* _jobs.get((server_id, generation, operation)).
Recorded(j) == \E r \in records : KeyOf(r) = KeyOf(j)
HasRecord(key) == \E r \in records : KeyOf(r) = key

\* _firewall_jobs.get(key): the open logical job of that identity, or 0.
OpenLogical(l, key) ==
    LET found == {i \in DOMAIN l : ~l[i].completed /\ l[i].key = key}
    IN  IF found = {} THEN 0 ELSE CHOOSE i \in found : TRUE

Init ==
    /\ session  = NewSession(0)
    /\ pending  = NoDecisions
    /\ records  = {}
    /\ logicals = <<>>
    /\ jobs     = <<>>
    /\ line     = <<>>
    /\ step     = "waiting"
    /\ tokens   = {}
    /\ events   = <<>>
    /\ stack    = <<>>
    /\ known    \in BOOLEAN
    /\ remote   = 0
    /\ requests = 0
    /\ down     = "no"

-----------------------------------------------------------------------------
(* Submitting and cancelling: what the line does.                           *)

NextJob == Len(jobs) + 1

\* OperationScheduler.submit of one more job behind the jobs of rest.
Enqueue(job, history, rest) ==
    /\ jobs' = Append(history, job)
    /\ line' = Append(rest, NextJob)
    /\ step' = IF rest = <<>> THEN "waiting" ELSE step

\* What cancel_pending may leave: the head if it runs, and also a head that a
\* pool thread has taken without having marked it started yet.
Survivors ==
    IF line = <<>> THEN {<<>>}
    ELSE {SubSeq(line, 1, 1)} \cup (IF step = "waiting" THEN {<<>>} ELSE {})

Event(j, signal, result) == [job |-> j, signal |-> signal, result |-> result]

\* The finish signals of the jobs cancel_pending drops, in the order of the line,
\* which is that of their submission.
CancelNotices(kept) ==
    LET dropped == {line[i] : i \in {k \in Len(kept) + 1 .. Len(line) : IsPublic(line[k])}}
        n       == Cardinality(dropped)
    IN  {[i \in 1 .. n |-> Event(order[i], "finished", "cancelled")] :
            order \in {f \in [1 .. n -> dropped] :
                         \A i, k \in 1 .. n : i < k => f[i] < f[k]}}

\* invalidate() may claim the manager of j: its worker is over and left it.
Claimable(j) ==
    jobs[j].finished /\ jobs[j].socket # "unmade" /\ ~jobs[j].claimed

Invalidated(j) ==
    [jobs EXCEPT ![j].invalidated = TRUE, ![j].claimed = @ \/ Claimable(j)]

\* jobs and tokens after _invalidate_attempt and _register_close_tokens.
JobsGivenUp ==
    IF session.attempt = None THEN jobs ELSE Invalidated(session.attempt)

\* Mutant: a token also where there is no manager.
TokensUnchecked ==
    tokens \cup {session.manager} \cup {a \in {session.attempt} : a # None /\ Claimable(a)}

TokensGivenUp ==
    tokens \cup {m \in {session.manager} : m # None}
           \cup {a \in {session.attempt} : a # None /\ Claimable(a)}

\* Mutant: only the tokens registered just now.
NewTokensOnly == TokensGivenUp \ tokens

\* _open_close_tokens: also the tokens of jobs that are about to be cancelled.
ClosingBatch == TokensGivenUp

\* Mutant: _detach leaves the password.
DetachedWithSecret(status, busy) ==
    [NewSession(session.generation + 1)
       EXCEPT !.status = status, !.busy = busy, !.sudo = session.sudo]

\* _detach(clear_snapshot=True) under the next generation.
Detached(status, busy) ==
    [NewSession(session.generation + 1) EXCEPT !.status = status, !.busy = busy]

\* _cancel_firewall_jobs: every open logical job is failed and finished.
LogicalsCancelled ==
    [i \in DOMAIN logicals |->
        IF logicals[i].completed THEN logicals[i]
        ELSE [logicals[i] EXCEPT !.outcomes = Append(@, "failed"), !.completed = TRUE]]

ClearPendingDecisions ==
    /\ pending' = NoDecisions
    /\ logicals' = LogicalsCancelled

-----------------------------------------------------------------------------
(* Calls of the user.  They come from the main window, which gets no input  *)
(* while a modal dialog is open, and from nobody after the window closed.   *)

Request(kind) ==
    /\ kind \in Requests
    /\ requests < MaxRequests
    /\ requests' = requests + 1
    /\ stack = <<>>
    /\ down = "no"

Idle == session.busy = None

\* Mutant: connect() does not look for a live session.
OwnsNothing == FALSE

OwnsSession == session.manager # None

\* connect() clears the decisions before it refuses a session that is live.
Connect ==
    /\ Request("connect")
    /\ session.present /\ Idle
    /\ session.status \in {"disconnected", "host_key_error", "error"}
    /\ ClearPendingDecisions
    /\ IF OwnsSession
       THEN UNCHANGED <<session, jobs, line, step, records>>
       ELSE /\ Enqueue(NewJob("connect", session.generation, session.sudo, {}, 0), jobs, line)
            /\ records' = records \cup {NextJob}
            /\ session' = [session EXCEPT !.status = "connecting", !.snapshot = None,
                                          !.busy = "connect", !.attempt = NextJob]
    /\ UNCHANGED <<tokens, events, stack, known, remote, down>>

\* The common part of disconnect(), reconnect(), a reloaded configuration and
\* shutdown(): give up the attempt and the manager, advance the generation,
\* cancel the line and submit a job that closes every open token.
GiveUp(op, next) ==
    /\ ClearPendingDecisions
    /\ tokens' = TokensGivenUp
    /\ session' = next
    /\ \E kept \in Survivors :
         /\ \E notices \in CancelNotices(kept) : events' = events \o notices
         /\ IF op = "close" /\ ClosingBatch = {}
            THEN /\ jobs' = JobsGivenUp
                 /\ line' = kept
                 /\ step' = IF kept = <<>> THEN "waiting" ELSE step
            ELSE Enqueue(NewJob(op, next.generation, next.sudo, ClosingBatch, 0),
                         JobsGivenUp, kept)

Disconnect ==
    /\ Request("disconnect")
    /\ session.present /\ session.status # "disconnected"
    /\ GiveUp("disconnect", Detached("disconnected", "disconnect"))
    /\ records' = records \cup {NextJob}
    /\ UNCHANGED <<stack, known, remote, down>>

\* reconnect() drops the trusted retries even when it then refuses.
Reconnect ==
    /\ Request("reconnect")
    /\ session.present
    /\ IF session.status # "disconnected" /\ Idle
       THEN /\ GiveUp("reconnect", [Detached("connecting", "reconnect")
                                      EXCEPT !.attempt = NextJob])
            /\ records' = records \cup {NextJob}
       ELSE /\ pending' = [pending EXCEPT !.trusted = {}]
            /\ pending.trusted # {}
            /\ UNCHANGED <<session, logicals, jobs, line, step, tokens, events, records>>
    /\ UNCHANGED <<stack, known, remote, down>>

\* _live_idle_session.
LiveIdle ==
    /\ session.present /\ Idle
    /\ session.status = "connected" /\ session.manager # None

\* refresh(), test_connection().
StartRead(op) ==
    /\ Request(op)
    /\ LiveIdle
    /\ Enqueue(NewJob(op, session.generation, session.sudo, {}, 0), jobs, line)
    /\ records' = records \cup {NextJob}
    /\ session' = [session EXCEPT !.busy = op]
    /\ UNCHANGED <<pending, logicals, tokens, events, stack, known, remote, down>>

\* reload_firewalld(), _schedule_port_change() and its siblings.
StartMutation(op) ==
    /\ Request(op)
    /\ LiveIdle
    /\ OpenLogical(logicals, Key(session.generation, op)) = 0
    /\ Enqueue(NewJob(op, session.generation, session.sudo, {}, Len(logicals) + 1), jobs, line)
    /\ records' = records \cup {NextJob}
    /\ logicals' = Append(logicals,
                          [key |-> Key(session.generation, op), attempt |-> NextJob,
                           outcomes |-> <<>>, error |-> None, completed |-> FALSE])
    /\ session' = [session EXCEPT !.busy = op]
    /\ UNCHANGED <<pending, tokens, events, stack, known, remote, down>>

\* Mutant: a password is taken for a disconnected session.
TakesAnyPassword == session.present

TakesPassword == session.present /\ session.status # "disconnected"

ProvideSudoPassword ==
    /\ Request("provide_sudo_password")
    /\ TakesPassword
    /\ session' = [session EXCEPT !.sudo = TRUE]
    /\ UNCHANGED <<pending, records, logicals, jobs, line, step, tokens, events,
                   stack, known, remote, down>>

\* Selecting another server.
Select ==
    /\ Request("select")
    /\ pending' = [pending EXCEPT !.trusted = {}]
    /\ UNCHANGED <<session, records, logicals, jobs, line, step, tokens, events,
                   stack, known, remote, down>>

\* reload_configuration() with this server's profile changed, removed or added.
ReloadChanged ==
    /\ Request("reload_changed")
    /\ session.present
    /\ GiveUp("close", Detached("disconnected", None))
    /\ UNCHANGED <<records, stack, known, remote, down>>

ReloadRemoved ==
    /\ Request("reload_removed")
    /\ session.present
    /\ GiveUp("close", [Detached("disconnected", None) EXCEPT !.present = FALSE])
    /\ UNCHANGED <<records, stack, known, remote, down>>

ReloadAdded ==
    /\ Request("reload_added")
    /\ ~session.present
    /\ session' = NewSession(session.generation + 1)
    /\ UNCHANGED <<pending, records, logicals, jobs, line, step, tokens, events,
                   stack, known, remote, down>>

\* shutdown() up to wait_for_done().  A server that was removed has no session
\* any more; its line is cancelled only if a token of it is left.
Shutdown ==
    /\ Request("shutdown")
    /\ down' = "draining"
    /\ stack' = <<[fn |-> "wait_for_done"]>>
    /\ IF session.present
       THEN GiveUp("close", Detached("disconnected", None))
       ELSE /\ \E kept \in Survivors :
                 IF tokens = {} THEN UNCHANGED <<jobs, line, step, events>>
                 ELSE /\ \E notices \in CancelNotices(kept) : events' = events \o notices
                      /\ Enqueue(NewJob("close", session.generation, FALSE, tokens, 0),
                                 jobs, kept)
            /\ UNCHANGED <<session, pending, logicals, tokens>>
    /\ UNCHANGED <<records, known, remote>>

\* Mutant: the tokens are looked at, not the pool.
CleanIfAllClosed(drained) == tokens = {}

\* return drained and all_closed.
Clean(drained) == drained /\ tokens = {}

\* ... which returns when the pool is drained or the timeout has passed.
ShutdownReturns ==
    /\ down = "draining"
    /\ down' = IF Clean(line = <<>>) THEN "clean" ELSE "incomplete"
    /\ stack' = <<>>
    /\ records' = {}
    /\ UNCHANGED <<session, pending, logicals, jobs, line, step, tokens, events,
                   known, remote, requests>>

-----------------------------------------------------------------------------
(* The worker of the line's head.                                           *)

Running(j) == line # <<>> /\ Head(line) = j /\ step # "waiting"

worker_only == <<session, pending, records, logicals, stack, known, requests, down>>

\* Mutant: a job whose work() raised is not finished.
NoticesOnSuccess(j, signal, result) ==
    IF ~IsPublic(j) THEN <<>>
    ELSE <<Event(j, signal, result)>> \o
         (IF signal = "failed" THEN <<>> ELSE <<Event(j, "finished", result)>>)

Notices(j, signal, result) ==
    IF IsPublic(j) THEN <<Event(j, signal, result), Event(j, "finished", result)>>
    ELSE <<>>

\* work() is over: the outcome and the finish are queued, the next job's turn.
Ends(j, history, signal, result) ==
    /\ jobs' = history
    /\ line' = Tail(line)
    /\ step' = "waiting"
    /\ events' = events \o Notices(j, signal, result)

\* One thread closes a manager once; a second time is the error to exclude.
DisconnectAll(S) ==
    [j \in DOMAIN jobs |->
        IF j \in S THEN [jobs[j] EXCEPT !.socket = IF @ = "open" THEN "closed" ELSE "twice"]
        ELSE jobs[j]]

\* _close_token_batch of the head: tokens another batch closed are skipped.
\* Any job starts here; a job with nothing else to do also ends here.
Begin ==
    /\ line # <<>> /\ step = "waiting"
    /\ LET j == Head(line)
           batch == jobs[j].closes \cap tokens
       IN  /\ tokens' = tokens \ batch
           /\ IF jobs[j].op \in {"disconnect", "close"}
              THEN \E failed \in (IF batch = {} THEN {FALSE} ELSE BOOLEAN) :
                     Ends(j, DisconnectAll(batch),
                          IF failed THEN "failed" ELSE "succeeded", "command")
              ELSE \/ /\ jobs' = DisconnectAll(batch)
                      /\ step' = "begun"
                      /\ UNCHANGED <<line, events>>
                   \/ \* manager.disconnect() raised in the batch of a reconnect.
                      /\ batch # {}
                      /\ Ends(j, DisconnectAll(batch), "failed", "command")
    /\ UNCHANGED <<worker_only, remote>>

\* The factory, unless the attempt is invalidated first.
MakeManager(j) ==
    /\ Running(j) /\ IsConnection(j) /\ step = "begun"
    /\ IF jobs[j].invalidated
       THEN Ends(j, [jobs EXCEPT ![j].finished = TRUE], "failed", "command")
       ELSE /\ jobs' = [jobs EXCEPT ![j].socket = "open"]
            /\ step' = "made"
            /\ UNCHANGED <<line, events>>
    /\ UNCHANGED <<worker_only, tokens, remote>>

(***************************************************************************)
(* What a job ends with, by what _apply_failure tells apart:               *)
(*   transport     SSHConnectionError other than authentication            *)
(*   auth          SSHAuthenticationError                                  *)
(*   sudo_required, sudo_rejected   no sudo password, or a wrong one       *)
(*   remote_error  any other SSHError, a denied permission, firewalld      *)
(*                 missing or stopped: the status says so                  *)
(*   post          PostMutationError                                       *)
(*   command       anything else: the status stays, except for a connect   *)
(***************************************************************************)
SudoErrors(j)  == IF jobs[j].sudo THEN {"sudo_rejected"} ELSE {"sudo_required"}
ConnectErrors(j) ==
    {"transport", "auth", "remote_error", "command", "changed_key"}
    \cup (IF known THEN {} ELSE {"unknown_key"})
    \cup (IF known THEN SudoErrors(j) ELSE {})
ReadErrors(j) == {"transport", "remote_error", "command"} \cup SudoErrors(j)

\* A mutation's result comes with the snapshot reloaded after it, or with the
\* reason there is none; authentication may also fail half-way ("ok_rejected").
MutationResults ==
    {"ok", "ok_rejected", "refresh_failed", "refresh_transport", "refresh_rejected"}

\* connect() and load_snapshot() of the connection job, then commit_success, or
\* claim_failure_close on an error, which a look at the event may be.
FinishConnection(j) ==
    /\ Running(j) /\ IsConnection(j) /\ step = "made"
    /\ \/ /\ known
          /\ IF jobs[j].invalidated
             THEN Ends(j, [DisconnectAll({j}) EXCEPT ![j].finished = TRUE,
                                                     ![j].claimed = TRUE],
                       "failed", "command")
             ELSE Ends(j, [jobs EXCEPT ![j].finished = TRUE], "succeeded", "ok")
       \/ \E result \in IF jobs[j].invalidated THEN {"command"} ELSE ConnectErrors(j) :
            Ends(j, [(IF jobs[j].claimed THEN jobs ELSE DisconnectAll({j}))
                       EXCEPT ![j].finished = TRUE, ![j].claimed = TRUE],
                 "failed", result)
    /\ UNCHANGED <<worker_only, tokens, remote>>

FinishRead(j) ==
    /\ Running(j) /\ jobs[j].op \in Reads /\ step = "begun"
    /\ \/ Ends(j, jobs, "succeeded", "ok")
       \/ \E result \in ReadErrors(j) : Ends(j, jobs, "failed", result)
    /\ UNCHANGED <<worker_only, tokens, remote>>

\* The sudo errors and "command" are raised before anything is changed.
FinishMutation(j) ==
    /\ Running(j) /\ jobs[j].op \in Mutations /\ step = "begun"
    /\ \/ \E result \in MutationResults :
            Ends(j, jobs, "succeeded", result) /\ remote' = j
       \/ \E result \in {"transport", "remote_error", "post"} :
            Ends(j, jobs, "failed", result) /\ remote' = j
       \/ \E result \in {"command"} \cup SudoErrors(j) :
            Ends(j, jobs, "failed", result) /\ UNCHANGED remote
    /\ UNCHANGED <<worker_only, tokens>>

Work ==
    \/ Begin
    \/ \E j \in DOMAIN jobs :
         MakeManager(j) \/ FinishConnection(j) \/ FinishRead(j) \/ FinishMutation(j)

-----------------------------------------------------------------------------
(* The Qt thread's event loop, which also spins inside an open dialog.      *)

Dialogs == {"host_key", "sudo", "error"}
Prompts == {"host_key", "sudo"}

Looping == stack # <<>> => Head(stack).fn \in Dialogs

Frame(fn, j, result) == [fn |-> fn, job |-> j, result |-> result]

\* A modal dialog opens, if MainWindow is connected, on top of the rest of the
\* handler that emitted the signal.
Opens(fn, j) == IF NestedDialogs THEN <<Frame(fn, j, None)>> ELSE <<>>

Received == events' = Tail(events)

\* _submit_close of every open token of the server.
SubmitClose(history, open) ==
    Enqueue(NewJob("close", session.generation, FALSE, open, 0), history, line)

\* Emitting on the public handle of j reaches the logical job of which j is
\* the current attempt: _matches_firewall_attempt.
Attempted(j) ==
    {i \in DOMAIN logicals : logicals[i].attempt = j /\ ~logicals[i].completed}

WithOutcome(logical, outcome) == [logical EXCEPT !.outcomes = Append(@, outcome)]

Snapshot(j) == [stale |-> FALSE, job |-> j]

\* Mutant: a failed change leaves the snapshot as it is.
StillFresh(snapshot) == snapshot

Staled(snapshot) ==
    IF snapshot = None THEN None ELSE [snapshot EXCEPT !.stale = TRUE]

\* The delivery of a success that is not the session's business any more.  A
\* connection nobody adopted is invalidated and closed in a private job.
DiscardSucceeded(j) ==
    /\ IF Recorded(j) /\ ~Current(j) /\ IsConnection(j)
       THEN IF Claimable(j)
            THEN /\ tokens' = tokens \cup {j}
                 /\ SubmitClose(Invalidated(j), tokens \cup {j})
            ELSE jobs' = Invalidated(j) /\ UNCHANGED <<tokens, line, step>>
       ELSE UNCHANGED <<jobs, tokens, line, step>>
    /\ UNCHANGED <<session, stack>>

\* _on_succeeded of a mutation: the snapshot, the password, the transport.
MutationSucceeded(j, result) ==
    LET lost == result = "refresh_transport" /\ session.manager # None
        open == tokens \cup {m \in {session.manager} : lost}
    IN  /\ session' = [session EXCEPT
             !.snapshot = IF result \in {"ok", "ok_rejected"} THEN Snapshot(j)
                          ELSE Staled(@),
             !.sudo     = @ /\ result \notin {"ok_rejected", "refresh_rejected"} /\ ~lost,
             !.manager  = IF lost THEN None ELSE @,
             !.status   = IF lost THEN "error" ELSE @]
        /\ tokens' = open
        /\ IF lost THEN SubmitClose(jobs, open) ELSE UNCHANGED <<jobs, line, step>>
        /\ stack' = (IF result \in {"ok", "ok_rejected"} THEN <<>> ELSE Opens("error", j))
                    \o <<Frame("emit_succeeded", j, result)>> \o stack

OnSucceeded ==
    /\ Looping
    /\ events # <<>> /\ Head(events).signal = "succeeded"
    /\ LET j == Head(events).job
           op == jobs[j].op
           done == <<Frame("emit_succeeded", j, "ok")>> \o stack
       IN  IF ~Recorded(j) \/ ~Current(j) \/ session.busy # op
           THEN DiscardSucceeded(j)
           ELSE IF op \in Mutations THEN MutationSucceeded(j, Head(events).result)
           ELSE /\ session' =
                     CASE op \in ConnectionOps ->
                            [session EXCEPT !.manager = j, !.attempt = None,
                               !.snapshot = Snapshot(j), !.status = "connected"]
                       [] op = "refresh" -> [session EXCEPT !.snapshot = Snapshot(j)]
                       [] OTHER -> session
                /\ stack' = done
                /\ UNCHANGED <<jobs, tokens, line, step>>
    /\ Received
    /\ UNCHANGED <<pending, records, logicals, known, remote, requests, down>>

\* The end of _on_succeeded: the public handle, then the retry mark.
EmitSucceeded ==
    /\ stack # <<>> /\ Head(stack).fn = "emit_succeeded"
    /\ LET j == Head(stack).job IN
         /\ logicals' = [i \in DOMAIN logicals |->
                           IF i \in Attempted(j) THEN WithOutcome(logicals[i], "succeeded")
                           ELSE logicals[i]]
         /\ pending' = [pending EXCEPT !.retried = @ \ {KeyOf(j)}]
    /\ stack' = Tail(stack)
    /\ UNCHANGED <<session, records, jobs, line, step, tokens, events,
                   known, remote, requests, down>>

\* _apply_failure up to the prompt: password, status, decision, prompt.
ApplyFailure(j, result, rest) ==
    LET op  == jobs[j].op
        key == Key(session.generation, op)
        again == key \in pending.retried
        errs == result \in {"auth", "sudo_rejected", "sudo_required",
                            "transport", "remote_error"}
                \/ (result \in {"command", "store_error"} /\ IsConnection(j))
    IN  /\ session' = [session EXCEPT
             !.sudo   = @ /\ result \notin {"auth", "sudo_rejected", "post"}
                          /\ ~(result = "sudo_required" /\ again),
             !.status = CASE result \in {"unknown_key", "changed_key"} -> "host_key_error"
                          [] errs  -> "error"
                          [] OTHER -> @]
        /\ pending' = [pending EXCEPT
             !.key  = CASE result = "unknown_key" -> key
                        [] result \in {"changed_key", "store_error"} -> None
                        [] OTHER -> @,
             !.sudo = CASE result = "sudo_required" /\ ~again -> key
                        [] result = "sudo_required" /\ again -> None
                        [] result \in {"unknown_key", "auth", "sudo_rejected", "post"} -> None
                        [] OTHER -> @]
        /\ stack' =
             (CASE result = "unknown_key" -> Opens("host_key", j)
                [] result = "sudo_required" /\ ~again -> Opens("sudo", j)
                [] OTHER -> <<>>)
             \o <<Frame("rest_of_apply_failure", j, result)>> \o rest

OnFailed ==
    /\ Looping
    /\ events # <<>> /\ Head(events).signal = "failed"
    /\ LET j == Head(events).job
           result == Head(events).result
       IN  IF ~Recorded(j) \/ ~Current(j) \/ session.busy # jobs[j].op
           THEN UNCHANGED <<session, pending, stack>>
           ELSE ApplyFailure(j, result, <<Frame("emit_failed", j, result)>> \o stack)
    /\ Received
    /\ UNCHANGED <<records, logicals, jobs, line, step, tokens,
                   known, remote, requests, down>>

\* The rest of _apply_failure, after the prompt's slot returned.
RestOfApplyFailure ==
    /\ stack # <<>> /\ Head(stack).fn = "rest_of_apply_failure"
    /\ LET j      == Head(stack).job
           result == Head(stack).result
           broken == result \in {"transport", "auth"}
           lost   == broken /\ session.manager # None
           unsure == \/ jobs[j].op \in {"refresh", "reload_firewalld"}
                     \/ jobs[j].op \in Mutations /\ (broken \/ result = "post")
           open   == tokens \cup {m \in {session.manager} : lost}
       IN  /\ session' = [session EXCEPT
                !.attempt  = IF IsConnection(j) THEN None ELSE @,
                !.snapshot = IF unsure THEN Staled(@) ELSE @,
                !.manager  = IF lost THEN None ELSE @,
                !.sudo     = @ /\ ~lost]
           /\ tokens' = open
           /\ IF lost THEN SubmitClose(jobs, open) ELSE UNCHANGED <<jobs, line, step>>
           /\ stack' = (IF result \in {"unknown_key", "sudo_required"} THEN <<>>
                        ELSE Opens("error", j)) \o Tail(stack)
    /\ UNCHANGED <<pending, records, logicals, events, known, remote, requests, down>>

\* _firewall_attempt_failed waits while the prompt of this very job is open.
Awaited(key) == pending.sudo = key \/ key \in pending.accepted

\* The end of _on_failed: the public handle, then the retry mark.
EmitFailed ==
    /\ stack # <<>> /\ Head(stack).fn = "emit_failed"
    /\ LET j == Head(stack).job
           result == Head(stack).result
           failed(logical) == [logical EXCEPT !.error = result]
       IN  /\ logicals' = [i \in DOMAIN logicals |->
                IF i \notin Attempted(j) THEN logicals[i]
                ELSE IF result = "sudo_required" /\ Awaited(KeyOf(j))
                THEN failed(logicals[i])
                ELSE WithOutcome(failed(logicals[i]), "failed")]
           /\ pending' = [pending EXCEPT !.retried = @ \ {KeyOf(j)}]
    /\ stack' = Tail(stack)
    /\ UNCHANGED <<session, records, jobs, line, step, tokens, events,
                   known, remote, requests, down>>

-----------------------------------------------------------------------------
(* Finishing, and the retries that start once a job is finished.            *)

\* _firewall_attempt_finished.
AttemptFinished(logical) ==
    IF logical.outcomes # <<>> THEN [logical EXCEPT !.completed = TRUE]
    ELSE IF Awaited(logical.key) \/ logical.error = None THEN logical
    ELSE [WithOutcome(logical, "failed") EXCEPT !.completed = TRUE]

\* _launch_trusted_retry: still the same session, in error, and idle.
TrustedRetryAllowed(s, key) ==
    /\ s.present /\ s.generation = key.generation
    /\ s.status = "host_key_error" /\ s.busy = None

\* _retry_sudo_operation: a connection is restarted; a service operation needs
\* its service, and a firewall change its open logical job.
SudoRetryAllowed(s, l, key) ==
    /\ s.present /\ s.generation = key.generation
    /\ \/ key.op \in ConnectionOps
       \/ key.op \in Reads /\ s.manager # None
       \/ key.op \in Mutations /\ s.manager # None /\ OpenLogical(l, key) # 0

\* Mutant: the session does not get the new attempt.
RestartUnheld(s, p, r, key, with_sudo) ==
    /\ Enqueue(NewJob(key.op, s.generation + 1, s.sudo, {}, 0), jobs, line)
    /\ records' = r \cup {NextJob}
    /\ session' = [s EXCEPT !.generation = @ + 1, !.status = "connecting",
                            !.snapshot = None, !.busy = key.op]
    /\ pending' = IF with_sudo
                  THEN [p EXCEPT !.retried = @ \cup {Key(s.generation + 1, key.op)}]
                  ELSE p

\* Mutant: the session is detached once its password is captured for the job.
RestartDetached(s, p, r, key, with_sudo) ==
    /\ Enqueue(NewJob(key.op, s.generation + 1, s.sudo, {}, 0), jobs, line)
    /\ records' = r \cup {NextJob}
    /\ session' = [Detached("connecting", key.op) EXCEPT !.attempt = NextJob]
    /\ pending' = IF with_sudo
                  THEN [p EXCEPT !.retried = @ \cup {Key(s.generation + 1, key.op)}]
                  ELSE p

\* _restart_connection: a new generation and a new attempt.
Restart(s, p, r, key, with_sudo) ==
    /\ Enqueue(NewJob(key.op, s.generation + 1, s.sudo, {}, 0), jobs, line)
    /\ records' = r \cup {NextJob}
    /\ session' = [s EXCEPT !.generation = @ + 1, !.status = "connecting",
                            !.snapshot = None, !.busy = key.op, !.attempt = NextJob]
    /\ pending' = IF with_sudo
                  THEN [p EXCEPT !.retried = @ \cup {Key(s.generation + 1, key.op)}]
                  ELSE p

\* Mutant: the logical job keeps listening to its first attempt.
RelaunchUnheard(s, p, r, l, key) ==
    LET i == OpenLogical(l, key) IN
    /\ Enqueue(NewJob(key.op, key.generation, s.sudo, {}, i), jobs, line)
    /\ records' = r \cup {NextJob}
    /\ session' = [s EXCEPT !.status = "connected", !.busy = key.op]
    /\ pending' = [p EXCEPT !.retried = @ \cup {key}]
    /\ logicals' = l

\* The same service operation again, in the same generation and, for a firewall
\* change, for the same logical job.
Relaunch(s, p, r, l, key) ==
    LET i == OpenLogical(l, key) IN
    /\ Enqueue(NewJob(key.op, key.generation, s.sudo, {}, i), jobs, line)
    /\ records' = r \cup {NextJob}
    /\ session' = [s EXCEPT !.status = "connected", !.busy = key.op]
    /\ pending' = [p EXCEPT !.retried = @ \cup {key}]
    /\ logicals' = IF i = 0 THEN l ELSE [l EXCEPT ![i].attempt = NextJob]

\* What follows on session s, decisions p, records r and logical jobs l.
NoRetry(s, p, r, l) ==
    /\ session' = s /\ pending' = p /\ records' = r /\ logicals' = l
    /\ UNCHANGED <<jobs, line, step>>

TrustedRetry(s, p, r, l, key) ==
    IF TrustedRetryAllowed(s, key)
    THEN Restart(s, p, r, key, FALSE) /\ logicals' = l
    ELSE NoRetry(s, p, r, l)

SudoRetry(s, p, r, l, key) ==
    IF ~SudoRetryAllowed(s, l, key) THEN NoRetry(s, p, r, l)
    ELSE IF key.op \in ConnectionOps THEN Restart(s, p, r, key, TRUE) /\ logicals' = l
    ELSE Relaunch(s, p, r, l, key)

\* The record goes, the session is idle, the public handle finishes, and then
\* at most one of the two kinds of retry is launched.
OnFinished ==
    /\ Looping
    /\ events # <<>> /\ Head(events).signal = "finished"
    /\ LET j   == Head(events).job
           key == KeyOf(j)
           s   == IF Current(j) /\ session.busy = key.op
                  THEN [session EXCEPT !.busy = None] ELSE session
           p   == [pending EXCEPT !.trusted = IF Recorded(j) THEN @ \ {key} ELSE @,
                                  !.accepted = @ \ {key}]
           r   == {k \in records : KeyOf(k) # key}
           l   == [i \in DOMAIN logicals |->
                    IF Recorded(j) /\ i \in Attempted(j) THEN AttemptFinished(logicals[i])
                    ELSE logicals[i]]
           completed == {logicals[i].key : i \in {k \in DOMAIN l :
                            l[k].completed /\ ~logicals[k].completed}}
           q   == [p EXCEPT !.retried = @ \ completed]
       IN  IF Recorded(j) /\ key \in pending.trusted THEN TrustedRetry(s, q, r, l, key)
           ELSE IF key \in pending.accepted THEN SudoRetry(s, q, r, l, key)
           ELSE NoRetry(s, q, r, l)
    /\ Received
    /\ UNCHANGED <<tokens, stack, known, remote, requests, down>>

-----------------------------------------------------------------------------
(* The user's answers.  With MainWindow they come from the prompt's dialog  *)
(* at the top of the stack; otherwise at any time from the event loop.      *)

CanAnswer(prompt, decision) ==
    IF NestedDialogs THEN stack # <<>> /\ Head(stack).fn = prompt
    ELSE stack = <<>> /\ down = "no" /\ decision # None

\* Is the decision the one this prompt was about?
Exact(decision) ==
    decision # None /\ (NestedDialogs => decision = KeyOf(Head(stack).job))

Answered == IF NestedDialogs THEN Tail(stack) ELSE stack

OfSession(key) == session.present /\ session.generation = key.generation

\* resolve_host_key: a declined or outdated decision is forgotten.
DeclineHostKey ==
    /\ CanAnswer("host_key", pending.key)
    /\ stack' = Answered
    /\ pending' = IF Exact(pending.key) THEN [pending EXCEPT !.key = None] ELSE pending
    /\ UNCHANGED <<session, records, logicals, jobs, line, step, tokens, events,
                   known, remote, requests, down>>

\* A confirmed key is stored; the retry waits for the failed job to finish.
ConfirmHostKey ==
    /\ CanAnswer("host_key", pending.key)
    /\ Exact(pending.key) /\ OfSession(pending.key)
    /\ known' = TRUE
    /\ stack' = Answered
    /\ LET key == pending.key
           p   == [pending EXCEPT !.key = None]
       IN  IF HasRecord(key)
           THEN NoRetry(session, [p EXCEPT !.trusted = @ \cup {key}], records, logicals)
           ELSE TrustedRetry(session, p, records, logicals, key)
    /\ UNCHANGED <<tokens, events, remote, requests, down>>

\* The trust store could not be written.
HostKeyStoreFails ==
    /\ CanAnswer("host_key", pending.key)
    /\ Exact(pending.key) /\ OfSession(pending.key)
    /\ \E j \in DOMAIN jobs :
         /\ KeyOf(j) = pending.key
         /\ ApplyFailure(j, "store_error", Answered)
    /\ UNCHANGED <<records, logicals, jobs, line, step, tokens, events,
                   known, remote, requests, down>>

\* resolve_sudo_password without a password, or for a session that is gone:
\* the waiting logical job fails and finishes (_cancel_firewall_job).
DeclineSudo ==
    /\ CanAnswer("sudo", pending.sudo)
    /\ stack' = Answered
    /\ IF Exact(pending.sudo)
       THEN LET key == pending.sudo
                i   == OpenLogical(logicals, key)
            IN  /\ pending' = [pending EXCEPT !.sudo = None,
                                  !.retried = IF i = 0 THEN @ ELSE @ \ {key}]
                /\ logicals' = IF i = 0 THEN logicals
                               ELSE [logicals EXCEPT ![i].completed = TRUE,
                                       ![i].outcomes = Append(@, "failed")]
       ELSE UNCHANGED <<pending, logicals>>
    /\ UNCHANGED <<session, records, jobs, line, step, tokens, events,
                   known, remote, requests, down>>

\* The password is cached and the operation retried when its job has finished.
AcceptSudo ==
    /\ CanAnswer("sudo", pending.sudo)
    /\ Exact(pending.sudo) /\ OfSession(pending.sudo)
    /\ session.status # "disconnected"
    /\ stack' = Answered
    /\ LET key == pending.sudo
           s   == [session EXCEPT !.sudo = TRUE]
           p   == [pending EXCEPT !.sudo = None]
       IN  IF HasRecord(key)
           THEN NoRetry(s, [p EXCEPT !.accepted = @ \cup {key}], records, logicals)
           ELSE SudoRetry(s, p, records, logicals, key)
    /\ UNCHANGED <<tokens, events, known, remote, requests, down>>

DismissError ==
    /\ stack # <<>> /\ Head(stack).fn = "error"
    /\ stack' = Tail(stack)
    /\ UNCHANGED <<session, pending, records, logicals, jobs, line, step, tokens,
                   events, known, remote, requests, down>>

Calls ==
    \/ Connect
    \/ Disconnect
    \/ Reconnect
    \/ \E op \in Reads : StartRead(op)
    \/ \E op \in Mutations : StartMutation(op)
    \/ ProvideSudoPassword
    \/ Select
    \/ ReloadChanged
    \/ ReloadRemoved
    \/ ReloadAdded
    \/ Shutdown

Handlers ==
    \/ OnSucceeded
    \/ OnFailed
    \/ OnFinished
    \/ EmitSucceeded
    \/ EmitFailed
    \/ RestOfApplyFailure
    \/ ShutdownReturns

Answers ==
    \/ DeclineHostKey
    \/ ConfirmHostKey
    \/ HostKeyStoreFails
    \/ DeclineSudo
    \/ AcceptSudo
    \/ DismissError

Next == Calls \/ Work \/ Handlers \/ Answers

\* Workers run and end, queued signals are handled, and a prompt is answered in
\* the end; what to call and what to answer is the user's choice.
Fairness == WF_vars(Work) /\ WF_vars(Handlers) /\ WF_vars(Answers)

Spec == Init /\ [][Next]_vars /\ Fairness

-----------------------------------------------------------------------------
JobIds == DOMAIN jobs

\* More job ids than a behaviour of MaxRequests calls uses.
MaxJobs == 5 * MaxRequests
Keys   == [generation : Nat, op : Reads \cup Mutations \cup ConnectionOps \cup
                                  {"disconnect"}]

TypeOK ==
    /\ session \in [present : BOOLEAN, generation : Nat, sudo : BOOLEAN,
                    status : {"disconnected", "connecting", "connected",
                              "host_key_error", "error"},
                    busy : {None, "disconnect"} \cup Reads \cup Mutations
                           \cup ConnectionOps,
                    manager : {None} \cup JobIds, attempt : {None} \cup JobIds,
                    snapshot : {None} \cup [stale : BOOLEAN, job : JobIds]]
    /\ pending.key \in Keys \cup {None} /\ pending.sudo \in Keys \cup {None}
    /\ \A keys \in {pending.trusted, pending.accepted, pending.retried} :
         keys \subseteq Keys
    /\ Len(jobs) <= MaxJobs
    /\ records \subseteq {j \in JobIds : IsPublic(j)}
    /\ tokens \subseteq {j \in JobIds : IsConnection(j)}
    /\ \A i \in 1 .. Len(line) : line[i] \in JobIds
    /\ \A i \in 1 .. Len(events) : events[i].job \in JobIds
    /\ step \in {"waiting", "begun", "made"}
    /\ known \in BOOLEAN /\ remote \in {0} \cup JobIds
    /\ down \in {"no", "draining", "clean", "incomplete"}

InLine(j) == \E i \in 1 .. Len(line) : line[i] = j
Queued(j, signal) ==
    \E i \in 1 .. Len(events) : events[i].job = j /\ events[i].signal = signal

\* Cancelling the line drops private close jobs like any other; still every
\* open token is in the batch of a job that waits or runs, so that whatever is
\* cancelled when, no detached connection is forgotten.
TokensHaveACloser ==
    \A m \in tokens : \E i \in 1 .. Len(line) : m \in jobs[line[i]].closes

\* The session talks to a connection of its own generation that is open and
\* that nobody is to close.
LiveIsOpen ==
    LET m == session.manager IN
    m # None =>
        /\ jobs[m].socket = "open" /\ m \notin tokens /\ ~jobs[m].claimed
        /\ jobs[m].generation = session.generation

\* What the session shows was loaded in its present generation: no result of
\* a disconnected or replaced session ever arrives in it.
SnapshotOfThisSession ==
    session.snapshot # None =>
        jobs[session.snapshot.job].generation = session.generation

\* The busy marker and the jobs agree: a busy session has exactly the recorded
\* job it is busy with, still running or with its finish signal on the way, so
\* it never stays busy for ever; an idle one has no job of its generation on
\* record, so a new one never meets an identity that is taken.
BusyHasItsJob ==
    down = "no" => LET mine == {r \in records : Current(r)} IN
        IF session.busy = None THEN mine = {}
        ELSE \E r \in mine : /\ mine = {r}
                             /\ jobs[r].op = session.busy
                             /\ InLine(r) \/ Queued(r, "finished")

\* A connection job that may still produce a manager can be called off: the
\* session holds its attempt, or it is invalidated already.
AttemptsCanBeCalledOff ==
    \A j \in JobIds :
        InLine(j) /\ IsConnection(j) =>
            session.attempt = j \/ jobs[j].invalidated \/ jobs[j].finished

\* Across calls, answers and late results the session, its jobs and its tokens
\* agree (_detach, _on_finished, _invalidate_attempt, _open_close_tokens).
SessionMatchesJobs ==
    /\ TokensHaveACloser
    /\ LiveIsOpen
    /\ SnapshotOfThisSession
    /\ BusyHasItsJob
    /\ AttemptsCanBeCalledOff

\* What is left of that when dialogs nest the handlers: an attempt may be lost
\* and a connection with it, but never the session's own, an open token or the
\* job a session is busy with (MainWindow's slots).
DialogsForgetNothingElse == TokensHaveACloser /\ LiveIsOpen /\ BusyHasItsJob

\* A change can only be planned on a snapshot loaded after the last change this
\* program may have made, completed or not.
Plannable ==
    /\ session.present /\ session.status = "connected" /\ session.busy = None
    /\ stack = <<>>
    /\ session.snapshot # None /\ ~session.snapshot.stale
PlansAreCurrent == Plannable => session.snapshot.job >= remote

\* A session holds a sudo password from provide_sudo_password() or a prompt's answer
\* until it is disconnected, replaced or removed (_detach).  It need not be connected: a
\* connection that failed leaves the password for the next connect(), unless the login
\* or the password was refused.
HeldUntilDisconnect ==
    session.sudo => session.present /\ session.status # "disconnected"

\* A job in the line carries a copy only while the session it was submitted for
\* holds the password; of a session given up since, at most the job a pool thread
\* had already taken is left.
CopiesFollowTheSession ==
    \A j \in JobIds : InLine(j) /\ jobs[j].sudo =>
        IF Current(j) THEN session.sudo ELSE j = Head(line)

\* A session that loses its manager, because it is given up or because the transport
\* or the login failed under a job, loses the password in the same step.
LostConnectionTakesTheSecret ==
    [][session.manager # None /\ session'.manager # session.manager
         => ~session'.sudo]_session

\* So no password is kept or used for a session that was disconnected or removed, or
\* whose connection was lost, and none that was forgotten is given to firewalld again
\* by a job still waiting.
SecretsStayWithTheSession ==
    /\ [](HeldUntilDisconnect /\ CopiesFollowTheSession)
    /\ LostConnectionTakesTheSecret

\* shutdown() returns True only when no connection is left open.
ShutdownClosesAll ==
    down = "clean" => \A j \in JobIds : jobs[j].socket # "open"

\* The generation of a session never goes back, and the manager, the snapshot
\* and the password of one generation never survive into the next, except the
\* password that restarts the connection it was asked for.
GenerationsAreSeparate ==
    [][/\ session'.generation >= session.generation
       /\ session'.generation > session.generation =>
             /\ session'.manager = None /\ session'.snapshot = None
             /\ session'.sudo => session'.status = "connecting"
      ]_session

\* The session does not stay busy.
BusyEnds == session.busy # None ~> session.busy = None

\* A logical firewall job ends, whether its job fails, its session goes away
\* or a password is needed, if the user answers.
LogicalJobsEnd ==
    \A i \in 1 .. MaxRequests :
        i \in DOMAIN logicals ~> i \in DOMAIN logicals /\ logicals[i].completed

\* A connection given up is closed in the end.
TokensAreClosed == \A j \in 1 .. MaxJobs : j \in tokens ~> j \notin tokens

-----------------------------------------------------------------------------
(* Ownership of the managers.                                               *)

OwnerOf(j) ==
    IF j \notin JobIds \/ ~IsConnection(j) \/ jobs[j].socket = "unmade" THEN "unmade"
    ELSE IF jobs[j].socket = "closed" /\ session.manager # j THEN "closed"
    ELSE IF jobs[j].socket # "open" THEN "nobody"
    ELSE IF session.manager = j /\ j \notin tokens /\ ~jobs[j].claimed THEN "session"
    ELSE IF session.manager # j /\ j \in tokens THEN "closer"
    ELSE IF Queued(j, "succeeded") /\ ~jobs[j].claimed THEN "result"
    ELSE IF InLine(j) THEN "worker"
    ELSE "nobody"

Ownership == INSTANCE ManagerOwnership WITH
    Managers <- 1 .. MaxJobs,
    owner    <- [j \in 1 .. MaxJobs |-> OwnerOf(j)]

\* Whatever the calls, the answers and what is late, an open connection has one owner:
\* its worker, its undelivered success, the session or a close token.  It is
\* closed once, only by its closer or its own worker, and never forgotten.
ImplementsManagerOwnership == Ownership!Spec
=============================================================================
