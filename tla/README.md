# A formal model of firewalld-remote-gui

The program is a Qt desktop client that changes the firewalld configuration of
remote servers over SSH. This directory holds TLA+ models of its core, the TLC
configurations that check them on small instances, and TLAPS proofs of the
properties that carry the most weight. Paths below are relative to the
repository (`app/...`, `tests/...`).

Contents: [the system](#the-system), [modules](#modules), [runs](#runs),
[proofs](#proofs), [what the models found](#what-the-models-found),
[limits](#limits), [plan](#plan).

## The system

### Threads

One Qt thread runs the GUI and both controllers. Remote work runs on the threads
of one `QThreadPool`. A job's outcome comes back as a signal that is queued to
the Qt thread. So there are two kinds of concurrency:

* worker threads against the Qt thread, over the scheduler's lock, the
  `_ConnectionAttempt` lock and its event, and the close-token locks;
* the Qt thread against itself: a modal dialog opened in a slot runs a nested
  event loop, so other queued results are handled in the middle of a handler.

### Components

| component | source | state | operations | what makes it correct |
|---|---|---|---|---|
| operation scheduler | `app/workers/scheduler.py` | a deque of jobs per server, the pool, the handles whose signals are not delivered | `submit`, `cancel_pending`, `wait_for_done`; `run` on a thread | one job of a server at a time, in order; every job emits a truthful life cycle that ends in one `finished`; work that has started is never interrupted |
| connection attempt, close tokens | `app/controllers/server_controller.py:221-300` | event, manager, two flags; a token's state | `register_manager`, `commit_success`, `claim_failure_close`, `invalidate`; `close_once` | an SSH connection is closed once, and always by somebody |
| server controller | `app/controllers/server_controller.py` | sessions, generations, jobs on record, pending decisions and retries, close tokens, logical firewall jobs | connect, disconnect, reconnect, refresh, test, changes, reload of firewalld and of the configuration, password and host-key answers, shutdown; the slots of a job's signals | results of one generation never reach another; a session is busy exactly while it has a job; secrets go with their connection; shutdown is honest |
| main window and tabs | `app/gui/main_window.py`, `app/gui/*_tab.py` | open dialogs; the results on display | slots that open modal dialogs, `closeEvent`; `_firewall_operation_result` and its siblings, `set_session` | what holds without dialogs holds with them; a result on display is that of the session on display |
| firewall controller | `app/controllers/firewall_controller.py` | `_pending`, the facades that have not finished | nine previews, nine `apply_*`, the slots that repeat a logical job's signals | what is applied is what was confirmed, against the inventory it was confirmed on; every facade is told an outcome and finishes |
| firewalld service | `app/firewalld/service.py` | none (the server's runtime and permanent configuration) | `add_port` and its siblings, `load_snapshot`, `connection_test` | a result says which of the two targets was changed and verified |
| lockout analysis | `app/firewalld/lockout.py` | none | `assess_lockout_risk` | a change that closes the management port is flagged |
| SSH manager, channel runner | `app/ssh/ssh_manager.py`, `channel_runner.py` | a client, a lock, deadlines | `connect`, `execute_command`, `disconnect` | no call outlives its deadline; a late answer reaches nobody; a returned output is whole |
| host key store | `app/ssh/host_keys.py` | the `known_hosts` file | `load`, `verify`, `trust` | a known key is never replaced; a failed write, a kill or a loss of power loses nothing older |
| configuration | `app/config/` | the loaded configuration | `load`, `diff` | every server is in exactly one class of a diff |
| command builder, parser, renderer | `app/firewalld/` | none | text in and out | |
| GUI tabs, dialogs, models; `app/models`, `app/utils` | | presentation, records, errors, log redaction | | |

### Interaction

`MainWindow` calls `ServerController` and `FirewallController`.
`ServerController` submits closures to `OperationScheduler` and keeps a public
handle per job under the key (server, generation, operation). `_on_succeeded`,
`_on_failed` and `_on_finished` compare the key's generation with the session's.
A connection job makes an SSH manager and hands it over in its success. Whoever
gives up a manager (disconnect, reconnect, a reloaded configuration, shutdown, a
lost transport, a stale success) registers a close token and submits a job that
closes every open token of the server. A firewall change is a *logical* job that
may take several attempts, because a missing sudo password is asked for and the
operation repeated; `FirewallController` wraps it in a facade for the GUI.

### What is hard

* The user may call at any moment, and every call cancels or supersedes work
  whose result may already be in the event queue.
* `cancel_pending` may meet a job that a pool thread has taken and not started.
* `invalidate()` sets its event before it takes the lock, and may meet the
  worker at any statement, including its own cleanup.
* Private close jobs are cancelled like all others.
* A decision (host key, password) may be answered before or after the job that
  asked for it has finished, or when the session is gone.
* Dialogs nest handlers; `shutdown` may time out.
* A change is several commands. Any of them may be refused, fail, be cut off with
  or without effect, or meet another administrator.
* A preview may be applied long after it was shown, twice, in another session
  or on another inventory; a facade must hear what happens to its change when
  passwords, cancellations and new generations come in between.
* A remote call waits on a daemon thread while Paramiko's transport thread
  delivers output, status, end of file and close in any order.
* `known_hosts` is read and rewritten by several threads without a lock, and the
  program may be killed at every step of it.

`PROJECT.json` lists every hazard with its line and the properties about it.

## Modules

| module | models | role |
|---|---|---|
| `SerialExecutor` | what the scheduler promises | abstract specification |
| `OperationScheduler` | `app/workers/scheduler.py` | detailed; implements `SerialExecutor` |
| `OperationSchedulerProofs` | | theorems |
| `ManagerOwnership` | who has to close an SSH manager | abstract specification |
| `ConnectionAttempt` | `_ConnectionAttempt`, `_ManagerCloseToken`, the worker of `_submit_connection` | detailed; implements `ManagerOwnership` |
| `ConnectionAttemptProofs` | | theorems |
| `ServerController` | the controller and the window's dialogs, for one server | detailed; implements `ManagerOwnership` too |
| `ServerSessionProofs` | | theorems: jobs, decisions, generations, secrets |
| `ServerControllerProofs` | | theorems: connections, shutdown, plans; on top of `ServerSessionProofs` |
| `Lockout` | `app/firewalld/lockout.py` | pure analysis, with the definition it is compared to |
| `ConfirmedChanges` | what a facade promises the GUI | abstract specification |
| `FirewallController` | `app/controllers/firewall_controller.py`, on top of `Lockout` | detailed; implements `ConfirmedChanges` |
| `MainWindow` | the results the window and its tabs show, on top of `FirewallController` | composition |
| `FirewallControllerProofs` | | theorems, those of `Lockout` and `MainWindow` included |
| `RemoteChange` | what a request promises about the commands it sends | abstract specification |
| `FirewalldService` | `app/firewalld/service.py`, the outcomes of `app/models/command.py`, `work()` of `_launch_firewall_attempt` | detailed; implements `RemoteChange` |
| `FirewalldServiceProofs` | | theorems |
| `RemoteCall` | what one remote command promises | abstract specification |
| `ChannelRunner` | `app/ssh/channel_runner.py`, `SSHManager.execute_command` | detailed; implements `RemoteCall` |
| `ChannelRunnerProofs` | | theorems |
| `TrustDecisions` | what the host key store promises | abstract specification |
| `HostKeyStore` | `app/ssh/host_keys.py`, and of `SSHManager.connect` what asks it | detailed; implements `TrustDecisions` |
| `HostKeyStoreProofs` | | theorems |
| `MC*` | | constants of the runs |

**OperationScheduler.** One action per critical section of the scheduler's lock
and per statement of `_OperationRunnable.run` that emits a signal. `phase[j]` is
where the job's runnable is, `queues` the deques, `holds` is `_delivery_holds`,
`events` the queued private signals, `published` the public signals a handle has
emitted. `cancel_pending` is two actions because it emits after it has released
the lock (`CancelPending`, `FinishCancelled`). `QThreadPool` is external: it
starts any pooled runnable while a thread is free, and `tryTake` succeeds
exactly while the runnable has not been taken.

**SerialExecutor.** A line per server, a stage per job and the signals its
submitter was told. A job starts at the head of its line only, signals are told
in order, once and only when true, and a job that has started is never dropped.

**ConnectionAttempt.** One attempt makes at most one manager and names it.
`worker[a]` is the next statement of `work()`: the four looks at the event, the
statements between them, the commit and the except clause. Every method of
`_ConnectionAttempt` is an action, except `invalidate()`, which is two. The Qt
thread launches, invalidates, detaches and handles results. Workers of
several attempts may overlap: the scheduler would forbid it, but the protocol
does not need that.

**ManagerOwnership.** A manager goes from its worker to the job's result, to the
session, to one closer, and is closed; at any point it may go to the closer,
never back, and never to nobody.

**ServerController.** One server, because servers share only the pool. The
scheduler is a line whose head runs, with the life cycle `SerialExecutor`
promises. A job's worker looks at the attempt's event when it makes a manager
and when it commits; the finer races are in `ConnectionAttempt`. `stack` is the
Qt thread: the remainders of the handlers that emitted a signal, and the dialogs
open in those signals, innermost first. A queued result is handled when the
stack is empty or a dialog is on top of it. With `NestedDialogs = FALSE` no slot
opens a dialog and the user's answers come from the event loop, as in the
controller tests. A user call needs an empty stack: dialogs are modal to the
window. All changes but a reload of firewalld go through the same code, so
`add_port` stands for the eight of them. `test_connection` and `refresh` are the reads.
Jobs, records and tokens are sets and sequences of job numbers; a connection
job's number also names its manager. An error is a class: what `_apply_failure`
tells apart (`ConnectErrors`, `ReadErrors`, `MutationResults`).
The password is a flag of the session, and of every job that captured it. A session in error
without a connection may keep it for its next `connect`: the code clears it when the login or
the password is refused or is asked for again after a retry, when a change fails half-way, when
a job finds a live connection broken and when the session is given up, and not when a
connection could not be made. `SecretsStayWithTheSession`
claims no more than that.

**Lockout.** `assess_lockout_risk` on a snapshot reduced to the zones of both
targets with their interfaces, services, ports and rich rules. `LocksOut` is
defined without it: a zone admits the management connection by the ssh service, by
a TCP port range or by an accepting rule, and a removal or a move of an
interface locks the user out when the zone admitted it before and does not
after.

**FirewallController.** One server. `session` is what `ServerSessionView` shows,
`plan` the preview the caller holds, `logical` the one logical job
`ServerController` may have open, `pending` the dictionary `_pending`, `facades`
how often each facade emitted which signal. A preview is taken from the view
and evaluated again by `apply_*` (`Applicable` has the checks in the code's order,
with those of `_launch_firewall_attempt`). A caller may hold a preview over any
number of refreshes and generations and apply it twice; nothing relies on the
dialogs being modal. Signals are direct calls: a handler of `ServerController` and what
the facade does in it are one step, so the queued signals and nested dialogs stay
in `ServerController`. Cancelling gives up the logical job against the view
*before* the generation advances (`CancelView`), as `_clear_pending_decisions` does.

**ConfirmedChanges.** At most one change of a server is open; its facade belongs to
the generation in which the change was confirmed, is told of a start once, of an
outcome and of an end, and nothing afterwards; a change does not outlive its
generation. A change that is called off is told a failure even when its success
was told before (see [below](#what-the-models-found)).

**MainWindow.** Seven labels show a result: one on each of five tabs, and two in the
overview, for a reload of firewalld and for a connection test. `label` is the facade
(or the generation that was tested) whose result it shows, `reload_facades` is
`_reload_facades`. `set_session` clears a label when the identity of the view
changes, the overview also when a reload begins. Every step of the controllers ends
with a signal on which the window renders the view, so a step and the window's
reaction are one step (`WindowNext`).

**FirewalldService.** One request of the controller's worker, from the call to
what the job ends with, one action per remote command and way it can end: a
change (`ApplyTargets`, `ApplyGlobal`) followed by a snapshot, a snapshot alone,
or a connection test. The server is the set of targets that are as the request
wants them (`config`) and the default zone. A command that exits 0 need not have
had the effect, one that was cut off may have had it, and once per request
somebody else changes the server between two commands (`Interfere`). `pc` is the
next command, `todo`, `mutation_succeeded` and `results` are the locals of
`_apply_targets`, and `verdict` is what the caller gets: a label of
`classify_composite_outcome`, or the class of the error that was raised. A missing
password is given and the request made once more (`Retry`). `writes`, `confirmed`
and `denied` record what happened, for the properties. The seven changes of a
zone differ in the text of their commands only and are one operation, `"scoped"`.

**RemoteChange.** A request writes each target at most once, also when it is made
again with a password, nothing after a refusal; each report belongs to those that
say nothing was written, to those that say something was, or to those that leave
it open. `ServerController` rests on it: a change that failed with a sudo error may
be repeated, because nothing was written.

**ChannelRunner.** One command, with three parties: the pool thread of the job
(`pc` is its next statement), the daemon thread of `_bounded_call` (`helper`) and
Paramiko's transport thread, which delivers between any two statements. `clock`
ticks at any moment up to `Deadline`. `exec_command` may block, answer at the
deadline, or send its request when nobody waits any more. The two output streams are one
sequence of `Chunks` chunks; sudo's marker is complete in the last. The server is the environment:
it may never answer, and may close with or without a status. A sudo password that cannot be
encoded (mode `unencodable`) is refused by `execute_command` before any channel is opened
(`Start`); the same test in `ChannelRunner.run` never fails, because `execute_command` hands it
encoded bytes.

**RemoteCall.** The command runs at most once, or sudo refuses it and it never
runs. The caller is told once; a missing or wrong password only if sudo refused, with one
exception: a password that cannot be encoded is told as a wrong one, and then sudo was not
asked and the command never runs. A call that was cut off may take effect later.

**HostKeyStore.** Connections of several profiles run `load` and the decision of
`verify` as two steps, without a lock; `trust` runs on the Qt thread as `LoadForTrust`
(load, compare), the steps of `_save_atomically` and `Replace` (`os.replace`).
`recent` holds the contents that a loss of power may bring back: `os.replace`
becomes durable only when the system writes it out (`Settle`). A file that is renamed
without `fsync` may come back with any part of its lines (`OnDisk`). The
program may be killed, started again, and its file edited while it is closed.

**TrustDecisions.** A set of decisions that grows by one that conflicts with none;
only the user removes one. A loss of power may undo the latest decisions, in order.

## Runs

| run | configuration | bounds | shows |
|---|---|---|---|
| `scheduler` | `MCOperationScheduler.cfg` | 3 jobs of one server, 1 of another, 1 thread | 187,612 states: safety, life cycles, every job finishes, implements `SerialExecutor` |
| `attempt` | `MCConnectionAttempt.cfg` | 3 attempts | 112,694 states: every manager has exactly one party that closes it, implements `ManagerOwnership` |
| `lifecycle` | `MCServerController_lifecycle.cfg` | 4 calls out of 9, no dialogs | 865,162 states: sessions, jobs and tokens agree, generations, shutdown, implements `ManagerOwnership` |
| `session` | `MCServerController_session.cfg` | 3 calls of any kind, no dialogs | 90,784 states: plans; passwords go with the session and the lost connection, in queued jobs too; logical jobs end, tokens are closed |
| `dialogs` | `MCServerController_dialogs.cfg` | 3 calls of any kind, with dialogs | 229,198 states: what survives nested handlers (ownership does not: `lost_attempt`) |
| `service` | `MCFirewalldService.cfg` | 2 zones, one request and its retry, one interference | 965,154 states: verified success, snapshots, passwords, labels, checks; implements `RemoteChange` |
| `firewall` | `MCMainWindow.cfg` | 10 changes on 3 inventories, 2 submitted, 3 generations | 447,002 states: what is applied was confirmed and flagged, every facade ends, the tabs show results of their session; implements `ConfirmedChanges` |
| `channel` | `MCChannelRunner.cfg` | 4 modes, 3 chunks, 2 sends of the password, 4 ticks | 36,915 states: whole output, every call ends, implements `RemoteCall` |
| `hostkeys` | `MCHostKeyStore.cfg` | 2 profiles of one host, 3 keys of 2 algorithms | 123,585 states: every answer has its reason in the file, implements `TrustDecisions` |
| `lost_attempt`, `lost_change` | `MCServerController_*.cfg` | 2 or 3 calls | counterexamples, see below |
| `partial_success` | `MCFirewalldService_partial.cfg` | as `service` | counterexample, see below |

Why the bounds are enough:

* *scheduler*: a deque with a running, a next and a last job has every case of
  `cancel_pending`; one thread makes the second server's head wait in the
  pool, where `tryTake` finds it, while the first server's head runs. Two threads
  add overlap of different servers only, and the theorems cover any number.
* *attempt*: two attempts that meet (one being closed, one being made) and a
  third that follows; again the theorems cover any number.
* *ServerController*: a call produces up to three jobs (itself, a retry, a close
  job), `MaxJobs` is five per call and `TypeOK` says it is never exceeded. Four
  calls reach connect, change, disconnect and connect again with everything late;
  the counterexamples need two or three.

* *service*: the service keeps nothing between requests and a request reads one
  zone's state, so a zone to change and one beside it make every case of
  `_load_zones`; every request starts on any firewall. A second interference adds
  nothing to the first: each property that speaks of the server's state is about
  requests without one. Zones are symmetric.

* *firewall*: two changes are one that is open and the next, whose key may be taken by
  the first; two steps of the generation are the one that ends the first change's session
  and one more that ends the next. The three inventories let ssh in by a port range,
  by the service and by a rule, in one target or in both, with a zone missing from one
  of them; the ten changes include each kind, a rule outside the structured subset and
  rows that cover one target only. The initial state is a disconnected session.
* *channel*: with three chunks output is in flight before, between and after status,
  end and close; two sends make a send that takes a part. The clock may stand still, so four
  ticks reach the deadline at every statement.
* *hostkeys*: two connections meet one call of `trust`; two keys of one algorithm
  conflict, the third does not. Names do not interact (every lookup is by name); the theorems
  cover any number of everything.

`CHECK_DEADLOCK FALSE` is stated everywhere: the user may stop calling, and the
system rests when everything is delivered or the request is over.

Fairness. Weak fairness of each worker's and of the Qt thread's steps: threads
run, the event loop handles its queue, a handler that has started goes on. Remote
calls return because `app/ssh/channel_runner.py` gives every one a deadline.
`ServerController` and `FirewallController` also assume that an open prompt is
answered in the end (`WF_vars(Answers)`): without that a logical job may wait for a
password for ever, which is intended. In `ChannelRunner` only the caller's thread and
the clock are fair (`WF_vars(Caller)`, `WF_vars(Tick)`): the server, the transport and the
daemon threads owe nothing, which is why the deadline is there. `HostKeyStore` has no
fairness and no liveness property. Nothing makes the user call.

Each property of a passing run has a mutant in `PROJECT.json`: a definition next
to the one it replaces (`-Anyway`, `-Never`, `-Early`...), with a comment
`Mutant:`, which makes TLC find that property violated.

## Proofs

For any jobs, servers and pool size (`OperationSchedulerProofs`, assumptions
`ServerOfAssumption` and `MaxThreadsAssumption`):

* `TypeCorrect`; `PoolAndDequesAgree`: the head of a non-empty deque has a
  runnable; `JobsOfAServerNeverOverlap`; `NoSignalIsLost`: a job with a signal
  underway is held.
* None of these is inductive. That the head has a runnable survives `_complete`
  only because no *other* job of the server has one, and `_complete` removes the
  right job only because the job that runs is the head. `DequeInv` says both: a
  deque holds jobs of its server, each once, the first with a runnable and the
  others waiting, and a job with a runnable is the head of its deque. A
  job is held while it may still emit or has a signal queued, and `finished` is
  its last signal: `DeliveryInv`, proved relative to `DequeInv`, as
  `cancel_pending` announces jobs that no thread has.
* `ImplementsTheExecutor`: `Spec => ImplementsSerialExecutor`. What a job has been told is
  a beginning of the words of its life (`Word`: started, outcome, finished, or finished
  alone when it was dropped), what is queued for it comes next, in this order, and
  nothing is announced that has not happened (`TaleInv`). `NextExecutor` goes through the actions:
  `Submit`, `MarkStarted`, `EmitOutcome`, `Complete`, `CancelPending` and `Publish` are the
  executor's `Submit`, `Start`, `End`, `Leave`, `Drop` and `Tell`, the rest stutters.

For any number of attempts (`ConnectionAttemptProofs`, assumption
`NoneAssumption`):

* `OneAnswersForEach`: for every manager exactly one party is to close it, or it is the
  session's and open, or it was closed once. It combines `NoDoubleClose`,
  `SessionTalksToOpenManager` and `NoConnectionLeaks`.
* `OwnershipInv` gives each statement of the worker the values the flags, the
  connection and the token may have there (`WorkerOK`). A worker that has resigned
  leaves nothing to close unless its manager is the session's; an offered result
  is claimed exactly when it has a token; while an attempt is `current` the session
  has no other manager and the offered result is unclaimed, so `_on_succeeded` may
  adopt it; the live manager is unclaimed and has no token (`SessionOK`).
* `ConnectionsHaveOneOwner`: `Spec => ImplementsManagerOwnership`. `OwnerTable`
  lists who owns a manager in every state the invariant allows; `StepsHandOver`
  goes through the actions and shows that a step passes one manager from one
  owner to the next, as `ManagerOwnership` permits, or none.

For any zones, answers and interference (`FirewalldServiceProofs`, assumption
`ZonesAssumption`: there is a zone):

* `TypeCorrect`; `SuccessConfirmed`: success was read back from every target;
  `Implementation`: `Spec => ImplementsRemoteChange`; `RefusalsForgotten`: a refused
  password does not stay; `ReportsFit`: labels and checks agree with what they are
  about; `SnapshotsHonest`: the snapshot shows what was confirmed and is stale when it
  lacks something.
* `RequestInv` carries both. In the loop of `_apply_targets` the targets done have
  results that tell which were written and confirmed, and those left are
  unwritten but for the one being verified (`LoopInv`); `mutation_succeeded` says
  whether any was written, which is why a sudo error may be raised or must become
  a result. `GlobalInv`, `LoadInv` and `TestInv` say the same of the other steps;
  `VerdictInv` what a request that may be repeated leaves behind. `ClassifyFits`
  is the lemma about `classify_composite_outcome`: for any targets its label says
  whether something was written. `ReturnStep`, `GoOnStep`, `AbandonStep` and
  `OverStep` are the ways a step ends, and `NextRequest` shows for each action that
  it keeps `RequestInv` and is a step of `RemoteChange` or none.
* The last three theorems rest on `RequestInv` and one strengthening each, and on four
  lemmas that say once how the steps of a change, of a beginning call, of
  `load_snapshot` and of a test end (`ChangeStep`, `BeginShape`, `LoadShape`,
  `TestShape`). `ForgetInv`: while the snapshot is read, a refusal is in the results of
  the change, which is where `clear_sudo` finds it. `LabelInv`: the label is that of the
  results, and they are those of the targets asked for; `ChecksInv`: a test has the
  checks before the one it is at, and the state's passed if it asks for the version.
  `LoadedInv`: `listed` is part of the zones asked for so far (`Due`), and the
  snapshot is stale exactly when it lacks one of them or a part; only at the last step is
  this `StaleMeansIncomplete`. A list of names that could not be read makes it stale
  because there is a zone: here `ZonesAssumption` is needed. `ShowsInv` says the same of
  what is about the change, and needs from `RequestInv` that a confirmed target is as
  requested while nobody interferes.

For any profiles, names, keys and algorithms (`HostKeyStoreProofs`, assumptions
`ProfilesAssumption` and `KeysAssumption`):

* `TypeCorrect`; `DecisionsHaveReasons`: an accepted or stored key is in the file and a
  refused one conflicts with one that is; `KeepsItsDecisions`: `Spec =>
  ImplementsTrustDecisions`.
* `FileBacksDecisions` is not inductive. What `verify` decides holds because the file
  only grows while the program runs, so that what a connection has read is still there
  (`ReadInv`). What `trust` writes is the present file and one more key, because nobody
  else writes between its load and its replace, and there is no key of the
  algorithm for the host (`SavingInv`). The user edits the file only when nobody has
  been told anything yet (`StoppedInv`). `TrustInv` is the conjunction with the
  consistency of the file. `NewKeyIsConsistent` then shows that `Replace` is a
  `Trust` step: the code's lookup by name and algorithm excludes exactly the
  conflicts of the abstract specification. The type invariant says that `Replace` meets
  a synchronised file only, which is where `fsync` matters.

For any inventories, changes, port and bounds (`FirewallControllerProofs`, assumptions
`SSHPortAssumption`, `NoServiceAssumption`, `SnapshotsAssumption`, `ChangesAssumption`,
`BoundsAssumption` and `NoneAssumption`: `None` is not one of the values it stands beside,
snapshots have the fields of a `FirewallSnapshot`, a loaded one is not stale):

* `RemovalsAreFlagged`: `assess_lockout_risk` gives a reason for every removal that closes
  a zone to the management connection, in any inventory. `TypeCorrect`;
  `ConfirmedStillApplies`; `FacadesInOrder`; `LockoutsFlagged`: a change that locks the
  user out was confirmed as a high risk; `KeepsThePromise`:
  `Spec => ImplementsConfirmedChanges`.
* `FacadesMirrorJobs` is not inductive: a facade is told an outcome and an end because
  its entry in `_pending` matches the generation of the view, and that it does is a fact
  about the session. `OpenInv` ties the open change to the session (busy with it except
  while a password is waited for, and of the same generation) and to what its facade
  has been told; `PendingInv` says that `_pending` has its facade and nothing else;
  `DoneInv` that every other facade has finished. `ChangesStillApply` is the fourth part
  of `ControllerInv`: while a change is open nothing else may replace the snapshot.
* The refinement goes through the steps of a logical job (start, success, failure, finish,
  called off) and shows which signals of `ConfirmedChanges` they are.

For the same constants, in the same module, the window that composes the two:

* `WindowKeepsController`: `WindowSpec => Spec`, so that all of the above holds with the
  window on top; `ResultsInOrder`: a result on display is that of the session on display.
* `WindowInv` says of every label that it shows a facade of the displayed identity that was told
  success, and of an unfinished reload that the overview listens to its facade and shows no
  earlier result (`ReloadInv`). It uses `ControllerInv`: a facade that
  is told success belongs to the generation of the view.

For any output, password, mode and deadline (`ChannelRunnerProofs`, assumptions
`BoundsAssumption`, `ModesAssumption` and `NoneAssumption`):

* `TypeCorrect`; `OutputIsWhole`: a returned output is whole and has the server's
  status; `TruthfulReport`: `Spec => ImplementsRemoteCall`. In the mode `unencodable` this says
  that nothing was sent when the password is reported as wrong.
* `WholeOutput` holds at the return because `run` looks for the end of both streams, or for
  a closed channel, *after* the status and drains once more (`ReadingInv`). The refinement
  needs that a status, an end of file and a refusal have come from a request that was
  accepted (`ServerInv`), and that nothing is decided before the channel is to be
  closed (`ProgressInv`). `CallInv` is the conjunction.

For any calls and any number of them (`ServerSessionProofs` for `CoreInv`, `AgreeInv` and the
first three theorems, `ServerControllerProofs` for the rest; assumption `NoneAssumption`:
`None` is neither a number nor an operation nor one of the records it stands beside):

* With and without dialogs: `SecretsStayWithTheSessionAlways`, with
  `LostConnectionTakesTheSecretAlways` for its last part; `GenerationsAreSeparateAlways`;
  `DialogsForgetNothingElseAlways`: every open token has a closer, the session's connection is
  open and nobody's to close, a busy session has its job; `PlansAreCurrentAlways`: a change is
  planned on a snapshot loaded after the last change the program may have made.
* With dialogs that return at once (`~NestedDialogs`), because nested ones refute both
  (`lost_attempt`): `SessionMatchesJobsAlways`; `ShutdownClosesAllAlways`. Then also
  `ClosedOnceAlways` and `ImplementsOwnership`: `Spec => ImplementsManagerOwnership`.
* `TypesAlways`: `TypeOK`, but for its bound on the number of jobs. That five
  jobs per call are enough (`MaxJobs`) is a count over a whole behaviour and stays with
  the runs; the refinement speaks of the first `MaxJobs` managers, as the run does, and
  all the other theorems of every job.
* A step does several things at once, and each is a lemma for all actions: `JobStep` (a job
  is appended, the line is cancelled, the worker's head moves on, a signal is taken),
  `SessionStep` (the generation goes on or begins), `TokenStep` and `HoldStep` (which
  connections get a token, what the session holds), `PassOn` (without dialogs, to whom a
  connection goes). The parts of the invariant are proved from these, not from the actions.
* `Inv` is `CoreInv /\ AgreeInv /\ LineInv /\ HeldInv /\ SnapshotOfThisSession`. `CoreInv`: types;
  the line is in the order of submission, a job's finish is queued behind its outcome and
  only when it has left the line. `AgreeInv`: a session that is busy has one job of its
  generation on record, which is still at work or has its finish queued; a question of this session waits
  only when no outcome is on its way, which is why an answer or a retry never meets another
  job (`DecisionInv`); a connection job still at work excludes a manager (`PhaseInv`).
  `LineInv` and `HeldInv`: a connection that may still be adopted is in nobody's
  batch, so a close job never closes what the session gets.
* `CopiesInv` is for `SecretsStayWithTheSession`: a step that submits a job with the password
  leaves it with the session (`NewCopies`), and of the other steps one that takes the password
  leaves none of the session's jobs in line (`Rests`) or gives the session up (`Leaves`). That the
  rest of `_apply_failure` forgets it only then needs `BreakInv`: when a connection was found
  broken, that rest is on top of the stack, with no dialog between, and nothing of the session
  is in line.
* `FlatAll` adds what needs a flat stack: no remainder of a failure is left while an outcome is due
  (`FlatInv`), so that `session._connection_attempt = None` meets its own attempt;
  every open connection is in the line, the session's, its attempt's undelivered success, or
  has a token (`OpenInv`); a clean shutdown leaves no line, token or record (`CleanInv`).
  `OwnersInv` makes these exclusive, and `AllPass` shows that a step moves each connection from
  one owner to the next.
* `PlanInv` is for `PlansAreCurrent`: when a fresh snapshot is older than the last change, the
  change is this session's and either its success, or a failure of the connection or of the
  steps after the change, is still queued, or the rest of `_apply_failure` is about to make the snapshot stale, or the session is in error
  with nothing left to be told or asked, and only a new connection leads out of that
  (`Excused`). It needs that generations rise along the jobs (`Ordered`) and that an outcome still to
  come is not older than the last change (`Newest`).

Model-checked only: every liveness property (`EveryJobFinishes`, `GivenUpIsClosed`, `BusyEnds`,
`LogicalJobsEnd`, `TokensAreClosed`, `FacadesFinish`, `CallEnds`), since TLAPS does not
reason about fairness; `Len(jobs) <= MaxJobs`. Every inductive invariant above was checked
by TLC on the instance of its run before it was proved.

## What the models found

Three runs expect a violation; each is a disagreement between the code and its
tests or docs.

* `lost_attempt` (`ShutdownClosesAll`). `_apply_failure` emits
  `host_key_required` and the window's slot answers it from a dialog inside the
  signal. If the failed job's finish is handled while the dialog is open, the
  answer starts a new attempt at once; then the remainder of `_apply_failure` sets
  `session._connection_attempt = None` (`server_controller.py:1929`) and the new
  attempt cannot be invalidated any more. `shutdown()` returns True and the
  connection stays open.
* `lost_change` (`LogicalJobsEnd`). `error_raised` opens a modal dialog before
  the outcome is emitted on the public handle. The finish is handled meanwhile and
  finds no outcome: the logical job and its facade never finish.
* `partial_success` (`PartialSuccessIsExplicit`). The design says that partial
  success is explicit, and the README that partial results are reported. When the
  permanent target has been changed and read back and the runtime command then finds
  firewalld gone, or loses its connection, `_apply_targets` raises that error
  (`service.py:619`): no result names the target that has changed and no snapshot is
  loaded. Sudo errors at the same point are turned into a result.

Observations made while modelling. The models contain them, no run is about them, and no doc
or test of the repository says otherwise:

* `_cancel_firewall_jobs` checks `completed`, not `outcome_emitted`
  (`server_controller.py:1517`): a disconnect that is handled between the success and the
  finish of a change tells a failure after the success. `ConfirmedChanges` allows it as the
  one way to two outcomes.
* `ChannelRunner.run`: when status and close arrive between the look at
  `exit_status_ready` and the look at `closed`, the call ends as a lost connection
  although a status has arrived (`channel_runner.py:96`). An output is returned as
  it is when the connection is lost after the status, so that sudo's marker may be
  missing and its refusal told as the command's failure (`RemoteCall`).
* After a timeout the daemon thread may still send the request: a command that was
  reported as timed out may run later. `FirewalldService` lets a command that was cut
  off have its effect.
* `error_raised` is emitted before `session_changed` (`server_controller.py:1965`), so
  the window shows the old status below the error dialog.
* The tabs' "Latest ... operation result" (`ports_tab.py:91` and siblings) keeps an
  older success when a later change fails; the overview's label for a reload is cleared
  when one begins (`ResultsAreOfTheSession` states the difference).
* After a sudo error has been passed on, `FirewallController.error_raised` suppresses the
  final error of the same change (`error_emitted`); the facade's `failed` still tells it.

## Limits

Not modelled: log texts, messages, error wording, rendering; `is_busy` and
argument validation of the scheduler; work that returns a value of the wrong
type; exceptions of Qt itself; what `_on_started` records (time stamps); several
servers at once and the selection after a reload of the configuration. The
components marked `not_modelled` in `PROJECT.json`: reading and validating YAML, the
command builder, renderer and parser turn text into text and keep no state; the
records, validators, exception classes and the redaction of logs are data. They
appear elsewhere as choices: what a remote call may end with, what a snapshot may
be, what a diff says of the server.

`ServerController` takes the results of a change from a set, and `FirewallController`
takes from `ServerController` the order of a logical job's signals; that these are the ones
`FirewalldService` and `ServerController` produce is not checked by a composition. In
`FirewallController` a refresh or a test that is repeated with a password ends in
one step. `MainWindow` leaves dialogs to `ServerController`: what `lost_change` does to the
labels is not examined.

`LocksOut` is as wide as the docs are: removals and moves of an interface. Rules that
reject, changes of the default zone and services other than ssh that name the port are
outside of both the code's analysis and the definition.

In `FirewalldService` a zone's contents are whether the request's port, service,
interface or rule is as requested; deleted zones, the active zones' interfaces that
replace those of a zone, and parsing are left out; a command that exits with an
error has no effect.

In `HostKeyStore` one instance of the program runs at a time, left-over temporary files
are not modelled (they are never read), and a file that cannot be parsed is a load that
fails. In `ChannelRunner` decoding and the masking of passwords in the output are
left out.

## Plan

Done: `OperationScheduler`, `ConnectionAttempt`, `ServerController`, `FirewalldService`,
`FirewallController` with `Lockout` and `MainWindow`, `ChannelRunner`, `HostKeyStore`, their
abstract specifications and runs; theorems about all of them: every invariant and action
property of the passing runs, and every refinement.

Next, in this order:

1. `ConfigManager.diff` against a reference definition, and the selection after a reload of
   the configuration with several servers.
