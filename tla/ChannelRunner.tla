--------------------------- MODULE ChannelRunner ---------------------------
(***************************************************************************)
(* One command: app/ssh/channel_runner.py, and SSHManager.execute_command  *)
(* of app/ssh/ssh_manager.py that calls it and reads sudo's answer from    *)
(* the output.  Three parties act at once: the pool thread of the job, the *)
(* daemon thread that makes a call that may block, and Paramiko's          *)
(* transport thread, which delivers what the server sends between any two  *)
(* statements.  All waiting shares one deadline; the clock may tick        *)
(* between any two statements.                                             *)
(*                                                                         *)
(* The server is the environment.  It may be silent, slow or lost, run the *)
(* command late, send its exit status before, between or after its output, *)
(* and close with or without a status.  The two streams are one; a chunk is *)
(* what one recv returns; sudo's marker is in the last.  Paramiko          *)
(* (external): exit_status_ready is also true of a closed channel, whose   *)
(* status is then -1.                                                      *)
(***************************************************************************)
EXTENDS Naturals

CONSTANTS
    None,       \* Python's None
    Modes,      \* how execute_command renders the command: see Mode below
    Chunks,     \* bound: chunks of output
    Pieces,     \* sends the password takes
    Deadline    \* ticks of the clock until the deadline

\* "plain": without sudo; "noninteractive": sudo -n; "stdin": with a password;
\* "unencodable": with a password that has no UTF-8 encoding.
ASSUME ModesAssumption == Modes \subseteq {"plain", "noninteractive", "stdin", "unencodable"}
ASSUME BoundsAssumption ==
    Chunks \in Nat \ {0} /\ Pieces \in Nat \ {0} /\ Deadline \in Nat
ASSUME NoneAssumption ==
    /\ None \notin {0, 1}
    /\ None \notin {"output", "timeout", "eof", "not_connected", "result",
                    "sudo_required", "sudo_failed"}

VARIABLES
    mode,       \* how the command is rendered
    connected,  \* the transport is active
    pc,         \* the next statement of the caller
    clock,      \* ticks since the call began
    helper,     \* the bounded call that is waited for
    request,    \* the exec request: who has it
    process,    \* the command on the server
    channel,    \* Paramiko's channel: what has arrived
    sent,       \* pieces of the password sent
    exit_code,  \* local: None or the status received
    read,       \* chunks of output drained
    verdict,    \* how run() ends, decided before the channel is closed
    report      \* how execute_command ended, or None

vars == <<mode, connected, pc, clock, helper, request, process, channel, sent,
          exit_code, read, verdict, report>>

remoteVars == <<request, process, channel, connected>>

Init ==
    /\ mode \in Modes
    /\ connected \in BOOLEAN
    /\ pc = "start" /\ clock = 0 /\ helper = "none"
    /\ request = "none" /\ process = "waiting"
    /\ channel = [arrived |-> 0, status |-> None, eof |-> FALSE, closed |-> FALSE]
    /\ sent = 0 /\ exit_code = None /\ read = 0
    /\ verdict = None /\ report = None

-----------------------------------------------------------------------------
(* The deadline.                                                            *)

Tick ==
    /\ clock < Deadline
    /\ clock' = clock + 1
    /\ UNCHANGED <<mode, pc, helper, remoteVars, sent, exit_code, read, verdict, report>>

\* _remaining raises, _deadline_exhausted holds.
Expired == clock = Deadline

\* The finally clause of run(): every exit closes the channel.
Raise(error) == pc' = "close" /\ verdict' = error

At(statement) == pc = statement

\* A statement that asks for the time that is left, and then goes on to next.
Timed(statement, next) ==
    /\ At(statement)
    /\ IF Expired THEN Raise("timeout") ELSE pc' = next /\ UNCHANGED verdict

\* Its blocking call fails: EOFError, OSError, SSHException, a send of nothing.
Fails == Raise(IF Expired THEN "timeout" ELSE "eof")

-----------------------------------------------------------------------------
(* _bounded_call: a daemon thread makes the call, the caller waits.          *)

StartCall(statement, next) == Timed(statement, next) /\ helper' = IF Expired THEN "none" ELSE "busy"

\* Mutant: the caller waits for the daemon thread without a timeout.
WaitForEver(statement, next, fails) ==
    /\ At(statement)
    /\ helper \in {"answered", "failed"}
    /\ IF helper = "failed" THEN fails ELSE Timed(statement, next)
    /\ helper' = "none"

\* The wait ends with the answer or at the deadline; an answer at the deadline
\* is too late, and the daemon thread is left to itself.
Await(statement, next, fails) ==
    /\ At(statement)
    /\ \/ Expired
       \/ helper \in {"answered", "failed"}
    /\ IF helper = "failed" /\ ~Expired THEN fails ELSE Timed(statement, next)
    /\ helper' = "none"

-----------------------------------------------------------------------------
(* execute_command and run.                                                 *)

\* Mutant: a password that cannot be encoded is left out.
StartUnchecked ==
    /\ At("start")
    /\ \/ connected /\ pc' = "open" /\ UNCHANGED report
       \/ ~connected /\ pc' = "returned" /\ report' = "not_connected"
    /\ UNCHANGED <<mode, clock, helper, remoteVars, sent, exit_code, read, verdict>>

\* is_connected; render_command or render_sudo.  A password that cannot be
\* encoded is refused here: no channel is opened for it.
Start ==
    /\ At("start")
    /\ \/ ~connected /\ pc' = "returned" /\ report' = "not_connected"
       \/ connected /\ mode = "unencodable" /\ pc' = "returned" /\ report' = "sudo_failed"
       \/ connected /\ mode # "unencodable" /\ pc' = "open" /\ UNCHANGED report
    /\ UNCHANGED <<mode, clock, helper, remoteVars, sent, exit_code, read, verdict>>

\* open_session has the time that is left; without a channel nothing is closed.
OpenSession ==
    /\ At("open")
    /\ \/ pc' = "exec" /\ UNCHANGED report
       \/ pc' = "returned" /\ report' = IF Expired THEN "timeout" ELSE "eof"
    /\ UNCHANGED <<mode, clock, helper, remoteVars, sent, exit_code, read, verdict>>

ExecCommand ==
    /\ StartCall("exec", "exec_wait")
    /\ request' = IF Expired THEN request ELSE "calling"
    /\ UNCHANGED <<mode, clock, connected, process, channel, sent, exit_code, read, report>>

AfterExec == IF mode = "stdin" THEN "send" ELSE "drain"

ExecReturns ==
    /\ Await("exec_wait", AfterExec, Fails)
    /\ UNCHANGED <<mode, clock, remoteVars, sent, exit_code, read, report>>

\* Mutant: what has been sent is not taken off.
AllOfIt == Pieces

\* remaining_data[sent:]
RemainingData == Pieces - (sent + 1)

\* _send_all: one send; it waits for the server until the deadline.
Send ==
    /\ At("send")
    /\ \/ /\ ~Expired /\ ~channel.closed
          /\ sent' = sent + 1
          /\ pc' = IF RemainingData = 0 THEN "shutdown" ELSE "send"
          /\ UNCHANGED verdict
       \/ (Expired \/ channel.closed) /\ Fails /\ UNCHANGED sent
    /\ UNCHANGED <<mode, clock, helper, remoteVars, exit_code, read, report>>

ShutdownWrite ==
    /\ \/ StartCall("shutdown", "shutdown_wait")
       \/ Await("shutdown_wait", "drain", Fails)
    /\ UNCHANGED <<mode, clock, remoteVars, sent, exit_code, read, report>>

Buffered == channel.arrived > read

\* _drain: one chunk after the other, until none has arrived.
Drain(statement, next) ==
    /\ \/ Buffered /\ Timed(statement, statement)
          /\ read' = IF Expired THEN read ELSE read + 1
       \/ ~Buffered /\ Timed(statement, next) /\ UNCHANGED read
    /\ UNCHANGED <<mode, clock, helper, remoteVars, sent, exit_code, report>>

ExitStatusReady == channel.status # None \/ channel.closed

\* exit_status_ready
CheckStatus ==
    /\ \/ At("status") /\ (exit_code # None \/ ~ExitStatusReady)
          /\ pc' = "closed" /\ UNCHANGED <<verdict, helper>>
       \/ exit_code = None /\ ExitStatusReady /\ StartCall("status", "status_wait")
    /\ UNCHANGED <<mode, clock, remoteVars, sent, exit_code, read, report>>

\* recv_exit_status; -1 is what a channel that closed without a status has.
RecvExitStatus ==
    /\ At("status_wait")
    /\ \/ Expired /\ Raise("timeout") /\ UNCHANGED exit_code
       \/ /\ ~Expired /\ helper = "answered"
          /\ IF channel.status = None
             THEN Raise("eof") /\ UNCHANGED exit_code
             ELSE exit_code' = channel.status /\ pc' = "closed" /\ UNCHANGED verdict
    /\ helper' = "none"
    /\ UNCHANGED <<mode, clock, remoteVars, sent, read, report>>

\* channel.closed and exit_code is None
CheckClosed ==
    /\ At("closed")
    /\ IF channel.closed /\ exit_code = None THEN Raise("eof")
       ELSE pc' = "end" /\ UNCHANGED verdict
    /\ UNCHANGED <<mode, clock, helper, remoteVars, sent, exit_code, read, report>>

\* Mutant: the status ends the output.
EndedByStatus == exit_code # None

Ended == exit_code # None /\ (channel.eof \/ channel.closed)

CheckEnd ==
    /\ At("end")
    /\ pc' = IF Ended THEN "last" ELSE "sleep"
    /\ UNCHANGED <<mode, clock, helper, remoteVars, sent, exit_code, read, verdict, report>>

\* After the last drain: nothing is ready to be received.
CheckReady ==
    /\ At("check")
    /\ IF Buffered THEN pc' = "sleep" /\ UNCHANGED verdict ELSE Raise("output")
    /\ UNCHANGED <<mode, clock, helper, remoteVars, sent, exit_code, read, report>>

Sleep ==
    /\ Timed("sleep", "drain")
    /\ UNCHANGED <<mode, clock, helper, remoteVars, sent, exit_code, read, report>>

\* _close_bounded starts a daemon thread that closes the channel.
StartClose ==
    /\ At("close")
    /\ pc' = "closing"
    /\ UNCHANGED <<mode, clock, helper, remoteVars, sent, exit_code, read, verdict, report>>

\* sudo's answer is in the output: its last chunk completes it.
MarkerRead == process = "refused" /\ read = Chunks

\* Mutant: the markers are not looked for.
NoMarkers == "result"

\* execute_command on the ChannelOutput.
Classified ==
    IF mode = "plain" \/ exit_code = 0 \/ ~MarkerRead THEN "result"
    ELSE IF mode = "stdin" THEN "sudo_failed" ELSE "sudo_required"

Return ==
    /\ At("closing")
    /\ channel.closed \/ Expired
    /\ pc' = "returned"
    /\ report' = IF verdict = "output" THEN Classified ELSE verdict
    /\ UNCHANGED <<mode, clock, helper, remoteVars, sent, exit_code, read, verdict>>

-----------------------------------------------------------------------------
(* The daemon threads.                                                      *)

\* The call that is waited for ends: exec_command with the server's answer; on
\* a channel that has been closed (a refused request closes it) it fails.
HelperAnswers ==
    /\ helper = "busy"
    /\ \/ /\ At("exec_wait") => request = "acknowledged"
          /\ helper' = "answered"
          /\ UNCHANGED request
       \/ /\ channel.closed
          /\ pc \in {"exec_wait", "shutdown_wait"}
          /\ At("exec_wait") => request # "acknowledged"
          /\ helper' = "failed"
          /\ request' = IF request = "calling" THEN "none" ELSE request
    /\ UNCHANGED <<mode, connected, pc, clock, process, channel, sent, exit_code,
                   read, verdict, report>>

\* exec_command sends the request, also when nobody waits for it any more.
HelperSends ==
    /\ request = "calling"
    /\ ~channel.closed
    /\ request' = "sent"
    /\ UNCHANGED <<mode, connected, pc, clock, helper, process, channel, sent,
                   exit_code, read, verdict, report>>

\* channel.close(); it may hang.
CloserCloses ==
    /\ pc \in {"closing", "returned"} /\ verdict # None
    /\ ~channel.closed
    /\ channel' = [channel EXCEPT !.closed = TRUE]
    /\ UNCHANGED <<mode, connected, pc, clock, helper, request, process, sent,
                   exit_code, read, verdict, report>>

-----------------------------------------------------------------------------
(* The server and the transport thread.                                     *)

callerVars == <<mode, connected, pc, clock, helper, sent, exit_code, read, verdict, report>>

\* The request reaches the server, also over a channel closed on this side; its
\* acknowledgement is the first thing to arrive.
ServerAccepts ==
    /\ request = "sent"
    /\ request' = "accepted"
    /\ UNCHANGED <<process, channel, callerVars>>

Acknowledged ==
    /\ request = "accepted"
    /\ ~channel.closed
    /\ request' = "acknowledged"
    /\ UNCHANGED <<process, channel, callerVars>>

\* sudo refuses at once without a password, or the password it was given.
ServerActs ==
    /\ request \in {"accepted", "acknowledged"}
    /\ process = "waiting"
    /\ \/ process' = "ran"
       \/ /\ mode = "noninteractive" \/ (mode = "stdin" /\ sent = Pieces)
          /\ process' = "refused"
    /\ UNCHANGED <<request, channel, callerVars>>

Arrives(next) ==
    /\ request = "acknowledged"
    /\ process # "waiting"
    /\ ~channel.closed
    /\ channel' = next
    /\ UNCHANGED <<request, process, callerVars>>

OutputArrives ==
    /\ channel.arrived < Chunks /\ ~channel.eof
    /\ Arrives([channel EXCEPT !.arrived = @ + 1])

StatusArrives ==
    /\ channel.status = None
    /\ \E code \in {0, 1} :
        /\ process = "refused" => code = 1
        /\ Arrives([channel EXCEPT !.status = code])

EOFArrives ==
    /\ ~channel.eof
    /\ process = "refused" => channel.arrived = Chunks
    /\ Arrives([channel EXCEPT !.eof = TRUE])

\* The server closes the channel, or the connection is lost.
ChannelCloses ==
    /\ pc \notin {"start", "open"}
    /\ ~channel.closed
    /\ channel' = [channel EXCEPT !.closed = TRUE]
    /\ UNCHANGED <<request, process, callerVars>>

-----------------------------------------------------------------------------
Caller ==
    \/ Start \/ OpenSession \/ ExecCommand \/ ExecReturns \/ Send \/ ShutdownWrite
    \/ Drain("drain", "status") \/ CheckStatus \/ RecvExitStatus \/ CheckClosed
    \/ CheckEnd \/ Drain("last", "check") \/ CheckReady \/ Sleep \/ StartClose \/ Return

Helpers == HelperAnswers \/ HelperSends \/ CloserCloses

Server == ServerAccepts \/ Acknowledged \/ ServerActs \/ OutputArrives
          \/ StatusArrives \/ EOFArrives \/ ChannelCloses

Next == Caller \/ Tick \/ Helpers \/ Server

\* The caller's thread runs and time passes; the server and Paramiko owe nothing.
Fairness == WF_vars(Caller) /\ WF_vars(Tick)

Spec == Init /\ [][Next]_vars /\ Fairness

-----------------------------------------------------------------------------
(* Properties.                                                              *)

Statements ==
    {"start", "open", "exec", "exec_wait", "send", "shutdown", "shutdown_wait", "drain",
     "status", "status_wait", "closed", "end", "last", "check", "sleep", "close",
     "closing", "returned"}

\* The types of the variables.
TypeOK ==
    /\ mode \in Modes /\ connected \in BOOLEAN
    /\ pc \in Statements
    /\ clock \in 0 .. Deadline
    /\ helper \in {"none", "busy", "answered", "failed"}
    /\ request \in {"none", "calling", "sent", "accepted", "acknowledged"}
    /\ process \in {"waiting", "ran", "refused"}
    /\ channel \in [arrived : 0 .. Chunks, status : {None, 0, 1},
                    eof : BOOLEAN, closed : BOOLEAN]
    /\ sent \in 0 .. Pieces
    /\ exit_code \in {None, 0, 1}
    /\ read \in 0 .. Chunks
    /\ verdict \in {None, "output", "timeout", "eof"}
    /\ report \in {None, "not_connected", "timeout", "eof", "result",
                   "sudo_required", "sudo_failed"}

\* The channel was closed before its output ended.
Lost == channel.closed /\ ~channel.eof

\* An output is returned with the exit status the server sent and with all that
\* arrived, and not before it has ended or the channel was closed, in whatever
\* order status, chunks and end arrive between the reads (ChannelRunner.run).
WholeOutput ==
    verdict = "output" =>
        /\ exit_code # None /\ exit_code = channel.status
        /\ read = channel.arrived
        /\ channel.eof \/ channel.closed

\* Every call returns, whatever the server, Paramiko or a thread that closes
\* the channel leaves undone (_bounded_call, _remaining, _close_bounded).
CallEnds == pc = "start" ~> pc = "returned"

\* One command and one truthful report of it (ChannelRunner, execute_command).
Call == INSTANCE RemoteCall
        WITH encodable <- mode # "unencodable", remote <- process, lost <- Lost

ImplementsRemoteCall == Call!Spec

=============================================================================
