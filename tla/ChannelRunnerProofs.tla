------------------------- MODULE ChannelRunnerProofs -------------------------
(***************************************************************************)
(* One remote command, for any amount of output, any number of sends of    *)
(* the password and any deadline: an output that is returned is whole, and *)
(* what the caller is told of sudo and of the command is true.             *)
(***************************************************************************)
EXTENDS ChannelRunner, TLAPS

\* How far the call is and what has been decided: no verdict before the channel
\* is to be closed, no answer before the end, and no request for a password that
\* cannot be encoded.
ProgressInv ==
    /\ verdict # None => pc \in {"close", "closing", "returned"}
    /\ pc \in {"close", "closing"} => verdict # None
    /\ report # None <=> pc = "returned"
    /\ pc \in {"start", "open", "exec", "exec_wait", "send"} => sent < Pieces
    /\ pc \in {"start", "open", "exec"} => request = "none"
    /\ report = "not_connected" => request = "none" /\ verdict = None
    /\ mode = "unencodable" => pc \in {"start", "returned"} /\ request = "none" /\ verdict = None

\* What the server did, and what of it has arrived: nothing before the command
\* was run or refused, sudo's refusal ends with a status of 1, and comes with
\* all of its output before its end.
ServerInv ==
    /\ process # "waiting" => request \in {"accepted", "acknowledged"}
    /\ process = "waiting" => channel.status = None /\ ~channel.eof
    /\ process = "refused" =>
        /\ mode # "plain"
        /\ channel.status \in {None, 1}
        /\ channel.eof => channel.arrived = Chunks

\* What the caller has read of it: never more than arrived, no other status than
\* the one sent, and all of it from the last drain on.
ReadingInv ==
    /\ read <= channel.arrived
    /\ exit_code # None => exit_code = channel.status
    /\ pc \in {"last", "check"} => Ended
    /\ WholeOutput

\* An answer that is a result, of the command or of sudo, rests on a whole output,
\* but for the password that cannot be encoded.
AnswerInv ==
    /\ report \in {"result", "sudo_required"} => process # "waiting"
    /\ report = "sudo_failed" => process # "waiting" \/ mode = "unencodable"

CallInv == ProgressInv /\ ServerInv /\ ReadingInv /\ AnswerInv

-----------------------------------------------------------------------------
(* The invariant.                                                           *)

\* Nothing has been called, run or read at first.
THEOREM InitCall == Init => TypeOK /\ CallInv
<1> SUFFICES ASSUME Init PROVE TypeOK /\ CallInv
  OBVIOUS
<1>1. TypeOK
  BY BoundsAssumption, ModesAssumption DEF Init, TypeOK, Statements
<1>2. CallInv
  BY NoneAssumption, BoundsAssumption
  DEF Init, CallInv, ProgressInv, ServerInv, ReadingInv, AnswerInv, WholeOutput
<1> QED
  BY <1>1, <1>2


\* Every statement of the caller, of a daemon thread and of the server keeps it.
THEOREM NextCall == TypeOK /\ CallInv /\ [Next]_vars => TypeOK' /\ CallInv'
<1> SUFFICES ASSUME TypeOK, CallInv, [Next]_vars PROVE TypeOK' /\ CallInv'
  OBVIOUS
<1> USE BoundsAssumption, NoneAssumption
    DEF TypeOK, Statements, CallInv, ProgressInv, ServerInv, ReadingInv, AnswerInv, WholeOutput,
        Ended
<1>1. CASE Start
  BY <1>1 DEF Start, At, Expired, Raise, remoteVars
<1>2. CASE OpenSession
  BY <1>2 DEF OpenSession, At, Expired, Raise, remoteVars
<1>3. CASE ExecCommand
  BY <1>3 DEF ExecCommand, StartCall, Timed, At, Expired, Raise, remoteVars
<1>4. CASE ExecReturns
  BY <1>4 DEF ExecReturns, Await, Timed, Fails, AfterExec, At, Expired, Raise, remoteVars
<1>5. CASE Send
  BY <1>5 DEF Send, Fails, RemainingData, At, Expired, Raise, remoteVars
<1>6. CASE ShutdownWrite
  BY <1>6 DEF ShutdownWrite, StartCall, Await, Timed, Fails, At, Expired, Raise, remoteVars
<1>7. CASE Drain("drain", "status")
  BY <1>7 DEF Drain, Timed, Buffered, At, Expired, Raise, remoteVars
<1>8. CASE CheckStatus
  BY <1>8 DEF CheckStatus, StartCall, Timed, ExitStatusReady, At, Expired, Raise, remoteVars
<1>9. CASE RecvExitStatus
  BY <1>9 DEF RecvExitStatus, At, Expired, Raise, remoteVars
<1>10. CASE CheckClosed
  BY <1>10 DEF CheckClosed, At, Expired, Raise, remoteVars
<1>11. CASE CheckEnd
  BY <1>11 DEF CheckEnd, At, Expired, Raise, remoteVars
<1>12. CASE Drain("last", "check")
  BY <1>12 DEF Drain, Timed, Buffered, At, Expired, Raise, remoteVars
<1>13. CASE CheckReady
  BY <1>13 DEF CheckReady, Buffered, At, Expired, Raise, remoteVars
<1>14. CASE Sleep
  BY <1>14 DEF Sleep, Timed, At, Expired, Raise, remoteVars
<1>15. CASE StartClose
  BY <1>15 DEF StartClose, At, Expired, Raise, remoteVars
<1>16. CASE Return
  BY <1>16 DEF Return, Classified, MarkerRead, At, Expired, Raise, remoteVars
<1>17. CASE Tick
  BY <1>17 DEF Tick, remoteVars
<1>18. CASE HelperAnswers
  BY <1>18 DEF HelperAnswers, At
<1>19. CASE HelperSends
  BY <1>19 DEF HelperSends, At
<1>20. CASE CloserCloses
  <2>1. channel' = [channel EXCEPT !.closed = TRUE]
    BY <1>20 DEF CloserCloses
  <2>2. /\ channel' \in [arrived : 0 .. Chunks, status : {None, 0, 1},
                         eof : BOOLEAN, closed : BOOLEAN]
        /\ channel'.arrived = channel.arrived /\ channel'.status = channel.status
        /\ channel'.closed = TRUE /\ channel'.eof = channel.eof
    BY <2>1
  <2> QED
    BY <1>20, <2>2 DEF CloserCloses, callerVars
<1>21. CASE ServerAccepts
  BY <1>21 DEF ServerAccepts, callerVars
<1>22. CASE Acknowledged
  BY <1>22 DEF Acknowledged, callerVars
<1>23. CASE ServerActs
  BY <1>23 DEF ServerActs, callerVars
<1>24. CASE OutputArrives
  BY <1>24 DEF OutputArrives, Arrives, callerVars
<1>25. CASE StatusArrives
  BY <1>25 DEF StatusArrives, Arrives, callerVars
<1>26. CASE EOFArrives
  <2>1. channel' = [channel EXCEPT !.eof = TRUE]
    BY <1>26 DEF EOFArrives, Arrives
  <2>2. /\ channel' \in [arrived : 0 .. Chunks, status : {None, 0, 1},
                         eof : BOOLEAN, closed : BOOLEAN]
        /\ channel'.arrived = channel.arrived /\ channel'.status = channel.status
        /\ channel'.eof = TRUE /\ channel'.closed = channel.closed
    BY <2>1
  <2> QED
    BY <1>26, <2>2 DEF EOFArrives, Arrives, callerVars
<1>27. CASE ChannelCloses
  <2>1. channel' = [channel EXCEPT !.closed = TRUE]
    BY <1>27 DEF ChannelCloses
  <2>2. /\ channel' \in [arrived : 0 .. Chunks, status : {None, 0, 1},
                         eof : BOOLEAN, closed : BOOLEAN]
        /\ channel'.arrived = channel.arrived /\ channel'.status = channel.status
        /\ channel'.closed = TRUE /\ channel'.eof = channel.eof
    BY <2>1
  <2> QED
    BY <1>27, <2>2 DEF ChannelCloses, callerVars
<1>28. CASE UNCHANGED vars
  BY <1>28 DEF vars
<1> QED
  BY <1>1, <1>2, <1>3, <1>4, <1>5, <1>6, <1>7, <1>8, <1>9, <1>10, <1>11, <1>12, <1>13, <1>14, <1>15, <1>16, <1>17, <1>18, <1>19, <1>20, <1>21, <1>22, <1>23, <1>24, <1>25, <1>26, <1>27, <1>28
  DEF Next, Caller, Helpers, Server

-----------------------------------------------------------------------------
(* The refinement.                                                          *)

\* A call that has not begun has run nothing and told nothing.
THEOREM InitMaps == Init => Call!Init
BY DEF Init, Call!Init, Lost

\* The statements of the caller but the first and the last, the clock and the
\* daemon threads' calls are no steps of RemoteCall.
LEMMA QuietSteps ==
  ASSUME UNCHANGED <<mode, process, channel, report>>
  PROVE  UNCHANGED Call!callVars
BY DEF Call!callVars, Lost

\* The caller is told once, and of the command and of sudo only what the server
\* did, a failed command being an unfinished refusal when the connection was lost.
LEMMA ReturnMaps ==
  ASSUME TypeOK, CallInv, Return
  PROVE  Call!Tell
<1> USE NoneAssumption
<1>1. /\ report = None /\ verdict \in {"output", "timeout", "eof"}
      /\ report' = IF verdict = "output" THEN Classified ELSE verdict
      /\ UNCHANGED <<mode, process, channel>> /\ mode # "unencodable"
  BY DEF Return, At, TypeOK, CallInv, ProgressInv, remoteVars
<1>2. UNCHANGED <<(mode # "unencodable"), process, Lost>>
  BY <1>1 DEF Lost
<1>3. CASE verdict # "output"
  BY <1>1, <1>2, <1>3 DEF Call!Tell
<1>4. CASE verdict = "output"
  <2>1. /\ exit_code # None /\ exit_code = channel.status /\ read = channel.arrived
        /\ channel.eof \/ channel.closed
    BY <1>4 DEF CallInv, ReadingInv, WholeOutput
  <2>2. process \in {"ran", "refused"}
    BY <2>1 DEF TypeOK, CallInv, ServerInv
  <2>3. CASE process = "ran"
    BY <1>1, <1>2, <1>4, <2>3 DEF Classified, MarkerRead, Call!Tell
  <2>4. CASE process = "refused"
    <3>1. mode # "plain" /\ exit_code = 1
      BY <2>1, <2>4 DEF CallInv, ServerInv
    <3>2. CASE read = Chunks
      BY <1>1, <1>2, <1>4, <2>4, <3>1, <3>2 DEF Classified, MarkerRead, Call!Tell
    <3>3. CASE read # Chunks
      <4>1. Lost
        BY <2>1, <2>4, <3>3 DEF CallInv, ServerInv, Lost
      <4> QED
        BY <1>1, <1>2, <1>4, <2>4, <3>1, <3>3, <4>1 DEF Classified, MarkerRead, Call!Tell
    <3> QED
      BY <3>2, <3>3
  <2> QED
    BY <2>2, <2>3, <2>4
<1> QED
  BY <1>3, <1>4

\* Every step is one of RemoteCall or none.
THEOREM NextMaps == TypeOK /\ CallInv /\ [Next]_vars => [Call!Next]_(Call!callVars)
<1> SUFFICES ASSUME TypeOK, CallInv, [Next]_vars
             PROVE  Call!Next \/ UNCHANGED Call!callVars
  OBVIOUS
<1>1. CASE Start
  <2>1. process = "waiting" /\ report = None /\ UNCHANGED <<mode, process, channel>>
    BY <1>1 DEF Start, At, remoteVars, TypeOK, CallInv, ProgressInv, ServerInv
  <2>2. CASE report' = "not_connected"
    BY <2>1, <2>2 DEF Call!Next, Call!Tell, Lost
  <2>3. CASE report' = "sudo_failed" /\ mode = "unencodable"
    BY <2>1, <2>3 DEF Call!Next, Call!Tell, Lost
  <2>4. CASE UNCHANGED report
    BY <2>1, <2>4, QuietSteps
  <2> QED
    BY <1>1, <2>2, <2>3, <2>4 DEF Start
<1>2. CASE OpenSession
  <2>1. report = None /\ UNCHANGED <<mode, process, channel>> /\ mode # "unencodable"
    BY <1>2 DEF OpenSession, At, remoteVars, CallInv, ProgressInv
  <2>2. CASE report' \in {"timeout", "eof"}
    BY <2>1, <2>2 DEF Call!Next, Call!Tell, Lost
  <2>3. CASE UNCHANGED report
    BY <2>1, <2>3, QuietSteps
  <2> QED
    BY <1>2, <2>2, <2>3 DEF OpenSession
<1>3. CASE Return
  BY <1>3, ReturnMaps DEF Call!Next
<1>4. CASE \/ ExecCommand \/ ExecReturns \/ Send \/ ShutdownWrite
           \/ Drain("drain", "status") \/ CheckStatus \/ RecvExitStatus \/ CheckClosed
           \/ CheckEnd \/ Drain("last", "check") \/ CheckReady \/ Sleep \/ StartClose
           \/ Tick \/ HelperAnswers \/ HelperSends \/ ServerAccepts \/ Acknowledged
           \/ UNCHANGED vars
  <2>1. UNCHANGED <<mode, process, channel, report>>
    BY <1>4
    DEF ExecCommand, ExecReturns, Send, ShutdownWrite, Drain, CheckStatus, RecvExitStatus,
        CheckClosed, CheckEnd, CheckReady, Sleep, StartClose, Tick, HelperAnswers,
        HelperSends, ServerAccepts, Acknowledged, remoteVars, callerVars, vars
  <2> QED
    BY <2>1, QuietSteps
<1>5. CASE CloserCloses \/ ChannelCloses
  <2>1. /\ channel' = [channel EXCEPT !.closed = TRUE] /\ ~channel.closed
        /\ UNCHANGED <<mode, process, report>>
    BY <1>5 DEF CloserCloses, ChannelCloses, callerVars
  <2>2. channel'.closed /\ channel'.eof = channel.eof
    BY <2>1 DEF TypeOK
  <2>3. CASE channel.eof
    BY <2>1, <2>2, <2>3 DEF Call!callVars, Lost
  <2>4. CASE ~channel.eof
    <3>1. Lost = FALSE /\ Lost' = TRUE
      BY <2>1, <2>2, <2>4 DEF Lost
    <3> QED
      BY <2>1, <3>1 DEF Call!Next, Call!LoseChannel
  <2> QED
    BY <2>3, <2>4
<1>6. CASE OutputArrives \/ StatusArrives \/ EOFArrives
  <2>1. ~channel.closed /\ UNCHANGED <<mode, process, report>>
    BY <1>6 DEF OutputArrives, StatusArrives, EOFArrives, Arrives, callerVars
  <2>2. channel'.closed = channel.closed
    BY <1>6 DEF OutputArrives, StatusArrives, EOFArrives, Arrives, TypeOK
  <2>3. Lost = FALSE /\ Lost' = FALSE
    BY <2>1, <2>2 DEF Lost
  <2> QED
    BY <2>1, <2>3 DEF Call!callVars
<1>7. CASE ServerActs
  <2>1. /\ process = "waiting" /\ process' \in {"ran", "refused"}
        /\ UNCHANGED <<mode, channel, report>> /\ mode # "unencodable"
        /\ request \in {"accepted", "acknowledged"}
    BY <1>7 DEF ServerActs, callerVars, CallInv, ProgressInv
  <2>2. report \in {None, "timeout", "eof"}
    BY <2>1 DEF TypeOK, CallInv, ProgressInv, AnswerInv
  <2>3. UNCHANGED Lost
    BY <2>1 DEF Lost
  <2> QED
    BY <2>1, <2>2, <2>3 DEF Call!Next, Call!Act
<1> QED
  BY <1>1, <1>2, <1>3, <1>4, <1>5, <1>6, <1>7 DEF Next, Caller, Helpers, Server

-----------------------------------------------------------------------------
(* The theorems of the specification.                                       *)

\* The inductive invariant: how far the call is, what the server did and what has
\* been read of it are always in step.
THEOREM CallInOrder == Spec => [](TypeOK /\ CallInv)
BY InitCall, NextCall, PTL DEF Spec

\* The variables have their types: no more is read than has arrived, and no more
\* of the password sent than there is (ChannelRunner._drain, _send_all).
THEOREM TypeCorrect == Spec => []TypeOK
BY CallInOrder, PTL

\* A returned output is whole and has the status the server sent, in whatever
\* order its parts arrive (ChannelRunner.run).
THEOREM OutputIsWhole == Spec => []WholeOutput
<1>1. CallInv => WholeOutput
  BY DEF CallInv, ReadingInv
<1> QED
  BY <1>1, CallInOrder, PTL

\* One truthful report of one command, for any bounds: the command implements
\* RemoteCall (ChannelRunner.run, SSHManager.execute_command).
THEOREM TruthfulReport == Spec => ImplementsRemoteCall
BY CallInOrder, InitMaps, NextMaps, PTL DEF Spec, ImplementsRemoteCall, Call!Spec
=============================================================================
