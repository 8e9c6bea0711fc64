----------------------------- MODULE RemoteCall -----------------------------
(***************************************************************************)
(* What SSHManager.execute_command promises about one command.  The server *)
(* runs it at most once, or sudo refuses it and it is never run.  The      *)
(* caller is told once: a result only of a command that has run, a missing *)
(* or wrong password only when sudo refused it.  When the call was cut off *)
(* the command may or may not have run, and may still run.                 *)
(*                                                                         *)
(* A password that cannot be encoded is told like a wrong one, at once:    *)
(* nothing is sent for it, sudo is not asked and the command never runs.   *)
(*                                                                         *)
(* One thing weakens that: when the connection is lost after the exit      *)
(* status and before the end of the output, sudo's refusal may be told as  *)
(* the failure of the command.                                             *)
(***************************************************************************)
CONSTANT None

VARIABLES
    encodable,  \* the password, if there is one, can be sent
    remote,     \* what has become of the command on the server
    lost,       \* the channel was closed before its output ended
    report      \* what the caller was told, or None

callVars == <<encodable, remote, lost, report>>

Init == encodable \in BOOLEAN /\ remote = "waiting" /\ lost = FALSE /\ report = None

Act ==
    /\ encodable
    /\ remote = "waiting"
    /\ report \in {None, "timeout", "eof"}
    /\ remote' \in {"ran", "refused"}
    /\ UNCHANGED <<encodable, lost, report>>

LoseChannel ==
    /\ ~lost
    /\ lost' = TRUE
    /\ UNCHANGED <<encodable, remote, report>>

Tell ==
    /\ report = None
    /\ \/ report' \in {"timeout", "eof"} /\ encodable
       \/ report' = "not_connected" /\ remote = "waiting"
       \/ report' = "result" /\ (remote = "ran" \/ (remote = "refused" /\ lost))
       \/ report' \in {"sudo_required", "sudo_failed"} /\ remote = "refused"
       \/ report' = "sudo_failed" /\ ~encodable
    /\ UNCHANGED <<encodable, remote, lost>>

Next == Act \/ LoseChannel \/ Tell

Spec == Init /\ [][Next]_callVars
=============================================================================
