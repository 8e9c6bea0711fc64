-------------------------- MODULE ConfirmedChanges --------------------------
(***************************************************************************)
(* What the GUI may rely on when it has applied a confirmed change: the    *)
(* facade it was given belongs to the generation the change was confirmed  *)
(* in, hears what becomes of the change while that generation lasts, is    *)
(* told an outcome before it is finished, and nothing afterwards.  At most *)
(* one change of a server is open, and none outlives its generation.       *)
(*                                                                         *)
(* A change that is called off is told a failure, even when its success    *)
(* was told just before: that is the one way to two outcomes.              *)
(***************************************************************************)
EXTENDS Naturals, Sequences

CONSTANT MaxChanges     \* bound: changes submitted

VARIABLES
    generation,     \* of the server's session
    told            \* what the facade of each change has been told

changesVars == <<generation, told>>

New == [generation |-> generation,
        started |-> 0, succeeded |-> 0, failed |-> 0, finished |-> 0]

Open(i) == told[i].finished = 0

Outcomes(i) == told[i].succeeded + told[i].failed

Init ==
    /\ generation = 0
    /\ told = <<>>

Submit ==
    /\ Len(told) < MaxChanges
    /\ \A i \in DOMAIN told : ~Open(i)
    /\ told' = Append(told, New)
    /\ UNCHANGED generation

\* The change is told something of its own generation.
Tell(i) ==
    /\ Open(i)
    /\ told[i].generation = generation
    /\ \/ /\ told[i].started = 0
          /\ Outcomes(i) = 0
          /\ told' = [told EXCEPT ![i].started = 1]
       \/ /\ Outcomes(i) = 0
          /\ \/ told' = [told EXCEPT ![i].succeeded = 1]
             \/ told' = [told EXCEPT ![i].failed = 1]
       \/ /\ Outcomes(i) = 1
          /\ told' = [told EXCEPT ![i].finished = 1]

CalledOff(i) == [told EXCEPT ![i].failed = @ + 1, ![i].finished = 1]

\* The user gives no password.
CallOff(i) ==
    /\ Open(i)
    /\ told[i].generation = generation
    /\ told' = CalledOff(i)
    /\ UNCHANGED generation

\* The connection is given up, and with it the change that is open.
Age ==
    /\ generation' = generation + 1
    /\ \/ /\ \A i \in DOMAIN told : ~Open(i)
          /\ UNCHANGED told
       \/ \E i \in DOMAIN told :
            /\ Open(i) /\ told[i].generation = generation
            /\ told' = CalledOff(i)

Next ==
    \/ Submit
    \/ \E i \in DOMAIN told : (Tell(i) /\ UNCHANGED generation) \/ CallOff(i)
    \/ Age

Spec == Init /\ [][Next]_changesVars
=============================================================================
