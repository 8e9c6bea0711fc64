--------------------------- MODULE TrustDecisions ---------------------------
(***************************************************************************)
(* What the store of SSH host keys promises: a set of decisions [name, key] *)
(* to which only new ones are added.  A name has one key of an algorithm;   *)
(* another one does not replace it, the user has to remove it, with the     *)
(* program closed (README.md, "SSH host-key recovery").  Loss of power may  *)
(* undo the latest decisions, never a part of one or an older one before a  *)
(* newer.                                                                   *)
(***************************************************************************)
CONSTANTS
    Names,          \* host names with their ports
    Keys,           \* the public keys a host may present
    AlgorithmOf     \* the algorithm of each key

Entry(name, key) == [name |-> name, key |-> key]

Entries == [name : Names, key : Keys]

\* Two different keys for one name and algorithm.
Conflict(e, f) ==
    /\ e.name = f.name
    /\ AlgorithmOf[e.key] = AlgorithmOf[f.key]
    /\ e.key # f.key

Consistent(decisions) == \A e, f \in decisions : ~Conflict(e, f)

VARIABLES
    trusted,    \* the decisions taken
    past        \* the states of it that a loss of power may bring back

trustVars == <<trusted, past>>

Init ==
    /\ trusted \in {d \in SUBSET Entries : Consistent(d)}
    /\ past = {trusted}

Trust(e) ==
    /\ e \notin trusted
    /\ \A f \in trusted : ~Conflict(e, f)
    /\ trusted' = trusted \cup {e}
    /\ past' = past \cup {trusted'}

Settle ==
    /\ past' = {trusted}
    /\ UNCHANGED trusted

Lose ==
    /\ trusted' \in past
    /\ past' = {trusted'}

\* The user edits the file.
Revoke(e) ==
    /\ trusted' = trusted \ {e}
    /\ past' = {trusted'}

Next == (\E e \in Entries : Trust(e) \/ Revoke(e)) \/ Settle \/ Lose

Spec == Init /\ [][Next]_trustVars
=============================================================================
