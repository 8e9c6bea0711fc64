--------------------------- MODULE MCHostKeyStore ---------------------------
(* Two profiles of one host; two keys of one algorithm and one of another.  *)
EXTENDS HostKeyStore

CONSTANTS host, k1, k2, k3

MCNameOf == [p \in Profiles |-> host]
MCAlgorithmOf == [k \in Keys |-> IF k = k3 THEN "ed25519" ELSE "rsa"]
=============================================================================
