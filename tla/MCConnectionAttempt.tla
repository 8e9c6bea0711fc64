------------------------ MODULE MCConnectionAttempt ------------------------
(* Three attempts of one server: one given up, one failing or live, one more *)
(* while close jobs of the others are still open.                            *)
EXTENDS ConnectionAttempt

CONSTANTS a1, a2, a3

MCAttempts == {a1, a2, a3}
=============================================================================
