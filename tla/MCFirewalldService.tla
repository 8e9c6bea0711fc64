------------------------- MODULE MCFirewalldService -------------------------
(* Two zones: the one to change and one beside it.                          *)
EXTENDS FirewalldService, TLC

CONSTANTS z1, z2

MCZones    == {z1, z2}
MCSymmetry == Permutations(MCZones)
=============================================================================
