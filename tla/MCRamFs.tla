------------------------------- MODULE MCRamFs -------------------------------
(* RamFs instantiated for TLC: the constants the .cfg files substitute.      *)
EXTENDS RamFs, TLC

CONSTANTS a, b, c, dot, dotdot

MCUserNames2 == {a, b}
MCUserNames3 == {a, b, c}
\* The user names are interchangeable: no handler looks at a name's value.
NameSymmetry2 == Permutations(MCUserNames2)
NameSymmetry3 == Permutations(MCUserNames3)
=============================================================================
