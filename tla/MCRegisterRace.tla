--------------------------- MODULE MCRegisterRace ---------------------------
(* RegisterRace instantiated for TLC: threads are model values.             *)
EXTENDS RegisterRace

CONSTANTS t1, t2, t3

MCOneRegistrar == {t1}
MCTwoRegistrars == {t1, t2}
MCForgetter == {t3}
=============================================================================
