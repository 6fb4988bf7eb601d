----------------------------- MODULE MCDesktop -----------------------------
(* Desktop with a project a that has a log and a project b without one,    *)
(* and two sidecars.                                                       *)
EXTENDS Desktop

CONSTANTS a, b, s1, s2

MCLogged == [p \in Projects |-> IF p = a THEN <<1>> ELSE <<>>]
MCReaches == {<<"other", "none", "here">>, <<"other", "none">>}
\* Items and reads of two turns, one after the other.
MCMaxItems == <<3, 0>>
MCMaxReads == <<1, 2>>
=============================================================================
