--------------------------- MODULE MCContextScoring ---------------------------
(***************************************************************************)
(* ContextScoring for TLC: values on both sides of the limits of the       *)
(* scales, and a location service that finds no store, one or two.         *)
(***************************************************************************)
EXTENDS ContextScoring

Lists == {<< >>, <<499>>, <<999, 1500>>, <<2000>>}

Degrees == {-1, 0}

===============================================================================
