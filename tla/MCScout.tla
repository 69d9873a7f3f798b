-------------------------------- MODULE MCScout --------------------------------
(***************************************************************************)
(* Scout for TLC.  One tick is six hours, so a day has four of them, the   *)
(* limits of 6, 24 and 48 hours are 1, 4 and 8 ticks, and the quiet hours, *)
(* 22 to 8, are rounded to whole ticks, 18 to 6.                           *)
(***************************************************************************)
EXTENDS Scout, TLC

CONSTANTS m1, e1, e2, e3

(* Two purchases of one member, one of high value, and a refund.           *)
OneMember == (e1 :> m1) @@ (e2 :> m1) @@ (e3 :> m1)

Symmetry == Permutations(Calls)

===============================================================================
