------------------------------ MODULE MCClaudeApi ------------------------------
(***************************************************************************)
(* ClaudeApi for TLC: three objectives, one of them asked in two ways, for *)
(* a cache of two entries, and a purchase.                                 *)
(***************************************************************************)
EXTENDS ClaudeApi, TLC

CONSTANTS a1, a2, b1, c1, ta, tb, tc

NormalForm == (a1 :> ta) @@ (a2 :> ta) @@ (b1 :> tb) @@ (c1 :> tc)

===============================================================================
