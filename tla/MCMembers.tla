------------------------------ MODULE MCMembers ------------------------------
(* Two visitors, two names that differ in case only, three clicks; at first *)
(* nobody is there, or one user with a row.                                 *)
EXTENDS Members, TLC

CONSTANTS ann, Ann, v1, v2, c

MCNames == {ann, Ann}
MCFold == (ann :> ann) @@ (Ann :> ann)
MCStarts ==
  {[accounts |-> {}, watched |-> {}, newest |-> 0],
   [accounts |-> {[name |-> ann, owner |-> v1]},
    watched |-> {[user |-> ann, coin |-> c, key |-> 1]}, newest |-> 1]}
=============================================================================
