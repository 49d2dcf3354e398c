----------------------------- MODULE MCSession -----------------------------
(* The storage with a directory that has one entry, what is above the storage, and a
   directory beside it whose name goes on after the storage's. *)
EXTENDS Session

CONSTANTS s1, s2
MCOne == {s1}
MCTwo == {s1, s2}
MCSymmetry == Permutations(MCTwo)

MCStorage == <<"r">>
MCTree == {<<>>, <<"r">>, <<"r", "d">>, <<"r", "d", "e">>}
MCSibling == {<<>>, <<"r">>, <<"r", "d">>, <<"r2">>}
MCRoots == {<<>>, <<"r">>, <<"r", "d">>}
MCContinued == {<<"r2", "r">>}

(* "/", "/r", "/r/d", "/r/d/e"; "/r2" *)
MCLength == [p \in Paths |-> CASE p = <<>> -> 1 [] p = <<"r2">> -> 3 [] OTHER -> 2 * Len(p)]
============================================================================
