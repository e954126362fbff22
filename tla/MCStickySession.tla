-------------------------- MODULE MCStickySession ---------------------------
(***************************************************************************)
(* A pool of three addresses, of which one to three work, and a browser    *)
(* that asks for a directory and for one below it.                         *)
(***************************************************************************)
EXTENDS StickySession

CONSTANTS a1, a2, a3, root, below

MCLists == {<<a1, a2, a3>>, <<a2, a3>>, <<a1, a2>>, <<a1>>}

MCAbove == [d \in {root, below} |-> IF d = root THEN <<root>> ELSE <<below, root>>]
=============================================================================
