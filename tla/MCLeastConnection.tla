------------------------- MODULE MCLeastConnection --------------------------
(***************************************************************************)
(* A pool of three addresses, with up to two streams each.                 *)
(***************************************************************************)
EXTENDS LeastConnection

CONSTANTS a1, a2, a3

MCAddresses == <<a1, a2, a3>>

=============================================================================
