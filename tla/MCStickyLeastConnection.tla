---------------------- MODULE MCStickyLeastConnection -----------------------
(***************************************************************************)
(* A pool of two addresses, with up to two streams each.                   *)
(***************************************************************************)
EXTENDS StickyLeastConnection

CONSTANTS a1, a2

MCAddresses == <<a1, a2>>
=============================================================================
