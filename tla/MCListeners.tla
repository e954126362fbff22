---------------------------- MODULE MCListeners -----------------------------
(***************************************************************************)
(* A configuration with two ACME domains and a name with a local           *)
(* certificate, an HTTP client and two HTTPS clients.                      *)
(***************************************************************************)
EXTENDS Listeners

CONSTANTS d1, d2

MCDomains == <<d1, d2>>
=============================================================================
