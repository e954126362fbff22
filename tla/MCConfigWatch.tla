--------------------------- MODULE MCConfigWatch ----------------------------
(***************************************************************************)
(* A file with two good contents, one of which needs a certificate from an *)
(* ACME server, one that is rejected and one that makes the reload panic.  *)
(***************************************************************************)
EXTENDS ConfigWatch, TLC

CONSTANTS plain, acme, bad, broken

MCKind == plain :> "plain" @@ acme :> "acme" @@ bad :> "rejected" @@ broken :> "panics"

=============================================================================
