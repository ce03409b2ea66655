--------------------------- MODULE MCOidcSession ---------------------------
(* The instance of OidcSession that TLC checks.                              *)
EXTENDS OidcSession
=============================================================================
