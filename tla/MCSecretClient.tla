--------------------------- MODULE MCSecretClient ---------------------------
(* Two tasks share the client; a login returns the default lease of 0 or one *)
(* instant more than the skew.                                               *)
EXTENDS SecretClient
=============================================================================
