---------------------------- MODULE MCOidcLogin ----------------------------
(* Two tabs of one browser, and enough flow ids that a login never waits for *)
(* one. The configurations choose the pages: the root, or one more.          *)
EXTENDS OidcLogin
=============================================================================
