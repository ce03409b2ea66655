----------------------------- MODULE MCNameSync -----------------------------
(* Two users, up to three renames, an overlap of one instant and a feed that *)
(* may lag as much.                                                          *)
EXTENDS NameSync
=============================================================================
