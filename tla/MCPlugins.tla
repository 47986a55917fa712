------------------------------ MODULE MCPlugins ------------------------------
(***************************************************************************)
(* Three files in up to two packages or in none, up to three targets, one  *)
(* of which may be a directory.                                            *)
(***************************************************************************)
EXTENDS Plugins
=============================================================================
