-------------------------- MODULE MCOutputPublish --------------------------
(***************************************************************************)
(* Three runs on one output: a first one, one that finds what a crash or a *)
(* failure left behind, and one that replaces what was published.          *)
(***************************************************************************)
EXTENDS OutputPublish

=============================================================================
