-------------------------------- MODULE MCDrafts --------------------------------
(* A composer opened once or twice. *)
EXTENDS Drafts
================================================================================
