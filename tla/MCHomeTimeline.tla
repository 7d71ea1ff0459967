----------------------------- MODULE MCHomeTimeline -----------------------------
(* A home timeline of a few statuses, with answers of two, and two polling loops. *)
EXTENDS HomeTimeline
================================================================================
