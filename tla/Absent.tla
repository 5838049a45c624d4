------------------------------- MODULE Absent -------------------------------
(* undefined and null, in the modules of the web front end. *)
CONSTANT None
=============================================================================
