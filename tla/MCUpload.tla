------------------------------ MODULE MCUpload ------------------------------
(* An instance of module TokenUpload: one given and one generated name. *)
EXTENDS TokenUpload
=============================================================================
