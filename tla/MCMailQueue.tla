------------------------------ MODULE MCMailQueue ------------------------------
(* Instance of MailQueue for TLC.  No symmetry: a liveness property is     *)
(* checked.                                                                *)
EXTENDS MailQueue
=============================================================================
