---------------------------- MODULE MCMultipart ----------------------------
(* TLC instances of Multipart. *)
EXTENDS Multipart
=============================================================================
