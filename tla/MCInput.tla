------------------------------ MODULE MCInput ------------------------------
(***************************************************************************)
(* Finite instance of Input: a button, a key and two touch contacts.       *)
(***************************************************************************)
EXTENDS Input
=============================================================================
