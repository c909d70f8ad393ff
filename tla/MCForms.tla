------------------------------- MODULE MCForms -------------------------------
(* Instances of Forms: two transactions and two inputs of every form. *)
EXTENDS Forms
=============================================================================
