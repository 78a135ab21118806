-------------------------- MODULE MCAccessControl --------------------------
(* A small instance of AccessControl for TLC: its constants are in the      *)
(* configuration.                                                           *)
EXTENDS AccessControl
=============================================================================
