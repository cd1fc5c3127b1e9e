---- MODULE MCCredentialActivation ----
(***************************************************************************)
(* Two requests of one connection, with edits, sign-ins, retries, crashes  *)
(* and failing steps up to the bounds.                                     *)
(***************************************************************************)
EXTENDS CredentialActivation
====
