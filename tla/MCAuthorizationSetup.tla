---- MODULE MCAuthorizationSetup ----
(***************************************************************************)
(* Two sessions of one connection, the second opened while calls and       *)
(* releases of the first may still be under way, an edit of the connection *)
(* and a shutdown at any time.                                             *)
(***************************************************************************)
EXTENDS AuthorizationSetup
====
