---- MODULE MCHealthPersistence ----
(* One connection: an authentication key, a route key and an operation key. *)
EXTENDS HealthPersistence

CONSTANTS auth, op, route, authRow, opRow, modelRow

MCCause == {"unknown", "auth", "model_not_found", "capacity"}
MCBaseDelay == [c \in MCCause |-> 2]

AuthOnly == [k \in {auth} |-> authRow]
RouteOnly == [k \in {route} |-> modelRow]
AuthAndRoute == [k \in {auth, route} |-> IF k = auth THEN authRow ELSE modelRow]
OpAndRoute == [k \in {op, route} |-> IF k = op THEN opRow ELSE modelRow]

Out(cause, scope, rejected) ==
  [cause |-> cause, scope |-> scope, retryIn |-> 0, rejected |-> rejected, never |-> rejected]

\* A success is evidence of the operation only.
MCOutcomes ==
  [k \in Key |->
     CASE k = auth  -> {Out("auth", "connection", TRUE)}
       [] k = op    -> {Out("capacity", "operation", FALSE), Out("success", "operation", FALSE)}
       [] k = route -> {Out("model_not_found", "route", TRUE)}]
====
