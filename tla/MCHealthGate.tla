---- MODULE MCHealthGate ----
(* Instances of HealthGate: two models on one connection. *)
EXTENDS HealthGate, TLC

CONSTANTS r1, r2, c1, p1, create, oauth, q1, q2, q3

MCCause == {"unknown", "auth", "model_not_found", "rate_limited", "capacity",
            "request_invalid"}
MCLimitCause == {"rate_limited"}
MCBaseDelay == [c \in MCCause |-> IF c \in {"rate_limited", "auth"} THEN 2 ELSE 1]

SharedConnection == [r \in {r1, r2} |-> c1]
OneProvider == [c \in {c1} |-> p1]
OneFlow == [c \in {c1} |-> oauth]

Out(cause, scope, retryIn, rejected, never) ==
  [cause |-> cause, scope |-> scope, retryIn |-> retryIn,
   rejected |-> rejected, never |-> never]

Succeeded == Out("success", "operation", 0, FALSE, FALSE)
Unauthorized == Out("auth", "connection", 0, TRUE, TRUE)
ModelGone == Out("model_not_found", "route", 0, TRUE, TRUE)
Overloaded == Out("capacity", "provider", 0, FALSE, FALSE)
TooManyRequests == Out("rate_limited", "operation", 2, TRUE, FALSE)
NetworkLost == Out("capacity", "operation", 0, FALSE, FALSE)
ServerFailed == Out("capacity", "route", 0, FALSE, FALSE)
BadRequest == Out("request_invalid", "route", 0, TRUE, TRUE)

MCOutcome == {Succeeded, Unauthorized, ModelGone, Overloaded, TooManyRequests, ServerFailed}
RequestSymmetry == Permutations(Request)
TrialOutcome == {Succeeded, Overloaded}
\* An authoritative reset later than any estimate (MaxDelay).
HourlyLimit == Out("rate_limited", "operation", 3, TRUE, FALSE)
LimitOutcome == {HourlyLimit, NetworkLost}
ClientOutcome == {BadRequest, Succeeded}
====
