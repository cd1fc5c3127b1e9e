---- MODULE MCKernelExecution ----
(* A public model with a route member and a nested model; two candidates. *)
EXTENDS KernelExecution

CONSTANTS root, child, g1, g2, a, b

MCMembersOf == [n \in {root, child} |-> IF n = root THEN {g1, child} ELSE {g2, root}]
MCRoutesOf == [g \in {g1, g2} |-> IF g = g1 THEN {a, b} ELSE {a}]

Ans(effect, retry, refresh, continuity, terminal) ==
  [effect |-> effect, retry |-> retry, refresh |-> refresh, continuity |-> continuity,
   terminal |-> terminal]

RateLimited == Ans("rejected", "after", FALSE, "none", FALSE)
Unauthorized == Ans("rejected", "never", TRUE, "none", FALSE)
BadRequest == Ans("rejected", "never", FALSE, "none", TRUE)
Overloaded == Ans("unknown", "after", FALSE, "none", FALSE)
AmbiguousAuth == Ans("unknown", "never", TRUE, "none", FALSE)
RestartRequired == Ans("rejected", "never", FALSE, "valid", TRUE)
MalformedRecovery == Ans("unknown", "never", FALSE, "malformed", FALSE)

MCAnswer == {RateLimited, Unauthorized, BadRequest, Overloaded, AmbiguousAuth,
             RestartRequired, MalformedRecovery}
====
