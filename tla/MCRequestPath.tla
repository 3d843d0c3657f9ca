--------------------------- MODULE MCRequestPath ---------------------------
(* Instances of RequestPath and of Fallback for TLC, explored one after the *)
(* other: the first step decides which of the two runs.                     *)
EXTENDS RequestPath, Fallback, TLC

CONSTANTS r1, r2, f1, f2, sensitive

TwoFilters == <<f1, f2>>
SomePolicies ==
  {Policy("fail_closed"), Policy("fail_open"),
   Retry("retry_then_fail_closed", 1, 1), Retry("retry_then_degrade", 2, 1)}

\* A default that blocks or skips, floors that block or do not, and one
\* component, in the group or not, with every combination of overrides.
SomeFiles ==
  LET kinds == {Policy("fail_open"), Policy("fail_closed")}
      overrides == {NoPolicy, Retry("retry_then_fail_open", 2, 1),
                    Retry("retry_then_fail_closed", 1, 2),
                    Retry("retry_then_fail_closed", 0, 1)}
      none == [c \in {} |-> NoPolicy]
  IN [floor: {NoPolicy, Policy("fail_closed")},
      floors: [{sensitive} -> [Categories -> {NoPolicy, Policy("degrade_with_warn"),
                                              Policy("retry_then_fail_closed")}]],
      default: [Categories -> kinds],
      components: {none} \cup
        [{"claim_injection"} -> [group: {NoGroup, sensitive},
                                 override: [Categories -> overrides]]]]

Init == RequestInit /\ FallbackInit
Next ==
  \/ phase = "down" /\ RequestNext /\ UNCHANGED fallbackVars
  \/ /\ (\A r \in Requests: pc[r] = "new") /\ ~proxy_paused
     /\ policy = Policy("fail_closed")
     /\ FallbackNext /\ UNCHANGED requestVars
\* Every variable of both has its type; no chain is retried more often than
\* its policy says.
TypeOK == RequestTypeOK /\ FallbackTypeOK

Spec == Init /\ [][Next]_<<requestVars, fallbackVars>>
=============================================================================
