--------------------------- MODULE CommandPlanning ---------------------------
(***************************************************************************)
(* A planner that submits a command for authorization and then asks for    *)
(* less: one policy, one request in hand, and what authorize_command said  *)
(* of it.                                                                  *)
(***************************************************************************)
EXTENDS CommandPolicy

VARIABLES
    policy,    \* the policy in force
    request,   \* the request in hand
    verdict    \* what authorize_command said of it

vars == <<policy, request, verdict>>

Init ==
    /\ policy \in Policies
    /\ request \in Requests
    /\ verdict = "none"

Submit(q) ==
    /\ request' = q
    /\ verdict' = Verdict(q, policy)
    /\ UNCHANGED policy

SubmitFirst == verdict = "none" /\ Submit(request)
SubmitLess ==
    /\ verdict # "none"
    /\ \E less \in Requests : AsksNoMore(less, request) /\ Submit(less)

Next == SubmitFirst \/ SubmitLess

Spec == Init /\ [][Next]_vars

\* The checks, taken one after the other on shrinking sets of candidates,
\* authorize a request exactly if one rule of the policy of its run covers all
\* of it (_matching_rule).
VerdictIsDeserved == verdict # "none" => (verdict = "ok" <=> Authorized(request, policy))

\* Asking for less never costs the authorization: the ceilings and the names
\* of a rule are upper bounds in every dimension (_matching_rule).
LessIsAllowed == [][verdict = "ok" => verdict' = "ok"]_vars
=============================================================================
