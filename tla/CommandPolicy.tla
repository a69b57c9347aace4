---------------------------- MODULE CommandPolicy ----------------------------
(***************************************************************************)
(* Authorization of a command before it is started                         *)
(* (domain/command_policy.py): a request is checked against the policy its *)
(* run is pinned to, in a fixed order, and only a request that a trusted   *)
(* rule covers completely is authorized.  The rules are a set: their order *)
(* only decides which of several covering rules is recorded.               *)
(***************************************************************************)
EXTENDS Naturals, FiniteSets

CONSTANTS
    Requests,  \* command requests that are submitted
    Policies   \* policies that may be in force

\* The four numbers of CommandLimits.
Dimensions == {"timeout", "grace", "stdout", "stderr"}
Within(limits, maximum) == \A d \in Dimensions : limits[d] <= maximum[d]

\* A value of CommandPolicy can only be built with rules for actions that the
\* contract allows and does not deny.
WellFormedPolicy(policy) ==
    \A rule \in policy.rules : rule.action \in policy.allowed \ policy.denied

ASSUME PolicyAssumption ==
    /\ \A request \in Requests : request.limits \in [Dimensions -> Nat]
    /\ \A policy \in Policies :
        /\ WellFormedPolicy(policy)
        /\ \A rule \in policy.rules : rule.max \in [Dimensions -> Nat]

-----------------------------------------------------------------------------
(* _matching_rule: the candidates left after each check. *)

ForAction(q, policy) == {rule \in policy.rules : rule.action = q.action}
ForExecutable(q, policy) == {rule \in ForAction(q, policy) : rule.executable = q.executable}
ForArguments(q, policy) == {rule \in ForExecutable(q, policy) : rule.arguments = q.arguments}
ForDirectory(q, policy) == {rule \in ForArguments(q, policy) : rule.directory = q.directory}

ForEnvironment_AnyName(q, policy) ==
    {rule \in ForDirectory(q, policy) : q.names \cap rule.names # {} \/ q.names = {}}

ForEnvironment(q, policy) ==
    {rule \in ForDirectory(q, policy) : q.names \subseteq rule.names /\ rule.network = q.network}

ForLimits_Exact(q, policy) ==
    {rule \in ForEnvironment(q, policy) : rule.max = q.limits}

ForLimits(q, policy) == {rule \in ForEnvironment(q, policy) : Within(q.limits, rule.max)}

Verdict(q, policy) ==
    IF q.hash # policy.hash THEN "policy_hash_mismatch"
    ELSE IF q.action \notin policy.allowed \/ q.action \in policy.denied THEN "action_denied"
    ELSE IF ForAction(q, policy) = {} THEN "action_denied"
    ELSE IF ForExecutable(q, policy) = {} THEN "executable_denied"
    ELSE IF ForArguments(q, policy) = {} THEN "arguments_denied"
    ELSE IF ForDirectory(q, policy) = {} THEN "working_directory_denied"
    ELSE IF ForEnvironment(q, policy) = {} THEN "environment_denied"
    ELSE IF ForLimits(q, policy) = {} THEN "limit_exceeded"
    ELSE "ok"

-----------------------------------------------------------------------------
(* What the checks amount to. *)

\* A rule covers a request that is exactly its command, in its directory, and
\* asks for no more environment and no more of any resource.
Covers(rule, q) ==
    /\ rule.action = q.action
    /\ rule.executable = q.executable
    /\ rule.arguments = q.arguments
    /\ rule.directory = q.directory
    /\ rule.network = q.network
    /\ q.names \subseteq rule.names
    /\ Within(q.limits, rule.max)

Authorized(q, policy) ==
    /\ q.hash = policy.hash
    /\ \E rule \in policy.rules : Covers(rule, q)

\* The same command with no more environment and no higher ceiling.
SameCommand(p, q) ==
    /\ p.hash = q.hash /\ p.action = q.action /\ p.executable = q.executable
    /\ p.arguments = q.arguments /\ p.directory = q.directory /\ p.network = q.network

AsksNoMore(less, q) ==
    /\ SameCommand(less, q)
    /\ less.names \subseteq q.names
    /\ Within(less.limits, q.limits)
=============================================================================
