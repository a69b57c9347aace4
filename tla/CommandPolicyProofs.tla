------------------------ MODULE CommandPolicyProofs ------------------------
(* Authorization is exactly coverage by one rule, and is monotone: for any  *)
(* requests, rules and limits.                                              *)
EXTENDS CommandPlanning, TLAPS

\* The seven successive checks accept exactly the requests that one rule of the
\* policy covers completely (_matching_rule).
THEOREM AuthorizationIsCoverage ==
    ASSUME NEW q, NEW p, WellFormedPolicy(p)
    PROVE  Verdict(q, p) = "ok" <=> Authorized(q, p)
<1>1. ForLimits(q, p) = {rule \in p.rules : Covers(rule, q)}
    BY DEF ForLimits, ForEnvironment, ForDirectory, ForArguments, ForExecutable,
           ForAction, Covers
<1>2. ForLimits(q, p) \subseteq ForEnvironment(q, p)
    BY DEF ForLimits
<1>3. ForEnvironment(q, p) \subseteq ForDirectory(q, p)
    BY DEF ForEnvironment
<1>4. /\ ForDirectory(q, p) \subseteq ForArguments(q, p)
      /\ ForArguments(q, p) \subseteq ForExecutable(q, p)
      /\ ForExecutable(q, p) \subseteq ForAction(q, p)
    BY DEF ForDirectory, ForArguments, ForExecutable
<1>5. ForLimits(q, p) # {} => q.action \in p.allowed /\ q.action \notin p.denied
    BY <1>1 DEF Covers, WellFormedPolicy
<1>6. Verdict(q, p) = "ok" <=> q.hash = p.hash /\ ForLimits(q, p) # {}
    <2>1. CASE ForLimits(q, p) = {}
        BY <2>1 DEF Verdict
    <2>2. CASE ForLimits(q, p) # {}
        BY <2>2, <1>2, <1>3, <1>4, <1>5 DEF Verdict
    <2> QED BY <2>1, <2>2
<1> QED BY <1>1, <1>6 DEF Authorized

\* A request that asks for no more than an authorized one is authorized too.
THEOREM AuthorizationIsMonotone ==
    ASSUME NEW q \in Requests, NEW less \in Requests, NEW p \in Policies,
           AsksNoMore(less, q), Authorized(q, p)
    PROVE  Authorized(less, p)
<1>1. PICK rule \in p.rules : Covers(rule, q)
    BY DEF Authorized
<1>2. SameCommand(less, q)
    BY DEF AsksNoMore
<1>3. less.names \subseteq rule.names
    BY <1>1 DEF AsksNoMore, Covers
<1>4. Within(less.limits, rule.max)
    <2>1. /\ less.limits \in [Dimensions -> Nat]
          /\ q.limits \in [Dimensions -> Nat]
          /\ rule.max \in [Dimensions -> Nat]
        BY PolicyAssumption
    <2>2. Within(less.limits, q.limits) /\ Within(q.limits, rule.max)
        BY <1>1 DEF AsksNoMore, Covers
    <2> QED BY <2>1, <2>2 DEF Within
<1>5. Covers(rule, less)
    BY <1>1, <1>2, <1>3, <1>4 DEF Covers, SameCommand
<1> QED BY <1>2, <1>5 DEF Authorized, SameCommand

\* The policy and the request of a planner are always among the given ones, and
\* the verdict is the one of the request in hand.
PlanInv ==
    /\ policy \in Policies
    /\ request \in Requests
    /\ verdict \in {"none", Verdict(request, policy)}

LEMMA PlanInvariance == Spec => []PlanInv
<1>1. Init => PlanInv
    BY DEF Init, PlanInv
<1>2. PlanInv /\ [Next]_vars => PlanInv'
    <2> SUFFICES ASSUME PlanInv, [Next]_vars PROVE PlanInv'
        OBVIOUS
    <2> USE DEF PlanInv
    <2>1. CASE SubmitFirst
        BY <2>1 DEF SubmitFirst, Submit
    <2>2. CASE SubmitLess
        BY <2>2 DEF SubmitLess, Submit
    <2>3. CASE UNCHANGED vars
        BY <2>3 DEF vars
    <2> QED BY <2>1, <2>2, <2>3 DEF Next
<1> QED BY <1>1, <1>2, PTL DEF Spec

\* Whatever is submitted, the verdict is the deserved one.
THEOREM VerdictsDeserved == Spec => []VerdictIsDeserved
<1>1. PlanInv => VerdictIsDeserved
    BY AuthorizationIsCoverage, PolicyAssumption DEF PlanInv, VerdictIsDeserved
<1> QED BY <1>1, PlanInvariance, PTL

\* No step of the planner loses an authorization by asking for less.
THEOREM LessStaysAllowed == Spec => LessIsAllowed
<1>1. ASSUME PlanInv, PlanInv', [Next]_vars, verdict = "ok"
      PROVE  verdict' = "ok"
    <2> USE <1>1
    <2>1. Authorized(request, policy)
        BY AuthorizationIsCoverage, PolicyAssumption DEF PlanInv
    <2>2. CASE SubmitFirst
        BY <2>2 DEF SubmitFirst
    <2>3. CASE SubmitLess
        <3>1. PICK less \in Requests : AsksNoMore(less, request) /\ Submit(less)
            BY <2>3 DEF SubmitLess
        <3>2. Authorized(less, policy)
            BY <2>1, <3>1, AuthorizationIsMonotone DEF PlanInv
        <3>3. Verdict(less, policy) = "ok"
            BY <3>2, AuthorizationIsCoverage, PolicyAssumption DEF PlanInv
        <3> QED BY <3>1, <3>3 DEF Submit
    <2>4. CASE UNCHANGED vars
        BY <2>4 DEF vars
    <2> QED BY <2>2, <2>3, <2>4 DEF Next
<1>2. PlanInv /\ PlanInv' /\ [Next]_vars => [verdict = "ok" => verdict' = "ok"]_vars
    BY <1>1
<1> QED BY <1>2, PlanInvariance, PTL DEF Spec, LessIsAllowed
=============================================================================
