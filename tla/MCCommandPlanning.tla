------------------------- MODULE MCCommandPlanning --------------------------
(* Requests and policies for TLC: two values where a check compares, three *)
(* limits that are not all comparable, and every pair of the rules.        *)
EXTENDS CommandPlanning

Limits(timeout, output) ==
    [d \in Dimensions |-> IF d \in {"timeout", "grace"} THEN timeout ELSE output]
SomeLimits == {Limits(1, 1), Limits(1, 2), Limits(2, 1)}

SomeRequests ==
    [hash : {"h1", "h2"}, action : {"build", "deploy"}, executable : {"make", "sh"},
     arguments : {"all", "test"}, directory : {"root"}, network : {"deny_all"},
     names : SUBSET {"CI", "LANG"}, limits : SomeLimits]

SomeRules ==
    [action : {"build"}, executable : {"make", "sh"}, arguments : {"all"},
     directory : {"root", "docs"}, network : {"deny_all"}, names : {{}, {"CI"}, {"CI", "LANG"}},
     max : {Limits(1, 2), Limits(2, 1)}]

SomePolicies ==
    [hash : {"h1"}, allowed : {{"build"}}, denied : {{"deploy"}},
     rules : {{r1, r2} : r1 \in SomeRules, r2 \in SomeRules}]
=============================================================================
