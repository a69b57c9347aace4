-------------------------- MODULE MCCommandExecutor --------------------------
(* One policy with one rule; a command it covers, one it denies and one whose *)
(* executable is not registered.                                              *)
EXTENDS CommandExecutor, TLC

Limits(n) == [d \in Dimensions |-> n]
Command(executable_, n) ==
    [hash |-> "h1", action |-> "build", executable |-> executable_, arguments |-> "all",
     directory |-> "root", network |-> "deny_all", names |-> {}, limits |-> Limits(n)]
RuleFor(executable_) ==
    [action |-> "build", executable |-> executable_, arguments |-> "all",
     directory |-> "root", network |-> "deny_all", names |-> {}, max |-> Limits(1)]

ThePolicy ==
    [hash |-> "h1", allowed |-> {"build"}, denied |-> {},
     rules |-> {RuleFor("make"), RuleFor("sh")}]
ThePolicies == {ThePolicy}
TheRequests == {Command("make", 1), Command("make", 2), Command("sh", 1)}
TheRegistry == {"make"}

Symmetric == Permutations(Threads) \cup Permutations(Runs)

BothFiles == {"executable", "bubblewrap"}
HostileWork == {"work", "tamper"}
=============================================================================
