---- MODULE MCStateStore ----
EXTENDS StateStore, TLC

CONSTANTS r1, c1, c2, builder

Bind(c, b, p) == [contract |-> c, baseline |-> b, policy |-> p]
Identity(r, t, b) ==
    [run_id |-> r, created_at |-> t, contract |-> b.contract,
     baseline |-> b.baseline, policy |-> b.policy]

\* Two parties bind the same run identifier under different policies.
MCIdentities == {Identity(r1, 0, Bind(1, 1, 1)), Identity(r1, 0, Bind(1, 1, 2))}
OneIdentity == {Identity(r1, 0, Bind(1, 1, 1))}
SameTrusted == (c1 :> Bind(1, 1, 1)) @@ (c2 :> Bind(1, 1, 1))
MCTrusted == (c1 :> Bind(1, 1, 1)) @@ (c2 :> Bind(1, 1, 2))
MCInstants == {0, 1}
OneInstant == {0}
====
