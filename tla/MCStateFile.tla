----------------------------- MODULE MCStateFile -----------------------------
(* One run; two contracts that share name and version, one of them in two    *)
(* layouts; sources that fail each check; schemas of other programs.         *)
EXTENDS StateFile, TLC

TheContract == [id |-> "contract", version |-> "v1"]
Broken == [id |-> "broken", version |-> "v1"]
Doc(n) == Object([id |-> Name("contract"), goal |-> Number(n)])
BrokenDoc == Object([id |-> Name("broken")])

SourceList ==
    <<Dump(Doc(1)), Bytes("spaced", Doc(1)), Dump(Doc(2)), Dump(BrokenDoc), Dump(Null),
      Dump(Object([goal |-> Null])), Bytes("duplicate", Doc(1)), Bytes("no_utf8", Null)>>
DigestList == <<"h1", "h2", "h3", "h4", "h5", "h6", "h7", "h8">>
TheSources == Range(SourceList)
TheDigests == Range(DigestList) \cup {"p1"}
TheSha256 == [s \in TheSources |-> DigestList[CHOOSE n \in 1..8 : SourceList[n] = s]]
TheContractOf == (Doc(1) :> TheContract) @@ (Doc(2) :> TheContract) @@ (BrokenDoc :> Broken)

Triple(contract, hash, n) == [contract |-> contract, hash |-> hash, source |-> SourceList[n]]

\* The contract in its two layouts, a contract that cannot be encoded, one with a
\* digest that is not its own, and the sources that hold no contract.
TheBindings ==
    {FromJsonBytes(SourceList[n]) : n \in {1, 2, 4}}
        \cup {Triple(TheContract, "h1", n) : n \in {3, 5, 6, 7, 8}}

TheIdentities ==
    [run_id : RunIds, contract_id : ContractIds, contract_version : ContractVersions,
     contract_hash : Digests, baseline_sha : BaselineShas, policy_hash : Digests,
     created_at : Instants]

TheSchemas ==
    {[version |-> 0, tables |-> {}], [version |-> 0, tables |-> {"alicerce_transitions"}],
     [version |-> 1, tables |-> {}], [version |-> 2, tables |-> {}]}

TheInstants == {0, 1, 2}
YearZero == {0}   \* of these instants, the ones before the year 1000
TheSpoilt ==
    {Null, Float(1), Number(1), Number(2), Name("stranger"), Name("BUILDING"),
     Name("COMPLETED"), Name("passed"), Name("b2"), Time(2, "padded"), Time(1, "loose"),
     Name("human"), Name("h1"), Name("h2")}
=============================================================================
