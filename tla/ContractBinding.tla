--------------------------- MODULE ContractBinding ---------------------------
(***************************************************************************)
(* domain/contract_binding.py: exact source bytes, the canonical contract  *)
(* they hold and their digest, bound together.  The validator and the      *)
(* model of a contract belong to the pinned schemas package and SHA-256 to *)
(* hashlib; they are constants.                                            *)
(***************************************************************************)
EXTENDS JsonBytes

CONSTANTS
    Sources,     \* source bytes callers present, valid or not
    ContractOf,  \* the contract of each document the validator accepts
    Sha256       \* the digest of each source

ASSUME BindingAssumption ==
    \A s, t \in Sources : Sha256[s] = Sha256[t] => s = t

\* _parse_contract: the cause it raises with, or "ok".
ParseCause(source) ==
    IF source.layout = "no_utf8" THEN "invalid_utf8"
    ELSE IF ~Parses(source) THEN "invalid_json"
    ELSE IF Kind(source.value) # "object" THEN "invalid_document"
    ELSE IF source.value \notin DOMAIN ContractOf THEN "invalid_contract"
    ELSE "ok"

\* Mutant: direct construction believes the digest it is given.
BindingCause_TrustsDigest(b) ==
    IF ParseCause(b.source) # "ok" THEN ParseCause(b.source)
    ELSE IF b.contract # ContractOf[b.source.value] THEN "binding_mismatch"
    ELSE "ok"

\* BoundContract's construction from a contract, a digest and source bytes, all
\* checked again: the cause it raises with, or "ok".
BindingCause(b) ==
    IF ParseCause(b.source) # "ok" THEN ParseCause(b.source)
    ELSE IF b.contract # ContractOf[b.source.value] \/ b.hash # Sha256[b.source]
    THEN "binding_mismatch"
    ELSE "ok"

\* The triple from_json_bytes constructs.
FromJsonBytes(source) ==
    [contract |-> ContractOf[source.value], hash |-> Sha256[source], source |-> source]
=============================================================================
