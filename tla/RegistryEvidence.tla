--------------------------- MODULE RegistryEvidence ---------------------------
(***************************************************************************)
(* Evidence of a Registry V2 lifecycle (registry_v2_testnet_lifecycle.py): *)
(* a run registers a receiver under a deployed contract, moves it through  *)
(* its life, sends transactions the contract must refuse in between, and   *)
(* saves what the node, the indexer, discovery and the API say.  The       *)
(* verifier (verify_registry_v2_evidence.py) reads the saved files alone.  *)
(*                                                                         *)
(* A run has no memory but its directory and never resumes: one that fails *)
(* is followed by another one in a new directory, under the same           *)
(* deployment or a new one of the same binary, and two may overlap.  Under *)
(* data1 every deployment of one binary has the same code hash.            *)
(* The contract under test may be wrong about an attack, and an answer of  *)
(* ckb-cli may be lost, before or after the node took the transaction.     *)
(***************************************************************************)
EXTENDS Naturals, Sequences, FiniteSets, SequencesExt

CONSTANTS
    Runs, Deployments,
    MaxLag,   \* bound: transactions the indexer may be behind
    Flaws     \* sets of attacks that the contract under test may accept

Stages == <<"create", "update", "transfer", "revoke">>
Attacks == {"forged-identity", "sequence-jump", "label-mutation", "duplicate-output", "burn",
            "resurrection", "tombstone-burn"}

Do(op, name) == [op |-> op, name |-> name]
\* The order of main, its lists of attacks included; the files are hashed last.
Program ==
    <<Do("attack", "forged-identity"),
      Do("send", "create"), Do("wait", "create"), Do("indexer", "create"), Do("adapter", "create"),
      Do("api", "create"),
      Do("attack", "sequence-jump"), Do("attack", "label-mutation"),
      Do("attack", "duplicate-output"), Do("attack", "burn"),
      Do("send", "update"), Do("wait", "update"), Do("indexer", "update"), Do("adapter", "update"),
      Do("api", "update"),
      Do("send", "transfer"), Do("wait", "transfer"), Do("indexer", "transfer"),
      Do("adapter", "transfer"), Do("api", "transfer"),
      Do("send", "revoke"), Do("wait", "revoke"), Do("indexer", "revoke"), Do("adapter", "revoke"),
      Do("api", "revoke"),
      Do("attack", "resurrection"), Do("attack", "tombstone-burn"),
      Do("manifest", "all"), Do("checksums", "all")>>

VARIABLES
    deploymentOf,  \* run -> the deployment it was given
    broken,        \* attacks that the contract under test would accept
    pool, ledger,  \* transactions of the node: taken, and committed in order
    indexed,       \* how many of the ledger the indexer has seen
    steps,         \* run -> the part of Program it has done
    failed,        \* runs that ended before the end of Program
    files          \* run -> its directory: <<kind, name>> -> what was saved

chain == <<pool, ledger, indexed>>
vars == <<deploymentOf, broken, chain, steps, failed, files>>

-----------------------------------------------------------------------------
(* The chain: a transaction is its run and its name *)

Tx(r, name) == [run |-> r, name |-> name]

\* Mutant: the burn spends a cell of its own, so nothing later depends on it.
Spends_BurnApart(tx) ==
    CASE tx.name \in {"create", "forged-identity"} -> <<deploymentOf[tx.run], "funding">>
      [] tx.name \in {"sequence-jump", "label-mutation", "duplicate-output", "update"} ->
            <<tx.run, "create">>
      [] tx.name = "burn" -> <<tx.run, "change">>
      [] tx.name = "transfer" -> <<tx.run, "update">>
      [] tx.name = "revoke" -> <<tx.run, "transfer">>
      [] tx.name \in {"resurrection", "tombstone-burn"} -> <<tx.run, "revoke">>
\* The one input of each transaction main writes.
Spends(tx) ==
    CASE tx.name \in {"create", "forged-identity"} -> <<deploymentOf[tx.run], "funding">>
      [] tx.name \in {"sequence-jump", "label-mutation", "duplicate-output", "burn", "update"} ->
            <<tx.run, "create">>
      [] tx.name = "transfer" -> <<tx.run, "update">>
      [] tx.name = "revoke" -> <<tx.run, "transfer">>
      [] tx.name \in {"resurrection", "tombstone-burn"} -> <<tx.run, "revoke">>

\* The registry cells it creates; a forged identity is none of the deployments'.
Cells(tx) ==
    LET Cell(id, i, active) == [id |-> id, tx |-> tx, index |-> i, active |-> active]
        id == deploymentOf[tx.run]
    IN  CASE tx.name = "forged-identity" -> {Cell("forged", 0, TRUE)}
          [] tx.name = "duplicate-output" -> {Cell(id, 0, TRUE), Cell(id, 1, TRUE)}
          [] tx.name \in {"burn", "tombstone-burn"} -> {}
          [] OTHER -> {Cell(id, 0, tx.name # "revoke")}

LiveCells(height) ==
    LET known == {ledger[i] : i \in 1..height} IN
    {c \in UNION {Cells(tx) : tx \in known} :
        c.index = 1 \/ \A tx \in known : Spends(tx) # <<c.tx.run, c.tx.name>>}

Committed(tx) == \E i \in DOMAIN ledger : ledger[i] = tx

\* The input is there and nobody else spends it, and the type script agrees.
NodeTakes(tx) ==
    /\ tx.name \in Attacks => tx.name \in broken
    /\ tx.name \in {"create", "forged-identity"}
        \/ \E other \in ToSet(ledger) : <<other.run, other.name>> = Spends(tx)
        \/ Spends(tx)[2] = "change"
    /\ \A other \in pool \cup ToSet(ledger) : Spends(other) # Spends(tx)

Commit(tx) ==
    /\ tx \in pool /\ Len(ledger) - indexed < MaxLag
    /\ pool' = pool \ {tx} /\ ledger' = Append(ledger, tx)
    /\ UNCHANGED <<deploymentOf, broken, indexed, steps, failed, files>>

\* A transaction that is taken may still expire or be evicted.
Drop(tx) ==
    /\ tx \in pool /\ pool' = pool \ {tx}
    /\ UNCHANGED <<deploymentOf, broken, ledger, indexed, steps, failed, files>>

Index ==
    /\ indexed < Len(ledger) /\ indexed' = indexed + 1
    /\ UNCHANGED <<deploymentOf, broken, pool, ledger, steps, failed, files>>

-----------------------------------------------------------------------------
(* The steps of a run *)

Init ==
    /\ deploymentOf \in [Runs -> Deployments]
    /\ broken \in Flaws
    /\ pool = {} /\ ledger = <<>> /\ indexed = 0
    /\ steps = [r \in Runs |-> 0]
    /\ failed \in SUBSET Runs   \* some may fail before they do anything
    /\ broken # {} => Cardinality(Runs \ failed) <= 1   \* bound: one under a flaw
    /\ files = [r \in Runs |-> <<>>]

At(r, op, name) ==
    /\ r \notin failed /\ steps[r] < Len(Program)
    /\ Program[steps[r] + 1] = Do(op, name)
Goes(r) == steps' = [steps EXCEPT ![r] = @ + 1] /\ UNCHANGED failed
Dies(r) == failed' = failed \cup {r} /\ UNCHANGED steps
Save(r, kind, name, content) ==
    files' = [files EXCEPT ![r] =
        [f \in DOMAIN @ \cup {<<kind, name>>} |-> IF f = <<kind, name>> THEN content ELSE @[f]]]
Has(r, kind, name) == <<kind, name>> \in DOMAIN files[r]
Saved(r, kind, name) == files[r][<<kind, name>>]

\* ckb-cli tx send: what it exits with, and what the node did.
Sends(tx, accepted) ==
    \/ NodeTakes(tx) /\ pool' = pool \cup {tx} /\ accepted \in BOOLEAN
    \/ ~accepted /\ UNCHANGED pool

\* signed_submission(expect_accept=False): any failure to send is a refusal.
SubmitAttack(r, a) ==
    \E accepted \in BOOLEAN :
        /\ At(r, "attack", a)
        /\ Sends(Tx(r, a), accepted)
        /\ Save(r, "response", a, accepted)
        /\ IF accepted THEN Dies(r) ELSE Goes(r)
        /\ UNCHANGED <<deploymentOf, broken, ledger, indexed>>

\* signed_submission(expect_accept=True), in main and in lifecycle_transition
SubmitStage(r, s) ==
    \E accepted \in BOOLEAN :
        /\ At(r, "send", s)
        /\ Sends(Tx(r, s), accepted)
        /\ Save(r, "response", s, accepted)
        /\ IF accepted THEN Goes(r) ELSE Dies(r)
        /\ UNCHANGED <<deploymentOf, broken, ledger, indexed>>

WaitCommitted(r, s) ==
    /\ At(r, "wait", s) /\ Committed(Tx(r, s))
    /\ Save(r, "rpc", s, Tx(r, s)) /\ Goes(r)
    /\ UNCHANGED <<deploymentOf, broken, chain>>

\* capture_state looks again until the indexer has the cell it waits for.
CaptureIndexer(r, s) ==
    LET found == {c \in LiveCells(indexed) : c.id = deploymentOf[r]} IN
    /\ At(r, "indexer", s)
    /\ \E c \in found : c.tx = Tx(r, s) /\ c.index = 0
    /\ Save(r, "indexer", s, found) /\ Goes(r)
    /\ UNCHANGED <<deploymentOf, broken, chain>>

\* Mutant: the adapter lists what the indexer has, tombstones included.
ActiveReceivers_Any == LiveCells(indexed)
\* discover_peers: every receiver of the code hash, not this run's alone, and
\* none that two cells claim.
ActiveReceivers ==
    {c \in LiveCells(indexed) :
        c.active /\ \A d \in LiveCells(indexed) : d.id = c.id => d = c}
CaptureAdapter(r, s) ==
    /\ At(r, "adapter", s)
    /\ Save(r, "adapter", s, ActiveReceivers) /\ Goes(r)
    /\ UNCHANGED <<deploymentOf, broken, chain>>

\* capture_api_response fills a new database with the same peers, a row for each
\* identity, and saves what the API counts in it.
CaptureApi(r, s) ==
    /\ At(r, "api", s)
    /\ Save(r, "api", s, Cardinality(Saved(r, "adapter", s))) /\ Goes(r)
    /\ UNCHANGED <<deploymentOf, broken, chain>>

WriteManifest(r) ==
    /\ At(r, "manifest", "all")
    /\ Save(r, "manifest", "all", deploymentOf[r]) /\ Goes(r)
    /\ UNCHANGED <<deploymentOf, broken, chain>>

WriteChecksums(r) ==
    /\ At(r, "checksums", "all")
    /\ Save(r, "checksums", "all", DOMAIN files[r]) /\ Goes(r)
    /\ UNCHANGED <<deploymentOf, broken, chain>>

\* A failing call, a timeout, an unexpected answer or the end of the process.
Fail(r) ==
    /\ r \notin failed /\ steps[r] < Len(Program)
    /\ Dies(r) /\ UNCHANGED <<deploymentOf, broken, chain, files>>

Completed(r) == steps[r] = Len(Program)

\* main starts in a new directory and never saves the contract binary in it: who
\* keeps the bundle does, with the bytes the manifest names or with others.
AddContract(r) ==
    /\ Completed(r) /\ ~Has(r, "contract", "all")
    /\ \E deployed \in BOOLEAN :
        /\ deployed \/ Runs \ failed = {r}   \* bound: other bytes for the last run alone
        /\ Save(r, "contract", "all", deployed)
    /\ UNCHANGED <<deploymentOf, broken, chain, steps, failed>>

\* The indexer and runtime reports come from other tools, after the run.
AddReports(r) ==
    /\ Completed(r) /\ ~Has(r, "report", "all")
    /\ Save(r, "report", "all", LiveCells(indexed))
    /\ UNCHANGED <<deploymentOf, broken, chain, steps, failed>>

\* generate_registry_v2_checksums.py
Rehash(r) ==
    /\ Completed(r)
    /\ Has(r, "contract", "all") /\ Has(r, "report", "all")   \* bound: when both are there
    /\ Save(r, "checksums", "all", DOMAIN files[r] \ {<<"checksums", "all">>})
    /\ UNCHANGED <<deploymentOf, broken, chain, steps, failed>>

-----------------------------------------------------------------------------
(* verify_bundle, with --saved-chain-only *)

verify_checksums(r) ==
    /\ Has(r, "checksums", "all")
    /\ Saved(r, "checksums", "all") = DOMAIN files[r] \ {<<"checksums", "all">>}

StageSaved(r, i) ==
    LET s == Stages[i] IN
    /\ \A kind \in {"rpc", "indexer", "adapter", "api"} : Has(r, kind, s)
    /\ Saved(r, "rpc", s) = Tx(r, s)
    /\ Spends(Tx(r, s)) = IF i = 1 THEN <<Saved(r, "manifest", "all"), "funding">>
                          ELSE <<r, Stages[i - 1]>>
    /\ Saved(r, "indexer", s) = Cells(Tx(r, s))
    /\ Saved(r, "adapter", s) = IF s = "revoke" THEN {} ELSE Cells(Tx(r, s))
    /\ Saved(r, "api", s) = IF s = "revoke" THEN 0 ELSE 1

AttackSaved(r, a) == Has(r, "response", a) /\ ~Saved(r, "response", a)

\* verify_data1_reports: one live registry cell of the code hash, revoked
ReportsAgree(r) ==
    Has(r, "report", "all") /\ Saved(r, "report", "all") = Cells(Tx(r, "revoke"))

\* contract/receiver-registry, by both hashes of the manifest
ContractIsDeployed(r) == Has(r, "contract", "all") /\ Saved(r, "contract", "all")

verify_bundle(r) ==
    /\ verify_checksums(r) /\ Has(r, "manifest", "all") /\ ContractIsDeployed(r)
    /\ \A i \in DOMAIN Stages : StageSaved(r, i)
    /\ \A a \in Attacks : AttackSaved(r, a)
    /\ ReportsAgree(r)

-----------------------------------------------------------------------------

Next ==
    \/ \E tx \in pool : Commit(tx) \/ Drop(tx)
    \/ Index
    \/ \E r \in Runs :
        \/ \E a \in Attacks : SubmitAttack(r, a)
        \/ \E s \in ToSet(Stages) :
            \/ SubmitStage(r, s) \/ WaitCommitted(r, s)
            \/ CaptureIndexer(r, s) \/ CaptureAdapter(r, s) \/ CaptureApi(r, s)
        \/ WriteManifest(r) \/ WriteChecksums(r) \/ Fail(r)
        \/ AddContract(r) \/ AddReports(r) \/ Rehash(r)

Spec == Init /\ [][Next]_vars

(***************************************************************************)
(* What a verified bundle says of the chain is so, although it was saved   *)
(* by a tool that takes any failure to send for a refusal: the four        *)
(* transactions are committed in their order, none of the five attacks     *)
(* before the revocation ever was or will be, and no other run's bundle    *)
(* under the same deployment verifies.  (The two attacks on the tombstone  *)
(* have no later stage that would notice; they are not claimed.)           *)
(***************************************************************************)
VerifiedIsTrue ==
    \A r \in Runs : verify_bundle(r) =>
        /\ \E at \in [1..Len(Stages) -> DOMAIN ledger] :
            \A i \in DOMAIN Stages :
                ledger[at[i]] = Tx(r, Stages[i]) /\ (i > 1 => at[i - 1] < at[i])
        /\ \A a \in Attacks \ {"resurrection", "tombstone-burn"} :
            Tx(r, a) \notin pool \cup ToSet(ledger)
        /\ \A q \in Runs \ {r} : verify_bundle(q) => deploymentOf[q] # deploymentOf[r]

(***************************************************************************)
(* The tool and the verifier agree, but for what the tool does not write   *)
(* (main saves neither the contract nor the reports): a run that           *)
(* completed, and to which the deployed binary and the reports were added  *)
(* and hashed, verifies, unless another run put a receiver of the same     *)
(* binary on the chain or the contract took an attack.  (A run that died   *)
(* before its revocation leaves such a receiver for good.)                 *)
(***************************************************************************)
UndisturbedRunVerifies ==
    \A r \in Runs :
        Completed(r) /\ ContractIsDeployed(r) /\ Has(r, "report", "all") /\ verify_checksums(r) =>
            \/ verify_bundle(r)
            \/ \E tx \in ToSet(ledger) : tx.run # r \/ tx.name \in Attacks
=============================================================================
