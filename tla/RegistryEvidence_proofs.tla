------------------------ MODULE RegistryEvidence_proofs ------------------------
(***************************************************************************)
(* VerifiedIsTrue and UndisturbedRunVerifies for any runs, deployments,    *)
(* flaws and lag of the indexer.  The first rests on the chain alone: an   *)
(* input has one spender and follows the transaction it spends.  The       *)
(* second rests on what each saved file says, and on how far a run must    *)
(* have come for one of its transactions to be there.                      *)
(***************************************************************************)
EXTENDS RegistryEvidence, SequenceTheorems, FiniteSetTheorems, TLAPS

StageNames == {"create", "update", "transfer", "revoke"}
Transaction == [run : Runs, name : StageNames \cup Attacks]
Root(tx) == tx.name \in {"create", "forged-identity"}

Known == pool \cup ToSet(ledger)
SeenBy(height) == {ledger[i] : i \in 1..height}

TypeInv ==
  /\ deploymentOf \in [Runs -> Deployments]
  /\ pool \subseteq Transaction /\ ledger \in Seq(Transaction)
  /\ indexed \in Nat /\ indexed <= Len(ledger)
  /\ steps \in [Runs -> Nat]
  /\ files = [r \in Runs |-> files[r]]

\* An input has one spender, and a transaction follows the one it spends.
ChainInv ==
  /\ \A t, u \in Known : Spends(t) = Spends(u) => t = u
  /\ \A t \in pool : Root(t) \/
        \E j \in DOMAIN ledger : <<ledger[j].run, ledger[j].name>> = Spends(t)
  /\ \A i \in DOMAIN ledger : Root(ledger[i]) \/
        \E j \in DOMAIN ledger : j < i /\ <<ledger[j].run, ledger[j].name>> = Spends(ledger[i])

\* How many parts of Program come before the one that sends the stage.
Before(s) == CASE s = "create" -> 1 [] s = "update" -> 10 [] s = "transfer" -> 15
               [] s = "revoke" -> 20
FileOf(op) ==
  CASE op \in {"attack", "send"} -> "response" [] op = "wait" -> "rpc" [] OTHER -> op

\* A transaction was sent, a run that failed stopped short, and each part left its file.
RunInv ==
  \A r \in Runs :
    /\ \A s \in StageNames : Tx(r, s) \in Known => r \in failed \/ steps[r] > Before(s)
    /\ r \in failed => steps[r] < Len(Program)
    /\ \A k \in 1..steps[r] : <<FileOf(Program[k].op), Program[k].name>> \in DOMAIN files[r]

Undisturbed(r) == \A tx \in ToSet(ledger) : tx.run = r /\ tx.name \notin Attacks

\* What a file of a run says, whatever came after it was saved.
Says(r, kind, name, content) ==
  /\ kind = "rpc" => content = Tx(r, name) /\ Committed(Tx(r, name))
  /\ kind = "response" /\ name \in Attacks => content = FALSE \/ r \in failed
  /\ kind = "manifest" => content = deploymentOf[r]
  /\ kind = "indexer" => Tx(r, name) \in SeenBy(indexed)
  /\ Undisturbed(r) =>
      /\ kind = "indexer" => content = Cells(Tx(r, name))
      /\ kind = "adapter" => content = IF name = "revoke" THEN {} ELSE Cells(Tx(r, name))
      /\ kind = "api" => content = IF name = "revoke" THEN 0 ELSE 1
      /\ kind = "report" => content = Cells(Tx(r, "revoke"))
FilesInv ==
  \A r \in Runs : \A f \in DOMAIN files[r] :
    \A content : content = files[r][f] => Says(r, f[1], f[2], content)

IInv == TypeInv /\ ChainInv /\ RunInv /\ FilesInv

-----------------------------------------------------------------------------
(* The transactions and the program *)

LEMMA StagesAreNamed ==
  /\ Len(Stages) = 4 /\ DOMAIN Stages = 1..4
  /\ Stages[1] = "create" /\ Stages[2] = "update" /\ Stages[3] = "transfer" /\ Stages[4] = "revoke"
BY DEF Stages

LEMMA StageNamesOfStages == ToSet(Stages) = StageNames
<1>1. \A i \in DOMAIN Stages : Stages[i] \in StageNames
  BY StagesAreNamed DEF StageNames
<1>2. \A s \in StageNames : \E i \in DOMAIN Stages : Stages[i] = s
  BY StagesAreNamed DEF StageNames
<1> QED BY <1>1, <1>2 DEF ToSet

LEMMA TxIsTransaction ==
  ASSUME NEW r \in Runs, NEW n \in StageNames \cup Attacks
  PROVE  Tx(r, n) \in Transaction /\ Tx(r, n).run = r /\ Tx(r, n).name = n
BY DEF Tx, Transaction

LEMMA TransactionIsTx ==
  ASSUME NEW t \in Transaction
  PROVE  t = Tx(t.run, t.name) /\ t.run \in Runs /\ t.name \in StageNames \cup Attacks
BY DEF Tx, Transaction

LEMMA StageIsNoAttack == \A s \in StageNames : s \notin Attacks
BY DEF StageNames, Attacks

LEMMA SpendsOf ==
  ASSUME NEW r
  PROVE  /\ Spends(Tx(r, "create")) = <<deploymentOf[r], "funding">>
         /\ Spends(Tx(r, "forged-identity")) = <<deploymentOf[r], "funding">>
         /\ \A n \in {"sequence-jump", "label-mutation", "duplicate-output", "burn", "update"} :
              Spends(Tx(r, n)) = <<r, "create">>
         /\ Spends(Tx(r, "transfer")) = <<r, "update">>
         /\ Spends(Tx(r, "revoke")) = <<r, "transfer">>
BY DEF Spends, Tx

LEMMA Sending ==
  ASSUME NEW k \in 1..Len(Program), NEW s \in StageNames, Program[k] = Do("send", s)
  PROVE  k = Before(s) + 1
<1>1. Len(Program) = 29
  BY DEF Program
<1>2. \A j \in 1..29 : Program[j].op = "send" => j \in {2, 11, 16, 21}
  BY DEF Program, Do
<1>3. /\ Program[2].name = "create" /\ Program[11].name = "update"
      /\ Program[16].name = "transfer" /\ Program[21].name = "revoke"
  BY DEF Program, Do
<1>4. Program[k].op = "send" /\ Program[k].name = s
  BY DEF Do
<1> QED BY <1>1, <1>2, <1>3, <1>4 DEF Before, StageNames

LEMMA Adapting ==
  ASSUME NEW k \in 1..Len(Program), NEW s \in StageNames, Program[k] = Do("adapter", s)
  PROVE  /\ Program[k - 1] = Do("indexer", s) /\ k - 1 \in 1..Len(Program)
         /\ s = "create" => k <= Before("update")
         /\ s = "update" => k <= Before("transfer")
         /\ s = "transfer" => k <= Before("revoke")
<1>1. Len(Program) = 29
  BY DEF Program
<1>2. \A j \in 1..29 : Program[j].op = "adapter" => j \in {5, 14, 19, 24}
  BY DEF Program, Do
<1>3. /\ Program[5].name = "create" /\ Program[14].name = "update"
      /\ Program[19].name = "transfer" /\ Program[24].name = "revoke"
  BY DEF Program, Do
<1>4. /\ Program[4] = Do("indexer", "create") /\ Program[13] = Do("indexer", "update")
      /\ Program[18] = Do("indexer", "transfer") /\ Program[23] = Do("indexer", "revoke")
  BY DEF Program
<1>5. Program[k].op = "adapter" /\ Program[k].name = s
  BY DEF Do
<1> QED BY <1>1, <1>2, <1>3, <1>4, <1>5 DEF Before

LEMMA Counting ==
  ASSUME NEW k \in 1..Len(Program), NEW s \in StageNames, Program[k] = Do("api", s)
  PROVE  Program[k - 1] = Do("adapter", s) /\ k - 1 \in 1..Len(Program)
<1>1. Len(Program) = 29
  BY DEF Program
<1>2. \A j \in 1..29 : Program[j].op = "api" => j \in {6, 15, 20, 25}
  BY DEF Program, Do
<1>3. /\ Program[6].name = "create" /\ Program[15].name = "update"
      /\ Program[20].name = "transfer" /\ Program[25].name = "revoke"
  BY DEF Program, Do
<1>4. /\ Program[5] = Do("adapter", "create") /\ Program[14] = Do("adapter", "update")
      /\ Program[19] = Do("adapter", "transfer") /\ Program[24] = Do("adapter", "revoke")
  BY DEF Program
<1>5. Program[k].op = "api" /\ Program[k].name = s
  BY DEF Do
<1> QED BY <1>1, <1>2, <1>3, <1>4, <1>5

\* What a completed run has done.
LEMMA WholeProgram ==
  /\ Len(Program) = 29
  /\ \A a \in Attacks : \E k \in 1..29 : Program[k] = Do("attack", a)
  /\ \A s \in StageNames : \A op \in {"wait", "indexer", "adapter", "api"} :
        \E k \in 1..29 : Program[k] = Do(op, s)
  /\ \E k \in 1..29 : Program[k] = Do("manifest", "all")
  /\ \E k \in 1..29 : Program[k] = Do("checksums", "all")
<1>1. Len(Program) = 29
  BY DEF Program
<1>2. /\ Program[1] = Do("attack", "forged-identity") /\ Program[7] = Do("attack", "sequence-jump")
      /\ Program[8] = Do("attack", "label-mutation") /\ Program[9] = Do("attack", "duplicate-output")
      /\ Program[10] = Do("attack", "burn") /\ Program[26] = Do("attack", "resurrection")
      /\ Program[27] = Do("attack", "tombstone-burn")
  BY DEF Program
<1>3. /\ Program[3] = Do("wait", "create") /\ Program[12] = Do("wait", "update")
      /\ Program[17] = Do("wait", "transfer") /\ Program[22] = Do("wait", "revoke")
  BY DEF Program
<1>4. /\ Program[4] = Do("indexer", "create") /\ Program[13] = Do("indexer", "update")
      /\ Program[18] = Do("indexer", "transfer") /\ Program[23] = Do("indexer", "revoke")
  BY DEF Program
<1>5. /\ Program[5] = Do("adapter", "create") /\ Program[14] = Do("adapter", "update")
      /\ Program[19] = Do("adapter", "transfer") /\ Program[24] = Do("adapter", "revoke")
  BY DEF Program
<1>6. /\ Program[6] = Do("api", "create") /\ Program[15] = Do("api", "update")
      /\ Program[20] = Do("api", "transfer") /\ Program[25] = Do("api", "revoke")
  BY DEF Program
<1>7. Program[28] = Do("manifest", "all") /\ Program[29] = Do("checksums", "all")
  BY DEF Program
<1>8. \A a \in Attacks : \E k \in 1..29 : Program[k] = Do("attack", a)
  BY <1>2 DEF Attacks
<1>9. \A s \in StageNames : \A op \in {"wait", "indexer", "adapter", "api"} :
        \E k \in 1..29 : Program[k] = Do(op, s)
  BY <1>3, <1>4, <1>5, <1>6 DEF StageNames
<1> QED BY <1>1, <1>7, <1>8, <1>9

-----------------------------------------------------------------------------
(* The chain *)

LEMMA LedgerIsTyped ==
  ASSUME TypeInv
  PROVE  /\ DOMAIN ledger = 1..Len(ledger) /\ Len(ledger) \in Nat
         /\ \A i \in DOMAIN ledger : ledger[i] \in Transaction
         /\ Known \subseteq Transaction
         /\ \A i \in 1..indexed : i \in DOMAIN ledger
<1> DEFINE T == Transaction
<1>1. ledger \in Seq(T)
  BY DEF TypeInv
<1> HIDE DEF T
<1>2. DOMAIN ledger = 1..Len(ledger) /\ Len(ledger) \in Nat /\ \A i \in DOMAIN ledger : ledger[i] \in T
  BY <1>1, LenProperties, ElementOfSeq
<1> QED BY <1>2 DEF TypeInv, Known, ToSet, T

LEMMA AppendExtends ==
  ASSUME NEW T, NEW s \in Seq(T), NEW e \in T
  PROVE  /\ Append(s, e) \in Seq(T) /\ Len(Append(s, e)) = Len(s) + 1
         /\ DOMAIN Append(s, e) = DOMAIN s \cup {Len(s) + 1}
         /\ Append(s, e)[Len(s) + 1] = e
         /\ \A k \in DOMAIN s : k \in Nat /\ k <= Len(s) /\ Append(s, e)[k] = s[k]
OBVIOUS

\* Spends reads the deployment of the run and nothing else.
LEMMA SpendsKept ==
  ASSUME UNCHANGED deploymentOf, NEW t
  PROVE  Spends(t)' = Spends(t) /\ Cells(t)' = Cells(t)
BY DEF Spends, Cells

LEMMA ChainShrinks ==
  ASSUME ChainInv, UNCHANGED <<deploymentOf, ledger>>, pool' \subseteq pool
  PROVE  ChainInv' /\ Known' \subseteq Known
<1>1. Known' \subseteq Known
  BY DEF Known
<1>2. \A t, u \in Known' : Spends(t)' = Spends(u)' => t = u
  BY <1>1, SpendsKept DEF ChainInv
<1>3. \A t \in pool' : Root(t) \/
        \E j \in DOMAIN ledger : <<ledger[j].run, ledger[j].name>> = Spends(t)'
  BY SpendsKept DEF ChainInv
<1>4. \A i \in DOMAIN ledger : Root(ledger[i]) \/
        \E j \in DOMAIN ledger : j < i /\ <<ledger[j].run, ledger[j].name>> = Spends(ledger[i])'
  BY SpendsKept DEF ChainInv
<1> QED BY <1>1, <1>2, <1>3, <1>4 DEF ChainInv

LEMMA ChainTakes ==
  ASSUME TypeInv, ChainInv, UNCHANGED <<deploymentOf, ledger>>,
         NEW t \in Transaction, NEW accepted \in BOOLEAN, Sends(t, accepted)
  PROVE  /\ ChainInv' /\ pool' \subseteq Transaction
         /\ Known' \subseteq Known \cup {t} /\ (accepted => t \in pool')
<1>1. CASE UNCHANGED pool /\ ~accepted
  BY <1>1, ChainShrinks DEF TypeInv, Known
<1>2. CASE NodeTakes(t) /\ pool' = pool \cup {t}
  <2>1. Known' = Known \cup {t}
    BY <1>2 DEF Known
  <2>2. \A u \in Known : Spends(u) # Spends(t)
    BY <1>2 DEF NodeTakes, Known
  <2>3. \A v, u \in Known' : Spends(v)' = Spends(u)' => v = u
    BY <2>1, <2>2, SpendsKept DEF ChainInv
  <2>4. Root(t) \/ \E j \in DOMAIN ledger : <<ledger[j].run, ledger[j].name>> = Spends(t)
    <3>1. Spends(t)[2] # "change"
      BY DEF Spends, Transaction, StageNames, Attacks
    <3> QED BY <1>2, <3>1 DEF NodeTakes, Root, ToSet
  <2>5. \A v \in pool' : Root(v) \/
          \E j \in DOMAIN ledger : <<ledger[j].run, ledger[j].name>> = Spends(v)'
    BY <1>2, <2>4, SpendsKept DEF ChainInv
  <2>6. \A i \in DOMAIN ledger : Root(ledger[i]) \/
          \E j \in DOMAIN ledger : j < i /\ <<ledger[j].run, ledger[j].name>> = Spends(ledger[i])'
    BY SpendsKept DEF ChainInv
  <2> QED BY <1>2, <2>1, <2>3, <2>5, <2>6 DEF ChainInv, TypeInv
<1> QED BY <1>1, <1>2 DEF Sends

LEMMA ChainCommits ==
  ASSUME TypeInv, ChainInv, NEW t \in pool, Commit(t)
  PROVE  /\ ChainInv' /\ TypeInv' /\ Known' = Known
         /\ ToSet(ledger)' = ToSet(ledger) \cup {t}
         /\ SeenBy(indexed)' = SeenBy(indexed)
<1> USE DEF Commit
<1>1. t \in Transaction
  BY DEF TypeInv
<1> DEFINE T == Transaction   n == Len(ledger)
<1>2. ledger \in Seq(T) /\ n \in Nat /\ DOMAIN ledger = 1..n
  BY LedgerIsTyped DEF TypeInv
<1> HIDE DEF T, n
<1>3. /\ ledger' \in Seq(T) /\ Len(ledger') = n + 1 /\ DOMAIN ledger' = DOMAIN ledger \cup {n + 1}
      /\ ledger'[n + 1] = t /\ n + 1 \notin DOMAIN ledger
      /\ \A k \in DOMAIN ledger : k \in Nat /\ k < n + 1 /\ ledger'[k] = ledger[k]
  BY <1>1, <1>2, AppendExtends DEF T, n
<1>4. ToSet(ledger)' = ToSet(ledger) \cup {t}
  BY <1>3 DEF ToSet
<1>5. Known' = Known
  BY <1>4 DEF Known
<1>6. SeenBy(indexed)' = SeenBy(indexed)
  <2>1. \A i \in 1..indexed : ledger'[i] = ledger[i]
    BY <1>3, LedgerIsTyped
  <2> QED BY <2>1 DEF SeenBy
<1>7. TypeInv'
  <2>1. indexed' \in Nat /\ indexed' <= Len(ledger')
    BY <1>2, <1>3 DEF TypeInv, n
  <2> QED BY <1>3, <2>1 DEF TypeInv, T
<1>8. \A v, u \in Known' : Spends(v)' = Spends(u)' => v = u
  BY <1>5, SpendsKept DEF ChainInv
<1>9. \A v \in pool : Root(v) \/
        \E j \in DOMAIN ledger : <<ledger'[j].run, ledger'[j].name>> = Spends(v)'
  BY <1>3, SpendsKept DEF ChainInv
<1>10. \A v \in pool' : Root(v) \/
         \E j \in DOMAIN ledger' : <<ledger'[j].run, ledger'[j].name>> = Spends(v)'
  BY <1>3, <1>9
<1>11. ASSUME NEW i \in DOMAIN ledger'
       PROVE  (Root(ledger[i]) \/
         \E j \in DOMAIN ledger : j < i /\ <<ledger[j].run, ledger[j].name>> = Spends(ledger[i]))'
  <2>1. CASE i = n + 1
    <3>1. ledger'[i] = t /\ Spends(ledger[i])' = Spends(t)'
      BY <1>3, <2>1
    <3>2. \A j \in DOMAIN ledger : j \in DOMAIN ledger' /\ j < i
      BY <1>3, <2>1
    <3> QED BY <1>9, <3>1, <3>2
  <2>2. CASE i \in DOMAIN ledger
    <3>1. ledger'[i] = ledger[i] /\ Spends(ledger[i])' = Spends(ledger[i])
      BY <1>3, <2>2, SpendsKept
    <3>2. CASE Root(ledger[i])
      BY <3>1, <3>2
    <3>3. CASE \E j \in DOMAIN ledger : j < i /\ <<ledger[j].run, ledger[j].name>> = Spends(ledger[i])
      <4>1. PICK j \in DOMAIN ledger : j < i /\ <<ledger[j].run, ledger[j].name>> = Spends(ledger[i])
        BY <3>3
      <4>2. j \in DOMAIN ledger' /\ ledger'[j] = ledger[j]
        BY <1>3
      <4> QED BY <3>1, <4>1, <4>2
    <3> QED BY <2>2, <3>2, <3>3 DEF ChainInv
  <2> QED BY <1>3, <2>1, <2>2
<1> QED BY <1>4, <1>5, <1>6, <1>7, <1>8, <1>10, <1>11 DEF ChainInv

-----------------------------------------------------------------------------
(* The files *)

LEMMA SaveAdds ==
  ASSUME TypeInv, NEW r \in Runs, NEW kind, NEW name, NEW content, Save(r, kind, name, content)
  PROVE  /\ files' = [q \in Runs |-> files'[q]]
         /\ \A q \in Runs : DOMAIN files[q] \subseteq DOMAIN files'[q]
         /\ <<kind, name>> \in DOMAIN files'[r] /\ files'[r][<<kind, name>>] = content
         /\ \A q \in Runs : \A f \in DOMAIN files'[q] : q # r \/ f # <<kind, name>> =>
              f \in DOMAIN files[q] /\ files'[q][f] = files[q][f]
<1> DEFINE d == [f \in DOMAIN files[r] \cup {<<kind, name>>} |->
                   IF f = <<kind, name>> THEN content ELSE files[r][f]]
<1>1. files' = [files EXCEPT ![r] = d] /\ files = [q \in Runs |-> files[q]]
  BY DEF Save, TypeInv
<1>2. /\ DOMAIN d = DOMAIN files[r] \cup {<<kind, name>>}
      /\ \A f \in DOMAIN d : d[f] = IF f = <<kind, name>> THEN content ELSE files[r][f]
  OBVIOUS
<1> HIDE DEF d
<1>3. /\ files' = [q \in Runs |-> files'[q]] /\ files'[r] = d
      /\ \A q \in Runs : q # r => files'[q] = files[q]
  BY <1>1
<1> QED BY <1>2, <1>3

\* The chain and the failures only grow, seen from a run's directory.
Grows ==
  /\ UNCHANGED deploymentOf /\ failed \subseteq failed'
  /\ ToSet(ledger) \subseteq ToSet(ledger)' /\ SeenBy(indexed) \subseteq SeenBy(indexed)'

LEMMA SaysStays ==
  ASSUME Grows, NEW r, NEW kind, NEW name, NEW content, Says(r, kind, name, content)
  PROVE  Says(r, kind, name, content)'
<1>1. Committed(Tx(r, name)) => Committed(Tx(r, name))'
  <2>1. \A t : Committed(t) <=> t \in ToSet(ledger)
    BY DEF Committed, ToSet
  <2>2. \A t : Committed(t)' <=> t \in ToSet(ledger)'
    BY DEF Committed, ToSet
  <2> QED BY <2>1, <2>2 DEF Grows, Tx
<1>2. Undisturbed(r)' => Undisturbed(r)
  BY DEF Undisturbed, Grows
<1>3. Cells(Tx(r, name))' = Cells(Tx(r, name)) /\ Cells(Tx(r, "revoke"))' = Cells(Tx(r, "revoke"))
  BY SpendsKept DEF Grows
<1>4. Tx(r, name) \in SeenBy(indexed) => Tx(r, name) \in SeenBy(indexed)'
  BY DEF Grows
<1>5. Tx(r, name)' = Tx(r, name) /\ Tx(r, "revoke")' = Tx(r, "revoke")
  BY DEF Tx
<1>6. Says(r, kind, name, content)
  OBVIOUS
<1>7. /\ kind = "rpc" => content = Tx(r, name) /\ Committed(Tx(r, name))'
      /\ kind = "response" /\ name \in Attacks => content = FALSE \/ r \in failed'
      /\ kind = "manifest" => content = deploymentOf'[r]
      /\ kind = "indexer" => Tx(r, name) \in SeenBy(indexed)'
  BY <1>1, <1>4, <1>6 DEF Says, Grows
<1>8. Undisturbed(r)' =>
      /\ kind = "indexer" => content = Cells(Tx(r, name))'
      /\ kind = "adapter" => content = IF name = "revoke" THEN {} ELSE Cells(Tx(r, name))'
      /\ kind = "api" => content = IF name = "revoke" THEN 0 ELSE 1
      /\ kind = "report" => content = Cells(Tx(r, "revoke"))'
  BY <1>2, <1>3, <1>6 DEF Says
<1> QED BY <1>5, <1>7, <1>8 DEF Says

LEMMA FilesStay ==
  ASSUME FilesInv, Grows, UNCHANGED files
  PROVE  FilesInv'
BY SaysStays DEF FilesInv

LEMMA FilesSave ==
  ASSUME TypeInv, FilesInv, Grows, NEW r \in Runs, NEW kind, NEW name, NEW content,
         Save(r, kind, name, content), Says(r, kind, name, content)'
  PROVE  FilesInv'
<1>1. /\ files'[r][<<kind, name>>] = content
      /\ \A q \in Runs : \A f \in DOMAIN files'[q] : q # r \/ f # <<kind, name>> =>
            f \in DOMAIN files[q] /\ files'[q][f] = files[q][f]
  BY SaveAdds
<1>2. ASSUME NEW q \in Runs, NEW f \in DOMAIN files'[q], NEW c, c = files'[q][f]
      PROVE  Says(q, f[1], f[2], c)'
  <2>1. CASE q = r /\ f = <<kind, name>> /\ c = content
    <3>1. f[1] = kind /\ f[2] = name
      BY <2>1
    <3> QED BY <2>1, <3>1
  <2>2. CASE f \in DOMAIN files[q] /\ c = files[q][f]
    <3>1. Says(q, f[1], f[2], c)
      BY <2>2 DEF FilesInv
    <3> QED BY <3>1, SaysStays
  <2>3. \/ q = r /\ f = <<kind, name>> /\ c = content
        \/ f \in DOMAIN files[q] /\ c = files[q][f]
    BY <1>1, <1>2
  <2> QED BY <2>1, <2>2, <2>3
<1> QED BY <1>2 DEF FilesInv

-----------------------------------------------------------------------------
(* The runs *)

LEMMA RunsStep ==
  ASSUME TypeInv, RunInv, NEW r \in Runs,
         \A q \in Runs : DOMAIN files[q] \subseteq DOMAIN files'[q],
         \A q \in Runs, s \in StageNames : Tx(q, s) \in Known' =>
            Tx(q, s) \in Known \/ (q = r /\ (r \in failed' \/ steps'[r] > Before(s))),
         \/ UNCHANGED <<steps, failed>>
         \/ Dies(r) /\ steps[r] < Len(Program)
         \/ /\ Goes(r) /\ r \notin failed /\ steps[r] < Len(Program)
            /\ <<FileOf(Program[steps[r] + 1].op), Program[steps[r] + 1].name>> \in DOMAIN files'[r]
  PROVE  RunInv' /\ steps' \in [Runs -> Nat] /\ failed \subseteq failed'
<1>1. steps' \in [Runs -> Nat] /\ failed \subseteq failed'
  BY DEF TypeInv, Dies, Goes
<1>2. \A q \in Runs : steps'[q] >= steps[q]
  BY DEF TypeInv, Dies, Goes
<1>3. \A s \in StageNames : Before(s) \in Nat
  BY DEF Before, StageNames
<1>4. \A q \in Runs : q \in failed' => steps'[q] < Len(Program)
  BY DEF TypeInv, Dies, Goes, RunInv
<1>5. \A q \in Runs, s \in StageNames : Tx(q, s) \in Known' => q \in failed' \/ steps'[q] > Before(s)
  BY <1>1, <1>2, <1>3 DEF RunInv, TypeInv
<1>6. ASSUME NEW q \in Runs, NEW k \in 1..steps'[q]
      PROVE  <<FileOf(Program[k].op), Program[k].name>> \in DOMAIN files'[q]
  <2>1. CASE k \in 1..steps[q]
    BY <2>1 DEF RunInv
  <2>2. CASE k \notin 1..steps[q]
    <3>1. /\ q = r /\ k = steps[r] + 1
          /\ <<FileOf(Program[steps[r] + 1].op), Program[steps[r] + 1].name>> \in DOMAIN files'[r]
      BY <2>2 DEF TypeInv, Dies, Goes
    <3> QED BY <3>1
  <2> QED BY <2>1, <2>2
<1>7. \A q \in Runs, s \in StageNames : Tx(q, s)' = Tx(q, s) /\ Before(s)' = Before(s)
  BY DEF Tx, Before
<1> QED BY <1>1, <1>4, <1>5, <1>6, <1>7 DEF RunInv

-----------------------------------------------------------------------------
(* The cells of an undisturbed run *)

LEMMA StageCells ==
  ASSUME NEW r, NEW s \in StageNames
  PROVE  Cells(Tx(r, s)) =
           {[id |-> deploymentOf[r], tx |-> Tx(r, s), index |-> 0, active |-> s # "revoke"]}
BY DEF Cells, Tx, StageNames

LEMMA CellNamesItsTransaction ==
  ASSUME NEW t \in Transaction, NEW c \in Cells(t)
  PROVE  c.tx = t
BY DEF Cells, Transaction, StageNames, Attacks

LEMMA SeenIsOfTheRun ==
  ASSUME TypeInv, NEW r \in Runs, Undisturbed(r), NEW t \in SeenBy(indexed)
  PROVE  /\ t \in Known /\ t.run = r /\ t.name \in StageNames /\ t = Tx(r, t.name)
<1>1. t \in ToSet(ledger) /\ t \in Transaction
  BY LedgerIsTyped DEF SeenBy, ToSet
<1> QED BY <1>1, TransactionIsTx DEF Undisturbed, Known

\* Every stage but the first spends the one before.
LEMMA SeenFollows ==
  ASSUME TypeInv, ChainInv, NEW r \in Runs
  PROVE  /\ Tx(r, "update") \in SeenBy(indexed) => Tx(r, "create") \in SeenBy(indexed)
         /\ Tx(r, "transfer") \in SeenBy(indexed) => Tx(r, "update") \in SeenBy(indexed)
         /\ Tx(r, "revoke") \in SeenBy(indexed) => Tx(r, "transfer") \in SeenBy(indexed)
<1>1. ASSUME NEW n \in StageNames \ {"create"}, NEW p \in StageNames,
             Spends(Tx(r, n)) = <<r, p>>, Tx(r, n) \in SeenBy(indexed)
      PROVE  Tx(r, p) \in SeenBy(indexed)
  <2>1. PICK i \in 1..indexed : ledger[i] = Tx(r, n)
    BY <1>1 DEF SeenBy
  <2>2. i \in DOMAIN ledger /\ ~Root(ledger[i])
    BY <2>1, LedgerIsTyped, TxIsTransaction DEF Root, StageNames
  <2>3. PICK j \in DOMAIN ledger : j < i /\ <<ledger[j].run, ledger[j].name>> = <<r, p>>
    BY <1>1, <2>1, <2>2 DEF ChainInv
  <2>4. ledger[j] = Tx(r, p)
    <3>1. ledger[j] \in Transaction
      BY LedgerIsTyped
    <3> QED BY <2>3, <3>1, TransactionIsTx
  <2>5. j \in 1..indexed
    BY <2>3, LedgerIsTyped DEF TypeInv
  <2> QED BY <2>4, <2>5 DEF SeenBy
<1>2. {"create", "update", "transfer", "revoke"} \subseteq StageNames
  BY DEF StageNames
<1> QED BY <1>1, <1>2, SpendsOf

LEMMA NobodySpends ==
  ASSUME TypeInv, NEW r \in Runs, Undisturbed(r), NEW s \in StageNames,
         s = "create" => Tx(r, "update") \notin SeenBy(indexed),
         s = "update" => Tx(r, "transfer") \notin SeenBy(indexed),
         s = "transfer" => Tx(r, "revoke") \notin SeenBy(indexed),
         NEW t \in SeenBy(indexed)
  PROVE  Spends(t) # <<r, s>>
<1>1. t = Tx(r, t.name) /\ t.name \in StageNames
  BY SeenIsOfTheRun
<1>2. t.name = "create" => Spends(t) = <<deploymentOf[r], "funding">>
  BY <1>1, SpendsOf
<1>3. t.name = "update" => Spends(t) = <<r, "create">>
  BY <1>1, SpendsOf
<1>4. t.name = "transfer" => Spends(t) = <<r, "update">>
  BY <1>1, SpendsOf
<1>5. t.name = "revoke" => Spends(t) = <<r, "transfer">>
  BY <1>1, SpendsOf
<1> QED BY <1>1, <1>2, <1>3, <1>4, <1>5 DEF StageNames

\* The last stage that the indexer has seen is all that it shows.
LEMMA LastStageLives ==
  ASSUME TypeInv, ChainInv, NEW r \in Runs, Undisturbed(r), NEW s \in StageNames,
         Tx(r, s) \in SeenBy(indexed), \A t \in SeenBy(indexed) : Spends(t) # <<r, s>>
  PROVE  LiveCells(indexed) = Cells(Tx(r, s))
<1> DEFINE S == SeenBy(indexed)
           Alive(c) == c.index = 1 \/ \A t \in S : Spends(t) # <<c.tx.run, c.tx.name>>
<1>1. LiveCells(indexed) = {c \in UNION {Cells(t) : t \in S} : Alive(c)}
  BY DEF LiveCells, SeenBy
<1>2. ASSUME NEW n \in StageNames, NEW c \in Cells(Tx(r, n))
      PROVE  c.index # 1 /\ c.tx.run = r /\ c.tx.name = n
  <2>1. c = [id |-> deploymentOf[r], tx |-> Tx(r, n), index |-> 0, active |-> n # "revoke"]
    BY StageCells
  <2> QED BY <2>1, TxIsTransaction
<1>3. \A t \in S : t.name \in StageNames /\ t = Tx(r, t.name)
  BY SeenIsOfTheRun
<1>4. ASSUME NEW n \in StageNames, n # s, Tx(r, n) \in S
      PROVE  \E t \in S : Spends(t) = <<r, n>>
  <2>1. /\ Spends(Tx(r, "update")) = <<r, "create">> /\ Spends(Tx(r, "transfer")) = <<r, "update">>
        /\ Spends(Tx(r, "revoke")) = <<r, "transfer">>
    BY SpendsOf
  <2>2. /\ Tx(r, "update") \in S => Tx(r, "create") \in S
        /\ Tx(r, "transfer") \in S => Tx(r, "update") \in S
        /\ Tx(r, "revoke") \in S => Tx(r, "transfer") \in S
    BY SeenFollows
  <2>3. /\ s = "create" => Tx(r, "update") \notin S
        /\ s = "update" => Tx(r, "transfer") \notin S
        /\ s = "transfer" => Tx(r, "revoke") \notin S
    BY <2>1
  <2> HIDE DEF S
  <2>4. n = "revoke" => FALSE
    BY <1>4, <2>2, <2>3 DEF StageNames
  <2>5. n = "transfer" => Tx(r, "revoke") \in S
    BY <1>4, <2>2, <2>3 DEF StageNames, S
  <2>6. n = "update" => Tx(r, "transfer") \in S
    BY <1>4, <2>2, <2>3 DEF StageNames, S
  <2>7. n = "create" => Tx(r, "update") \in S
    BY <1>4, <2>2, <2>3 DEF StageNames, S
  <2> QED BY <2>1, <2>4, <2>5, <2>6, <2>7 DEF StageNames
<1>5. \A c \in Cells(Tx(r, s)) : Alive(c)
  BY <1>2
<1>6. \A n \in StageNames : \A c \in Cells(Tx(r, n)) : n # s /\ Tx(r, n) \in S => ~Alive(c)
  BY <1>2, <1>4
<1> HIDE DEF Alive
<1>7. \A c \in LiveCells(indexed) : c \in Cells(Tx(r, s))
  BY <1>1, <1>3, <1>6
<1>8. \A c \in Cells(Tx(r, s)) : c \in LiveCells(indexed)
  BY <1>1, <1>5
<1> QED BY <1>7, <1>8

LEMMA DiscoveryOfOneCell ==
  ASSUME NEW r, NEW s \in StageNames, LiveCells(indexed) = Cells(Tx(r, s))
  PROVE  ActiveReceivers = IF s = "revoke" THEN {} ELSE Cells(Tx(r, s))
<1> DEFINE c == [id |-> deploymentOf[r], tx |-> Tx(r, s), index |-> 0, active |-> s # "revoke"]
<1>1. Cells(Tx(r, s)) = {c} /\ c.active = (s # "revoke")
  BY StageCells
<1> HIDE DEF c
<1> QED BY <1>1 DEF ActiveReceivers

-----------------------------------------------------------------------------
(* The steps *)

LEMMA ProgramStep ==
  ASSUME TypeInv, NEW r \in Runs, NEW op, NEW name, At(r, op, name)
  PROVE  /\ steps[r] + 1 \in 1..Len(Program) /\ Program[steps[r] + 1] = Do(op, name)
         /\ r \notin failed /\ steps[r] < Len(Program)
         /\ FileOf(Program[steps[r] + 1].op) = FileOf(op) /\ Program[steps[r] + 1].name = name
<1>1. /\ Program[steps[r] + 1] = Do(op, name) /\ r \notin failed /\ steps[r] < Len(Program)
  BY DEF At
<1>2. steps[r] + 1 \in 1..Len(Program)
  <2>1. steps[r] \in Nat /\ Len(Program) = 29
    BY WholeProgram DEF TypeInv
  <2> QED BY <1>1, <2>1
<1>3. Do(op, name).op = op /\ Do(op, name).name = name
  BY DEF Do
<1> QED BY <1>1, <1>2, <1>3

\* A step of a run that leaves the chain alone.
LEMMA QuietStep ==
  ASSUME IInv, UNCHANGED <<deploymentOf, chain>>, NEW r \in Runs,
         NEW op, NEW name, At(r, op, name), Goes(r), NEW content,
         Save(r, FileOf(op), name, content), Says(r, FileOf(op), name, content)
  PROVE  IInv'
<1> USE DEF IInv, chain
<1>1. ChainInv' /\ Known' = Known
  BY ChainShrinks DEF Known
<1>2. /\ files' = [q \in Runs |-> files'[q]]
      /\ \A q \in Runs : DOMAIN files[q] \subseteq DOMAIN files'[q]
      /\ <<FileOf(op), name>> \in DOMAIN files'[r]
  BY SaveAdds
<1>3. RunInv' /\ steps' \in [Runs -> Nat]
  BY <1>1, <1>2, ProgramStep, RunsStep
<1>4. TypeInv'
  BY <1>2, <1>3 DEF TypeInv
<1>5. Grows
  BY DEF Grows, Goes, SeenBy, ToSet
<1>6. FilesInv'
  BY <1>5, SaysStays, FilesSave
<1> QED BY <1>1, <1>3, <1>4, <1>6

LEMMA AttackIsFine ==
  ASSUME IInv, NEW r \in Runs, NEW a \in Attacks, SubmitAttack(r, a)
  PROVE  IInv'
<1> USE DEF IInv
<1>1. PICK accepted \in BOOLEAN :
        /\ At(r, "attack", a) /\ Sends(Tx(r, a), accepted)
        /\ Save(r, "response", a, accepted)
        /\ IF accepted THEN Dies(r) ELSE Goes(r)
        /\ UNCHANGED <<deploymentOf, broken, ledger, indexed>>
  BY DEF SubmitAttack
<1>2. Tx(r, a) \in Transaction
  BY TxIsTransaction
<1>3. ChainInv' /\ pool' \subseteq Transaction /\ Known' \subseteq Known \cup {Tx(r, a)}
  BY <1>1, <1>2, ChainTakes
<1>4. /\ files' = [q \in Runs |-> files'[q]]
      /\ \A q \in Runs : DOMAIN files[q] \subseteq DOMAIN files'[q]
      /\ <<"response", a>> \in DOMAIN files'[r]
  BY <1>1, SaveAdds
<1>5. \A q \in Runs, s \in StageNames : Tx(q, s) \in Known' => Tx(q, s) \in Known
  BY <1>3, StageIsNoAttack DEF Tx
<1>6. /\ r \notin failed /\ steps[r] < Len(Program)
      /\ <<FileOf(Program[steps[r] + 1].op), Program[steps[r] + 1].name>> \in DOMAIN files'[r]
  BY <1>1, <1>4, ProgramStep DEF FileOf
<1>7. RunInv' /\ steps' \in [Runs -> Nat] /\ failed \subseteq failed'
  BY <1>1, <1>4, <1>5, <1>6, RunsStep
<1>8. TypeInv'
  BY <1>1, <1>3, <1>4, <1>7 DEF TypeInv
<1>9. Grows
  BY <1>1, <1>7 DEF Grows, SeenBy, ToSet
<1>10. Says(r, "response", a, accepted)'
  BY <1>1 DEF Says, Dies
<1>11. FilesInv'
  BY <1>1, <1>9, <1>10, FilesSave
<1> QED BY <1>3, <1>7, <1>8, <1>11

LEMMA StageIsFine ==
  ASSUME IInv, NEW r \in Runs, NEW s \in StageNames, SubmitStage(r, s)
  PROVE  IInv'
<1> USE DEF IInv
<1>1. PICK accepted \in BOOLEAN :
        /\ At(r, "send", s) /\ Sends(Tx(r, s), accepted)
        /\ Save(r, "response", s, accepted)
        /\ IF accepted THEN Goes(r) ELSE Dies(r)
        /\ UNCHANGED <<deploymentOf, broken, ledger, indexed>>
  BY DEF SubmitStage
<1>2. Tx(r, s) \in Transaction
  BY TxIsTransaction
<1>3. ChainInv' /\ pool' \subseteq Transaction /\ Known' \subseteq Known \cup {Tx(r, s)}
  BY <1>1, <1>2, ChainTakes
<1>4. /\ files' = [q \in Runs |-> files'[q]]
      /\ \A q \in Runs : DOMAIN files[q] \subseteq DOMAIN files'[q]
      /\ <<"response", s>> \in DOMAIN files'[r]
  BY <1>1, SaveAdds
<1>5. r \in failed' \/ steps'[r] > Before(s)
  <2>1. steps[r] + 1 = Before(s) + 1
    BY <1>1, ProgramStep, Sending
  <2>2. Before(s) \in Nat
    BY DEF Before, StageNames
  <2> QED BY <1>1, <2>1, <2>2 DEF Goes, Dies, TypeInv
<1>6. \A q \in Runs, n \in StageNames : Tx(q, n) \in Known' =>
        Tx(q, n) \in Known \/ (q = r /\ (r \in failed' \/ steps'[r] > Before(n)))
  <2>1. \A q \in Runs, n \in StageNames : Tx(q, n) = Tx(r, s) => q = r /\ n = s
    BY DEF Tx
  <2> QED BY <1>3, <1>5, <2>1
<1>7. /\ r \notin failed /\ steps[r] < Len(Program)
      /\ <<FileOf(Program[steps[r] + 1].op), Program[steps[r] + 1].name>> \in DOMAIN files'[r]
  BY <1>1, <1>4, ProgramStep DEF FileOf
<1>8. RunInv' /\ steps' \in [Runs -> Nat] /\ failed \subseteq failed'
  BY <1>1, <1>4, <1>6, <1>7, RunsStep
<1>9. TypeInv'
  BY <1>1, <1>3, <1>4, <1>8 DEF TypeInv
<1>10. Grows
  BY <1>1, <1>8 DEF Grows, SeenBy, ToSet
<1>11. Says(r, "response", s, accepted)'
  BY StageIsNoAttack DEF Says
<1>12. FilesInv'
  BY <1>1, <1>10, <1>11, FilesSave
<1> QED BY <1>3, <1>8, <1>9, <1>12

LEMMA WaitIsFine ==
  ASSUME IInv, NEW r \in Runs, NEW s \in StageNames, WaitCommitted(r, s)
  PROVE  IInv'
<1>1. Says(r, FileOf("wait"), s, Tx(r, s))
  BY DEF WaitCommitted, Says, FileOf
<1> QED BY <1>1, QuietStep DEF WaitCommitted, FileOf

LEMMA IndexerIsFine ==
  ASSUME IInv, NEW r \in Runs, NEW s \in StageNames, CaptureIndexer(r, s)
  PROVE  IInv'
<1> USE DEF IInv
<1> DEFINE found == {c \in LiveCells(indexed) : c.id = deploymentOf[r]}
<1>1. PICK c \in found : c.tx = Tx(r, s) /\ c.index = 0
  BY DEF CaptureIndexer
<1>2. PICK t \in SeenBy(indexed) : c \in Cells(t)
  BY <1>1 DEF LiveCells, SeenBy
<1>3. t \in Transaction
  BY <1>2, LedgerIsTyped DEF SeenBy
<1>4. Tx(r, s) \in SeenBy(indexed)
  BY <1>1, <1>2, <1>3, CellNamesItsTransaction
<1>5. \A u \in SeenBy(indexed) : Spends(u) # <<r, s>>
  BY <1>1, TxIsTransaction DEF LiveCells, SeenBy
<1>6. Undisturbed(r) => found = Cells(Tx(r, s))
  <2> SUFFICES ASSUME Undisturbed(r) PROVE found = Cells(Tx(r, s))
    OBVIOUS
  <2>1. LiveCells(indexed) = Cells(Tx(r, s))
    BY <1>4, <1>5, LastStageLives
  <2>2. \A d \in Cells(Tx(r, s)) : d.id = deploymentOf[r]
    BY StageCells
  <2> QED BY <2>1, <2>2
<1> HIDE DEF found
<1>7. Says(r, FileOf("indexer"), s, found)
  BY <1>4, <1>6 DEF Says, FileOf
<1>8. Save(r, FileOf("indexer"), s, found)
  BY DEF CaptureIndexer, FileOf, found
<1> QED BY <1>7, <1>8, QuietStep DEF CaptureIndexer

LEMMA AdapterIsFine ==
  ASSUME IInv, NEW r \in Runs, NEW s \in StageNames, CaptureAdapter(r, s)
  PROVE  IInv'
<1> USE DEF IInv
<1> DEFINE k == steps[r] + 1
<1>1. k \in 1..Len(Program) /\ Program[k] = Do("adapter", s) /\ r \notin failed
  BY ProgramStep DEF CaptureAdapter
<1>2. /\ Program[k - 1] = Do("indexer", s) /\ k - 1 \in 1..steps[r]
      /\ s = "create" => k <= Before("update")
      /\ s = "update" => k <= Before("transfer")
      /\ s = "transfer" => k <= Before("revoke")
  BY <1>1, Adapting DEF TypeInv
<1>3. <<"indexer", s>> \in DOMAIN files[r]
  <2>1. FileOf(Program[k - 1].op) = "indexer" /\ Program[k - 1].name = s
    BY <1>2 DEF Do, FileOf
  <2> QED BY <1>2, <2>1 DEF RunInv
<1>4. Tx(r, s) \in SeenBy(indexed)
  <2>1. Says(r, <<"indexer", s>>[1], <<"indexer", s>>[2], files[r][<<"indexer", s>>])
    BY <1>3 DEF FilesInv
  <2> QED BY <2>1 DEF Says
<1>5. SeenBy(indexed) \subseteq Known
  BY LedgerIsTyped DEF SeenBy, Known, ToSet
<1>6. \A n \in StageNames : Tx(r, n) \in SeenBy(indexed) => steps[r] > Before(n)
  BY <1>1, <1>5 DEF RunInv
<1>7. /\ s = "create" => Tx(r, "update") \notin SeenBy(indexed)
      /\ s = "update" => Tx(r, "transfer") \notin SeenBy(indexed)
      /\ s = "transfer" => Tx(r, "revoke") \notin SeenBy(indexed)
  BY <1>2, <1>6 DEF TypeInv, Before, StageNames
<1>8. Undisturbed(r) => ActiveReceivers = IF s = "revoke" THEN {} ELSE Cells(Tx(r, s))
  <2> SUFFICES ASSUME Undisturbed(r)
               PROVE  ActiveReceivers = IF s = "revoke" THEN {} ELSE Cells(Tx(r, s))
    OBVIOUS
  <2>1. \A t \in SeenBy(indexed) : Spends(t) # <<r, s>>
    BY <1>7, NobodySpends
  <2> QED BY <1>4, <2>1, LastStageLives, DiscoveryOfOneCell
<1>9. Says(r, FileOf("adapter"), s, ActiveReceivers)
  BY <1>8 DEF Says, FileOf
<1>10. Save(r, FileOf("adapter"), s, ActiveReceivers)
  BY DEF CaptureAdapter, FileOf
<1> QED BY <1>9, <1>10, QuietStep DEF CaptureAdapter

\* The part before left the file whose peers are counted.
LEMMA ApiIsFine ==
  ASSUME IInv, NEW r \in Runs, NEW s \in StageNames, CaptureApi(r, s)
  PROVE  IInv'
<1> USE DEF IInv
<1> DEFINE k == steps[r] + 1   counted == Cardinality(Saved(r, "adapter", s))
<1>1. k \in 1..Len(Program) /\ Program[k] = Do("api", s)
  BY ProgramStep DEF CaptureApi
<1>2. Program[k - 1] = Do("adapter", s) /\ k - 1 \in 1..steps[r]
  BY <1>1, Counting DEF TypeInv
<1>3. <<"adapter", s>> \in DOMAIN files[r]
  <2>1. FileOf(Program[k - 1].op) = "adapter" /\ Program[k - 1].name = s
    BY <1>2 DEF Do, FileOf
  <2> QED BY <1>2, <2>1 DEF RunInv
<1>4. Undisturbed(r) => Saved(r, "adapter", s) = IF s = "revoke" THEN {} ELSE Cells(Tx(r, s))
  <2>1. Says(r, <<"adapter", s>>[1], <<"adapter", s>>[2], files[r][<<"adapter", s>>])
    BY <1>3 DEF FilesInv
  <2> QED BY <2>1 DEF Says, Saved
<1>5. Cardinality({}) = 0 /\ Cardinality(Cells(Tx(r, s))) = 1
  <2>1. PICK c : Cells(Tx(r, s)) = {c}
    BY StageCells
  <2> QED BY <2>1, FS_EmptySet, FS_Singleton
<1>6. Undisturbed(r) => counted = IF s = "revoke" THEN 0 ELSE 1
  BY <1>4, <1>5
<1>7. Save(r, FileOf("api"), s, counted)
  BY DEF CaptureApi, FileOf
<1> HIDE DEF counted
<1>8. Says(r, FileOf("api"), s, counted)
  BY <1>6 DEF Says, FileOf
<1> QED BY <1>7, <1>8, QuietStep DEF CaptureApi

LEMMA ManifestIsFine ==
  ASSUME IInv, NEW r \in Runs, WriteManifest(r)
  PROVE  IInv'
<1>1. Says(r, FileOf("manifest"), "all", deploymentOf[r])
  BY DEF Says, FileOf
<1>2. Save(r, FileOf("manifest"), "all", deploymentOf[r])
  BY DEF WriteManifest, FileOf
<1> QED BY <1>1, <1>2, QuietStep DEF WriteManifest

LEMMA ChecksumsAreFine ==
  ASSUME IInv, NEW r \in Runs, WriteChecksums(r)
  PROVE  IInv'
<1>1. Says(r, FileOf("checksums"), "all", DOMAIN files[r])
  BY DEF Says, FileOf
<1>2. Save(r, FileOf("checksums"), "all", DOMAIN files[r])
  BY DEF WriteChecksums, FileOf
<1> QED BY <1>1, <1>2, QuietStep DEF WriteChecksums

LEMMA FailIsFine ==
  ASSUME IInv, NEW r \in Runs, Fail(r)
  PROVE  IInv'
<1> USE DEF IInv
<1>1. Dies(r) /\ steps[r] < Len(Program) /\ UNCHANGED <<deploymentOf, broken, chain, files>>
  BY DEF Fail
<1>2. ChainInv' /\ Known' = Known
  BY <1>1, ChainShrinks DEF Known, chain
<1>3. RunInv' /\ steps' \in [Runs -> Nat] /\ failed \subseteq failed'
  BY <1>1, <1>2, RunsStep
<1>4. TypeInv'
  BY <1>1, <1>3 DEF TypeInv, chain
<1>5. FilesInv'
  BY <1>1, <1>3, FilesStay DEF Grows, SeenBy, ToSet, chain
<1> QED BY <1>2, <1>3, <1>4, <1>5

\* What is added to the directory of a completed run.
LEMMA AfterwardsIsFine ==
  ASSUME IInv, UNCHANGED <<deploymentOf, broken, chain, steps, failed>>, NEW r \in Runs,
         NEW kind, NEW content, Save(r, kind, "all", content), Says(r, kind, "all", content)
  PROVE  IInv'
<1> USE DEF IInv
<1>1. ChainInv' /\ Known' = Known
  BY ChainShrinks DEF Known, chain
<1>2. /\ files' = [q \in Runs |-> files'[q]]
      /\ \A q \in Runs : DOMAIN files[q] \subseteq DOMAIN files'[q]
  BY SaveAdds
<1>3. RunInv' /\ steps' \in [Runs -> Nat]
  BY <1>1, <1>2, RunsStep
<1>4. TypeInv'
  BY <1>2, <1>3 DEF TypeInv, chain
<1>5. Grows
  BY DEF Grows, SeenBy, ToSet, chain
<1>6. FilesInv'
  BY <1>5, SaysStays, FilesSave
<1> QED BY <1>1, <1>3, <1>4, <1>6

\* A completed run has every file of the program.
LEMMA CompletedHas ==
  ASSUME IInv, NEW r \in Runs, Completed(r)
  PROVE  /\ r \notin failed
         /\ \A a \in Attacks : Has(r, "response", a)
         /\ \A s \in StageNames : \A kind \in {"rpc", "indexer", "adapter", "api"} : Has(r, kind, s)
         /\ Has(r, "manifest", "all") /\ Has(r, "checksums", "all")
<1>1. ASSUME NEW k \in 1..29, NEW op, NEW name, Program[k] = Do(op, name)
      PROVE  Has(r, FileOf(op), name)
  <2>1. Program[k].op = op /\ Program[k].name = name
    BY <1>1 DEF Do
  <2>2. steps[r] = 29
    BY WholeProgram DEF Completed
  <2> QED BY <2>1, <2>2 DEF IInv, RunInv, Has
<1>2. r \notin failed
  BY WholeProgram DEF IInv, RunInv, Completed
<1>3. /\ FileOf("attack") = "response" /\ FileOf("wait") = "rpc" /\ FileOf("indexer") = "indexer"
      /\ FileOf("adapter") = "adapter" /\ FileOf("api") = "api" /\ FileOf("manifest") = "manifest"
      /\ FileOf("checksums") = "checksums"
  BY DEF FileOf
<1>4. \A a \in Attacks : Has(r, "response", a)
  BY <1>1, <1>3, WholeProgram
<1>5. \A s \in StageNames : \A kind \in {"rpc", "indexer", "adapter", "api"} : Has(r, kind, s)
  <2> TAKE s \in StageNames
  <2>1. Has(r, "rpc", s)
    BY <1>1, <1>3, WholeProgram
  <2>2. Has(r, "indexer", s)
    BY <1>1, <1>3, WholeProgram
  <2>3. Has(r, "adapter", s)
    BY <1>1, <1>3, WholeProgram
  <2>4. Has(r, "api", s)
    BY <1>1, <1>3, WholeProgram
  <2> QED BY <2>1, <2>2, <2>3, <2>4
<1>6. Has(r, "manifest", "all") /\ Has(r, "checksums", "all")
  BY <1>1, <1>3, WholeProgram
<1> QED BY <1>2, <1>4, <1>5, <1>6

\* What a saved file says, read by the name of the file.
LEMMA SavedSays ==
  ASSUME IInv, NEW r \in Runs, NEW kind, NEW name, Has(r, kind, name)
  PROVE  Says(r, kind, name, Saved(r, kind, name))
<1>1. Says(r, <<kind, name>>[1], <<kind, name>>[2], files[r][<<kind, name>>])
  BY DEF IInv, FilesInv, Has
<1>2. <<kind, name>>[1] = kind /\ <<kind, name>>[2] = name
  OBVIOUS
<1> QED BY <1>1, <1>2 DEF Saved, Says

LEMMA ReportsAreFine ==
  ASSUME IInv, NEW r \in Runs, AddReports(r)
  PROVE  IInv'
<1> USE DEF IInv
<1>1. Has(r, "indexer", "revoke")
  BY CompletedHas DEF AddReports, StageNames
<1>2. Tx(r, "revoke") \in SeenBy(indexed)
  BY <1>1, SavedSays DEF Says
<1>3. Undisturbed(r) => LiveCells(indexed) = Cells(Tx(r, "revoke"))
  <2> SUFFICES ASSUME Undisturbed(r) PROVE LiveCells(indexed) = Cells(Tx(r, "revoke"))
    OBVIOUS
  <2>1. "revoke" \in StageNames
    BY DEF StageNames
  <2>2. \A t \in SeenBy(indexed) : Spends(t) # <<r, "revoke">>
    BY <2>1, NobodySpends
  <2> QED BY <1>2, <2>1, <2>2, LastStageLives
<1>4. Says(r, "report", "all", LiveCells(indexed))
  BY <1>3 DEF Says
<1> QED BY <1>4, AfterwardsIsFine DEF AddReports

LEMMA ContractIsFine ==
  ASSUME IInv, NEW r \in Runs, AddContract(r)
  PROVE  IInv'
<1>1. PICK deployed \in BOOLEAN : Save(r, "contract", "all", deployed)
  BY DEF AddContract
<1>2. Says(r, "contract", "all", deployed)
  BY DEF Says
<1> QED BY <1>1, <1>2, AfterwardsIsFine DEF AddContract

LEMMA RehashIsFine ==
  ASSUME IInv, NEW r \in Runs, Rehash(r)
  PROVE  IInv'
<1> DEFINE hashed == DOMAIN files[r] \ {<<"checksums", "all">>}
<1>1. Says(r, "checksums", "all", hashed)
  BY DEF Says
<1>2. Save(r, "checksums", "all", hashed)
  BY DEF Rehash
<1> HIDE DEF hashed
<1> QED BY <1>1, <1>2, AfterwardsIsFine DEF Rehash

LEMMA CommitIsFine ==
  ASSUME IInv, NEW t \in pool, Commit(t)
  PROVE  IInv'
<1> USE DEF IInv
<1>1. /\ ChainInv' /\ TypeInv' /\ Known' = Known
      /\ ToSet(ledger)' = ToSet(ledger) \cup {t} /\ SeenBy(indexed)' = SeenBy(indexed)
  BY ChainCommits
<1>2. RunInv'
  <2>1. \A r \in Runs, s \in StageNames : Tx(r, s)' = Tx(r, s)
    BY DEF Tx
  <2> QED BY <1>1, <2>1 DEF RunInv, Commit
<1>3. FilesInv'
  BY <1>1, FilesStay DEF Grows, Commit
<1> QED BY <1>1, <1>2, <1>3

LEMMA DropIsFine ==
  ASSUME IInv, NEW t \in pool, Drop(t)
  PROVE  IInv'
<1> USE DEF IInv
<1>1. ChainInv' /\ Known' \subseteq Known
  BY ChainShrinks DEF Drop
<1>2. TypeInv'
  BY DEF TypeInv, Drop
<1>3. RunInv'
  <2>1. \A r \in Runs, s \in StageNames : Tx(r, s)' = Tx(r, s)
    BY DEF Tx
  <2> QED BY <1>1, <2>1 DEF RunInv, Drop
<1>4. FilesInv'
  BY FilesStay DEF Grows, SeenBy, ToSet, Drop
<1> QED BY <1>1, <1>2, <1>3, <1>4

LEMMA IndexIsFine ==
  ASSUME IInv, Index
  PROVE  IInv'
<1> USE DEF IInv
<1>1. ChainInv' /\ Known' = Known
  BY ChainShrinks DEF Index, Known
<1>2. TypeInv'
  BY LedgerIsTyped DEF TypeInv, Index
<1>3. RunInv'
  <2>1. \A r \in Runs, s \in StageNames : Tx(r, s)' = Tx(r, s)
    BY DEF Tx
  <2> QED BY <1>1, <2>1 DEF RunInv, Index
<1>4. SeenBy(indexed) \subseteq SeenBy(indexed)'
  <2>1. \A i \in 1..indexed : i \in 1..indexed'
    BY DEF TypeInv, Index
  <2> QED BY <2>1 DEF SeenBy, Index
<1>5. FilesInv'
  BY <1>4, FilesStay DEF Grows, ToSet, Index
<1> QED BY <1>1, <1>2, <1>3, <1>5

LEMMA InitIsFine == Init => IInv
<1> SUFFICES ASSUME Init PROVE IInv
  OBVIOUS
<1>1. ledger = <<>> /\ pool = {} /\ indexed = 0 /\ Known = {} /\ DOMAIN ledger = {}
  BY DEF Init, Known, ToSet
<1>2. TypeInv
  BY <1>1 DEF Init, TypeInv
<1>3. ChainInv
  BY <1>1 DEF ChainInv
<1>4. RunInv
  BY <1>1, WholeProgram DEF Init, RunInv
<1>5. FilesInv
  BY DEF Init, FilesInv
<1> QED BY <1>2, <1>3, <1>4, <1>5 DEF IInv

LEMMA NextIsFine == IInv /\ [Next]_vars => IInv'
<1> SUFFICES ASSUME IInv, [Next]_vars PROVE IInv'
  OBVIOUS
<1>1. CASE \E tx \in pool : Commit(tx) \/ Drop(tx)
  BY <1>1, CommitIsFine, DropIsFine
<1>2. CASE Index
  BY <1>2, IndexIsFine
<1>3. CASE \E r \in Runs : \E a \in Attacks : SubmitAttack(r, a)
  BY <1>3, AttackIsFine
<1>4. CASE \E r \in Runs : \E s \in ToSet(Stages) :
             \/ SubmitStage(r, s) \/ WaitCommitted(r, s)
             \/ CaptureIndexer(r, s) \/ CaptureAdapter(r, s) \/ CaptureApi(r, s)
  BY <1>4, StageNamesOfStages, StageIsFine, WaitIsFine, IndexerIsFine, AdapterIsFine, ApiIsFine
<1>5. CASE \E r \in Runs :
             \/ WriteManifest(r) \/ WriteChecksums(r) \/ Fail(r)
             \/ AddContract(r) \/ AddReports(r) \/ Rehash(r)
  BY <1>5, ManifestIsFine, ChecksumsAreFine, FailIsFine, ContractIsFine, ReportsAreFine,
     RehashIsFine
<1>6. CASE UNCHANGED vars
  <2>1. UNCHANGED <<deploymentOf, broken, chain, steps, failed, files>>
    BY <1>6 DEF vars
  <2>2. ChainInv' /\ Known' = Known
    BY <2>1, ChainShrinks DEF Known, chain, IInv
  <2>3. RunInv'
    <3>1. \A r \in Runs, s \in StageNames : Tx(r, s)' = Tx(r, s)
      BY DEF Tx
    <3> QED BY <2>1, <2>2, <3>1 DEF RunInv, IInv
  <2>4. TypeInv'
    BY <2>1 DEF TypeInv, chain, IInv
  <2>5. FilesInv'
    BY <2>1, FilesStay DEF Grows, SeenBy, ToSet, chain, IInv
  <2> QED BY <2>2, <2>3, <2>4, <2>5 DEF IInv
<1> QED BY <1>1, <1>2, <1>3, <1>4, <1>5, <1>6 DEF Next

LEMMA Invariance == Spec => []IInv
<1> QED BY InitIsFine, NextIsFine, PTL DEF Spec

-----------------------------------------------------------------------------
(* The properties *)

\* A verified bundle has the four stages in the ledger.
LEMMA VerifiedIsCommitted ==
  ASSUME IInv, NEW r \in Runs, verify_bundle(r), NEW s \in StageNames
  PROVE  Committed(Tx(r, s))
<1>1. PICK i \in DOMAIN Stages : Stages[i] = s
  BY StageNamesOfStages DEF ToSet
<1>2. Has(r, "rpc", s)
  BY <1>1 DEF verify_bundle, StageSaved
<1> QED BY <1>2, SavedSays DEF Says

\* The stage before is earlier in the ledger.
LEMMA StageFollows ==
  ASSUME IInv, NEW r \in Runs, NEW n \in StageNames \ {"create"}, NEW p \in StageNames,
         Spends(Tx(r, n)) = <<r, p>>, NEW i \in DOMAIN ledger, ledger[i] = Tx(r, n)
  PROVE  \E j \in DOMAIN ledger : j < i /\ ledger[j] = Tx(r, p)
<1>1. ~Root(ledger[i])
  BY TxIsTransaction DEF Root, StageNames
<1>2. PICK j \in DOMAIN ledger : j < i /\ <<ledger[j].run, ledger[j].name>> = <<r, p>>
  BY <1>1 DEF IInv, ChainInv
<1>3. ledger[j] \in Transaction
  BY LedgerIsTyped DEF IInv
<1> QED BY <1>2, <1>3, TransactionIsTx

LEMMA VerifiedThenTrue == IInv => VerifiedIsTrue
<1> SUFFICES ASSUME IInv, NEW r \in Runs, verify_bundle(r)
             PROVE  /\ \E at \in [1..Len(Stages) -> DOMAIN ledger] :
                         \A i \in DOMAIN Stages :
                           ledger[at[i]] = Tx(r, Stages[i]) /\ (i > 1 => at[i - 1] < at[i])
                    /\ \A a \in Attacks \ {"resurrection", "tombstone-burn"} :
                         Tx(r, a) \notin pool \cup ToSet(ledger)
                    /\ \A q \in Runs \ {r} : verify_bundle(q) => deploymentOf[q] # deploymentOf[r]
  BY DEF VerifiedIsTrue
<1> USE DEF IInv
<1>1. \E at \in [1..Len(Stages) -> DOMAIN ledger] :
         \A i \in DOMAIN Stages :
           ledger[at[i]] = Tx(r, Stages[i]) /\ (i > 1 => at[i - 1] < at[i])
  <2>1. {"create", "update", "transfer", "revoke"} = StageNames
    BY DEF StageNames
  <2>2. Committed(Tx(r, "revoke"))
    BY <2>1, VerifiedIsCommitted
  <2>3. PICK d \in DOMAIN ledger : ledger[d] = Tx(r, "revoke")
    BY <2>2 DEF Committed
  <2>4. PICK c \in DOMAIN ledger : c < d /\ ledger[c] = Tx(r, "transfer")
    BY <2>1, <2>3, SpendsOf, StageFollows
  <2>5. PICK b \in DOMAIN ledger : b < c /\ ledger[b] = Tx(r, "update")
    BY <2>1, <2>4, SpendsOf, StageFollows
  <2>6. PICK a \in DOMAIN ledger : a < b /\ ledger[a] = Tx(r, "create")
    BY <2>1, <2>5, SpendsOf, StageFollows
  <2> DEFINE at == [i \in 1..4 |-> IF i = 1 THEN a ELSE IF i = 2 THEN b ELSE IF i = 3 THEN c ELSE d]
  <2>7. at[1] = a /\ at[2] = b /\ at[3] = c /\ at[4] = d
    OBVIOUS
  <2>8. at \in [1..Len(Stages) -> DOMAIN ledger]
    BY StagesAreNamed
  <2> HIDE DEF at
  <2>9. \A i \in DOMAIN Stages : ledger[at[i]] = Tx(r, Stages[i])
    BY <2>3, <2>4, <2>5, <2>6, <2>7, StagesAreNamed
  <2>10. \A i \in DOMAIN Stages : i > 1 => at[i - 1] < at[i]
    BY <2>4, <2>5, <2>6, <2>7, StagesAreNamed
  <2> QED BY <2>8, <2>9, <2>10
<1>2. ASSUME NEW a \in Attacks \ {"resurrection", "tombstone-burn"}
      PROVE  Tx(r, a) \notin Known
  <2>1. Tx(r, "create") \in Known /\ Tx(r, "update") \in Known
    BY VerifiedIsCommitted DEF Committed, Known, ToSet, StageNames
  <2>2. Spends(Tx(r, a)) = Spends(Tx(r, "create")) \/ Spends(Tx(r, a)) = Spends(Tx(r, "update"))
    BY SpendsOf DEF Attacks
  <2>3. Tx(r, a) # Tx(r, "create") /\ Tx(r, a) # Tx(r, "update")
    BY DEF Tx, Attacks
  <2> QED BY <2>1, <2>2, <2>3 DEF ChainInv
<1>3. ASSUME NEW q \in Runs \ {r}, verify_bundle(q), deploymentOf[q] = deploymentOf[r]
      PROVE  FALSE
  <2>1. Tx(r, "create") \in Known /\ Tx(q, "create") \in Known
    BY <1>3, VerifiedIsCommitted DEF Committed, Known, ToSet, StageNames
  <2>2. Spends(Tx(r, "create")) = Spends(Tx(q, "create"))
    BY <1>3, SpendsOf
  <2>3. Tx(r, "create") # Tx(q, "create")
    BY DEF Tx
  <2> QED BY <2>1, <2>2, <2>3 DEF ChainInv
<1> QED BY <1>1, <1>2, <1>3 DEF Known

LEMMA UndisturbedThenVerifies == IInv => UndisturbedRunVerifies
<1> SUFFICES ASSUME IInv, NEW r \in Runs, Completed(r), ContractIsDeployed(r),
                    Has(r, "report", "all"), verify_checksums(r), Undisturbed(r)
             PROVE  verify_bundle(r)
  BY DEF UndisturbedRunVerifies, Undisturbed
<1>1. /\ r \notin failed
      /\ \A a \in Attacks : Has(r, "response", a)
      /\ \A s \in StageNames : \A kind \in {"rpc", "indexer", "adapter", "api"} : Has(r, kind, s)
      /\ Has(r, "manifest", "all")
  BY CompletedHas
<1>2. Saved(r, "manifest", "all") = deploymentOf[r]
  <2>1. Says(r, "manifest", "all", Saved(r, "manifest", "all"))
    BY <1>1, SavedSays
  <2> QED BY <2>1 DEF Says
<1>3. ASSUME NEW i \in DOMAIN Stages
      PROVE  StageSaved(r, i)
  <2>1. PICK s \in StageNames : s = Stages[i]
    BY StageNamesOfStages DEF ToSet
  <2>2. \A kind \in {"rpc", "indexer", "adapter", "api"} : Has(r, kind, s)
    BY <1>1
  <2>3. Saved(r, "rpc", s) = Tx(r, s)
    <3>1. Says(r, "rpc", s, Saved(r, "rpc", s))
      BY <2>2, SavedSays
    <3> QED BY <3>1 DEF Says
  <2>4. Saved(r, "indexer", s) = Cells(Tx(r, s))
    <3>1. Says(r, "indexer", s, Saved(r, "indexer", s))
      BY <2>2, SavedSays
    <3> QED BY <3>1 DEF Says
  <2>5. Saved(r, "adapter", s) = IF s = "revoke" THEN {} ELSE Cells(Tx(r, s))
    <3>1. Says(r, "adapter", s, Saved(r, "adapter", s))
      BY <2>2, SavedSays
    <3> QED BY <3>1 DEF Says
  <2>6. Saved(r, "api", s) = IF s = "revoke" THEN 0 ELSE 1
    <3>1. Says(r, "api", s, Saved(r, "api", s))
      BY <2>2, SavedSays
    <3> QED BY <3>1 DEF Says
  <2>7. Spends(Tx(r, s)) = IF i = 1 THEN <<Saved(r, "manifest", "all"), "funding">>
                           ELSE <<r, Stages[i - 1]>>
    <3>1. i = 1 => s = "create"
      BY <2>1, StagesAreNamed
    <3>2. i = 2 => s = "update" /\ Stages[i - 1] = "create"
      BY <2>1, StagesAreNamed
    <3>3. i = 3 => s = "transfer" /\ Stages[i - 1] = "update"
      BY <2>1, StagesAreNamed
    <3>4. i = 4 => s = "revoke" /\ Stages[i - 1] = "transfer"
      BY <2>1, StagesAreNamed
    <3>5. /\ Spends(Tx(r, "create")) = <<deploymentOf[r], "funding">>
          /\ Spends(Tx(r, "update")) = <<r, "create">>
          /\ Spends(Tx(r, "transfer")) = <<r, "update">>
          /\ Spends(Tx(r, "revoke")) = <<r, "transfer">>
      BY SpendsOf
    <3>6. i \in 1..4
      BY StagesAreNamed
    <3> QED BY <1>2, <3>1, <3>2, <3>3, <3>4, <3>5, <3>6
  <2> QED BY <2>1, <2>2, <2>3, <2>4, <2>5, <2>6, <2>7 DEF StageSaved
<1>4. ASSUME NEW a \in Attacks
      PROVE  AttackSaved(r, a)
  <2>1. Saved(r, "response", a) = FALSE
    BY <1>1, SavedSays DEF Says
  <2> QED BY <1>1, <2>1 DEF AttackSaved
<1>5. ReportsAgree(r)
  BY SavedSays DEF Says, ReportsAgree
<1> QED BY <1>1, <1>3, <1>4, <1>5 DEF verify_bundle

\* A bundle that verifies is true of the chain, for any number of runs and
\* deployments and whatever attacks the contract would take: verify_bundle reads
\* the files that main and signed_submission of the lifecycle tool left.
THEOREM VerifiedBundleIsTrue == Spec => []VerifiedIsTrue
<1> QED BY Invariance, VerifiedThenTrue, PTL

\* A completed run that nobody disturbed verifies once it is given the deployed
\* binary and the reports: capture_state waits for the indexer to have the stage,
\* and nothing sends the next one before it is done.
THEOREM UndisturbedRunIsVerified == Spec => []UndisturbedRunVerifies
<1> QED BY Invariance, UndisturbedThenVerifies, PTL
=============================================================================
