-------------------------- MODULE LedgerSyncProofs --------------------------
(***************************************************************************)
(* Proofs about LedgerSync, for every set of tasks and of principals and   *)
(* every value of the bounds.  IndInv is inductive; it implies the safety  *)
(* invariants and, with one step of Next, the action properties.           *)
(***************************************************************************)
EXTENDS LedgerSync, FiniteSetTheorems, WellFoundedInduction, TLAPS

USE DEF None

----------------------------------------------------------------------------
(***************************************************************************)
(* Facts about the sequences the model is built from.                      *)
(***************************************************************************)

\* What is in a queue without its head, and that it keeps distinct elements.
LEMMA TailElems ==
    ASSUME NEW S, NEW q \in Seq(S), q # <<>>
    PROVE  /\ Head(q) \in S
           /\ Tail(q) \in Seq(S)
           /\ Elems(q) = {Head(q)} \cup Elems(Tail(q))
           /\ Distinct(q) => Distinct(Tail(q)) /\ Head(q) \notin Elems(Tail(q))
<1>1. Len(q) \in Nat /\ Len(q) > 0 /\ DOMAIN q = 1 .. Len(q)
  OBVIOUS
<1>2. /\ Tail(q) \in Seq(S) /\ Len(Tail(q)) = Len(q) - 1
      /\ DOMAIN Tail(q) = 1 .. Len(q) - 1
      /\ \A i \in 1 .. Len(q) - 1 : Tail(q)[i] = q[i + 1]
  OBVIOUS
<1>3. Head(q) = q[1] /\ q[1] \in S
  BY <1>1
<1>4. \A i \in 2 .. Len(q) : i - 1 \in 1 .. Len(q) - 1 /\ Tail(q)[i - 1] = q[i]
  BY <1>1, <1>2
<1>5. Elems(q) = {Head(q)} \cup Elems(Tail(q))
  <2>1. ASSUME NEW i \in DOMAIN q PROVE q[i] \in {Head(q)} \cup Elems(Tail(q))
    <3>1. CASE i = 1
      BY <3>1, <1>3
    <3>2. CASE i \in 2 .. Len(q)
      <4>1. i - 1 \in DOMAIN Tail(q) /\ Tail(q)[i - 1] = q[i]
        BY <3>2, <1>2, <1>4
      <4> QED BY <4>1 DEF Elems
    <3> QED BY <3>1, <3>2, <1>1
  <2>2. ASSUME NEW i \in DOMAIN Tail(q) PROVE Tail(q)[i] \in Elems(q)
    BY <1>1, <1>2 DEF Elems
  <2>3. Head(q) \in Elems(q)
    BY <1>1, <1>3 DEF Elems
  <2> QED BY <2>1, <2>2, <2>3 DEF Elems
<1>6. ASSUME Distinct(q) PROVE Distinct(Tail(q))
  BY <1>1, <1>2, <1>6 DEF Distinct
<1>7. ASSUME Distinct(q) PROVE Head(q) \notin Elems(Tail(q))
  BY <1>1, <1>2, <1>3, <1>7 DEF Distinct, Elems
<1> QED
  BY <1>2, <1>3, <1>5, <1>6, <1>7

\* What is in a concatenation, and when its elements are distinct.
LEMMA ConcatElems ==
    ASSUME NEW S, NEW q \in Seq(S), NEW r \in Seq(S)
    PROVE  /\ q \o r \in Seq(S)
           /\ Elems(q \o r) = Elems(q) \cup Elems(r)
           /\ Distinct(q) /\ Distinct(r) /\ Elems(q) \cap Elems(r) = {}
                => Distinct(q \o r)
<1>1. /\ Len(q) \in Nat /\ Len(r) \in Nat
      /\ DOMAIN q = 1 .. Len(q) /\ DOMAIN r = 1 .. Len(r)
      /\ q \o r \in Seq(S)
      /\ DOMAIN (q \o r) = 1 .. Len(q) + Len(r)
      /\ \A i \in 1 .. Len(q) : (q \o r)[i] = q[i]
      /\ \A i \in Len(q) + 1 .. Len(q) + Len(r) : (q \o r)[i] = r[i - Len(q)]
  OBVIOUS
<1>2. \A i \in 1 .. Len(r) : (q \o r)[Len(q) + i] = r[i]
  BY <1>1
<1>3. Elems(q \o r) = Elems(q) \cup Elems(r)
  <2>1. ASSUME NEW x \in Elems(q \o r) PROVE x \in Elems(q) \cup Elems(r)
    <3>1. PICK i \in 1 .. Len(q) + Len(r) : x = (q \o r)[i]
      BY <1>1 DEF Elems
    <3>2. CASE i \in 1 .. Len(q)
      BY <3>1, <3>2, <1>1 DEF Elems
    <3>3. CASE i \in Len(q) + 1 .. Len(q) + Len(r)
      <4>1. i - Len(q) \in 1 .. Len(r)
        BY <3>3, <1>1
      <4> QED BY <3>1, <3>3, <4>1, <1>1 DEF Elems
    <3> QED BY <3>1, <3>2, <3>3, <1>1
  <2>2. ASSUME NEW x \in Elems(q) PROVE x \in Elems(q \o r)
    <3>1. PICK i \in 1 .. Len(q) : x = q[i]
      BY <1>1 DEF Elems
    <3>2. i \in 1 .. Len(q) + Len(r)
      BY <1>1
    <3> QED BY <3>1, <3>2, <1>1 DEF Elems
  <2>3. ASSUME NEW x \in Elems(r) PROVE x \in Elems(q \o r)
    <3>1. PICK i \in 1 .. Len(r) : x = r[i]
      BY <1>1 DEF Elems
    <3>2. Len(q) + i \in 1 .. Len(q) + Len(r)
      BY <1>1
    <3> QED BY <3>1, <3>2, <1>1, <1>2 DEF Elems
  <2> QED BY <2>1, <2>2, <2>3
<1>4. ASSUME Distinct(q), Distinct(r), Elems(q) \cap Elems(r) = {}
      PROVE  Distinct(q \o r)
  <2> SUFFICES ASSUME NEW i \in 1 .. Len(q) + Len(r), NEW j \in 1 .. Len(q) + Len(r),
                      (q \o r)[i] = (q \o r)[j]
               PROVE  i = j
    BY <1>1 DEF Distinct
  <2>1. CASE i \in 1 .. Len(q) /\ j \in 1 .. Len(q)
    BY <2>1, <1>1, <1>4 DEF Distinct
  <2>2. CASE i \in Len(q) + 1 .. Len(q) + Len(r) /\ j \in Len(q) + 1 .. Len(q) + Len(r)
    <3>1. i - Len(q) \in 1 .. Len(r) /\ j - Len(q) \in 1 .. Len(r)
      BY <2>2, <1>1
    <3>2. i - Len(q) = j - Len(q)
      BY <2>2, <3>1, <1>1, <1>4 DEF Distinct
    <3> QED BY <3>2, <1>1
  <2>3. ASSUME NEW a \in 1 .. Len(q), NEW b \in Len(q) + 1 .. Len(q) + Len(r)
        PROVE  (q \o r)[a] # (q \o r)[b]
    <3>1. b - Len(q) \in 1 .. Len(r)
      BY <1>1
    <3>2. (q \o r)[a] \in Elems(q) /\ (q \o r)[b] \in Elems(r)
      BY <3>1, <1>1 DEF Elems
    <3> QED BY <3>2, <1>4
  <2> QED BY <2>1, <2>2, <2>3, <1>1
<1> QED
  BY <1>1, <1>3, <1>4

\* Appending to a queue.
LEMMA AppendElems ==
    ASSUME NEW S, NEW q \in Seq(S), NEW x \in S
    PROVE  /\ Append(q, x) \in Seq(S)
           /\ Elems(Append(q, x)) = Elems(q) \cup {x}
           /\ Distinct(q) /\ x \notin Elems(q) => Distinct(Append(q, x))
<1>1. /\ Len(q) \in Nat /\ DOMAIN q = 1 .. Len(q)
      /\ Append(q, x) \in Seq(S)
      /\ DOMAIN Append(q, x) = 1 .. Len(q) + 1
      /\ \A i \in 1 .. Len(q) : Append(q, x)[i] = q[i]
      /\ Append(q, x)[Len(q) + 1] = x
  OBVIOUS
<1>2. Elems(Append(q, x)) = Elems(q) \cup {x}
  BY <1>1 DEF Elems
<1>3. ASSUME Distinct(q), x \notin Elems(q) PROVE Distinct(Append(q, x))
  BY <1>1, <1>3 DEF Distinct, Elems
<1> QED
  BY <1>1, <1>2, <1>3

\* A sequence that lists a set of heights in order has exactly its elements,
\* each one once.
LEMMA InOrderElems ==
    ASSUME NEW a \in Int, NEW b \in Int, NEW S \in SUBSET (a .. b), NEW s \in InOrder(S)
    PROVE  s \in Seq(S) /\ Elems(s) = S /\ Distinct(s)
<1>1. Cardinality(S) \in Nat
  BY FS_Interval, FS_Subset, FS_CardinalityType
<1>2. s \in [1 .. Cardinality(S) -> S]
  BY DEF InOrder
<1>3. s \in Seq(S) /\ DOMAIN s = 1 .. Cardinality(S)
  BY <1>1, <1>2
<1>4. Elems(s) = S
  BY <1>2, <1>3 DEF InOrder, Elems
<1>5. Distinct(s)
  <2> SUFFICES ASSUME NEW i \in DOMAIN s, NEW j \in DOMAIN s, s[i] = s[j]
               PROVE  i = j
    BY DEF Distinct
  <2>1. i \in Int /\ j \in Int /\ s[i] \in Int /\ s[j] \in Int
    <3>1. i \in 1 .. Cardinality(S) /\ j \in 1 .. Cardinality(S)
      BY <1>3
    <3>2. s[i] \in a .. b /\ s[j] \in a .. b
      BY <3>1, <1>2
    <3> QED BY <3>1, <3>2, <1>1
  <2>2. i < j => s[i] < s[j]
    BY DEF InOrder
  <2>3. j < i => s[j] < s[i]
    BY DEF InOrder
  <2> QED BY <2>1, <2>2, <2>3
<1> QED
  BY <1>3, <1>4, <1>5

----------------------------------------------------------------------------
(***************************************************************************)
(* What TakeNext does, for any queue q that the sync leaves.               *)
(***************************************************************************)

\* The statement of PaymentsConserved for a queue q and a set P of payments.
Conserved(q, P) ==
    /\ P = Elems(q) \cup InFlight \cup settled
    /\ Elems(q) \cap InFlight = {}
    /\ (Elems(q) \cup InFlight) \cap settled = {}
    /\ Distinct(q)
    /\ \A t, u \in Tasks :
          pc[t] = "notify" /\ pc[u] = "notify" /\ local[t].item = local[u].item => t = u

\* TakeNext keeps the types and touches only its own task; it takes at most one
\* payment, which exists.
LEMMA TakeNextFrame ==
    ASSUME TypeOK, NEW t \in Tasks, NEW q \in Seq(Heights), TakeNext(t, q)
    PROVE  /\ queue' \in Seq(Heights)
           /\ pc' \in [Tasks -> Awaits \cup {"idle"}]
           /\ local' \in [Tasks -> Locals]
           /\ settled' \subseteq Heights /\ settled \subseteq settled'
           /\ \A u \in Tasks : u # t => pc'[u] = pc[u] /\ local'[u] = local[u]
           /\ pc'[t] \in {"idle", "notify"}
           /\ local'[t].tip = 0 /\ local'[t].seen = None
           /\ pc'[t] = "notify" => local'[t].item \in Elems(q)
<1>1. NoLocals \in Locals /\ NoLocals.tip = 0 /\ NoLocals.seen = None
  BY ConstantsAssumption DEF NoLocals, Locals, Heights
<1>2. CASE q = <<>>
  BY <1>1, <1>2 DEF TakeNext, TypeOK
<1>3. CASE q # <<>>
  <2>1. Head(q) \in Heights /\ Tail(q) \in Seq(Heights) /\ Head(q) \in Elems(q)
    BY <1>3, TailElems
  <2>2. /\ [NoLocals EXCEPT !.item = Head(q)] \in Locals
        /\ [NoLocals EXCEPT !.item = Head(q)].tip = 0
        /\ [NoLocals EXCEPT !.item = Head(q)].seen = None
        /\ [NoLocals EXCEPT !.item = Head(q)].item = Head(q)
    BY <2>1, <1>1 DEF Locals, NoLocals
  <2>3. CASE Block(Head(q)).kind = "create"
    BY <1>3, <2>1, <2>2, <2>3 DEF TakeNext, TypeOK, Awaits
  <2>4. CASE Block(Head(q)).kind # "create"
    BY <1>1, <1>3, <2>1, <2>4 DEF TakeNext, TypeOK
  <2> QED BY <2>3, <2>4
<1> QED BY <1>2, <1>3

\* TakeNext moves a payment from the queue to the task, or settles it.
LEMMA TakeNextConserves ==
    ASSUME TypeOK, NEW t \in Tasks, pc[t] # "notify",
           NEW q \in Seq(Heights), NEW P, Conserved(q, P), TakeNext(t, q)
    PROVE  /\ P = Elems(queue') \cup InFlight' \cup settled'
           /\ Elems(queue') \cap InFlight' = {}
           /\ (Elems(queue') \cup InFlight') \cap settled' = {}
           /\ Distinct(queue')
           /\ \A u, v \in Tasks :
                 pc'[u] = "notify" /\ pc'[v] = "notify" /\ local'[u].item = local'[v].item
                    => u = v
<1> DEFINE Others == {u \in Tasks : pc[u] = "notify"}
<1>1. /\ \A u \in Tasks : u # t => pc'[u] = pc[u] /\ local'[u] = local[u]
      /\ t \notin Others
  BY TakeNextFrame
<1>2. CASE pc'[t] = "idle"
  <2>1. InFlight' = InFlight
    BY <1>1, <1>2 DEF InFlight
  <2>2. \A u, v \in Tasks :
            pc'[u] = "notify" /\ pc'[v] = "notify" /\ local'[u].item = local'[v].item
               => u = v
    BY <1>1, <1>2 DEF Conserved
  <2>3. CASE q = <<>>
    BY <2>1, <2>2, <2>3 DEF TakeNext, Conserved
  <2>4. CASE q # <<>>
    <3>1. pc[t] \in Awaits \cup {"idle"} /\ pc' = [pc EXCEPT ![t] = pc'[t]]
      BY <2>4 DEF TakeNext, TypeOK
    <3>2. queue' = Tail(q) /\ settled' = settled \cup {Head(q)}
      BY <1>2, <2>4, <3>1 DEF TakeNext, TypeOK
    <3> QED BY <2>1, <2>2, <2>4, <3>2, TailElems DEF Conserved
  <2> QED BY <2>3, <2>4
<1>3. CASE pc'[t] = "notify"
  <2>1. q # <<>> /\ queue' = Tail(q) /\ settled' = settled /\ local'[t].item = Head(q)
    BY <1>3 DEF TakeNext, TypeOK, NoLocals
  <2>2. InFlight' = InFlight \cup {Head(q)}
    BY <1>1, <1>3, <2>1 DEF InFlight
  <2>3. /\ Elems(q) = {Head(q)} \cup Elems(Tail(q))
        /\ Distinct(Tail(q)) /\ Head(q) \notin Elems(Tail(q))
    BY <2>1, TailElems DEF Conserved
  <2>4. \A u \in Tasks : pc[u] = "notify" => local[u].item # Head(q)
    BY <2>3 DEF Conserved, InFlight
  <2>5. \A u, v \in Tasks :
            pc'[u] = "notify" /\ pc'[v] = "notify" /\ local'[u].item = local'[v].item
               => u = v
    BY <1>1, <1>3, <2>1, <2>4 DEF Conserved
  <2> QED BY <2>1, <2>2, <2>3, <2>5 DEF Conserved
<1> QED BY <1>2, <1>3, TakeNextFrame

----------------------------------------------------------------------------
(***************************************************************************)
(* What a step has to leave alone for each part of IndInv to be kept.      *)
(***************************************************************************)

\* A suspended task that a step does not touch stays in order as the ledger
\* grows, payments are added and the CMC creates canisters.
LEMMA TaskFrame ==
    ASSUME TypeOK, TypeOK', NEW u \in Tasks, TaskOK(u),
           pc'[u] = pc[u], local'[u] = local[u], reply'[u] = reply[u],
           Tip <= Tip', paid \subseteq paid', synced # None => synced' # None,
           \A h \in Heights : cmc[h] = "created" => cmc'[h] = "created"
    PROVE  TaskOK(u)'
<1>1. /\ local[u].tip \in Int /\ local[u].range.start \in Int
      /\ local[u].range.count \in Int /\ local[u].item \in Heights
  <2>1. local[u] \in Locals
    BY DEF TypeOK
  <2> QED BY SMTT(60), <2>1, ConstantsAssumption DEF Locals, Heights
<1>2. Tip \in Int /\ Tip' \in Int
  BY DEF Tip, TypeOK
<1> QED BY <1>1, <1>2 DEF TaskOK

\* Payments are conserved by a step that changes neither the queue nor the
\* payments that tasks work on.
LEMMA ConservedFrame ==
    ASSUME PaymentsConserved,
           queue' = queue, paid' = paid, settled' = settled,
           \A u \in Tasks : pc'[u] = "notify" <=> pc[u] = "notify",
           \A u \in Tasks : pc[u] = "notify" => local'[u].item = local[u].item
    PROVE  PaymentsConserved'
<1>1. InFlight' = InFlight
  BY DEF InFlight
<1> QED BY <1>1 DEF PaymentsConserved

\* Attached canisters stay accounted for.
LEMMA AttachedFrame ==
    ASSUME TypeOK, TypeOK', HeightsOK, AttachedWasPaid, attached' = attached,
           Len(ledger) <= Len(ledger'),
           \A i \in 1 .. Len(ledger) : ledger'[i] = ledger[i],
           paid \subseteq paid', settled \subseteq settled', registered \subseteq registered',
           \A h \in Heights : cmc[h] = "created" => cmc'[h] = "created"
    PROVE  AttachedWasPaid'
<1> SUFFICES ASSUME NEW p \in Principals, NEW h \in attached[p]
             PROVE  /\ h \in paid' \cap settled' /\ cmc'[h] = "created"
                    /\ ledger'[h + 1].principal = p /\ p \in registered'
  BY DEF AttachedWasPaid, Block
<1>1. /\ h \in paid \cap settled /\ cmc[h] = "created"
      /\ ledger[h + 1].principal = p /\ p \in registered
  BY DEF AttachedWasPaid, Block
<1>2. h \in Heights /\ h <= synced /\ synced \in Int /\ synced <= Len(ledger) - 1
  BY <1>1 DEF TypeOK, HeightsOK, Tip, Heights
<1>3. h + 1 \in 1 .. Len(ledger)
  BY <1>2 DEF TypeOK, Heights
<1> QED BY <1>1, <1>2, <1>3

----------------------------------------------------------------------------
(***************************************************************************)
(* The steps of the environment keep IndInv.                               *)
(***************************************************************************)

\* A new account changes nothing that IndInv speaks of but registered, which grows.
LEMMA AddAccountKeeps ==
    ASSUME IndInv, NEW p \in Principals, AddAccount(p)
    PROVE  IndInv'
<1> USE DEF AddAccount, external, history
<1>1. TypeOK'
  BY DEF IndInv, TypeOK
<1>2. HeightsOK'
  BY DEF IndInv, HeightsOK, Tip
<1>3. \A t \in Tasks : TaskOK(t)'
  BY DEF IndInv, TaskOK, Tip
<1>4. ExactlyOnce'
  BY DEF IndInv, ExactlyOnce
<1>5. PaymentsConserved'
  BY ConservedFrame DEF IndInv
<1>6. AttachedWasPaid'
  BY DEF IndInv, AttachedWasPaid, Block
<1> QED BY <1>1, <1>2, <1>3, <1>4, <1>5, <1>6 DEF IndInv

\* A new hardware wallet changes nothing that IndInv speaks of.
LEMMA RegisterHardwareWalletKeeps ==
    ASSUME IndInv, NEW p \in Principals, RegisterHardwareWallet(p)
    PROVE  IndInv'
<1> USE DEF RegisterHardwareWallet, external, history
<1>1. TypeOK'
  BY DEF IndInv, TypeOK
<1>2. HeightsOK'
  BY DEF IndInv, HeightsOK, Tip
<1>3. \A t \in Tasks : TaskOK(t)'
  BY DEF IndInv, TaskOK, Tip
<1>4. ExactlyOnce'
  BY DEF IndInv, ExactlyOnce
<1>5. PaymentsConserved'
  BY ConservedFrame DEF IndInv
<1>6. AttachedWasPaid'
  BY DEF IndInv, AttachedWasPaid, Block
<1> QED BY <1>1, <1>2, <1>3, <1>4, <1>5, <1>6 DEF IndInv

\* The ledger grows at its end: heights that exist stay the heights of their blocks.
LEMMA AddBlockKeeps ==
    ASSUME IndInv, NEW b \in Blocks, AddBlock(b)
    PROVE  IndInv'
<1> USE DEF AddBlock, store, history
<1>1. /\ ledger' \in Seq(Blocks) /\ Len(ledger') = Len(ledger) + 1
      /\ Len(ledger) \in Nat /\ Len(ledger') \in 1 .. MaxBlocks
      /\ \A i \in 1 .. Len(ledger) : ledger'[i] = ledger[i]
  BY ConstantsAssumption DEF IndInv, TypeOK
<1>2. TypeOK'
  BY <1>1 DEF IndInv, TypeOK
<1>3. Tip \in Int /\ Tip' \in Int /\ Tip < Tip'
  BY <1>1 DEF Tip
<1>4. HeightsOK'
  <2>1. synced \in Int
    BY DEF IndInv, TypeOK, Heights
  <2> QED BY <1>3, <2>1 DEF IndInv, HeightsOK
<1>5. \A t \in Tasks : TaskOK(t)'
  BY <1>2, <1>3, TaskFrame DEF IndInv
<1>6. ExactlyOnce'
  BY DEF IndInv, ExactlyOnce
<1>7. PaymentsConserved'
  BY ConservedFrame DEF IndInv
<1>8. AttachedWasPaid'
  BY <1>1, <1>2, AttachedFrame DEF IndInv
<1> QED BY <1>2, <1>4, <1>5, <1>6, <1>7, <1>8 DEF IndInv

\* Blocks move between canisters; the chain of blocks stays.
LEMMA ArchiveBlocksKeeps ==
    ASSUME IndInv, NEW h \in Heights, ArchiveBlocks(h)
    PROVE  IndInv'
<1> USE DEF ArchiveBlocks, store, history
<1>1. archives' \in Seq(Entries)
  <2>1. /\ archives \in Seq(Entries) /\ h \in FirstLocal .. Tip - 1
        /\ Tip \in Int /\ Tip < MaxBlocks
    BY ConstantsAssumption DEF IndInv, TypeOK, Tip
  <2>2. CASE archives' = Append(archives, [from |-> FirstLocal, to |-> h])
    <3>1. FirstLocal \in Nat
      <4>1. CASE archives = <<>>
        BY <4>1 DEF FirstLocal
      <4>2. CASE archives # <<>>
        <5>1. archives[Len(archives)] \in Entries
          BY <2>1, <4>2
        <5> QED BY <4>2, <5>1 DEF FirstLocal, Entries, Heights
      <4> QED BY <4>1, <4>2
    <3>2. [from |-> FirstLocal, to |-> h] \in Entries
      BY <2>1, <3>1, ConstantsAssumption DEF Entries, Heights
    <3> QED BY <2>1, <2>2, <3>2
  <2>3. CASE archives # <<>> /\ archives' = [archives EXCEPT ![Len(archives)].to = h]
    <3>1. Len(archives) \in 1 .. Len(archives) /\ archives[Len(archives)] \in Entries
      BY <2>1, <2>3
    <3>2. [archives[Len(archives)] EXCEPT !.to = h] \in Entries
      BY <3>1 DEF Entries
    <3> QED BY <2>1, <2>3, <3>1, <3>2
  <2> QED BY <2>2, <2>3
<1>2. TypeOK'
  BY <1>1 DEF IndInv, TypeOK
<1>3. HeightsOK'
  BY DEF IndInv, HeightsOK, Tip
<1>4. \A t \in Tasks : TaskOK(t)'
  BY DEF IndInv, TaskOK, Tip
<1>5. ExactlyOnce'
  BY DEF IndInv, ExactlyOnce
<1>6. PaymentsConserved'
  BY ConservedFrame DEF IndInv
<1>7. AttachedWasPaid'
  BY DEF IndInv, AttachedWasPaid, Block
<1> QED BY <1>2, <1>3, <1>4, <1>5, <1>6, <1>7 DEF IndInv

\* Both steps of the CMC on behalf of the browser.
LEMMA CmcKeeps ==
    ASSUME IndInv, NEW h \in Heights, ClientNotify(h) \/ CmcComplete(h)
    PROVE  IndInv'
<1> USE DEF ClientNotify, CmcComplete, store, history
<1>1. /\ cmc' \in [Heights -> CmcStates]
      /\ \A g \in Heights : cmc[g] = "created" => cmc'[g] = "created"
  BY DEF IndInv, TypeOK, CmcStates
<1>2. TypeOK'
  BY <1>1 DEF IndInv, TypeOK
<1>3. HeightsOK'
  BY DEF IndInv, HeightsOK, Tip
<1>4. \A t \in Tasks : TaskOK(t)'
  <2>1. Tip' = Tip /\ Tip \in Int
    BY DEF Tip, IndInv, TypeOK
  <2> QED BY <1>1, <1>2, <2>1, TaskFrame DEF IndInv
<1>5. ExactlyOnce'
  BY DEF IndInv, ExactlyOnce
<1>6. PaymentsConserved'
  BY ConservedFrame DEF IndInv
<1>7. AttachedWasPaid'
  <2>1. Len(ledger) \in Nat
    BY DEF IndInv, TypeOK
  <2> QED BY <1>1, <1>2, <2>1, AttachedFrame DEF IndInv
<1> QED BY <1>2, <1>3, <1>4, <1>5, <1>6, <1>7 DEF IndInv

----------------------------------------------------------------------------
(***************************************************************************)
(* The answers of the callees keep IndInv.                                 *)
(***************************************************************************)

\* A rejected call leaves its task waiting with an error.
LEMMA CallFailsKeeps ==
    ASSUME IndInv, NEW t \in Tasks, CallFails(t)
    PROVE  IndInv'
<1> USE DEF CallFails, store, history
<1>1. TypeOK'
  BY ConstantsAssumption DEF IndInv, TypeOK, Replies
<1>2. HeightsOK'
  BY DEF IndInv, HeightsOK, Tip
<1>3. \A u \in Tasks : TaskOK(u)'
  BY DEF IndInv, TaskOK, Tip, TypeOK
<1>4. ExactlyOnce'
  BY DEF IndInv, ExactlyOnce
<1>5. PaymentsConserved'
  BY ConservedFrame DEF IndInv
<1>6. AttachedWasPaid'
  BY DEF IndInv, AttachedWasPaid, Block
<1> QED BY <1>1, <1>2, <1>3, <1>4, <1>5, <1>6 DEF IndInv

\* The two reads of the ledger.
LEMMA AnswerReadKeeps ==
    ASSUME IndInv, NEW t \in Tasks, AnswerTip(t) \/ AnswerIndex(t)
    PROVE  IndInv'
<1> USE DEF AnswerTip, AnswerIndex, external, store, history
<1>1. Tip \in Heights /\ Tip' = Tip
  BY ConstantsAssumption DEF IndInv, TypeOK, Tip, Heights
<1>2. /\ local' \in [Tasks -> Locals]
      /\ \A u \in Tasks : u # t => local'[u] = local[u]
      /\ local'[t].tip \in {local[t].tip, Tip} /\ local'[t].seen = local[t].seen
      /\ pc[t] \in {"tip", "index"} /\ pc[t] = "index" => local'[t].tip = local[t].tip
  <2>1. local[t] \in Locals /\ archives \in Seq(Entries)
    BY DEF IndInv, TypeOK
  <2>2. CASE AnswerTip(t)
    <3>1. [local[t] EXCEPT !.tip = Tip] \in Locals
      BY <1>1, <2>1 DEF Locals
    <3> QED BY <2>1, <2>2, <3>1 DEF IndInv, TypeOK, Locals
  <2>3. CASE AnswerIndex(t)
    <3>1. [local[t] EXCEPT !.entries = archives] \in Locals
      BY <2>1 DEF Locals
    <3> QED BY <2>1, <2>3, <3>1 DEF IndInv, TypeOK, Locals
  <2> QED BY <2>2, <2>3
<1>3. TypeOK'
  BY <1>2 DEF IndInv, TypeOK, Replies
<1>4. HeightsOK'
  BY DEF IndInv, HeightsOK, Tip
<1>5. \A u \in Tasks : TaskOK(u)'
  <2>1. ASSUME NEW u \in Tasks, u # t PROVE TaskOK(u)'
    <3>1. Tip <= Tip'
      BY <1>1 DEF Heights
    <3>2. reply'[u] = reply[u]
      BY <2>1 DEF IndInv, TypeOK
    <3> QED BY <1>2, <1>3, <2>1, <3>1, <3>2, TaskFrame DEF IndInv
  <2>2. TaskOK(t)'
    BY <1>1, <1>2 DEF IndInv, TaskOK, Heights
  <2> QED BY <2>1, <2>2
<1>6. ExactlyOnce'
  BY DEF IndInv, ExactlyOnce
<1>7. PaymentsConserved'
  BY <1>2, ConservedFrame DEF IndInv
<1>8. AttachedWasPaid'
  BY DEF IndInv, AttachedWasPaid, Block
<1> QED BY <1>3, <1>4, <1>5, <1>6, <1>7, <1>8 DEF IndInv

\* get_blocks answers with no more blocks than the task asked for.
LEMMA AnswerBlocksKeeps ==
    ASSUME IndInv, NEW t \in Tasks, AnswerBlocks(t)
    PROVE  IndInv'
<1> USE DEF AnswerBlocks, store, history
<1>1. PICK n \in Int :
        /\ local' = local \/ local' = [local EXCEPT ![t].got = n]
        /\ 0 <= n /\ n <= local[t].range.count
  <2>1. local[t].range.count \in Nat
    BY ConstantsAssumption DEF IndInv, TypeOK, Locals
  <2>2. CASE local' = local
    BY <2>1, <2>2
  <2>3. CASE \E n \in 0 .. local[t].range.count : local' = [local EXCEPT ![t].got = n]
    <3>1. PICK n \in 0 .. local[t].range.count : local' = [local EXCEPT ![t].got = n]
      BY <2>3
    <3>2. n \in Int /\ 0 <= n /\ n <= local[t].range.count
      BY <2>1
    <3> QED BY <3>1, <3>2
  <2>4. local' = local \/ \E n \in 0 .. local[t].range.count : local' = [local EXCEPT ![t].got = n]
    BY Zenon
  <2> QED BY <2>2, <2>3, <2>4
<1>2. local[t] \in Locals /\ local[t].range.count \in 0 .. MaxBlocks /\ pc[t] = "blocks"
  BY DEF IndInv, TypeOK, Locals
<1>3. n \in 0 .. MaxBlocks
  BY <1>1, <1>2, ConstantsAssumption
<1>4. [local[t] EXCEPT !.got = n] \in Locals
  BY <1>2, <1>3 DEF Locals
<1>5. /\ local' \in [Tasks -> Locals]
      /\ \A u \in Tasks : u # t => local'[u] = local[u]
      /\ local'[t].tip = local[t].tip /\ local'[t].range = local[t].range
      /\ local'[t].got \in {local[t].got, n}
  <2>1. local \in [Tasks -> Locals]
    BY DEF IndInv, TypeOK
  <2>2. CASE local' = local
    BY <2>1, <2>2
  <2>3. CASE local' = [local EXCEPT ![t].got = n]
    BY <2>1, <2>3, <1>2, <1>4 DEF Locals
  <2> QED BY <2>2, <2>3, <1>1
<1>6. failures' \in 0 .. MaxFailures
  BY ConstantsAssumption DEF IndInv, TypeOK
<1>7. reply' \in [Tasks -> Replies] /\ \A u \in Tasks : u # t => reply'[u] = reply[u]
  BY DEF IndInv, TypeOK, Replies
<1>8. TypeOK'
  BY <1>5, <1>6, <1>7 DEF IndInv, TypeOK
<1>9. HeightsOK'
  BY DEF IndInv, HeightsOK, Tip
<1>10. Tip' = Tip /\ Tip \in Int
  BY DEF Tip, IndInv, TypeOK
<1>11. \A u \in Tasks : TaskOK(u)'
  <2>1. ASSUME NEW u \in Tasks, u # t PROVE TaskOK(u)'
    BY <1>5, <1>7, <1>8, <1>10, <2>1, TaskFrame DEF IndInv
  <2>2. TaskOK(t)'
    BY <1>1, <1>2, <1>5, <1>10 DEF IndInv, TaskOK
  <2> QED BY <2>1, <2>2
<1>12. ExactlyOnce'
  BY DEF IndInv, ExactlyOnce
<1>13. PaymentsConserved'
  BY <1>2, <1>5, ConservedFrame DEF IndInv
<1>14. AttachedWasPaid'
  BY DEF IndInv, AttachedWasPaid, Block
<1> QED BY <1>8, <1>9, <1>11, <1>12, <1>13, <1>14 DEF IndInv

\* The CMC says Ok only for a canister that it created.
LEMMA AnswerNotifyKeeps ==
    ASSUME IndInv, NEW t \in Tasks, AnswerNotify(t)
    PROVE  IndInv'
<1> USE DEF AnswerNotify, store, history
<1>1. local[t].item \in Heights
  BY DEF IndInv, TypeOK, Locals
<1>2. /\ cmc' \in [Heights -> CmcStates]
      /\ \A h \in Heights : cmc[h] = "created" => cmc'[h] = "created"
      /\ reply'[t] = "ok" => cmc'[local[t].item] = "created"
  BY <1>1 DEF IndInv, TypeOK, CmcStates
<1>3. reply' \in [Tasks -> Replies] /\ \A u \in Tasks : u # t => reply'[u] = reply[u]
  BY DEF IndInv, TypeOK, Replies
<1>4. failures' \in 0 .. MaxFailures
  BY ConstantsAssumption DEF IndInv, TypeOK
<1>5. TypeOK'
  BY <1>2, <1>3, <1>4 DEF IndInv, TypeOK
<1>6. HeightsOK'
  BY DEF IndInv, HeightsOK, Tip
<1>7. Tip' = Tip /\ Tip \in Int
  BY DEF Tip, IndInv, TypeOK
<1>8. \A u \in Tasks : TaskOK(u)'
  <2>1. ASSUME NEW u \in Tasks, u # t PROVE TaskOK(u)'
    BY <1>2, <1>3, <1>5, <1>7, <2>1, TaskFrame DEF IndInv
  <2>2. TaskOK(t)'
    BY <1>2, <1>7 DEF IndInv, TaskOK
  <2> QED BY <2>1, <2>2
<1>9. ExactlyOnce'
  BY DEF IndInv, ExactlyOnce
<1>10. PaymentsConserved'
  BY ConservedFrame DEF IndInv
<1>11. AttachedWasPaid'
  <2>1. Len(ledger) \in Nat
    BY DEF IndInv, TypeOK
  <2> QED BY <1>2, <1>5, <2>1, AttachedFrame DEF IndInv
<1> QED BY <1>5, <1>6, <1>8, <1>9, <1>10, <1>11 DEF IndInv

----------------------------------------------------------------------------
(***************************************************************************)
(* The steps of the backend keep IndInv.                                   *)
(***************************************************************************)

\* A new task reads the synced height.
LEMMA HeartbeatKeeps ==
    ASSUME IndInv, NEW t \in Tasks, Heartbeat(t)
    PROVE  IndInv'
<1> USE DEF Heartbeat, external, store, history
<1>1. local[t] \in Locals /\ synced \in Heights \cup {None}
  BY DEF IndInv, TypeOK
<1>2. [local[t] EXCEPT !.seen = synced] \in Locals
  BY <1>1 DEF Locals
<1>3. /\ local' \in [Tasks -> Locals]
      /\ \A u \in Tasks : u # t => local'[u] = local[u]
      /\ local'[t].tip = local[t].tip
  BY <1>1, <1>2 DEF IndInv, TypeOK, Locals
<1>4. /\ pc' \in [Tasks -> Awaits \cup {"idle"}] /\ pc[t] = "idle" /\ pc'[t] = "tip"
      /\ \A u \in Tasks : u # t => pc'[u] = pc[u]
  BY DEF IndInv, TypeOK, Awaits, SyncAwaits
<1>5. TypeOK'
  BY <1>3, <1>4 DEF IndInv, TypeOK
<1>6. HeightsOK'
  BY DEF IndInv, HeightsOK, Tip
<1>7. Tip' = Tip /\ Tip \in Int
  BY DEF Tip, IndInv, TypeOK
<1>8. \A u \in Tasks : TaskOK(u)'
  <2>1. ASSUME NEW u \in Tasks, u # t PROVE TaskOK(u)'
    BY <1>3, <1>4, <1>5, <1>7, <2>1, TaskFrame DEF IndInv
  <2>2. TaskOK(t)'
    BY <1>3, <1>4, <1>7 DEF IndInv, TaskOK
  <2> QED BY <2>1, <2>2
<1>9. ExactlyOnce'
  BY DEF IndInv, ExactlyOnce
<1>10. PaymentsConserved'
  BY <1>3, <1>4, ConservedFrame DEF IndInv
<1>11. AttachedWasPaid'
  BY DEF IndInv, AttachedWasPaid, Block
<1> QED BY <1>5, <1>6, <1>8, <1>9, <1>10, <1>11 DEF IndInv

\* After TakeNext every task is in order, if the blocks, the payments and the
\* CMC are as TaskFrame wants them.
LEMMA TakeNextTasks ==
    ASSUME IndInv, TypeOK', NEW t \in Tasks, NEW q \in Seq(Heights), TakeNext(t, q),
           reply' = [reply EXCEPT ![t] = "none"],
           synced # None => synced' # None,
           ledger' = ledger, cmc' = cmc, paid \subseteq paid', Elems(q) \subseteq paid'
    PROVE  \A u \in Tasks : TaskOK(u)'
<1>1. Tip' = Tip /\ Tip \in Nat
  BY DEF Tip, IndInv, TypeOK
<1>2. reply'[t] = "none" /\ \A u \in Tasks : u # t => reply'[u] = reply[u]
  BY DEF IndInv, TypeOK
<1>3. ASSUME NEW u \in Tasks, u # t PROVE TaskOK(u)'
  <2>1. pc'[u] = pc[u] /\ local'[u] = local[u]
    BY <1>3, TakeNextFrame DEF IndInv
  <2> QED BY <1>1, <1>2, <1>3, <2>1, TaskFrame DEF IndInv
<1>4. TaskOK(t)'
  <2>1. /\ pc'[t] \in {"idle", "notify"} /\ local'[t].tip = 0 /\ local'[t].seen = None
        /\ pc'[t] = "notify" => local'[t].item \in Elems(q)
    BY TakeNextFrame DEF IndInv
  <2> QED BY <1>1, <1>2, <2>1 DEF TaskOK
<1> QED BY <1>3, <1>4

\* SyncCallFailed and NothingNew change nothing but what TakeNext does.
LEMMA SyncEndsKeeps ==
    ASSUME IndInv, NEW t \in Tasks, SyncCallFailed(t) \/ NothingNew(t)
    PROVE  IndInv'
<1> USE DEF SyncCallFailed, NothingNew, external
<1>1. /\ pc[t] # "notify" /\ TakeNext(t, queue) /\ queue \in Seq(Heights)
      /\ reply' = [reply EXCEPT ![t] = "none"]
  BY DEF SyncAwaits, IndInv, TypeOK
<1>2. TypeOK'
  <2>1. /\ queue' \in Seq(Heights) /\ pc' \in [Tasks -> Awaits \cup {"idle"}]
        /\ local' \in [Tasks -> Locals] /\ settled' \subseteq Heights
    BY <1>1, TakeNextFrame DEF IndInv
  <2>2. reply' \in [Tasks -> Replies]
    BY <1>1 DEF IndInv, TypeOK, Replies
  <2> QED BY <2>1, <2>2 DEF IndInv, TypeOK
<1>3. HeightsOK'
  BY DEF IndInv, HeightsOK, Tip
<1>4. \A u \in Tasks : TaskOK(u)'
  <2>1. Elems(queue) \subseteq paid
    BY DEF IndInv, PaymentsConserved
  <2> QED BY <1>1, <1>2, <2>1, TakeNextTasks
<1>5. ExactlyOnce'
  BY DEF IndInv, ExactlyOnce
<1>6. PaymentsConserved'
  <2>1. Conserved(queue, paid)
    BY DEF IndInv, PaymentsConserved, Conserved
  <2> QED BY <1>1, <2>1, TakeNextConserves DEF IndInv, PaymentsConserved
<1>7. AttachedWasPaid'
  <2>1. Len(ledger) \in Nat
    BY DEF IndInv, TypeOK
  <2>2. settled \subseteq settled'
    BY <1>1, TakeNextFrame DEF IndInv
  <2> QED BY <1>2, <2>1, <2>2, AttachedFrame DEF IndInv
<1> QED BY <1>2, <1>3, <1>4, <1>5, <1>6, <1>7 DEF IndInv

\* The first sync sets the height and its base; a task that comes later panics.
LEMMA FirstSyncKeeps ==
    ASSUME IndInv, NEW t \in Tasks, FirstSync(t)
    PROVE  IndInv'
<1> USE DEF FirstSync, external
<1>1. pc[t] = "tip" /\ reply' = [reply EXCEPT ![t] = "none"] /\ queue \in Seq(Heights)
  BY DEF IndInv, TypeOK
<1>2. reply' \in [Tasks -> Replies]
  BY <1>1 DEF IndInv, TypeOK, Replies
<1>3. Len(ledger) \in Nat /\ Tip' = Tip /\ Tip \in Nat
  BY DEF IndInv, TypeOK, Tip
<1>4. CASE synced = None
  <2>1. TakeNext(t, queue) /\ synced' = local[t].tip /\ base' = local[t].tip
    BY <1>4
  <2>2. local[t].tip \in Heights /\ local[t].tip <= Tip
    BY DEF IndInv, TypeOK, Locals, TaskOK
  <2>3. TypeOK'
    <3>1. /\ queue' \in Seq(Heights) /\ pc' \in [Tasks -> Awaits \cup {"idle"}]
          /\ local' \in [Tasks -> Locals] /\ settled' \subseteq Heights
      BY <1>1, <2>1, TakeNextFrame DEF IndInv
    <3> QED BY <1>2, <2>1, <2>2, <3>1 DEF IndInv, TypeOK
  <2>4. paid = {}
    BY <1>4 DEF IndInv, HeightsOK, TypeOK, Heights
  <2>5. HeightsOK'
    BY <1>3, <2>1, <2>2, <2>4 DEF HeightsOK, Heights
  <2>6. \A u \in Tasks : TaskOK(u)'
    <3>1. Elems(queue) \subseteq paid
      BY DEF IndInv, PaymentsConserved
    <3> QED BY <1>1, <2>1, <2>3, <3>1, TakeNextTasks
  <2>7. ExactlyOnce'
    <3>1. \A h \in Heights : times[h] = 0
      BY <1>4 DEF IndInv, HeightsOK, ExactlyOnce, Heights
    <3> QED BY <2>1, <2>2, <3>1 DEF ExactlyOnce, Heights
  <2>8. PaymentsConserved'
    <3>1. Conserved(queue, paid)
      BY DEF IndInv, PaymentsConserved, Conserved
    <3> QED BY <1>1, <2>1, <3>1, TakeNextConserves DEF IndInv, PaymentsConserved
  <2>9. AttachedWasPaid'
    <3>1. settled \subseteq settled'
      BY <1>1, <2>1, TakeNextFrame DEF IndInv
    <3> QED BY <1>3, <2>3, <3>1, AttachedFrame DEF IndInv
  <2> QED BY <2>3, <2>5, <2>6, <2>7, <2>8, <2>9 DEF IndInv
<1>5. CASE synced # None
  <2>1. NoLocals \in Locals /\ NoLocals.tip = 0 /\ NoLocals.seen = None
    BY ConstantsAssumption DEF NoLocals, Locals, Heights
  <2>2. /\ pc' \in [Tasks -> Awaits \cup {"idle"}] /\ local' \in [Tasks -> Locals]
        /\ pc'[t] = "idle" /\ local'[t] = NoLocals
        /\ \A u \in Tasks : u # t => /\ pc'[u] = pc[u] /\ local'[u] = local[u]
                                     /\ reply'[u] = reply[u]
    BY <1>5, <2>1 DEF IndInv, TypeOK
  <2>3. TypeOK'
    BY <1>2, <1>5, <2>2 DEF IndInv, TypeOK
  <2>4. HeightsOK'
    BY <1>5 DEF IndInv, HeightsOK, Tip
  <2>5. \A u \in Tasks : TaskOK(u)'
    <3>1. ASSUME NEW u \in Tasks, u # t PROVE TaskOK(u)'
      BY <1>3, <2>2, <2>3, <3>1, TaskFrame DEF IndInv
    <3>2. TaskOK(t)'
      BY <1>3, <2>1, <2>2 DEF TaskOK
    <3> QED BY <3>1, <3>2
  <2>6. ExactlyOnce'
    BY <1>5 DEF IndInv, ExactlyOnce
  <2>7. PaymentsConserved'
    BY <1>1, <1>5, <2>2, ConservedFrame DEF IndInv
  <2>8. AttachedWasPaid'
    BY <1>5 DEF IndInv, AttachedWasPaid, Block
  <2> QED BY <2>3, <2>4, <2>5, <2>6, <2>7, <2>8 DEF IndInv
<1> QED BY <1>4, <1>5

\* A task goes on to the archive index only if there are new blocks.
LEMMA AskIndexKeeps ==
    ASSUME IndInv, NEW t \in Tasks, AskIndex(t)
    PROVE  IndInv'
<1> USE DEF AskIndex, external, store, history
<1>1. /\ pc' \in [Tasks -> Awaits \cup {"idle"}] /\ pc[t] = "tip" /\ pc'[t] = "index"
      /\ \A u \in Tasks : u # t => pc'[u] = pc[u] /\ reply'[u] = reply[u]
      /\ reply' \in [Tasks -> Replies]
  BY DEF IndInv, TypeOK, Awaits, SyncAwaits, Replies
<1>2. TypeOK'
  BY <1>1 DEF IndInv, TypeOK
<1>3. HeightsOK'
  BY DEF IndInv, HeightsOK, Tip
<1>4. Tip' = Tip /\ Tip \in Int
  BY DEF Tip, IndInv, TypeOK
<1>5. \A u \in Tasks : TaskOK(u)'
  <2>1. ASSUME NEW u \in Tasks, u # t PROVE TaskOK(u)'
    BY <1>1, <1>2, <1>4, <2>1, TaskFrame DEF IndInv
  <2>2. TaskOK(t)'
    <3>1. local[t].tip \in Int /\ local[t].seen \in Int
      BY DEF IndInv, TypeOK, Locals, Heights
    <3> QED BY <1>1, <1>4, <3>1 DEF IndInv, TaskOK
  <2> QED BY <2>1, <2>2
<1>6. ExactlyOnce'
  BY DEF IndInv, ExactlyOnce
<1>7. PaymentsConserved'
  BY <1>1, ConservedFrame DEF IndInv
<1>8. AttachedWasPaid'
  BY DEF IndInv, AttachedWasPaid, Block
<1> QED BY <1>2, <1>3, <1>5, <1>6, <1>7, <1>8 DEF IndInv

\* The range that get_blocks asks for is not empty, starts where it should and
\* ends before the tip of the chain and before the end of the archive asked, but
\* not earlier than the batch size, the tip and that archive make it.  The ledger
\* is asked if the scan hits no archive.
LEMMA BlocksToGetRange ==
    ASSUME NEW from \in Nat, NEW top \in Nat, from <= top, NEW es \in Seq(Entries)
    PROVE  \E c \in Nat, n \in 1 .. BatchSize :
              /\ BlocksToGet(from, top, es) = [canister |-> c, start |-> from, count |-> n]
              /\ from + n - 1 <= top
              /\ c # 0 => /\ c \in DOMAIN es /\ es[c].from <= from
                          /\ from + n - 1 <= es[c].to
              /\ n = BatchSize \/ from + n - 1 = top \/ (c # 0 /\ from + n - 1 = es[c].to)
              /\ c = 0 => ~\E i \in DOMAIN es :
                              /\ ~Ends(es[i], from) /\ ~Skipped(es[i], from)
                              /\ \A j \in DOMAIN es : j > i => Skipped(es[j], from)
<1> DEFINE hits == {i \in DOMAIN es : /\ ~Ends(es[i], from) /\ ~Skipped(es[i], from)
                                      /\ \A j \in DOMAIN es : j > i => Skipped(es[j], from)}
           r == DetermineCanisterForBlocks(from, top, es)
<1>1. PICK c \in Nat, e \in Nat :
        /\ r = [canister |-> c, start |-> from, end |-> e]
        /\ from <= e /\ e <= top
        /\ c # 0 => c \in DOMAIN es /\ es[c].from <= from /\ e <= es[c].to
        /\ e = top \/ (c # 0 /\ e = es[c].to)
        /\ c = 0 => hits = {}
  <2>1. CASE hits = {}
    <3>1. r = [canister |-> 0, start |-> from, end |-> top]
      BY <2>1 DEF DetermineCanisterForBlocks
    <3> QED BY <2>1, <3>1
  <2>2. CASE hits # {}
    <3> DEFINE i == CHOOSE i \in hits : TRUE
               e == IF top <= es[i].to THEN top ELSE es[i].to
    <3>1. i \in hits
      BY <2>2
    <3>2. /\ i \in DOMAIN es /\ i \in Nat /\ i # 0 /\ es[i].from \in Nat /\ es[i].to \in Nat
          /\ es[i].from <= from /\ from <= es[i].to
      <4>1. i \in DOMAIN es /\ ~Ends(es[i], from) /\ ~Skipped(es[i], from)
        BY <3>1
      <4> HIDE DEF i
      <4>2. es[i] \in Entries /\ i \in Nat /\ i # 0
        BY <4>1
      <4>3. es[i].from \in Nat /\ es[i].to \in Nat
        BY <4>2, ConstantsAssumption DEF Entries, Heights
      <4> QED BY <4>1, <4>2, <4>3 DEF Ends, Skipped
    <3>3. r = [canister |-> i, start |-> IF from >= es[i].from THEN from ELSE es[i].from,
               end |-> e]
      BY <2>2 DEF DetermineCanisterForBlocks
    <3>4. e \in Nat /\ from <= e /\ e <= top /\ e <= es[i].to /\ (e = top \/ e = es[i].to)
      BY <3>2
    <3> HIDE DEF i, e
    <3>5. r = [canister |-> i, start |-> from, end |-> e]
      BY <3>2, <3>3
    <3> QED BY <3>2, <3>4, <3>5
  <2> QED BY <2>1, <2>2
<1> DEFINE n == IF e - from + 1 <= BatchSize THEN e - from + 1 ELSE BatchSize
<1>2. n \in 1 .. BatchSize /\ from + n - 1 <= e
  BY <1>1, ConstantsAssumption
<1>3. BlocksToGet(from, top, es) = [canister |-> c, start |-> from, count |-> n]
  BY <1>1 DEF BlocksToGet
<1> HIDE DEF n
<1>4. from + n - 1 <= top
  BY <1>1, <1>2, ConstantsAssumption
<1>5. c # 0 => from + n - 1 <= es[c].to
  <2> SUFFICES ASSUME c # 0 PROVE from + n - 1 <= es[c].to
    OBVIOUS
  <2>1. es[c].to \in Nat /\ e <= es[c].to
    <3>1. c \in DOMAIN es /\ e <= es[c].to
      BY <1>1
    <3>2. es[c] \in Entries
      BY <3>1
    <3> QED BY <3>1, <3>2, ConstantsAssumption DEF Entries, Heights
  <2> QED BY <1>2, <2>1, ConstantsAssumption
<1>6. n = BatchSize \/ from + n - 1 = e
  BY <1>1, ConstantsAssumption DEF n
<1>7. n = BatchSize \/ from + n - 1 = top \/ (c # 0 /\ from + n - 1 = es[c].to)
  BY <1>1, <1>6
<1>8. c = 0 => ~\E i \in DOMAIN es :
                   /\ ~Ends(es[i], from) /\ ~Skipped(es[i], from)
                   /\ \A j \in DOMAIN es : j > i => Skipped(es[j], from)
  BY <1>1
<1> HIDE DEF hits, r
<1> QED BY <1>1, <1>2, <1>3, <1>4, <1>5, <1>7, <1>8

\* The range that a task asks for lies within the chain.
LEMMA AskBlocksKeeps ==
    ASSUME IndInv, NEW t \in Tasks, AskBlocks(t)
    PROVE  IndInv'
<1> USE DEF AskBlocks, external, store, history
<1>1. /\ local[t].seen \in Nat /\ local[t].tip \in Nat /\ local[t].seen < local[t].tip
      /\ local[t].entries \in Seq(Entries)
      /\ local[t].tip < MaxBlocks /\ local[t].tip <= Tip
  <2>1. local[t] \in Locals
    BY DEF IndInv, TypeOK
  <2>2. TaskOK(t) /\ pc[t] = "index"
    BY DEF IndInv
  <2> QED BY SMTT(60), <2>1, <2>2, ConstantsAssumption DEF Locals, TaskOK, Heights
<1>2. PICK c \in Nat, n \in 1 .. BatchSize :
        /\ BlocksToGet(local[t].seen + 1, local[t].tip, local[t].entries)
             = [canister |-> c, start |-> local[t].seen + 1, count |-> n]
        /\ local[t].seen + 1 + n - 1 <= local[t].tip
  <2> DEFINE from == local[t].seen + 1
             top == local[t].tip
             es == local[t].entries
  <2>1. from \in Nat /\ top \in Nat /\ from <= top /\ es \in Seq(Entries)
    BY <1>1
  <2> HIDE DEF from, top, es
  <2>2. \E c \in Nat, n \in 1 .. BatchSize :
           /\ BlocksToGet(from, top, es) = [canister |-> c, start |-> from, count |-> n]
           /\ from + n - 1 <= top
    BY <2>1, BlocksToGetRange
  <2> QED BY <2>2 DEF from, top, es
<1> DEFINE rng == [canister |-> c, start |-> local[t].seen + 1, count |-> n]
           new == [NoLocals EXCEPT !.range = rng]
<1>3. n \in Nat /\ n <= MaxBlocks /\ local[t].seen + 1 \in Heights
  <2>1. n \in Nat /\ MaxBlocks \in Nat
    BY <1>2, ConstantsAssumption
  <2>2. local[t].seen + n <= local[t].tip
    BY <1>1, <1>2, <2>1
  <2> QED BY <1>1, <2>1, <2>2 DEF Heights
<1>4. /\ new \in Locals /\ new.tip = 0 /\ new.got = 0
      /\ new.range.start = local[t].seen + 1 /\ new.range.count = n
  <2>1. rng \in [canister : Nat, start : Heights, count : 0 .. MaxBlocks]
    BY <1>2, <1>3, ConstantsAssumption
  <2>2. NoLocals \in Locals
    BY ConstantsAssumption DEF Locals, NoLocals, Heights
  <2>3. rng.start = local[t].seen + 1 /\ rng.count = n
    OBVIOUS
  <2> HIDE DEF rng
  <2> QED BY <2>1, <2>2, <2>3 DEF Locals, NoLocals
<1>5. local' = [local EXCEPT ![t] = new]
  BY <1>2
<1> HIDE DEF new
<1>6. /\ local' \in [Tasks -> Locals] /\ local'[t] = new
      /\ \A u \in Tasks : u # t => local'[u] = local[u]
  BY <1>4, <1>5 DEF IndInv, TypeOK
<1>7. /\ pc' \in [Tasks -> Awaits \cup {"idle"}] /\ pc[t] = "index" /\ pc'[t] = "blocks"
      /\ \A u \in Tasks : u # t => pc'[u] = pc[u] /\ reply'[u] = reply[u]
      /\ reply' \in [Tasks -> Replies]
  BY DEF IndInv, TypeOK, Awaits, SyncAwaits, Replies
<1>8. TypeOK'
  BY <1>6, <1>7 DEF IndInv, TypeOK
<1>9. HeightsOK'
  BY DEF IndInv, HeightsOK, Tip
<1>10. Tip' = Tip /\ Tip \in Nat
  BY DEF Tip, IndInv, TypeOK
<1>11. \A u \in Tasks : TaskOK(u)'
  <2>1. ASSUME NEW u \in Tasks, u # t PROVE TaskOK(u)'
    BY <1>6, <1>7, <1>8, <1>10, <2>1, TaskFrame DEF IndInv
  <2>2. TaskOK(t)'
    <3>1. local[t].seen + 1 + n <= Tip + 1
      BY <1>1, <1>2, <1>3, <1>10
    <3>2. local'[t].tip = 0 /\ local'[t].got = 0 /\ local'[t].range.count = n
          /\ local'[t].range.start = local[t].seen + 1
      BY <1>4, <1>6
    <3>3. synced # None /\ synced' = synced
      BY DEF IndInv, TaskOK
    <3> QED BY <1>3, <1>7, <1>10, <3>1, <3>2, <3>3 DEF TaskOK
  <2> QED BY <2>1, <2>2
<1>12. ExactlyOnce'
  BY DEF IndInv, ExactlyOnce
<1>13. PaymentsConserved'
  BY <1>6, <1>7, ConservedFrame DEF IndInv
<1>14. AttachedWasPaid'
  BY DEF IndInv, AttachedWasPaid, Block
<1> QED BY <1>8, <1>9, <1>11, <1>12, <1>13, <1>14 DEF IndInv

\* The log of exceptional transactions keeps its type and its bound.
LEMMA RecordedType ==
    ASSUME NEW s \in Seq(Heights), NEW log \in Seq(Heights)
    PROVE  Recorded(s, log) \in Seq(Heights) /\ Len(Recorded(s, log)) <= MaxExceptional
<1> DEFINE rev == [i \in 1 .. Len(s) |-> s[Len(s) + 1 - i]]
           full == rev \o log
           m == IF Len(full) <= MaxExceptional THEN Len(full) ELSE MaxExceptional
<1>1. rev \in Seq(Heights)
  <2>1. Len(s) \in Nat /\ \A i \in 1 .. Len(s) : Len(s) + 1 - i \in 1 .. Len(s)
    OBVIOUS
  <2>2. \A i \in 1 .. Len(s) : s[Len(s) + 1 - i] \in Heights
    BY <2>1
  <2> QED BY <2>1, <2>2
<1> HIDE DEF rev
<1>2. full \in Seq(Heights) /\ Len(full) \in Nat
  BY <1>1
<1> HIDE DEF full
<1>3. m \in Nat /\ m <= Len(full) /\ m <= MaxExceptional
  BY <1>2, ConstantsAssumption
<1> HIDE DEF m
<1>4. SubSeq(full, 1, m) \in Seq(Heights) /\ Len(SubSeq(full, 1, m)) = m
  <2>1. SubSeq(full, 1, m) = [i \in 1 .. m |-> full[i]]
    BY <1>2, <1>3
  <2>2. \A i \in 1 .. m : full[i] \in Heights
    BY <1>2, <1>3
  <2> QED BY <1>3, <2>1, <2>2
<1>5. Recorded(s, log) = SubSeq(full, 1, m)
  BY DEF Recorded, full, m, rev
<1> QED BY <1>3, <1>4, <1>5

\* The blocks that a task got are blocks of the ledger.
LEMMA NewBlocks ==
    ASSUME IndInv, NEW t \in Tasks, pc[t] = "blocks"
    PROVE  LET first == local[t].range.start
               last == first + local[t].got - 1
           IN  /\ first \in Nat /\ last \in Int /\ last <= Tip /\ Tip \in Nat
               /\ Tip < MaxBlocks /\ first .. last \subseteq Heights
<1>1. local[t] \in Locals /\ TaskOK(t)
  BY DEF IndInv, TypeOK
<1>2. Tip \in Nat /\ Tip < MaxBlocks
  BY ConstantsAssumption DEF IndInv, TypeOK, Tip
<1>3. /\ local[t].range.start \in Nat /\ local[t].range.count \in Nat /\ local[t].got \in Nat
  BY <1>1, ConstantsAssumption DEF Locals, Heights
<1>4. local[t].range.start + local[t].got - 1 <= Tip
  BY <1>1, <1>2, <1>3 DEF TaskOK
<1> QED BY <1>2, <1>3, <1>4, ConstantsAssumption DEF Heights

\* Of the tasks that got the same blocks, the first one applies them.
LEMMA ApplyBlocksKeeps ==
    ASSUME IndInv, NEW t \in Tasks, ApplyBlocks(t)
    PROVE  IndInv'
<1> DEFINE first == local[t].range.start
           last == first + local[t].got - 1
           new == first .. last
           payments == {h \in new : IsPayment(h)}
<1>1. /\ pc[t] = "blocks" /\ reply' = [reply EXCEPT ![t] = "none"]
      /\ UNCHANGED <<ledger, archives, cmc, failures, registered, wallets, attached, base>>
  BY DEF ApplyBlocks, external
<1>2. /\ first \in Nat /\ last \in Int /\ last <= Tip /\ Tip \in Nat /\ Tip < MaxBlocks
      /\ new \subseteq Heights
  BY <1>1, NewBlocks
<1>3. exceptional' \in Seq(Heights) /\ Len(exceptional') <= MaxExceptional
  <2>1. PICK bad \in InOrder({h \in new : Block(h).kind = "bad"}) :
            exceptional' = Recorded(bad, exceptional)
    BY DEF ApplyBlocks
  <2>2. bad \in Seq({h \in new : Block(h).kind = "bad"})
    <3>1. {h \in new : Block(h).kind = "bad"} \in SUBSET (first .. last) /\ first \in Int
      BY <1>2
    <3> QED BY <1>2, <2>1, <3>1, InOrderElems
  <2>3. bad \in Seq(Heights)
    BY <1>2, <2>2
  <2> QED BY <2>1, <2>3, RecordedType DEF IndInv, TypeOK
<1>4. reply' \in [Tasks -> Replies] /\ Tip' = Tip /\ Len(ledger) \in Nat
  BY <1>1 DEF IndInv, TypeOK, Replies, Tip
<1>5. CASE new # {} /\ Accepts(first)
  <2>1. /\ synced' = last
        /\ times' = [h \in Heights |-> IF h \in new THEN times[h] + 1 ELSE times[h]]
        /\ paid' = paid \cup payments
        /\ \E p \in InOrder(payments) : TakeNext(t, queue \o p)
    BY <1>5 DEF ApplyBlocks
  <2>2. PICK p \in InOrder(payments) : TakeNext(t, queue \o p)
    BY <2>1
  <2>3. /\ p \in Seq(payments) /\ Elems(p) = payments /\ Distinct(p)
        /\ payments \subseteq Heights
    <3>1. payments \in SUBSET (first .. last) /\ first \in Int
      BY <1>2
    <3> QED BY <1>2, <2>2, <3>1, InOrderElems
  <2>4. p \in Seq(Heights)
    BY <2>3
  <2>5. first = synced + 1 /\ synced \in Int /\ synced < last
    <3>1. synced # None
      BY <1>1 DEF IndInv, TaskOK
    <3> QED BY <1>2, <1>5, <3>1 DEF Accepts, IndInv, TypeOK, Heights
  <2>6. queue \in Seq(Heights) /\ Elems(queue) \subseteq paid /\ \A h \in paid : h <= synced
    BY DEF IndInv, TypeOK, PaymentsConserved, HeightsOK
  <2>7. \A h \in payments : h \notin paid
    BY <1>2, <2>5, <2>6
  <2> HIDE DEF payments
  <2>8. /\ queue \o p \in Seq(Heights)
        /\ Elems(queue \o p) = Elems(queue) \cup payments
        /\ Distinct(queue \o p)
    <3>1. Distinct(queue) /\ Elems(queue) \cap Elems(p) = {}
      BY <2>3, <2>6, <2>7 DEF IndInv, PaymentsConserved
    <3> QED BY <2>3, <2>4, <2>6, <3>1, ConcatElems
  <2>9. Conserved(queue \o p, paid')
    BY <2>1, <2>7, <2>8 DEF Conserved, IndInv, PaymentsConserved
  <2>10. TypeOK'
    <3>1. /\ queue' \in Seq(Heights) /\ pc' \in [Tasks -> Awaits \cup {"idle"}]
          /\ local' \in [Tasks -> Locals] /\ settled' \subseteq Heights
      BY <2>2, <2>8, TakeNextFrame DEF IndInv
    <3>2. synced' \in Heights /\ paid' \subseteq Heights
      BY SMTT(60), <1>2, <2>1, <2>3, <2>5, <1>5 DEF IndInv, TypeOK, Heights
    <3>3. times' \in [Heights -> Nat]
      BY <2>1 DEF IndInv, TypeOK
    <3> QED BY <1>1, <1>3, <1>4, <3>1, <3>2, <3>3 DEF IndInv, TypeOK
  <2>11. HeightsOK'
    <3>1. synced # None /\ base \in Int /\ base <= synced /\ base # None
      <4>1. synced # None
        BY <1>1 DEF IndInv, TaskOK
      <4> QED BY <2>5, <4>1 DEF IndInv, HeightsOK, TypeOK, Heights
    <3>2. \A h \in payments : h <= last
      BY <1>2 DEF payments
    <3>3. \A h \in paid : h \in Int
      BY DEF IndInv, TypeOK, Heights
    <3>4. last \in Int /\ last <= Tip /\ base' = base
      BY <1>1, <1>2
    <3>5. synced' = last /\ synced \in Int /\ synced < last /\ Tip' = Tip /\ last # None
      BY <1>2, <1>4, <2>1, <2>5 DEF IndInv, TypeOK, Heights
    <3>6. \A h \in paid' : h <= last
      <4>1. \A h \in paid : h <= last
        BY <1>2, <2>5, <2>6, <3>3
      <4> QED BY <2>1, <3>2, <4>1
    <3>7. base <= last
      BY <1>2, <2>5, <3>1
    <3> HIDE DEF last
    <3> QED BY <3>1, <3>4, <3>5, <3>6, <3>7 DEF HeightsOK
  <2>12. \A u \in Tasks : TaskOK(u)'
    <3>1. /\ paid \subseteq paid' /\ Elems(queue \o p) \subseteq paid'
          /\ synced' # None
      BY <1>2, <2>1, <2>5, <2>6, <2>8 DEF IndInv, TypeOK, Heights
    <3> QED BY <1>1, <2>2, <2>8, <2>10, <3>1, TakeNextTasks
  <2>13. ExactlyOnce'
    <3>1. \A h \in Heights : times[h] = IF base < h /\ h <= synced THEN 1 ELSE 0
      BY DEF IndInv, ExactlyOnce
    <3>2. base \in Int /\ base <= synced /\ base' = base
      BY <1>1 DEF IndInv, HeightsOK, TypeOK, Heights
    <3>3. ASSUME NEW h \in Heights
          PROVE  times'[h] = IF base' < h /\ h <= synced' THEN 1 ELSE 0
      <4>1. h \in Int /\ times'[h] = IF h \in new THEN times[h] + 1 ELSE times[h]
        BY <2>1 DEF Heights
      <4>2. h \in new <=> synced < h /\ h <= last
        BY <1>2, <2>5, <4>1
      <4> HIDE DEF new, last
      <4> QED BY <1>2, <2>1, <2>5, <3>1, <3>2, <4>1, <4>2
    <3> QED BY <3>3 DEF ExactlyOnce
  <2>14. PaymentsConserved'
    <3>1. pc[t] # "notify"
      BY <1>1
    <3> QED BY <2>2, <2>8, <2>9, <3>1, TakeNextConserves DEF IndInv, PaymentsConserved
  <2>15. AttachedWasPaid'
    <3>1. settled \subseteq settled' /\ paid \subseteq paid'
      BY <2>1, <2>2, <2>8, TakeNextFrame DEF IndInv
    <3> QED BY <1>1, <1>4, <2>10, <3>1, AttachedFrame DEF IndInv
  <2> QED BY <2>10, <2>11, <2>12, <2>13, <2>14, <2>15 DEF IndInv
<1>6. CASE ~(new # {} /\ Accepts(first))
  <2>1. /\ TakeNext(t, queue) /\ UNCHANGED <<synced, times, paid>>
        /\ queue \in Seq(Heights) /\ Elems(queue) \subseteq paid
    BY <1>6 DEF ApplyBlocks, IndInv, TypeOK, PaymentsConserved
  <2>2. TypeOK'
    <3>1. /\ queue' \in Seq(Heights) /\ pc' \in [Tasks -> Awaits \cup {"idle"}]
          /\ local' \in [Tasks -> Locals] /\ settled' \subseteq Heights
      BY <2>1, TakeNextFrame DEF IndInv
    <3> QED BY <1>1, <1>3, <1>4, <2>1, <3>1 DEF IndInv, TypeOK
  <2>3. HeightsOK'
    BY <1>1, <1>4, <2>1 DEF IndInv, HeightsOK
  <2>4. \A u \in Tasks : TaskOK(u)'
    BY <1>1, <2>1, <2>2, TakeNextTasks
  <2>5. ExactlyOnce'
    BY <1>1, <2>1 DEF IndInv, ExactlyOnce
  <2>6. PaymentsConserved'
    <3>1. Conserved(queue, paid) /\ pc[t] # "notify"
      BY <1>1 DEF IndInv, PaymentsConserved, Conserved
    <3> QED BY <2>1, <3>1, TakeNextConserves DEF IndInv, PaymentsConserved
  <2>7. AttachedWasPaid'
    <3>1. settled \subseteq settled'
      BY <2>1, TakeNextFrame DEF IndInv
    <3> QED BY <1>1, <1>4, <2>1, <2>2, <3>1, AttachedFrame DEF IndInv
  <2> QED BY <2>2, <2>3, <2>4, <2>5, <2>6, <2>7 DEF IndInv
<1> QED BY <1>5, <1>6

\* A payment leaves its task for the queue or is settled, and a canister is
\* attached only after the CMC created it.
LEMMA NotifyDoneKeeps ==
    ASSUME IndInv, NEW t \in Tasks, NotifyDone(t)
    PROVE  IndInv'
<1> DEFINE h == local[t].item
<1>1. /\ pc[t] = "notify" /\ pc' = [pc EXCEPT ![t] = "idle"]
      /\ local' = [local EXCEPT ![t] = NoLocals] /\ reply' = [reply EXCEPT ![t] = "none"]
      /\ UNCHANGED <<ledger, archives, cmc, failures, registered, wallets, synced,
                     exceptional, base, times, paid>>
  BY DEF NotifyDone, external
<1>2. /\ h \in Heights /\ h \in paid /\ h \in InFlight
      /\ reply[t] = "ok" => cmc[h] = "created"
  BY <1>1 DEF IndInv, TypeOK, Locals, TaskOK, InFlight
<1>3. NoLocals \in Locals /\ NoLocals.tip = 0 /\ NoLocals.seen = None
  BY ConstantsAssumption DEF NoLocals, Locals, Heights
<1>4. /\ pc' \in [Tasks -> Awaits \cup {"idle"}] /\ local' \in [Tasks -> Locals]
      /\ reply' \in [Tasks -> Replies]
      /\ pc'[t] = "idle" /\ local'[t] = NoLocals
      /\ \A u \in Tasks : u # t => /\ pc'[u] = pc[u] /\ local'[u] = local[u]
                                   /\ reply'[u] = reply[u]
  BY <1>1, <1>3 DEF IndInv, TypeOK, Replies
<1>5. \/ /\ reply[t] = "ok" /\ Attach(Block(h).principal, h)
         /\ settled' = settled \cup {h} /\ queue' = queue
      \/ queue' = Append(queue, h) /\ attached' = attached /\ settled' = settled
      \/ settled' = settled \cup {h} /\ queue' = queue /\ attached' = attached
  BY DEF NotifyDone, Requeued
<1>6. /\ queue \in Seq(Heights) /\ settled \subseteq Heights
      /\ attached \in [Principals -> SUBSET Heights]
  BY DEF IndInv, TypeOK
<1>7. attached' \in [Principals -> SUBSET Heights]
  BY <1>2, <1>5, <1>6 DEF Attach
<1>8. TypeOK'
  <2>1. queue' \in Seq(Heights) /\ settled' \subseteq Heights
    BY <1>2, <1>5, <1>6
  <2> QED BY <1>1, <1>4, <1>7, <2>1 DEF IndInv, TypeOK
<1>9. HeightsOK'
  BY <1>1 DEF IndInv, HeightsOK, Tip
<1>10. Tip' = Tip /\ Tip \in Nat /\ Len(ledger) \in Nat
  BY <1>1 DEF Tip, IndInv, TypeOK
<1>11. \A u \in Tasks : TaskOK(u)'
  <2>1. ASSUME NEW u \in Tasks, u # t PROVE TaskOK(u)'
    BY <1>1, <1>4, <1>8, <1>10, <2>1, TaskFrame DEF IndInv
  <2>2. TaskOK(t)'
    BY <1>3, <1>4, <1>10 DEF TaskOK
  <2> QED BY <2>1, <2>2
<1>12. ExactlyOnce'
  BY <1>1 DEF IndInv, ExactlyOnce
<1>13. PaymentsConserved'
  <2>1. /\ paid = Elems(queue) \cup InFlight \cup settled
        /\ Elems(queue) \cap InFlight = {}
        /\ (Elems(queue) \cup InFlight) \cap settled = {}
        /\ Distinct(queue)
        /\ \A u, v \in Tasks :
              pc[u] = "notify" /\ pc[v] = "notify" /\ local[u].item = local[v].item => u = v
    BY DEF IndInv, PaymentsConserved
  <2>2. InFlight' = InFlight \ {h}
    <3>1. \A u \in Tasks : pc'[u] = "notify" <=> u # t /\ pc[u] = "notify"
      BY <1>4
    <3>2. \A u \in Tasks : pc[u] = "notify" /\ u # t => local[u].item # h
      BY <1>1, <2>1
    <3> QED BY <1>1, <1>4, <3>1, <3>2 DEF InFlight
  <2>3. \A u, v \in Tasks :
           pc'[u] = "notify" /\ pc'[v] = "notify" /\ local'[u].item = local'[v].item => u = v
    BY <1>4, <2>1
  <2>4. CASE queue' = Append(queue, h) /\ settled' = settled
    <3>1. Elems(queue') = Elems(queue) \cup {h} /\ Distinct(queue')
      BY <1>2, <1>6, <2>1, <2>4, AppendElems
    <3> QED BY <1>1, <1>2, <2>1, <2>2, <2>3, <2>4, <3>1 DEF PaymentsConserved
  <2>5. CASE queue' = queue /\ settled' = settled \cup {h}
    BY <1>1, <1>2, <2>1, <2>2, <2>3, <2>5 DEF PaymentsConserved
  <2> QED BY <1>5, <2>4, <2>5
<1>14. AttachedWasPaid'
  <2>1. CASE attached' = attached
    <3>1. settled \subseteq settled'
      BY <1>5
    <3> QED BY <1>1, <1>8, <1>10, <2>1, <3>1, AttachedFrame DEF IndInv
  <2>2. CASE /\ reply[t] = "ok" /\ settled' = settled \cup {h}
             /\ Attach(Block(h).principal, h)
    <3> DEFINE p == Block(h).principal
    <3>1. CASE p \in registered
      <4>1. p \in Principals /\ attached' = [attached EXCEPT ![p] = @ \cup {h}]
        BY <2>2, <3>1 DEF Attach, IndInv, TypeOK
      <4>2. ASSUME NEW r \in Principals, NEW g \in attached'[r]
            PROVE  /\ g \in paid \cap settled' /\ cmc[g] = "created"
                   /\ Block(g).principal = r /\ r \in registered
        <5>1. CASE g \in attached[r]
          BY <2>2, <5>1 DEF IndInv, AttachedWasPaid
        <5>2. CASE r = p /\ g = h
          BY <1>2, <2>2, <3>1, <5>2
        <5> QED BY <1>6, <4>1, <5>1, <5>2
      <4> QED BY <1>1, <4>2 DEF AttachedWasPaid, Block
    <3>2. CASE p \notin registered
      BY <2>1, <2>2, <3>2 DEF Attach
    <3> QED BY <3>1, <3>2
  <2> QED BY <1>5, <2>1, <2>2
<1> QED BY <1>8, <1>9, <1>11, <1>12, <1>13, <1>14 DEF IndInv

\* An upgrade resets the log of exceptional transactions and nothing else.
LEMMA UpgradeKeeps ==
    ASSUME IndInv, Upgrade
    PROVE  IndInv'
<1> USE DEF Upgrade, external, history
<1>1. TypeOK'
  <2>1. exceptional' \in Seq(Heights) /\ Len(exceptional') <= MaxExceptional
    BY ConstantsAssumption
  <2> QED BY <2>1 DEF IndInv, TypeOK
<1>2. HeightsOK'
  BY DEF IndInv, HeightsOK, Tip
<1>3. \A t \in Tasks : TaskOK(t)'
  BY DEF IndInv, TaskOK, Tip
<1>4. ExactlyOnce'
  BY DEF IndInv, ExactlyOnce
<1>5. PaymentsConserved'
  BY ConservedFrame DEF IndInv
<1>6. AttachedWasPaid'
  BY DEF IndInv, AttachedWasPaid, Block
<1> QED BY <1>1, <1>2, <1>3, <1>4, <1>5, <1>6 DEF IndInv

----------------------------------------------------------------------------
(***************************************************************************)
(* IndInv holds initially and is kept by every step.                       *)
(***************************************************************************)

\* IndInv holds in the initial states.
LEMMA InitEstablishes ==
    ASSUME Init
    PROVE  IndInv
<1> USE DEF Init
<1>1. PICK b \in [kind : {"other", "topup"}, principal : Principals] : ledger = <<b>>
  OBVIOUS
<1>2. b \in Blocks /\ ledger \in Seq(Blocks) /\ Len(ledger) = 1
  <2>1. b \in Blocks
    BY DEF Blocks, Kinds
  <2> QED BY <1>1, <2>1
<1>3. 0 \in Heights
  BY ConstantsAssumption DEF Heights
<1>4. /\ queue \in Seq(Heights) /\ synced \in Heights \cup {None} /\ Distinct(queue)
      /\ paid \subseteq {0} /\ paid # {} => synced = 0
  <2>1. CASE queue = <<>>
    BY <1>3, <2>1 DEF Distinct
  <2>2. CASE queue = <<0>>
    BY <1>3, <2>2 DEF Distinct
  <2> QED BY <2>1, <2>2
<1>5. NoLocals \in Locals /\ NoLocals.tip = 0 /\ NoLocals.seen = None
  BY ConstantsAssumption DEF NoLocals, Locals, Heights
<1>6. TypeOK
  <2>1. Len(ledger) \in 1 .. MaxBlocks
    BY <1>2, ConstantsAssumption
  <2>2. /\ cmc \in [Heights -> CmcStates] /\ reply \in [Tasks -> Replies]
        /\ local \in [Tasks -> Locals] /\ pc \in [Tasks -> Awaits \cup {"idle"}]
        /\ times \in [Heights -> Nat] /\ attached \in [Principals -> SUBSET Heights]
    BY <1>5 DEF CmcStates, Replies
  <2>3. failures \in 0 .. MaxFailures /\ exceptional \in Seq(Heights)
        /\ Len(exceptional) <= MaxExceptional /\ archives \in Seq(Entries)
    BY ConstantsAssumption
  <2>4. paid \subseteq Heights /\ settled \subseteq Heights
    BY <1>3, <1>4
  <2> QED BY <1>2, <1>4, <2>1, <2>2, <2>3, <2>4 DEF TypeOK
<1>7. HeightsOK
  BY <1>2, <1>4 DEF HeightsOK, Tip
<1>8. \A t \in Tasks : TaskOK(t)
  BY <1>2, <1>5 DEF TaskOK, Tip
<1>9. ExactlyOnce
  BY DEF ExactlyOnce, Heights
<1>10. PaymentsConserved
  <2>1. InFlight = {}
    BY DEF InFlight
  <2> QED BY <1>4, <2>1 DEF PaymentsConserved, Elems
<1>11. AttachedWasPaid
  BY DEF AttachedWasPaid
<1> QED BY <1>6, <1>7, <1>8, <1>9, <1>10, <1>11 DEF IndInv

\* Every step keeps IndInv.
LEMMA NextKeeps ==
    ASSUME IndInv, [Next]_vars
    PROVE  IndInv'
<1>1. ASSUME NEW p \in Principals, AddAccount(p) \/ RegisterHardwareWallet(p)
      PROVE  IndInv'
  BY <1>1, AddAccountKeeps, RegisterHardwareWalletKeeps
<1>2. ASSUME NEW b \in Blocks, AddBlock(b)
      PROVE  IndInv'
  BY <1>2, AddBlockKeeps
<1>3. ASSUME NEW h \in Heights, ArchiveBlocks(h) \/ ClientNotify(h) \/ CmcComplete(h)
      PROVE  IndInv'
  BY <1>3, ArchiveBlocksKeeps, CmcKeeps
<1>4. ASSUME NEW t \in Tasks, Heartbeat(t) \/ CallFails(t) \/ Answer(t)
      PROVE  IndInv'
  BY <1>4, HeartbeatKeeps, CallFailsKeeps, AnswerReadKeeps, AnswerBlocksKeeps,
     AnswerNotifyKeeps DEF Answer
<1>5. ASSUME NEW t \in Tasks, Deliver(t)
      PROVE  IndInv'
  BY <1>5, SyncEndsKeeps, FirstSyncKeeps, AskIndexKeeps, AskBlocksKeeps,
     ApplyBlocksKeeps, NotifyDoneKeeps DEF Deliver
<1>6. CASE UNCHANGED vars
  <2>1. /\ UNCHANGED <<ledger, archives, cmc, failures>>
        /\ UNCHANGED <<registered, wallets, synced, queue, attached, exceptional>>
        /\ UNCHANGED <<pc, reply, local, base, times, paid, settled>>
    BY <1>6 DEF vars, external, store, history
  <2> QED BY <2>1 DEF IndInv, TypeOK, HeightsOK, TaskOK, ExactlyOnce, PaymentsConserved,
               AttachedWasPaid, Tip, Block, InFlight
<1> QED BY <1>1, <1>2, <1>3, <1>4, <1>5, <1>6, UpgradeKeeps DEF Next

\* IndInv is an invariant of every behaviour of the background tasks.
THEOREM Invariance == Spec => []IndInv
<1>1. Init => IndInv
  BY InitEstablishes
<1>2. IndInv /\ [Next]_vars => IndInv'
  BY NextKeeps
<1> QED BY <1>1, <1>2, PTL DEF Spec

\* The variables keep their types; the log of exceptional transactions keeps
\* its bound.
THEOREM TypeCorrect == Spec => []TypeOK
<1>1. IndInv => TypeOK
  BY DEF IndInv
<1> QED BY <1>1, Invariance, PTL

\* Every block after the first sync is applied to the accounts store exactly
\* once, however many tasks sync at the same time.
THEOREM BlocksAppliedOnce == Spec => []ExactlyOnce
<1>1. IndInv => ExactlyOnce
  BY DEF IndInv
<1> QED BY <1>1, Invariance, PTL

\* Every payment that was ever queued is in exactly one place.
THEOREM NoPaymentLostOrDoubled == Spec => []PaymentsConserved
<1>1. IndInv => PaymentsConserved
  BY DEF IndInv
<1> QED BY <1>1, Invariance, PTL

\* Only canisters that were paid for and created are attached.
THEOREM OnlyPaidAttached == Spec => []AttachedWasPaid
<1>1. IndInv => AttachedWasPaid
  BY DEF IndInv
<1> QED BY <1>1, Invariance, PTL

\* The synced height never goes back, the first sync happens once and settled
\* payments stay settled.
THEOREM ProgressKept == Spec => ProgressIsKept
<1> DEFINE Kept == /\ synced' >= synced
                   /\ base # None => base' = base
                   /\ settled \subseteq settled'
<1>1. ASSUME IndInv, [Next]_vars PROVE Kept
  <2>1. synced \in Int /\ queue \in Seq(Heights) /\ (base = None <=> synced = None)
    BY <1>1 DEF IndInv, TypeOK, Heights, HeightsOK
  <2>2. ASSUME UNCHANGED <<synced, base, settled>> PROVE Kept
    BY <2>1, <2>2
  <2>3. ASSUME NEW t \in Tasks, SyncCallFailed(t) \/ NothingNew(t) PROVE Kept
    <3>1. TakeNext(t, queue) /\ UNCHANGED <<synced, base>>
      BY <2>3 DEF SyncCallFailed, NothingNew
    <3> QED BY <1>1, <2>1, <3>1, TakeNextFrame DEF IndInv
  <2>4. ASSUME NEW t \in Tasks, FirstSync(t) PROVE Kept
    <3>1. CASE synced = None
      <4>1. TakeNext(t, queue) /\ synced' = local[t].tip
        BY <2>4, <3>1 DEF FirstSync
      <4>2. local[t].tip \in Nat
        BY <1>1 DEF IndInv, TypeOK, Locals, Heights
      <4> QED BY <1>1, <2>1, <3>1, <4>1, <4>2, TakeNextFrame DEF IndInv
    <3>2. CASE synced # None
      BY <2>2, <2>4, <3>2 DEF FirstSync
    <3> QED BY <3>1, <3>2
  <2>5. ASSUME NEW t \in Tasks, ApplyBlocks(t) PROVE Kept
    <3> DEFINE first == local[t].range.start
               last == first + local[t].got - 1
               payments == {h \in first .. last : IsPayment(h)}
    <3>1. pc[t] = "blocks" /\ base' = base
      BY <2>5 DEF ApplyBlocks
    <3>2. first \in Nat /\ last \in Int /\ first .. last \subseteq Heights
      BY <1>1, <3>1, NewBlocks
    <3>3. CASE first .. last # {} /\ Accepts(first)
      <4>1. synced' = last /\ \E p \in InOrder(payments) : TakeNext(t, queue \o p)
        BY <2>5, <3>3 DEF ApplyBlocks
      <4>2. PICK p \in InOrder(payments) : TakeNext(t, queue \o p)
        BY <4>1
      <4>3. p \in Seq(payments)
        <5>1. payments \in SUBSET (first .. last) /\ first \in Int
          BY <3>2
        <5> QED BY <3>2, <4>2, <5>1, InOrderElems
      <4>4. queue \o p \in Seq(Heights)
        BY <2>1, <3>2, <4>3
      <4>5. settled \subseteq settled'
        BY <1>1, <4>2, <4>4, TakeNextFrame DEF IndInv
      <4>6. synced' >= synced
        <5>1. synced # None
          BY <1>1, <3>1 DEF IndInv, TaskOK
        <5> QED BY <2>1, <3>2, <3>3, <4>1, <5>1 DEF Accepts
      <4> QED BY <3>1, <4>5, <4>6
    <3>4. CASE ~(first .. last # {} /\ Accepts(first))
      <4>1. TakeNext(t, queue) /\ synced' = synced
        BY <2>5, <3>4 DEF ApplyBlocks
      <4> QED BY <1>1, <2>1, <3>1, <4>1, TakeNextFrame DEF IndInv
    <3> QED BY <3>3, <3>4
  <2>6. ASSUME NEW t \in Tasks, NotifyDone(t) PROVE Kept
    BY <2>1, <2>6 DEF NotifyDone
  <2>7. ASSUME NEW t \in Tasks, Deliver(t) PROVE Kept
    BY <2>2, <2>3, <2>4, <2>5, <2>6, <2>7
       DEF Deliver, AskIndex, AskBlocks, store, history
  <2>8. ASSUME NEW t \in Tasks, Heartbeat(t) \/ CallFails(t) \/ Answer(t) PROVE Kept
    BY <2>2, <2>8 DEF Heartbeat, CallFails, Answer, AnswerTip, AnswerIndex,
                      AnswerBlocks, AnswerNotify, store, history
  <2>9. ASSUME NEW h \in Heights, ArchiveBlocks(h) \/ ClientNotify(h) \/ CmcComplete(h)
        PROVE  Kept
    BY <2>2, <2>9 DEF ArchiveBlocks, ClientNotify, CmcComplete, store, history
  <2>10. ASSUME NEW p \in Principals, AddAccount(p) \/ RegisterHardwareWallet(p)
         PROVE  Kept
    BY <2>2, <2>10 DEF AddAccount, RegisterHardwareWallet, history
  <2>11. ASSUME NEW b \in Blocks, AddBlock(b) PROVE Kept
    BY <2>2, <2>11 DEF AddBlock, store, history
  <2>12. CASE Upgrade \/ UNCHANGED vars
    BY <2>2, <2>12 DEF Upgrade, vars, store, history
  <2> QED BY <1>1, <2>7, <2>8, <2>9, <2>10, <2>11, <2>12 DEF Next
<1>2. IndInv /\ [Next]_vars => [Kept]_vars
  BY <1>1
<1> QED BY <1>2, Invariance, PTL DEF Spec, ProgressIsKept

----------------------------------------------------------------------------
(***************************************************************************)
(* The scan of determine_canister_for_blocks.                              *)
(***************************************************************************)

\* A nonempty set of positions of a sequence has a largest one.
LEMMA LargestPosition ==
    ASSUME NEW n \in Nat, NEW T \in SUBSET (1 .. n), T # {}
    PROVE  \E x \in T : \A y \in T : y <= x
<1> DEFINE R == OpToRel(<, Nat)
           D == {n - x : x \in T}
<1>1. IsWellFoundedOn(R, Nat)
  BY NatLessThanWellFounded
<1>2. R = {p \in Nat \X Nat : p[1] < p[2]}
  BY DEF OpToRel
<1>3. D \subseteq Nat
  <2>1. \A x \in T : n - x \in Nat
    OBVIOUS
  <2> QED BY <2>1
<1>4. D # {}
  <2>1. PICK x \in T : TRUE
    OBVIOUS
  <2>2. n - x \in D
    OBVIOUS
  <2> QED BY <2>2
<1>5. PICK d \in D : \A e \in D : ~(<<e, d>> \in R)
  <2> HIDE DEF R, D
  <2> QED BY <1>1, <1>3, <1>4, WFMin
<1>6. ASSUME NEW e \in D PROVE d <= e
  <2> HIDE DEF R, D
  <2>1. d \in Nat /\ e \in Nat
    BY <1>3
  <2>2. ~(e < d)
    BY <1>2, <1>5, <2>1
  <2> QED BY <2>1, <2>2
<1>7. PICK x \in T : d = n - x
  OBVIOUS
<1>8. ASSUME NEW y \in T PROVE y <= x
  <2>1. n - x <= n - y
    BY <1>6, <1>7
  <2>2. x \in Int /\ y \in Int /\ n \in Int
    OBVIOUS
  <2> HIDE DEF R, D
  <2> QED BY <2>1, <2>2
<1> QED BY <1>8

\* When no archive stops the scan, none holds a block from `from` on, so that the
\* ledger itself is asked for good reason: an archive that starts at or before
\* `from`, the last one of these, would be hit if it did not end before `from`,
\* and the next archive starts right after its end.
LEMMA ScanFindsHolder ==
    ASSUME NEW es \in Seq(Entries), InARow(es), NEW from \in Nat,
           NEW k \in DOMAIN es, es[k].to >= from
    PROVE  \E i \in DOMAIN es :
              /\ ~Ends(es[i], from) /\ ~Skipped(es[i], from)
              /\ \A j \in DOMAIN es : j > i => Skipped(es[j], from)
<1> DEFINE T == {i \in 1 .. Len(es) : es[i].from <= from}
<1>1. Len(es) \in Nat /\ DOMAIN es = 1 .. Len(es)
  OBVIOUS
<1>2. \A i \in DOMAIN es : es[i].from \in Nat /\ es[i].to \in Nat
  <2>1. \A i \in DOMAIN es : es[i] \in Entries
    OBVIOUS
  <2> QED BY <2>1, ConstantsAssumption DEF Entries, Heights
<1>3. /\ \A i \in DOMAIN es : es[i].from <= es[i].to
      /\ \A i \in DOMAIN es : es[i].from = IF i = 1 THEN 0 ELSE es[i - 1].to + 1
      /\ \A i, j \in DOMAIN es : i < j => es[i].to < es[j].from
  BY DEF InARow
<1>4. T \in SUBSET (1 .. Len(es)) /\ T # {}
  <2>1. 1 \in DOMAIN es
    BY <1>1
  <2>2. es[1].from = 0
    BY <1>3, <2>1
  <2>3. 1 \in T
    BY <1>1, <2>1, <2>2
  <2> QED BY <2>3
<1>5. PICK i \in T : \A y \in T : y <= i
  <2> HIDE DEF T
  <2> QED BY <1>1, <1>4, LargestPosition
<1>6. i \in DOMAIN es /\ i \in Nat /\ es[i].from <= from
  BY <1>1
<1>7. \A j \in DOMAIN es : j > i => es[j].from > from
  <2> SUFFICES ASSUME NEW j \in DOMAIN es, j > i, ~(es[j].from > from)
               PROVE  FALSE
    OBVIOUS
  <2>1. j \in 1 .. Len(es) /\ es[j].from <= from
    BY <1>1, <1>2
  <2>2. j \in T
    BY <2>1
  <2> QED BY <1>1, <1>5, <1>6, <2>1, <2>2
<1>8. es[i].to >= from
  <2> SUFFICES ASSUME es[i].to < from PROVE FALSE
    BY <1>2, <1>6
  <2>1. k > i
    <3>1. CASE k = i
      BY <1>2, <1>6, <3>1
    <3>2. CASE k < i
      <4>1. es[k].to < es[i].from
        BY <1>3, <1>6, <3>2
      <4>2. es[k].to \in Nat /\ es[i].from \in Nat
        BY <1>2, <1>6
      <4> QED BY <1>6, <4>1, <4>2
    <3>3. k \in Int
      BY <1>1
    <3> QED BY <1>6, <3>1, <3>2, <3>3
  <2>2. i + 1 \in DOMAIN es /\ i + 1 # 1
    BY <1>1, <1>6, <2>1
  <2>3. es[i + 1].from = es[i].to + 1
    <3>1. i + 1 - 1 = i
      BY <1>6
    <3> QED BY <1>3, <2>2, <3>1
  <2>4. es[i + 1].from > from
    BY <1>6, <1>7, <2>2
  <2> QED BY <1>2, <1>6, <2>3, <2>4
<1>9. ~Ends(es[i], from) /\ ~Skipped(es[i], from)
  BY <1>2, <1>6, <1>8 DEF Ends, Skipped
<1>10. ASSUME NEW j \in DOMAIN es, j > i PROVE Skipped(es[j], from)
  <2>1. es[j].from > from /\ es[j].from <= es[j].to /\ es[j].from \in Nat /\ es[j].to \in Nat
    BY <1>2, <1>3, <1>7, <1>10
  <2> QED BY <2>1 DEF Ends, Skipped
<1> HIDE DEF T
<1> QED BY <1>6, <1>9, <1>10

\* The request that get_blocks sends, for an index of archives in a row.
LEMMA BlocksToGetHolder ==
    ASSUME NEW from \in Nat, NEW top \in Nat, from <= top,
           NEW es \in Seq(Entries), InARow(es)
    PROVE  LET r == BlocksToGet(from, top, es)
               last == r.start + r.count - 1
           IN  /\ r.count \in 1 .. BatchSize
               /\ r.start = from /\ last <= top
               /\ IF r.canister = 0
                  THEN \A i \in DOMAIN es : es[i].to < r.start
                  ELSE es[r.canister].from <= r.start /\ last <= es[r.canister].to
               /\ \/ r.count = BatchSize \/ last = top
                  \/ r.canister # 0 /\ last = es[r.canister].to
<1>1. PICK c \in Nat, n \in 1 .. BatchSize :
        /\ BlocksToGet(from, top, es) = [canister |-> c, start |-> from, count |-> n]
        /\ from + n - 1 <= top
        /\ c # 0 => /\ c \in DOMAIN es /\ es[c].from <= from
                    /\ from + n - 1 <= es[c].to
        /\ n = BatchSize \/ from + n - 1 = top \/ (c # 0 /\ from + n - 1 = es[c].to)
        /\ c = 0 => ~\E i \in DOMAIN es :
                        /\ ~Ends(es[i], from) /\ ~Skipped(es[i], from)
                        /\ \A j \in DOMAIN es : j > i => Skipped(es[j], from)
  BY BlocksToGetRange
<1>2. ASSUME c = 0, NEW i \in DOMAIN es PROVE es[i].to < from
  <2>1. ~(es[i].to >= from)
    BY <1>1, <1>2, ScanFindsHolder
  <2>2. es[i].to \in Nat
    <3>1. es[i] \in Entries
      OBVIOUS
    <3> QED BY <3>1, ConstantsAssumption DEF Entries, Heights
  <2> QED BY <2>1, <2>2
<1> DEFINE r == BlocksToGet(from, top, es)
<1>3. r.canister = c /\ r.start = from /\ r.count = n
  BY <1>1
<1> HIDE DEF r
<1>4. /\ r.start + r.count - 1 = from + n - 1 /\ n \in 1 .. BatchSize
  BY <1>3
<1>5. IF r.canister = 0
      THEN \A i \in DOMAIN es : es[i].to < r.start
      ELSE es[r.canister].from <= r.start /\ r.start + r.count - 1 <= es[r.canister].to
  BY <1>1, <1>2, <1>3, <1>4
<1> QED BY <1>1, <1>3, <1>4, <1>5 DEF r

----------------------------------------------------------------------------
(***************************************************************************)
(* The archives stay in a row.                                             *)
(***************************************************************************)

\* A new archive follows the last one.
LEMMA AppendInARow ==
    ASSUME NEW es \in Seq(Entries), InARow(es), NEW e \in Entries, e.from <= e.to,
           e.from = IF es = <<>> THEN 0 ELSE es[Len(es)].to + 1
    PROVE  InARow(Append(es, e))
<1> DEFINE new == Append(es, e)
           n == Len(es)
<1>1. /\ n \in Nat /\ DOMAIN es = 1 .. n /\ DOMAIN new = 1 .. n + 1
      /\ \A i \in 1 .. n : new[i] = es[i]
      /\ new[n + 1] = e
      /\ es = <<>> <=> n = 0
  OBVIOUS
<1>2. \A i \in 1 .. n : es[i].from \in Nat /\ es[i].to \in Nat
  <2>1. \A i \in 1 .. n : es[i] \in Entries
    BY <1>1
  <2> QED BY <2>1, ConstantsAssumption DEF Entries, Heights
<1>3. /\ \A i \in 1 .. n : es[i].from <= es[i].to
      /\ \A i \in 1 .. n : es[i].from = IF i = 1 THEN 0 ELSE es[i - 1].to + 1
      /\ \A i, j \in 1 .. n : i < j => es[i].to < es[j].from
  BY <1>1 DEF InARow
<1>4. e.from \in Nat /\ e.to \in Nat
  BY ConstantsAssumption DEF Entries, Heights
<1> HIDE DEF new, n
<1>5. ASSUME NEW i \in 1 .. n + 1
      PROVE  /\ new[i].from <= new[i].to
             /\ new[i].from = IF i = 1 THEN 0 ELSE new[i - 1].to + 1
  <2>1. CASE i \in 1 .. n
    <3>1. i # 1 => i - 1 \in 1 .. n
      BY <1>1, <2>1
    <3> QED BY <1>1, <1>3, <2>1, <3>1
  <2>2. CASE i = n + 1
    <3>1. CASE n = 0
      BY <1>1, <2>2, <3>1 DEF n
    <3>2. CASE n # 0
      <4>1. i # 1 /\ i - 1 = n /\ n \in 1 .. n
        BY <1>1, <2>2, <3>2
      <4>2. new[i - 1] = es[n] /\ new[i] = e
        BY <1>1, <2>2, <4>1
      <4>3. e.from = es[n].to + 1
        BY <1>1, <3>2 DEF n
      <4> QED BY <4>1, <4>2, <4>3
    <3> QED BY <3>1, <3>2
  <2> QED BY <1>1, <2>1, <2>2
<1>6. ASSUME NEW i \in 1 .. n + 1, NEW j \in 1 .. n + 1, i < j
      PROVE  new[i].to < new[j].from
  <2>1. i \in 1 .. n
    BY <1>1, <1>6
  <2>2. CASE j \in 1 .. n
    BY <1>1, <1>3, <1>6, <2>1, <2>2
  <2>3. CASE j = n + 1
    <3>1. n # 0 /\ n \in 1 .. n /\ e.from = es[n].to + 1
      BY <1>1, <2>1 DEF n
    <3>2. es[i].to <= es[n].to
      <4>1. CASE i = n
        BY <1>2, <2>1, <4>1
      <4>2. CASE i < n
        <5>1. es[i].to < es[n].from /\ es[n].from <= es[n].to
          BY <1>3, <2>1, <3>1, <4>2
        <5> QED BY <1>2, <2>1, <3>1, <5>1
      <4> QED BY <1>1, <2>1, <4>1, <4>2
    <3>3. new[i] = es[i] /\ new[j] = e
      BY <1>1, <2>1, <2>3
    <3> QED BY <1>2, <2>1, <3>1, <3>2, <3>3
  <2> QED BY <1>1, <2>2, <2>3
<1>7. InARow(new)
  BY <1>1, <1>5, <1>6 DEF InARow
<1> QED BY <1>7 DEF new

\* The last archive grows.
LEMMA ExtendInARow ==
    ASSUME NEW es \in Seq(Entries), InARow(es), es # <<>>,
           NEW h \in Heights, h >= es[Len(es)].to
    PROVE  InARow([es EXCEPT ![Len(es)].to = h])
<1> DEFINE n == Len(es)
           new == [es EXCEPT ![n].to = h]
<1>1. n \in Nat /\ n \in 1 .. n /\ DOMAIN es = 1 .. n /\ DOMAIN new = 1 .. n
  OBVIOUS
<1>2. /\ \A i \in 1 .. n : es[i] \in Entries
      /\ \A i \in 1 .. n : es[i].from \in Nat /\ es[i].to \in Nat
  <2>1. \A i \in 1 .. n : es[i] \in Entries
    BY <1>1
  <2> QED BY <2>1, ConstantsAssumption DEF Entries, Heights
<1>3. /\ \A i \in 1 .. n : es[i].from <= es[i].to
      /\ \A i \in 1 .. n : es[i].from = IF i = 1 THEN 0 ELSE es[i - 1].to + 1
      /\ \A i, j \in 1 .. n : i < j => es[i].to < es[j].from
  BY <1>1 DEF InARow
<1>4. \A i \in 1 .. n : i # n => new[i] = es[i]
  BY <1>1
<1>5. new[n].from = es[n].from /\ new[n].to = h
  <2>1. new[n] = [es[n] EXCEPT !.to = h]
    BY <1>1
  <2>2. es[n] \in [from : Heights, to : Heights]
    BY <1>1, <1>2 DEF Entries
  <2> HIDE DEF new, n
  <2> QED BY <2>1, <2>2
<1>6. h \in Nat /\ h >= es[n].to
  BY ConstantsAssumption DEF Heights
<1> HIDE DEF new, n
<1>7. \A i \in 1 .. n : new[i].from = es[i].from
  BY <1>4, <1>5
<1>8. ASSUME NEW i \in 1 .. n
      PROVE  /\ new[i].from <= new[i].to
             /\ new[i].from = IF i = 1 THEN 0 ELSE new[i - 1].to + 1
  <2>1. new[i].from <= new[i].to
    <3>1. CASE i = n
      <4>1. es[n].from <= es[n].to /\ es[n].from \in Nat /\ es[n].to \in Nat
        BY <1>1, <1>2, <1>3
      <4> QED BY <1>5, <1>6, <3>1, <4>1
    <3>2. CASE i # n
      BY <1>3, <1>4, <3>2
    <3> QED BY <3>1, <3>2
  <2>2. i # 1 => new[i - 1] = es[i - 1]
    <3>1. i # 1 => i - 1 \in 1 .. n /\ i - 1 # n
      BY <1>1
    <3> QED BY <1>4, <3>1
  <2> QED BY <1>3, <1>7, <2>1, <2>2
<1>9. ASSUME NEW i \in 1 .. n, NEW j \in 1 .. n, i < j
      PROVE  new[i].to < new[j].from
  <2>1. i # n
    BY <1>1, <1>9
  <2> QED BY <1>3, <1>4, <1>7, <1>9, <2>1
<1>10. InARow(new)
  BY <1>1, <1>8, <1>9 DEF InARow
<1> QED BY <1>10 DEF new, n

\* ArchiveBlocks keeps the archives in a row.
LEMMA ArchiveBlocksInARow ==
    ASSUME TypeOK, InARow(archives), NEW h \in Heights, ArchiveBlocks(h)
    PROVE  InARow(archives')
<1>1. /\ archives \in Seq(Entries) /\ h \in FirstLocal .. Tip - 1
      /\ Tip \in Int /\ Tip < MaxBlocks /\ MaxBlocks \in Nat
  BY ConstantsAssumption DEF TypeOK, Tip, ArchiveBlocks
<1>2. archives # <<>> => archives[Len(archives)].to \in Nat
  <2> SUFFICES ASSUME archives # <<>> PROVE archives[Len(archives)].to \in Nat
    OBVIOUS
  <2>1. archives[Len(archives)] \in Entries
    BY <1>1
  <2> QED BY <2>1, ConstantsAssumption DEF Entries, Heights
<1>3. /\ FirstLocal \in Nat /\ FirstLocal <= h
      /\ FirstLocal = IF archives = <<>> THEN 0 ELSE archives[Len(archives)].to + 1
  BY <1>1, <1>2 DEF FirstLocal
<1>4. CASE archives' = Append(archives, [from |-> FirstLocal, to |-> h])
  <2> DEFINE e == [from |-> FirstLocal, to |-> h]
  <2>1. e \in Entries /\ e.from = FirstLocal /\ e.to = h
    BY <1>1, <1>3, ConstantsAssumption DEF Entries, Heights
  <2> HIDE DEF e
  <2>2. InARow(Append(archives, e))
    BY <1>1, <1>3, <2>1, AppendInARow
  <2> QED BY <1>4, <2>2 DEF e
<1>5. CASE archives # <<>> /\ archives' = [archives EXCEPT ![Len(archives)].to = h]
  <2>1. h >= archives[Len(archives)].to
    BY <1>1, <1>2, <1>3, <1>5
  <2> QED BY <1>1, <1>5, <2>1, ExtendInARow
<1> QED BY <1>4, <1>5 DEF ArchiveBlocks

\* A task keeps the index that it has, forgets it, or reads the current one.
LEMMA EntriesStep ==
    ASSUME TypeOK, [Next]_vars, NEW u \in Tasks
    PROVE  local'[u].entries \in {local[u].entries, <<>>, archives}
<1> DEFINE Goal == local'[u].entries \in {local[u].entries, <<>>, archives}
<1>1. local \in [Tasks -> Locals]
  BY DEF TypeOK
<1>2. /\ NoLocals.entries = <<>>
      /\ \A x : [NoLocals EXCEPT !.item = x].entries = <<>>
      /\ \A x : [NoLocals EXCEPT !.range = x].entries = <<>>
  BY DEF NoLocals
<1>3. ASSUME local' = local PROVE Goal
  BY <1>3
<1>4. ASSUME NEW t \in Tasks, NEW x, local' = [local EXCEPT ![t] = x],
             x.entries \in {local[t].entries, <<>>, archives}
      PROVE  Goal
  BY <1>1, <1>4
<1>5. ASSUME NEW t \in Tasks, NEW q, TakeNext(t, q) PROVE Goal
  <2>1. \E x \in {NoLocals, [NoLocals EXCEPT !.item = Head(q)]} : local' = [local EXCEPT ![t] = x]
    BY <1>5 DEF TakeNext
  <2> QED BY <1>2, <1>4, <2>1
<1>6. ASSUME NEW t \in Tasks, Heartbeat(t) \/ AnswerTip(t) \/ AnswerIndex(t) PROVE Goal
  <2>1. local[t] \in Locals
    BY <1>1
  <2>2. /\ \A x : [local[t] EXCEPT !.seen = x].entries = local[t].entries
        /\ \A x : [local[t] EXCEPT !.tip = x].entries = local[t].entries
        /\ \A x : [local[t] EXCEPT !.entries = x].entries = x
    BY <2>1 DEF Locals
  <2>3. \/ local' = [local EXCEPT ![t] = [local[t] EXCEPT !.seen = synced]]
        \/ local' = [local EXCEPT ![t] = [local[t] EXCEPT !.tip = Tip]]
        \/ local' = [local EXCEPT ![t] = [local[t] EXCEPT !.entries = archives]]
    BY <1>1, <1>6 DEF Heartbeat, AnswerTip, AnswerIndex
  <2> QED BY ZenonT(60), <1>4, <2>2, <2>3
<1>7. ASSUME NEW t \in Tasks, AnswerBlocks(t) PROVE Goal
  <2>1. local' = local \/ \E n \in 0 .. local[t].range.count : local' = [local EXCEPT ![t].got = n]
    BY <1>7, Zenon DEF AnswerBlocks
  <2>2. ASSUME NEW n, local' = [local EXCEPT ![t].got = n] PROVE Goal
    <3>1. local[t] \in Locals
      BY <1>1
    <3>2. [local[t] EXCEPT !.got = n].entries = local[t].entries
      BY <3>1 DEF Locals
    <3>3. local' = [local EXCEPT ![t] = [local[t] EXCEPT !.got = n]]
      BY <1>1, <2>2
    <3> QED BY <1>4, <3>2, <3>3
  <2> QED BY <1>3, <2>1, <2>2
<1>8. ASSUME NEW t \in Tasks, SyncCallFailed(t) \/ NothingNew(t) \/ ApplyBlocks(t) PROVE Goal
  <2>1. \E q : TakeNext(t, q)
    BY <1>8 DEF SyncCallFailed, NothingNew, ApplyBlocks
  <2> QED BY <1>5, <2>1
<1>9. ASSUME NEW t \in Tasks, FirstSync(t) PROVE Goal
  <2>1. TakeNext(t, queue) \/ local' = [local EXCEPT ![t] = NoLocals]
    BY <1>9 DEF FirstSync
  <2> QED BY <1>2, <1>4, <1>5, <2>1
<1>10. ASSUME NEW t \in Tasks, AskBlocks(t) \/ NotifyDone(t) PROVE Goal
  <2>1. \/ local' = [local EXCEPT ![t] = NoLocals]
        \/ \E x : local' = [local EXCEPT ![t] = [NoLocals EXCEPT !.range = x]]
    BY <1>10 DEF AskBlocks, NotifyDone
  <2> QED BY <1>2, <1>4, <2>1
<1>11. ASSUME NEW t \in Tasks, CallFails(t) \/ AnswerNotify(t) \/ AskIndex(t) PROVE Goal
  BY <1>3, <1>11 DEF CallFails, AnswerNotify, AskIndex
<1>12. ASSUME NEW t \in Tasks, Heartbeat(t) \/ CallFails(t) \/ Answer(t) \/ Deliver(t) PROVE Goal
  BY <1>6, <1>7, <1>8, <1>9, <1>10, <1>11, <1>12 DEF Answer, Deliver
<1>13. ASSUME NEW h \in Heights, ArchiveBlocks(h) \/ ClientNotify(h) \/ CmcComplete(h) PROVE Goal
  BY <1>3, <1>13 DEF ArchiveBlocks, ClientNotify, CmcComplete
<1>14. ASSUME NEW p \in Principals, AddAccount(p) \/ RegisterHardwareWallet(p) PROVE Goal
  BY <1>3, <1>14 DEF AddAccount, RegisterHardwareWallet
<1>15. ASSUME NEW b \in Blocks, AddBlock(b) PROVE Goal
  BY <1>3, <1>15 DEF AddBlock
<1>16. CASE Upgrade \/ UNCHANGED vars
  BY <1>3, <1>16 DEF Upgrade, vars
<1> QED BY <1>12, <1>13, <1>14, <1>15, <1>16 DEF Next

\* No step but ArchiveBlocks changes the archives.
LEMMA ArchivesStep ==
    ASSUME TypeOK, InARow(archives), [Next]_vars
    PROVE  InARow(archives')
<1>1. ASSUME archives' = archives PROVE InARow(archives')
  BY <1>1
<1>2. ASSUME NEW h \in Heights, ArchiveBlocks(h) \/ ClientNotify(h) \/ CmcComplete(h)
      PROVE  InARow(archives')
  BY <1>1, <1>2, ArchiveBlocksInARow DEF ClientNotify, CmcComplete
<1>3. ASSUME NEW t \in Tasks, Heartbeat(t) \/ CallFails(t) \/ Answer(t)
      PROVE  InARow(archives')
  BY <1>1, <1>3 DEF Heartbeat, CallFails, Answer, AnswerTip, AnswerIndex, AnswerBlocks,
                    AnswerNotify, external
<1>4. ASSUME NEW t \in Tasks, Deliver(t)
      PROVE  InARow(archives')
  BY <1>1, <1>4 DEF Deliver, SyncCallFailed, FirstSync, NothingNew, AskIndex, AskBlocks,
                    ApplyBlocks, NotifyDone, external
<1>5. ASSUME NEW p \in Principals, AddAccount(p) \/ RegisterHardwareWallet(p)
      PROVE  InARow(archives')
  BY <1>1, <1>5 DEF AddAccount, RegisterHardwareWallet, external
<1>6. ASSUME NEW b \in Blocks, AddBlock(b) PROVE InARow(archives')
  BY <1>1, <1>6 DEF AddBlock
<1>7. CASE Upgrade \/ UNCHANGED vars
  BY <1>1, <1>7 DEF Upgrade, vars, external
<1> QED BY <1>2, <1>3, <1>4, <1>5, <1>6, <1>7 DEF Next

\* The archives, and every index that a task has read, are in a row.
THEOREM ArchivesInARow == Spec => []ArchivesInv
<1>1. InARow(<<>>)
  BY DEF InARow
<1>2. ASSUME Init PROVE ArchivesInv
  <2>1. TypeOK
    BY <1>2, InitEstablishes DEF IndInv
  <2>2. archives = <<>> /\ \A t \in Tasks : local[t].entries = <<>>
    BY <1>2 DEF Init, NoLocals
  <2> QED BY <1>1, <2>1, <2>2 DEF ArchivesInv
<1>3. ASSUME IndInv, IndInv', ArchivesInv, [Next]_vars PROVE ArchivesInv'
  <2>1. TypeOK /\ TypeOK' /\ InARow(archives) /\ \A t \in Tasks : InARow(local[t].entries)
    BY <1>3 DEF IndInv, ArchivesInv
  <2>2. InARow(archives')
    BY <1>3, <2>1, ArchivesStep
  <2>3. ASSUME NEW t \in Tasks PROVE InARow(local'[t].entries)
    BY <1>1, <1>3, <2>1, EntriesStep
  <2> QED BY <2>1, <2>2, <2>3 DEF ArchivesInv, InARow
<1> QED BY <1>2, <1>3, Invariance, PTL DEF Spec

\* Every request for blocks goes to the canister that holds them, for as many
\* blocks as the batch size, the tip and that canister allow.
THEOREM HolderAsked == Spec => AsksHolder
<1> DEFINE Asked ==
        \A t \in Tasks : pc[t] = "index" /\ pc'[t] = "blocks" =>
            LET r == local'[t].range
                es == local[t].entries
                last == r.start + r.count - 1
            IN  /\ r.count \in 1 .. BatchSize
                /\ r.start = local[t].seen + 1 /\ last <= local[t].tip
                /\ IF r.canister = 0
                   THEN \A i \in DOMAIN es : es[i].to < r.start
                   ELSE es[r.canister].from <= r.start /\ last <= es[r.canister].to
                /\ \/ r.count = BatchSize \/ last = local[t].tip
                   \/ r.canister # 0 /\ last = es[r.canister].to
<1>1. ASSUME IndInv, ArchivesInv, [Next]_vars, NEW t \in Tasks,
             pc[t] = "index", pc'[t] = "blocks"
      PROVE  AskBlocks(t)
  <2>1. TypeOK /\ queue \in Seq(Heights)
    BY <1>1 DEF IndInv, TypeOK
  <2>2. pc \in [Tasks -> Awaits \cup {"idle"}]
    BY <2>1 DEF TypeOK
  <2>3. pc' # pc
    BY <1>1
  <2>4. ASSUME NEW u \in Tasks, Deliver(u), u # t PROVE pc'[t] = pc[t]
    <3>1. ASSUME NEW x, pc' = [pc EXCEPT ![u] = x] PROVE pc'[t] = pc[t]
      BY <2>2, <2>4, <3>1
    <3>2. ASSUME NEW q, TakeNext(u, q) PROVE pc'[t] = pc[t]
      BY <3>1, <3>2 DEF TakeNext
    <3>3. \/ \E q : TakeNext(u, q)
          \/ \E x : pc' = [pc EXCEPT ![u] = x]
      BY <2>4 DEF Deliver, SyncCallFailed, FirstSync, NothingNew, AskIndex, AskBlocks,
                  ApplyBlocks, NotifyDone
    <3> QED BY <3>1, <3>2, <3>3
  <2>5. ASSUME Deliver(t) PROVE AskBlocks(t)
    <3>1. AskBlocks(t) \/ SyncCallFailed(t)
      BY <1>1, <2>5 DEF Deliver, FirstSync, NothingNew, AskIndex, ApplyBlocks, NotifyDone
    <3>2. ~SyncCallFailed(t)
      <4> SUFFICES ASSUME SyncCallFailed(t) PROVE FALSE
        OBVIOUS
      <4>1. TakeNext(t, queue)
        BY DEF SyncCallFailed
      <4>2. pc'[t] \in {"idle", "notify"}
        BY <2>1, <4>1, TakeNextFrame
      <4> QED BY <1>1, <4>2
    <3> QED BY <3>1, <3>2
  <2>6. ASSUME NEW u \in Tasks, Heartbeat(u) PROVE FALSE
    <3>1. pc[u] = "idle" /\ pc' = [pc EXCEPT ![u] = "tip"]
      BY <2>6 DEF Heartbeat
    <3> QED BY <1>1, <2>2, <3>1
  <2>7. ASSUME NEW u \in Tasks, CallFails(u) \/ Answer(u) PROVE FALSE
    BY <2>3, <2>7 DEF CallFails, Answer, AnswerTip, AnswerIndex, AnswerBlocks, AnswerNotify
  <2>8. ASSUME NEW h \in Heights, ArchiveBlocks(h) \/ ClientNotify(h) \/ CmcComplete(h)
        PROVE  FALSE
    BY <2>3, <2>8 DEF ArchiveBlocks, ClientNotify, CmcComplete
  <2>9. ASSUME NEW p \in Principals, AddAccount(p) \/ RegisterHardwareWallet(p) PROVE FALSE
    BY <2>3, <2>9 DEF AddAccount, RegisterHardwareWallet
  <2>10. ASSUME NEW b \in Blocks, AddBlock(b) PROVE FALSE
    BY <2>3, <2>10 DEF AddBlock
  <2>11. CASE Upgrade \/ UNCHANGED vars
    BY <2>3, <2>11 DEF Upgrade, vars
  <2>12. ASSUME NEW u \in Tasks, Deliver(u) PROVE AskBlocks(t)
    BY <1>1, <2>4, <2>5, <2>12
  <2> QED BY <1>1, <2>6, <2>7, <2>8, <2>9, <2>10, <2>11, <2>12 DEF Next
<1>2. ASSUME IndInv, ArchivesInv, [Next]_vars PROVE Asked
  <2> SUFFICES ASSUME NEW t \in Tasks, pc[t] = "index", pc'[t] = "blocks"
               PROVE  LET r == local'[t].range
                          es == local[t].entries
                          last == r.start + r.count - 1
                      IN  /\ r.count \in 1 .. BatchSize
                          /\ r.start = local[t].seen + 1 /\ last <= local[t].tip
                          /\ IF r.canister = 0
                             THEN \A i \in DOMAIN es : es[i].to < r.start
                             ELSE es[r.canister].from <= r.start /\ last <= es[r.canister].to
                          /\ \/ r.count = BatchSize \/ last = local[t].tip
                             \/ r.canister # 0 /\ last = es[r.canister].to
    OBVIOUS
  <2> DEFINE from == local[t].seen + 1
             top == local[t].tip
             es == local[t].entries
             r == BlocksToGet(from, top, es)
  <2>1. from \in Nat /\ top \in Nat /\ from <= top /\ es \in Seq(Entries) /\ InARow(es)
    <3>1. local[t] \in Locals
      BY <1>2 DEF IndInv, TypeOK
    <3>2. TaskOK(t)
      BY <1>2 DEF IndInv
    <3>3. local[t].seen \in Nat /\ local[t].tip \in Nat /\ local[t].seen < local[t].tip
      BY <3>1, <3>2, ConstantsAssumption DEF Locals, TaskOK, Heights
    <3>4. InARow(local[t].entries) /\ local[t].entries \in Seq(Entries)
      BY <1>2, <3>1 DEF ArchivesInv, Locals
    <3> QED BY <3>3, <3>4
  <2>2. local'[t].range = r
    <3>1. AskBlocks(t)
      BY <1>1, <1>2
    <3>2. local' = [local EXCEPT ![t] = [NoLocals EXCEPT !.range = r]]
      BY <3>1 DEF AskBlocks
    <3> HIDE DEF r
    <3>3. [NoLocals EXCEPT !.range = r].range = r
      BY DEF NoLocals
    <3> QED BY <1>2, <3>2, <3>3 DEF IndInv, TypeOK
  <2> HIDE DEF from, top, es
  <2>3. /\ r.count \in 1 .. BatchSize
        /\ r.start = from /\ r.start + r.count - 1 <= top
        /\ IF r.canister = 0
           THEN \A i \in DOMAIN es : es[i].to < r.start
           ELSE es[r.canister].from <= r.start /\ r.start + r.count - 1 <= es[r.canister].to
        /\ \/ r.count = BatchSize \/ r.start + r.count - 1 = top
           \/ r.canister # 0 /\ r.start + r.count - 1 = es[r.canister].to
    BY <2>1, BlocksToGetHolder
  <2> HIDE DEF r
  <2> QED BY <2>2, <2>3 DEF from, top, es
<1>3. IndInv /\ ArchivesInv /\ [Next]_vars => [Asked]_vars
  BY <1>2
<1> QED BY <1>3, Invariance, ArchivesInARow, PTL DEF Spec, AsksHolder

=============================================================================
