------------------------ MODULE AccountsStoreProofs -------------------------
(***************************************************************************)
(* Proofs about what the backend holds, for any number of principals and   *)
(* any limits.  AccountsStore: what the store keeps twice, in the accounts *)
(* and beside them, says the same, the owner of every account that pays is *)
(* found, and the periodic task runner is only given payments of that      *)
(* owner.  AccountsDb: a migration copies what is there, and the proxy is  *)
(* one map.  CertifiedAssets: what is served is certified.  ValueLocked:   *)
(* the heap is kept.  CanisterPages, where the backend's list of canisters *)
(* is shown: the settings of a canister are those that were confirmed, and *)
(* a dialog that reports success has its list show what it did.            *)
(***************************************************************************)
EXTENDS AccountsStore, CanisterPages, AccountsDb, CertifiedAssets, ValueLocked,
        FiniteSetTheorems, TLAPS

----------------------------------------------------------------------------
(***************************************************************************)
(* Positions of a sequence.                                                *)
(***************************************************************************)

\* A nonempty set of numbers has a smallest one.
LEMMA SmallestNumber ==
    ASSUME NEW T \in SUBSET Nat, T # {}
    PROVE  \E x \in T : \A y \in T : x <= y
<1> DEFINE R == OpToRel(<, Nat)
<1>1. IsWellFoundedOn(R, Nat)
  BY NatLessThanWellFounded
<1>2. R = {p \in Nat \X Nat : p[1] < p[2]}
  BY DEF OpToRel
<1>3. PICK x \in T : \A y \in T : ~(<<y, x>> \in R)
  <2> HIDE DEF R
  <2> QED BY <1>1, WFMin
<1>4. ASSUME NEW y \in T PROVE x <= y
  <2> HIDE DEF R
  <2>1. x \in Nat /\ y \in Nat
    OBVIOUS
  <2>2. ~(y < x)
    BY <1>2, <1>3, <2>1
  <2> QED BY <2>1, <2>2
<1> QED BY <1>4

\* A nonempty set of positions has a last one.
LEMMA LastPosition ==
    ASSUME NEW n \in Nat, NEW T \in SUBSET (1 .. n), T # {}
    PROVE  \E x \in T : \A y \in T : y <= x
<1> DEFINE D == {n - x : x \in T}
<1>1. D \in SUBSET Nat /\ D # {}
  <2>1. \A x \in T : n - x \in Nat
    OBVIOUS
  <2>2. PICK x \in T : TRUE
    OBVIOUS
  <2>3. n - x \in D
    OBVIOUS
  <2> QED BY <2>1, <2>3
<1>2. PICK d \in D : \A e \in D : d <= e
  <2> HIDE DEF D
  <2> QED BY <1>1, SmallestNumber
<1>3. PICK x \in T : d = n - x
  OBVIOUS
<1>4. ASSUME NEW y \in T PROVE y <= x
  <2>1. n - x <= n - y
    BY <1>2, <1>3
  <2>2. x \in Int /\ y \in Int /\ n \in Int
    OBVIOUS
  <2> HIDE DEF D
  <2> QED BY <2>1, <2>2
<1> QED BY <1>4

\* The positions of a sequence are as many as it is long.
LEMMA Positions ==
    ASSUME NEW n \in Nat
    PROVE  IsFiniteSet(1 .. n) /\ Cardinality(1 .. n) = n
BY FS_Interval

----------------------------------------------------------------------------
(***************************************************************************)
(* Lists.                                                                  *)
(***************************************************************************)

\* Moving the elements of a sequence to other positions keeps them all.
LEMMA Rearranged ==
    ASSUME NEW S, NEW s \in Seq(S), NEW f \in [DOMAIN s -> DOMAIN s],
           \A i, j \in DOMAIN s : f[i] = f[j] => i = j
    PROVE  LET r == [i \in DOMAIN s |-> s[f[i]]]
           IN  r \in Seq(S) /\ Len(r) = Len(s) /\ Elems(r) = Elems(s)
<1> DEFINE n == Len(s)
           r == [i \in DOMAIN s |-> s[f[i]]]
<1>1. n \in Nat /\ DOMAIN s = 1 .. n /\ \A i \in 1 .. n : s[i] \in S
  OBVIOUS
<1>2. r = [i \in 1 .. n |-> s[f[i]]] /\ f \in [1 .. n -> 1 .. n]
  BY <1>1
<1>3. \A i \in 1 .. n : r[i] = s[f[i]] /\ f[i] \in 1 .. n
  BY <1>2
<1> HIDE DEF n, r
<1>4. r \in Seq(S) /\ Len(r) = n /\ DOMAIN r = 1 .. n
  <2>1. \A i \in 1 .. n : s[f[i]] \in S
    BY <1>1, <1>3
  <2> QED BY <1>1, <1>2, <2>1
<1>5. f \in Surjection(1 .. n, 1 .. n)
  <2>1. f \in Injection(1 .. n, 1 .. n)
    BY <1>1, <1>2 DEF Injection, IsInjective
  <2>2. IsFiniteSet(1 .. n)
    BY <1>1, Positions
  <2> QED BY <2>1, <2>2, FS_Injection
<1>6. ASSUME NEW x PROVE x \in Elems(r) <=> x \in Elems(s)
  <2>1. ASSUME x \in Elems(r) PROVE x \in Elems(s)
    <3>1. PICK i \in 1 .. n : x = r[i]
      BY <1>4, <2>1 DEF Elems
    <3> QED BY <1>1, <1>3, <3>1 DEF Elems
  <2>2. ASSUME x \in Elems(s) PROVE x \in Elems(r)
    <3>1. PICK k \in 1 .. n : x = s[k]
      BY <1>1, <2>2 DEF Elems
    <3>2. PICK i \in 1 .. n : f[i] = k
      BY <1>5 DEF Surjection
    <3>3. r[i] = x
      BY <1>3, <3>1, <3>2
    <3> QED BY <1>4, <3>3 DEF Elems
  <2> QED BY <2>1, <2>2
<1> QED BY <1>4, <1>6 DEF n, r

\* What Append adds.
LEMMA Appended ==
    ASSUME NEW S, NEW s \in Seq(S), NEW x \in S
    PROVE  /\ Append(s, x) \in Seq(S) /\ Len(Append(s, x)) = Len(s) + 1
           /\ Elems(Append(s, x)) = Elems(s) \cup {x}
<1> DEFINE r == Append(s, x)
<1>1. /\ r \in Seq(S) /\ Len(s) \in Nat /\ Len(r) = Len(s) + 1
      /\ DOMAIN s = 1 .. Len(s) /\ DOMAIN r = 1 .. Len(s) + 1
      /\ \A i \in 1 .. Len(s) : r[i] = s[i]
      /\ r[Len(s) + 1] = x
  OBVIOUS
<1> HIDE DEF r
<1>2. ASSUME NEW y PROVE y \in Elems(r) <=> y \in Elems(s) \cup {x}
  <2>1. ASSUME y \in Elems(r) PROVE y \in Elems(s) \cup {x}
    <3>1. PICK i \in 1 .. Len(s) + 1 : y = r[i]
      BY <1>1, <2>1 DEF Elems
    <3>2. CASE i = Len(s) + 1
      BY <1>1, <3>1, <3>2
    <3>3. CASE i # Len(s) + 1
      <4>1. i \in 1 .. Len(s)
        BY <1>1, <3>1, <3>3
      <4> QED BY <1>1, <3>1, <4>1 DEF Elems
    <3> QED BY <3>2, <3>3
  <2>2. ASSUME y \in Elems(s) PROVE y \in Elems(r)
    <3>1. PICK i \in 1 .. Len(s) : y = s[i]
      BY <1>1, <2>2 DEF Elems
    <3>2. i \in 1 .. Len(s) + 1
      BY <1>1, <3>1
    <3> QED BY <1>1, <3>1, <3>2 DEF Elems
  <2>3. x \in Elems(r)
    <3>1. Len(s) + 1 \in DOMAIN r
      BY <1>1
    <3> QED BY <1>1, <3>1 DEF Elems
  <2> QED BY <2>1, <2>2, <2>3
<1> QED BY <1>1, <1>2 DEF r

\* Remove leaves a list that is shorter.
LEMMA Removed ==
    ASSUME NEW S, NEW s \in Seq(S), NEW k \in DOMAIN s
    PROVE  Remove(s, k) \in Seq(S) /\ Len(Remove(s, k)) = Len(s) - 1
<1>1. Len(s) \in Nat /\ DOMAIN s = 1 .. Len(s) /\ \A i \in 1 .. Len(s) : s[i] \in S
  OBVIOUS
<1>2. k \in 1 .. Len(s) /\ Len(s) - 1 \in Nat
  BY <1>1
<1>3. ASSUME NEW j \in 1 .. Len(s) - 1
      PROVE  (IF j < k THEN s[j] ELSE s[j + 1]) \in S
  <2>1. j \in 1 .. Len(s) /\ j + 1 \in 1 .. Len(s)
    BY <1>2
  <2> QED BY <1>1, <2>1
<1> QED BY <1>2, <1>3 DEF Remove

\* When a list has as many elements as it is long, none occurs twice.
LEMMA NoneTwice ==
    ASSUME NEW S, NEW s \in Seq(S), Cardinality(Elems(s)) = Len(s)
    PROVE  \A i, j \in DOMAIN s : s[i] = s[j] => i = j
<1>1. Len(s) \in Nat /\ DOMAIN s = 1 .. Len(s)
  OBVIOUS
<1>2. s \in Surjection(1 .. Len(s), Elems(s))
  <2>1. s \in [1 .. Len(s) -> Elems(s)]
    <3>1. s \in [1 .. Len(s) -> S]
      OBVIOUS
    <3> QED BY <1>1, <3>1 DEF Elems
  <2>2. \A t \in Elems(s) : \E i \in 1 .. Len(s) : s[i] = t
    BY <1>1 DEF Elems
  <2> QED BY <2>1, <2>2 DEF Surjection
<1>3. s \in Injection(1 .. Len(s), Elems(s))
  BY <1>1, <1>2, Positions, FS_Surjection
<1> QED BY <1>1, <1>3 DEF Injection, IsInjective

\* Removing duplicates from a list without duplicates changes nothing.
LEMMA NothingToDeduplicate ==
    ASSUME NEW S, NEW s \in Seq(S), Cardinality(Elems(s)) = Len(s)
    PROVE  Deduplicated(s) = s
<1> DEFINE n == Len(s)
           firsts == {i \in DOMAIN s : \A j \in 1 .. i - 1 : s[j] # s[i]}
<1>1. n \in Nat /\ DOMAIN s = 1 .. n /\ s = [i \in 1 .. n |-> s[i]]
  OBVIOUS
<1>2. firsts = 1 .. n
  <2>1. ASSUME NEW i \in 1 .. n, NEW j \in 1 .. i - 1 PROVE s[j] # s[i]
    <3>1. j \in 1 .. n /\ j # i
      BY <1>1
    <3> QED BY <1>1, <3>1, NoneTwice
  <2> QED BY <1>1, <2>1
<1> HIDE DEF n, firsts
<1>3. Cardinality(firsts) = n
  BY <1>1, <1>2, Positions
<1>4. ASSUME NEW i \in firsts
      PROVE  Cardinality({j \in firsts : j <= i}) = i
  <2>1. i \in Nat /\ {j \in firsts : j <= i} = 1 .. i
    BY <1>1, <1>2
  <2> QED BY <2>1, Positions
<1>5. ASSUME NEW m \in 1 .. n
      PROVE  (CHOOSE i \in firsts : Cardinality({j \in firsts : j <= i}) = m) = m
  <2>1. m \in firsts /\ Cardinality({j \in firsts : j <= m}) = m
    BY <1>2, <1>4
  <2>2. \A i \in firsts : Cardinality({j \in firsts : j <= i}) = m => i = m
    BY <1>4
  <2> QED BY <2>1, <2>2
<1>6. Deduplicated(s) = [m \in 1 .. Cardinality(firsts) |->
        s[CHOOSE i \in firsts : Cardinality({j \in firsts : j <= i}) = m]]
  BY DEF Deduplicated, firsts
<1>7. Deduplicated(s) = [m \in 1 .. n |-> s[m]]
  BY <1>3, <1>5, <1>6
<1> QED BY <1>1, <1>7

----------------------------------------------------------------------------
(***************************************************************************)
(* The operations on a list of canisters leave such a list.                *)
(***************************************************************************)

\* The names that are not refused.
LEMMA ValidNames ==
    ASSUME NEW name \in RequestNames, ValidName(name)
    PROVE  name \in Names
BY CanisterListAssumption DEF RequestNames, Names, LongName, WideName, ValidName

\* PushAndSort, for the one name or none that it gets.
LEMMA PushedAndSorted ==
    ASSUME NEW list \in Seq(NamedCanister), NEW name \in Names, NEW id \in CanisterIds,
           NEW s \in PushAndSort(list, name, id)
    PROVE  /\ s \in Seq(NamedCanister) /\ Len(s) = Len(list) + 1
           /\ Elems(s) = Elems(list) \cup {[name |-> name, id |-> id]}
<1> DEFINE new == Append(list, [name |-> name, id |-> id])
<1>1. /\ new \in Seq(NamedCanister) /\ Len(new) = Len(list) + 1
      /\ Elems(new) = Elems(list) \cup {[name |-> name, id |-> id]}
  <2>1. [name |-> name, id |-> id] \in NamedCanister
    BY DEF NamedCanister
  <2> QED BY <2>1, Appended
<1>2. PICK f \in [DOMAIN new -> DOMAIN new] :
        /\ \A i, j \in DOMAIN new : f[i] = f[j] => i = j
        /\ s = [i \in DOMAIN new |-> new[f[i]]]
  BY DEF PushAndSort, Sorted
<1> HIDE DEF new
<1>3. s \in Seq(NamedCanister) /\ Len(s) = Len(new) /\ Elems(s) = Elems(new)
  BY ZenonT(60), <1>1, <1>2, Rearranged
<1> QED BY <1>1, <1>3

\* The list without the entry that gives way
LEMMA ReplacedList ==
    ASSUME NEW list \in Seq(NamedCanister), NEW name, NEW id
    PROVE  WithoutReplaced(list, name, id) \in Seq(NamedCanister)
<1> DEFINE old == {i \in DOMAIN list : Replaces(name, id, list[i])}
           remaining == WithoutReplaced(list, name, id)
<1>1. CASE old = {}
  BY <1>1 DEF WithoutReplaced
<1>2. CASE old # {}
  <2>1. old \in SUBSET (1 .. Len(list)) /\ Len(list) \in Nat
    OBVIOUS
  <2>2. \E i \in old : \A j \in old : j <= i
    <3> HIDE DEF old
    <3> QED BY <1>2, <2>1, LastPosition
  <2> DEFINE k == CHOOSE i \in old : \A j \in old : j <= i
  <2>3. k \in old
    <3> HIDE DEF old
    <3> QED BY <2>2
  <2>4. k \in DOMAIN list
    BY <2>3
  <2>5. remaining = Remove(list, k)
    BY <1>2 DEF WithoutReplaced
  <2> HIDE DEF remaining, k, old
  <2>6. remaining \in Seq(NamedCanister)
    BY <2>4, <2>5, Removed
  <2> QED BY <2>6 DEF remaining
<1> QED BY <1>1, <1>2

\* Any of AfterAttach.
LEMMA AttachedList ==
    ASSUME NEW list \in Seq(NamedCanister), NEW name \in Names, NEW id \in CanisterIds,
           NEW s \in AfterAttach(list, name, id)
    PROVE  s \in Seq(NamedCanister) /\ [name |-> name, id |-> id] \in Elems(s)
<1> DEFINE remaining == WithoutReplaced(list, name, id)
<1>1. remaining \in Seq(NamedCanister)
  BY ReplacedList
<1>2. s \in PushAndSort(remaining, name, id)
  BY DEF AfterAttach
<1> HIDE DEF remaining
<1> QED BY <1>1, <1>2, PushedAndSorted

\* The position that find_canister_index finds.
LEMMA CanisterIndex ==
    ASSUME NEW list \in Seq(NamedCanister), NEW id, Has(list, id)
    PROVE  /\ FindCanisterIndex(list, id) \in DOMAIN list
           /\ list[FindCanisterIndex(list, id)].id = id
<1> DEFINE T == {i \in DOMAIN list : list[i].id = id}
<1>1. T \in SUBSET Nat /\ T # {} /\ DOMAIN list = 1 .. Len(list) /\ Len(list) \in Nat
  BY DEF Has, Elems
<1>2. PICK i \in T : \A j \in T : i <= j
  <2> HIDE DEF T
  <2> QED BY <1>1, SmallestNumber
<1>3. i \in DOMAIN list /\ list[i].id = id /\ i \in Nat
  BY <1>1
<1>4. \A j \in 1 .. i - 1 : list[j].id # id
  <2> SUFFICES ASSUME NEW j \in 1 .. i - 1, list[j].id = id PROVE FALSE
    OBVIOUS
  <2>1. j \in T
    BY <1>1, <1>3
  <2> HIDE DEF T
  <2> QED BY <1>2, <1>3, <2>1
<1> QED BY <1>3, <1>4 DEF FindCanisterIndex

\* Any of AfterRename.
LEMMA RenamedList ==
    ASSUME NEW list \in Seq(NamedCanister), NEW name \in Names, NEW id \in CanisterIds,
           Has(list, id), NEW s \in AfterRename(list, name, id)
    PROVE  s \in Seq(NamedCanister) /\ [name |-> name, id |-> id] \in Elems(s)
<1> DEFINE remaining == Remove(list, FindCanisterIndex(list, id))
<1>1. remaining \in Seq(NamedCanister)
  BY CanisterIndex, Removed
<1>2. s \in PushAndSort(remaining, name, id)
  BY DEF AfterRename
<1> HIDE DEF remaining
<1> QED BY <1>1, <1>2, PushedAndSorted

----------------------------------------------------------------------------
(***************************************************************************)
(* The inductive invariant.                                                *)
(***************************************************************************)

\* A principal without an account has no sub-accounts and no wallets, and no
\* account has more wallets than it may have.
NothingWithoutAccount ==
    \A p \in Principals \ accounts :
        wallets[p] = <<>> /\ \A i \in SubIds : subs[p][i] = NoName
WalletsInLimit == \A p \in Principals : Len(wallets[p]) <= MaxWallets

\* What the index, the counters and the queue say, with what it takes to keep it
\* so: an entry of the index is for an account only because nothing is kept for
\* principals without one, and wallets are counted only up to their limit.
IndInv ==
    /\ TypeOK
    /\ IndexConsistent
    /\ CountersExact
    /\ PaymentsAreThePayers
    /\ NothingWithoutAccount
    /\ WalletsInLimit

\* What the accounts, the index and the counters say of each other.
StoreInv == IndexConsistent /\ CountersExact /\ NothingWithoutAccount /\ WalletsInLimit

\* The variables of StoreInv.
storeVars == <<accounts, subs, wallets, index>>

\* The pairs that the counters count.
SubAccounts == {a \in Principals \X SubIds : subs[a[1]][a[2]] # NoName}
WalletSlots == {x \in Principals \X (1 .. MaxWallets) : x[2] <= Len(wallets[x[1]])}

\* The numbers of possible sub-accounts and wallets of an account are finite, so its counters are
\* cardinalities.
LEMMA CountedSetsFinite == IsFiniteSet(SubAccounts) /\ IsFiniteSet(WalletSlots)
<1>1. IsFiniteSet(Principals) /\ IsFiniteSet(SubIds) /\ IsFiniteSet(1 .. MaxWallets)
  BY AccountsStoreAssumption, Positions DEF SubIds
<1>2. IsFiniteSet(Principals \X SubIds) /\ IsFiniteSet(Principals \X (1 .. MaxWallets))
  BY <1>1, FS_Product
<1>3. SubAccounts \in SUBSET (Principals \X SubIds)
  BY DEF SubAccounts
<1>4. WalletSlots \in SUBSET (Principals \X (1 .. MaxWallets))
  BY DEF WalletSlots
<1> QED BY <1>2, <1>3, <1>4, FS_Subset

\* A step that changes none of the variables keeps what they say.
LEMMA StoreUnchanged ==
    ASSUME StoreInv, UNCHANGED storeVars
    PROVE  StoreInv'
BY DEF StoreInv, storeVars, index, IndexConsistent, CountersExact, NothingWithoutAccount,
       WalletsInLimit

\* ... and one that leaves the queue and the synced height alone keeps what is
\* said of the payments.
LEMMA SyncUnchanged ==
    ASSUME PaymentsAreThePayers, UNCHANGED sync
    PROVE  PaymentsAreThePayers'
BY DEF PaymentsAreThePayers, sync

----------------------------------------------------------------------------
(***************************************************************************)
(* The actions that change what is stored twice.                           *)
(***************************************************************************)

\* An account that is created has nothing in it.
LEMMA AddAccountStore ==
    ASSUME TypeOK, StoreInv, NEW p \in Principals, AddAccount(p)
    PROVE  StoreInv'
<1>1. accounts' = accounts \cup {p} /\ UNCHANGED <<subs, wallets, subIndex, links, subCount, walletCount>>
  BY DEF AddAccount, index
<1>2. CountersExact' /\ NothingWithoutAccount' /\ WalletsInLimit'
  BY <1>1 DEF StoreInv, CountersExact, NothingWithoutAccount, WalletsInLimit
<1>3. subIndex' = {a \in Principals \X SubIds : a[1] \in accounts' /\ subs'[a[1]][a[2]] # NoName}
  <2>1. \A a \in Principals \X SubIds :
          a[1] \in accounts' /\ subs[a[1]][a[2]] # NoName
            <=> a[1] \in accounts /\ subs[a[1]][a[2]] # NoName
    BY <1>1 DEF StoreInv, NothingWithoutAccount
  <2> QED BY <1>1, <2>1 DEF StoreInv, IndexConsistent
<1>4. ASSUME NEW q \in Principals
      PROVE  /\ Elems(links'[q]) = {r \in accounts' : \E w \in Elems(wallets'[r]) : w.principal = q}
             /\ Cardinality(Elems(links'[q])) = Len(links'[q])
  <2>1. \A r \in accounts' : (\E w \in Elems(wallets[r]) : w.principal = q) => r \in accounts
    <3>1. CASE p \in accounts
      BY <1>1, <3>1
    <3>2. CASE p \notin accounts
      <4>1. Elems(wallets[p]) = {}
        BY <3>2 DEF StoreInv, NothingWithoutAccount, Elems
      <4> QED BY <1>1, <4>1
    <3> QED BY <3>1, <3>2
  <2> QED BY <1>1, <2>1 DEF StoreInv, IndexConsistent
<1>5. IndexConsistent'
  BY <1>3, <1>4 DEF IndexConsistent
<1> QED BY <1>2, <1>5 DEF StoreInv

\* A sub-account that is created was not there: it is one more in the account, in
\* the index and in the counter.
LEMMA CreateSubAccountStore ==
    ASSUME TypeOK, StoreInv, NEW p \in Principals, NEW name \in RequestNames,
           CreateSubAccount(p, name)
    PROVE  StoreInv'
<1>1. PICK i \in SubIds :
        /\ IsFirstFree(p, i)
        /\ subs' = [subs EXCEPT ![p][i] = name]
        /\ subIndex' = subIndex \cup {<<p, i>>}
  BY DEF CreateSubAccount
<1>2. /\ p \in accounts /\ name \in Names /\ name # NoName /\ subs[p][i] = NoName
      /\ subCount' = subCount + 1
      /\ UNCHANGED <<accounts, wallets, links, walletCount>>
  <2>1. name \in Names
    BY ValidNames DEF CreateSubAccount, CreateSubAccountResponse
  <2>2. name # NoName
    BY <2>1, CanisterListAssumption DEF Names, NoName
  <2> QED BY <1>1, <2>1, <2>2 DEF CreateSubAccount, CreateSubAccountResponse, IsFirstFree
<1>3. \A a \in Principals \X SubIds :
        subs'[a[1]][a[2]] = IF a = <<p, i>> THEN name ELSE subs[a[1]][a[2]]
  BY <1>1 DEF TypeOK
<1>4. CountersExact'
  <2>1. SubAccounts' = SubAccounts \cup {<<p, i>>} /\ <<p, i>> \notin SubAccounts
    BY <1>1, <1>2, <1>3 DEF SubAccounts
  <2>2. Cardinality(SubAccounts') = Cardinality(SubAccounts) + 1
    <3> HIDE DEF SubAccounts
    <3> QED BY <2>1, CountedSetsFinite, FS_AddElement
  <2>3. subCount = Cardinality(SubAccounts)
    BY DEF StoreInv, CountersExact, SubAccounts
  <2>4. subCount' = Cardinality(SubAccounts')
    BY <1>2, <2>2, <2>3
  <2> QED BY <1>2, <2>4 DEF StoreInv, CountersExact, SubAccounts
<1>5. IndexConsistent'
  <2>1. subIndex' = {a \in Principals \X SubIds : a[1] \in accounts' /\ subs'[a[1]][a[2]] # NoName}
    BY <1>1, <1>2, <1>3 DEF StoreInv, IndexConsistent
  <2> QED BY <1>2, <2>1 DEF StoreInv, IndexConsistent
<1>6. NothingWithoutAccount' /\ WalletsInLimit'
  <2>1. \A r \in Principals \ accounts : subs'[r] = subs[r]
    BY <1>1, <1>2 DEF TypeOK
  <2> QED BY <1>2, <2>1 DEF StoreInv, NothingWithoutAccount, WalletsInLimit
<1> QED BY <1>4, <1>5, <1>6 DEF StoreInv

\* Renaming keeps the sub-accounts that there are.
LEMMA RenameSubAccountStore ==
    ASSUME TypeOK, StoreInv, NEW p \in Principals, NEW a \in UserAccounts,
           NEW name \in RequestNames, RenameSubAccount(p, a, name)
    PROVE  StoreInv'
<1>1. PICK i \in SubIds : subs[p][i] # NoName /\ a = <<p, i>>
  BY DEF RenameSubAccount, RenameSubAccountResponse
<1>2. /\ p \in accounts /\ name # NoName /\ subs' = [subs EXCEPT ![p][i] = name]
      /\ UNCHANGED <<accounts, wallets, subIndex, links, subCount, walletCount>>
  <2>1. name \in Names
    BY ValidNames DEF RenameSubAccount, RenameSubAccountResponse
  <2>2. name # NoName
    BY <2>1, CanisterListAssumption DEF Names, NoName
  <2> QED BY <1>1, <2>2 DEF RenameSubAccount, RenameSubAccountResponse, index
<1>3. \A b \in Principals \X SubIds :
        subs'[b[1]][b[2]] # NoName <=> subs[b[1]][b[2]] # NoName
  BY <1>1, <1>2 DEF TypeOK
<1>4. \A r \in Principals \ accounts : subs'[r] = subs[r]
  BY <1>2 DEF TypeOK
<1>5. CountersExact'
  <2>1. SubAccounts' = SubAccounts
    BY <1>3 DEF SubAccounts
  <2>2. subCount' = Cardinality(SubAccounts')
    BY <1>2, <2>1 DEF StoreInv, CountersExact, SubAccounts
  <2> QED BY <1>2, <2>2 DEF StoreInv, CountersExact, SubAccounts
<1>6. IndexConsistent'
  <2>1. subIndex' = {b \in Principals \X SubIds : b[1] \in accounts' /\ subs'[b[1]][b[2]] # NoName}
    BY <1>2, <1>3 DEF StoreInv, IndexConsistent
  <2> QED BY <1>2, <2>1 DEF StoreInv, IndexConsistent
<1>7. NothingWithoutAccount' /\ WalletsInLimit'
  BY <1>2, <1>4 DEF StoreInv, NothingWithoutAccount, WalletsInLimit
<1> QED BY <1>5, <1>6, <1>7 DEF StoreInv

\* The wallets that register_hardware_wallet leaves.
LEMMA RegisteredWallets ==
    ASSUME TypeOK, NEW p \in Principals, NEW q \in Principals, NEW name \in RequestNames,
           RegisterHardwareWallet(p, name, q)
    PROVE  LET w == [name |-> name, principal |-> q]
           IN  /\ p \in accounts /\ Len(wallets[p]) # MaxWallets
               /\ \A v \in Elems(wallets[p]) : v.principal # q
               /\ wallets'[p] \in Seq(Wallet) /\ Len(wallets'[p]) = Len(wallets[p]) + 1
               /\ Elems(wallets'[p]) = Elems(wallets[p]) \cup {w}
               /\ wallets' = [wallets EXCEPT ![p] = wallets'[p]]
<1> DEFINE w == [name |-> name, principal |-> q]
           new == Append(wallets[p], w)
<1>1. PICK s \in Sorted(new, WalletLE) : wallets' = [wallets EXCEPT ![p] = s]
  BY DEF RegisterHardwareWallet
<1>2. name \in Names
  BY ValidNames DEF RegisterHardwareWallet, RegisterHardwareWalletResponse
<1>3. w \in Wallet /\ wallets[p] \in Seq(Wallet)
  BY <1>2 DEF Wallet, TypeOK
<1>4. /\ new \in Seq(Wallet) /\ Len(new) = Len(wallets[p]) + 1
      /\ Elems(new) = Elems(wallets[p]) \cup {w}
  <2> HIDE DEF w
  <2> QED BY <1>3, Appended
<1>5. PICK f \in [DOMAIN new -> DOMAIN new] :
        /\ \A i, j \in DOMAIN new : f[i] = f[j] => i = j
        /\ s = [i \in DOMAIN new |-> new[f[i]]]
  BY DEF Sorted
<1>6. s \in Seq(Wallet) /\ Len(s) = Len(new) /\ Elems(s) = Elems(new)
  <2> HIDE DEF new
  <2> QED BY ZenonT(60), <1>4, <1>5, Rearranged
<1>7. wallets'[p] = s
  BY <1>1 DEF TypeOK
<1>8. p \in accounts /\ Len(wallets[p]) # MaxWallets /\ \A v \in Elems(wallets[p]) : v.principal # q
  BY DEF RegisterHardwareWallet, RegisterHardwareWalletResponse
<1> HIDE DEF w, new
<1>9. wallets' = [wallets EXCEPT ![p] = wallets'[p]]
  BY <1>1, <1>7
<1> QED BY <1>4, <1>6, <1>7, <1>8, <1>9 DEF w

\* A hardware wallet that is registered was not in the list: it is one more in the
\* account, in the links and in the counter.
LEMMA RegisterHardwareWalletStore ==
    ASSUME TypeOK, StoreInv, NEW p \in Principals, NEW q \in Principals,
           NEW name \in RequestNames, RegisterHardwareWallet(p, name, q)
    PROVE  StoreInv'
<1> DEFINE w == [name |-> name, principal |-> q]
           k == Len(wallets[p])
<1>1. /\ p \in accounts /\ k # MaxWallets
      /\ \A v \in Elems(wallets[p]) : v.principal # q
      /\ wallets'[p] \in Seq(Wallet) /\ Len(wallets'[p]) = k + 1
      /\ Elems(wallets'[p]) = Elems(wallets[p]) \cup {w}
      /\ wallets' = [wallets EXCEPT ![p] = wallets'[p]]
  BY RegisteredWallets
<1>2. /\ links' = [links EXCEPT ![q] = Append(@, p)]
      /\ walletCount' = walletCount + 1
      /\ UNCHANGED <<accounts, subs, subIndex, subCount>>
  BY DEF RegisterHardwareWallet
<1>3. k \in Nat /\ k < MaxWallets /\ MaxWallets \in Nat
  <2>1. wallets[p] \in Seq(Wallet)
    BY DEF TypeOK
  <2>2. k \in Nat
    BY <2>1
  <2>3. k <= MaxWallets
    BY DEF StoreInv, WalletsInLimit
  <2> QED BY <1>1, <2>2, <2>3, AccountsStoreAssumption
<1>4. \A r \in Principals : r # p => wallets'[r] = wallets[r]
  BY <1>1 DEF TypeOK
<1> HIDE DEF k
<1>5. CountersExact'
  <2>1. WalletSlots' = WalletSlots \cup {<<p, k + 1>>} /\ <<p, k + 1>> \notin WalletSlots
    <3>1. ASSUME NEW x \in Principals \X (1 .. MaxWallets)
          PROVE  x[2] <= Len(wallets'[x[1]]) <=> x[2] <= Len(wallets[x[1]]) \/ x = <<p, k + 1>>
      <4>1. CASE x[1] = p
        <5>1. x[2] <= k + 1 <=> x[2] <= k \/ x[2] = k + 1
          BY <1>3
        <5> QED BY <1>1, <4>1, <5>1 DEF k
      <4>2. CASE x[1] # p
        BY <1>4, <4>2
      <4> QED BY <4>1, <4>2
    <3>2. <<p, k + 1>> \in Principals \X (1 .. MaxWallets)
      BY <1>3
    <3>3. ~(k + 1 <= k)
      BY <1>3
    <3> QED BY <3>1, <3>2, <3>3 DEF WalletSlots, k
  <2>2. Cardinality(WalletSlots') = Cardinality(WalletSlots) + 1
    BY <2>1, CountedSetsFinite, FS_AddElement
  <2>3. walletCount = Cardinality(WalletSlots)
    BY DEF StoreInv, CountersExact, WalletSlots
  <2>4. walletCount' = Cardinality(WalletSlots')
    BY <1>2, <2>2, <2>3
  <2> QED BY <1>2, <2>4 DEF StoreInv, CountersExact, WalletSlots
<1>6. ASSUME NEW t \in Principals
      PROVE  /\ Elems(links'[t]) = {r \in accounts' : \E v \in Elems(wallets'[r]) : v.principal = t}
             /\ Cardinality(Elems(links'[t])) = Len(links'[t])
  <2>0. accounts \subseteq Principals /\ links[t] \in Seq(Principals)
    BY DEF TypeOK
  <2>1. /\ Elems(links[t]) = {r \in accounts : \E v \in Elems(wallets[r]) : v.principal = t}
        /\ Cardinality(Elems(links[t])) = Len(links[t])
    BY DEF StoreInv, IndexConsistent
  <2>2. CASE t = q
    <3>1. links'[t] = Append(links[t], p)
      BY <1>2, <2>2 DEF TypeOK
    <3>2. Elems(links'[t]) = Elems(links[t]) \cup {p} /\ Len(links'[t]) = Len(links[t]) + 1
      BY <2>0, <3>1, Appended
    <3>3. p \notin Elems(links[t])
      BY <1>1, <2>1, <2>2
    <3>4. Cardinality(Elems(links'[t])) = Len(links'[t])
      <4>1. IsFiniteSet(Elems(links[t]))
        BY <2>0, <2>1, AccountsStoreAssumption, FS_Subset
      <4>2. Cardinality(Elems(links[t]) \cup {p}) = Cardinality(Elems(links[t])) + 1
        BY <3>3, <4>1, FS_AddElement
      <4>3. Cardinality(Elems(links[t])) = Len(links[t])
        BY <2>1
      <4> QED BY <3>2, <4>2, <4>3
    <3>5. ASSUME NEW r \in accounts
          PROVE  (\E v \in Elems(wallets'[r]) : v.principal = t)
                   <=> r = p \/ \E v \in Elems(wallets[r]) : v.principal = t
      <4>1. CASE r = p
        <5>1. w \in Elems(wallets'[r]) /\ w.principal = t
          BY <1>1, <2>2, <4>1
        <5> QED BY <4>1, <5>1
      <4>2. CASE r # p
        BY <1>4, <2>0, <4>2
      <4> QED BY <4>1, <4>2
    <3>6. Elems(links'[t]) = {r \in accounts' : \E v \in Elems(wallets'[r]) : v.principal = t}
      BY <1>1, <1>2, <2>1, <3>2, <3>5
    <3> QED BY <3>4, <3>6
  <2>3. CASE t # q
    <3>1. links'[t] = links[t]
      BY <1>2, <2>3 DEF TypeOK
    <3>2. ASSUME NEW r \in accounts
          PROVE  (\E v \in Elems(wallets'[r]) : v.principal = t)
                   <=> \E v \in Elems(wallets[r]) : v.principal = t
      <4>1. CASE r = p
        <5>1. w.principal # t
          BY <2>3
        <5> HIDE DEF w
        <5> QED BY <1>1, <4>1, <5>1
      <4>2. CASE r # p
        BY <1>4, <2>0, <4>2
      <4> QED BY <4>1, <4>2
    <3> QED BY <1>2, <2>1, <3>1, <3>2
  <2> QED BY <2>2, <2>3
<1>7. IndexConsistent'
  BY <1>2, <1>6 DEF StoreInv, IndexConsistent
<1>8. NothingWithoutAccount' /\ WalletsInLimit'
  <2>1. \A r \in Principals \ accounts : wallets'[r] = wallets[r]
    BY <1>1, <1>4
  <2>2. \A r \in Principals : Len(wallets'[r]) <= MaxWallets
    <3>1. Len(wallets'[p]) <= MaxWallets
      BY <1>1, <1>3 DEF k
    <3> QED BY <1>4, <3>1 DEF StoreInv, WalletsInLimit
  <2> QED BY <1>2, <2>1, <2>2 DEF StoreInv, NothingWithoutAccount, WalletsInLimit
<1> QED BY <1>5, <1>7, <1>8 DEF StoreInv

\* An upgrade finds no link twice.
LEMMA UpgradeStore ==
    ASSUME TypeOK, StoreInv, Upgrade
    PROVE  UNCHANGED links
<1>1. ASSUME NEW q \in Principals PROVE Deduplicated(links[q]) = links[q]
  <2>1. links[q] \in Seq(Principals) /\ Cardinality(Elems(links[q])) = Len(links[q])
    BY DEF TypeOK, StoreInv, IndexConsistent
  <2> QED BY <2>1, NothingToDeduplicate
<1> QED BY <1>1 DEF Upgrade, TypeOK

----------------------------------------------------------------------------
(***************************************************************************)
(* The payments.                                                           *)
(***************************************************************************)

\* try_get_principal never answers with another principal than the one whose
\* account it is.
LEMMA PrincipalIsOwner ==
    ASSUME NEW a, NEW p \in TryGetPrincipal(a)
    PROVE  p = a[1]
BY DEF TryGetPrincipal, WalletPrincipal, Main

\* The heights of the payments in the queue.
LEMMA QueuedHeights ==
    ASSUME TypeOK
    PROVE  /\ Len(queue) \in Nat /\ DOMAIN queue = 1 .. Len(queue)
           /\ \A i \in DOMAIN queue :
                 /\ queue[i] \in [height : 1 .. MaxHeight, controller : Principals]
                 /\ queue[i].height \in 1 .. MaxHeight /\ queue[i].height \in Nat
<1>1. queue \in Seq([height : 1 .. MaxHeight, controller : Principals])
  BY DEF TypeOK
<1>2. Len(queue) \in Nat /\ DOMAIN queue = 1 .. Len(queue)
  BY <1>1
<1>3. ASSUME NEW i \in DOMAIN queue
      PROVE  queue[i] \in [height : 1 .. MaxHeight, controller : Principals]
  <2> DEFINE Q == [height : 1 .. MaxHeight, controller : Principals]
  <2>1. queue \in Seq(Q)
    BY <1>1
  <2> HIDE DEF Q
  <2>2. queue[i] \in Q
    BY <1>3, <2>1
  <2> QED BY <2>2 DEF Q
<1>4. ASSUME NEW i \in DOMAIN queue
      PROVE  queue[i].height \in 1 .. MaxHeight
  BY <1>3
<1>5. \A h \in 1 .. MaxHeight : h \in Nat
  OBVIOUS
<1> QED BY <1>2, <1>3, <1>4, <1>5

\* A payment is queued for a block that no payment was queued for.
LEMMA ProcessTransferPayments ==
    ASSUME TypeOK, PaymentsAreThePayers,
           NEW from \in UserAccounts, NEW to, NEW m, ProcessTransfer(from, to, m)
    PROVE  PaymentsAreThePayers'
<1>1. synced \in Nat /\ synced + 1 \in 1 .. MaxHeight /\ synced' = synced + 1
  BY AccountsStoreAssumption DEF TypeOK, ProcessTransfer
<1>2. CASE UNCHANGED <<queue, sender>>
  <2>1. \A i \in DOMAIN queue : queue[i].height \in Nat
    BY QueuedHeights
  <2>2. \A i \in DOMAIN queue : queue[i].height <= synced'
    BY <1>1, <2>1 DEF PaymentsAreThePayers
  <2> QED BY <1>2, <2>2 DEF PaymentsAreThePayers
<1>3. CASE \E p \in TryGetPrincipal(from) :
              /\ queue' = Append(queue, [height |-> synced + 1, controller |-> p])
              /\ sender' = [sender EXCEPT ![synced + 1] = from]
  <2>1. PICK p \in TryGetPrincipal(from) :
              /\ queue' = Append(queue, [height |-> synced + 1, controller |-> p])
              /\ sender' = [sender EXCEPT ![synced + 1] = from]
    BY <1>3
  <2> DEFINE n == Len(queue)
  <2>2. /\ n \in Nat /\ DOMAIN queue = 1 .. n /\ DOMAIN queue' = 1 .. n + 1
        /\ \A i \in 1 .. n : queue'[i] = queue[i] /\ queue[i].height \in Nat
        /\ queue'[n + 1] = [height |-> synced + 1, controller |-> p]
    <3>1. /\ n \in Nat /\ DOMAIN queue = 1 .. n
          /\ \A i \in 1 .. n : queue[i].height \in Nat
      BY QueuedHeights
    <3>2. queue \in Seq([height : 1 .. MaxHeight, controller : Principals])
      BY DEF TypeOK
    <3>3. /\ DOMAIN queue' = 1 .. n + 1 /\ \A i \in 1 .. n : queue'[i] = queue[i]
          /\ queue'[n + 1] = [height |-> synced + 1, controller |-> p]
      BY <2>1, <3>2
    <3> QED BY <3>1, <3>3
  <2>3. \A h \in 1 .. MaxHeight : sender'[h] = IF h = synced + 1 THEN from ELSE sender[h]
    BY <1>1, <2>1 DEF TypeOK
  <2>4. from # NoSender /\ from[1] = p
    BY <2>1, PrincipalIsOwner DEF UserAccounts, NoSender
  <2>5. \A i \in 1 .. n : queue[i].height \in 1 .. MaxHeight /\ queue[i].height <= synced
    BY QueuedHeights DEF PaymentsAreThePayers
  <2> HIDE DEF n
  <2>6. ASSUME NEW i \in 1 .. n + 1
        PROVE  /\ queue'[i].height <= synced'
               /\ sender'[queue'[i].height] # NoSender
               /\ sender'[queue'[i].height][1] = queue'[i].controller
    <3>1. CASE i = n + 1
      <4>1. queue'[i].height = synced + 1 /\ queue'[i].controller = p
        BY <2>2, <3>1
      <4>2. sender'[synced + 1] = from
        BY <1>1, <2>3
      <4> QED BY <1>1, <2>4, <4>1, <4>2
    <3>2. CASE i # n + 1
      <4>1. i \in 1 .. n /\ queue'[i] = queue[i]
        BY <2>2, <3>2
      <4>2. sender'[queue[i].height] = sender[queue[i].height]
        BY <1>1, <2>3, <2>5, <4>1
      <4>3. queue[i].height <= synced'
        BY <1>1, <2>2, <2>5, <4>1
      <4> QED BY <2>2, <4>1, <4>2, <4>3 DEF PaymentsAreThePayers
    <3> QED BY <3>1, <3>2
  <2>7. ASSUME NEW i \in 1 .. n + 1, NEW j \in 1 .. n + 1, i < j
        PROVE  queue'[i].height < queue'[j].height
    <3>1. i \in 1 .. n
      BY <2>2, <2>7
    <3>2. CASE j = n + 1
      <4>1. queue'[j].height = synced + 1 /\ queue'[i].height = queue[i].height
        BY <2>2, <3>1, <3>2
      <4> QED BY <1>1, <2>2, <2>5, <3>1, <4>1
    <3>3. CASE j # n + 1
      <4>1. j \in 1 .. n
        BY <2>2, <3>3
      <4> QED BY <2>2, <2>7, <3>1, <4>1 DEF PaymentsAreThePayers
    <3> QED BY <3>2, <3>3
  <2> QED BY <2>2, <2>6, <2>7 DEF PaymentsAreThePayers
<1> QED BY <1>2, <1>3 DEF ProcessTransfer

\* The first payment leaves the queue.
LEMMA TakeNextPayments ==
    ASSUME TypeOK, PaymentsAreThePayers, TakeNextTransaction
    PROVE  PaymentsAreThePayers'
<1> DEFINE n == Len(queue)
<1>1. /\ n \in Nat \ {0} /\ DOMAIN queue = 1 .. n /\ DOMAIN queue' = 1 .. n - 1
      /\ \A i \in 1 .. n - 1 : queue'[i] = queue[i + 1]
      /\ UNCHANGED <<synced, sender>>
  BY DEF TypeOK, TakeNextTransaction
<1> HIDE DEF n
<1>2. \A i \in 1 .. n - 1 : i + 1 \in 1 .. n
  BY <1>1
<1>3. ASSUME NEW i \in 1 .. n - 1, NEW j \in 1 .. n - 1, i < j
      PROVE  queue'[i].height < queue'[j].height
  <2>1. i + 1 < j + 1
    BY <1>3
  <2> QED BY SMTT(60), <1>1, <1>2, <2>1 DEF PaymentsAreThePayers
<1>4. ASSUME NEW i \in 1 .. n - 1
      PROVE  /\ queue'[i].height <= synced'
             /\ sender'[queue'[i].height] # NoSender
             /\ sender'[queue'[i].height][1] = queue'[i].controller
  BY <1>1, <1>2 DEF PaymentsAreThePayers
<1> QED BY <1>1, <1>3, <1>4 DEF PaymentsAreThePayers

----------------------------------------------------------------------------
(***************************************************************************)
(* Types.                                                                  *)
(***************************************************************************)

\* The accounts stay within their limit.
LEMMA AddAccountType ==
    ASSUME TypeOK, NEW p \in Principals, AddAccount(p)
    PROVE  TypeOK'
<1>1. IsFiniteSet(accounts)
  BY AccountsStoreAssumption, FS_Subset DEF TypeOK
<1>2. Cardinality(accounts) \in Nat
  BY <1>1, FS_CardinalityType
<1>3. Cardinality(accounts \cup {p}) <= AccountLimit
  <2>1. Cardinality(accounts \cup {p}) \in {Cardinality(accounts), Cardinality(accounts) + 1}
    BY <1>1, FS_AddElement
  <2> QED BY <1>2, <2>1, AccountsStoreAssumption DEF AddAccount, BelowAccountLimit
<1> QED BY <1>3 DEF TypeOK, AddAccount, index, sync

\* create_sub_account keeps the types, also when it is refused.
LEMMA CreateSubAccountType ==
    ASSUME TypeOK, NEW p \in Principals, NEW name \in RequestNames, CreateSubAccount(p, name)
    PROVE  TypeOK'
<1>1. name \in Names
  BY ValidNames DEF CreateSubAccount, CreateSubAccountResponse
<1>2. PICK i \in SubIds :
        subs' = [subs EXCEPT ![p][i] = name] /\ subIndex' = subIndex \cup {<<p, i>>}
  BY DEF CreateSubAccount
<1>3. subs' \in [Principals -> [SubIds -> Names \cup {NoName}]]
  <2>1. [subs[p] EXCEPT ![i] = name] \in [SubIds -> Names \cup {NoName}]
    BY <1>1 DEF TypeOK
  <2> QED BY <1>2, <2>1 DEF TypeOK
<1>4. subIndex' \subseteq Principals \X SubIds
  BY <1>2 DEF TypeOK
<1> QED BY <1>3, <1>4 DEF TypeOK, CreateSubAccount, sync

\* rename_sub_account keeps the types.
LEMMA RenameSubAccountType ==
    ASSUME TypeOK, NEW p \in Principals, NEW a \in UserAccounts, NEW name \in RequestNames,
           RenameSubAccount(p, a, name)
    PROVE  TypeOK'
<1>1. name \in Names
  BY ValidNames DEF RenameSubAccount, RenameSubAccountResponse
<1>2. PICK i \in SubIds : subs' = [subs EXCEPT ![p][i] = name]
  <2>1. PICK i \in SubIds : a = <<p, i>>
    BY DEF RenameSubAccount, RenameSubAccountResponse
  <2>2. subs' = [subs EXCEPT ![p][a[2]] = name] /\ a[2] = i
    BY <2>1 DEF RenameSubAccount
  <2> QED BY <2>2
<1>3. subs' \in [Principals -> [SubIds -> Names \cup {NoName}]]
  <2>1. [subs[p] EXCEPT ![i] = name] \in [SubIds -> Names \cup {NoName}]
    BY <1>1 DEF TypeOK
  <2> QED BY <1>2, <2>1 DEF TypeOK
<1> QED BY <1>3 DEF TypeOK, RenameSubAccount, index, sync

\* register_hardware_wallet keeps the types.
LEMMA RegisterHardwareWalletType ==
    ASSUME TypeOK, NEW p \in Principals, NEW q \in Principals, NEW name \in RequestNames,
           RegisterHardwareWallet(p, name, q)
    PROVE  TypeOK'
<1>1. wallets' \in [Principals -> Seq(Wallet)]
  <2>1. wallets'[p] \in Seq(Wallet) /\ wallets' = [wallets EXCEPT ![p] = wallets'[p]]
    BY RegisteredWallets
  <2> QED BY <2>1 DEF TypeOK
<1>2. links' \in [Principals -> Seq(Principals)]
  <2>1. Append(links[q], p) \in Seq(Principals)
    BY DEF TypeOK
  <2> QED BY <2>1 DEF TypeOK, RegisterHardwareWallet
<1> QED BY SMTT(60), <1>1, <1>2 DEF TypeOK, RegisterHardwareWallet, sync

\* The four operations on the canisters of an account.
LEMMA CanistersType ==
    ASSUME TypeOK, NEW p \in Principals, NEW id \in CanisterIds,
           \/ \E name \in RequestNames : AttachCanister(p, name, id) \/ RenameCanister(p, name, id)
           \/ DetachCanister(p, id)
           \/ AttachNewlyCreatedCanister(p, id)
    PROVE  TypeOK'
<1>0. canisters[p] \in Seq(NamedCanister)
  BY DEF TypeOK
<1>1. PICK s : canisters' = [canisters EXCEPT ![p] = s] /\ s \in Seq(NamedCanister)
  <2>1. ASSUME NEW name \in RequestNames, AttachCanister(p, name, id)
        PROVE  \E s : canisters' = [canisters EXCEPT ![p] = s] /\ s \in Seq(NamedCanister)
    <3>1. name \in Names
      BY <2>1, ValidNames DEF AttachCanister, AttachResponse
    <3>2. PICK s \in AfterAttach(canisters[p], name, id) : canisters' = [canisters EXCEPT ![p] = s]
      BY <2>1 DEF AttachCanister
    <3>3. s \in Seq(NamedCanister)
      BY <1>0, <3>1, AttachedList
    <3> QED BY <3>2, <3>3
  <2>2. ASSUME NEW name \in RequestNames, RenameCanister(p, name, id)
        PROVE  \E s : canisters' = [canisters EXCEPT ![p] = s] /\ s \in Seq(NamedCanister)
    <3>1. name \in Names
      BY <2>2, ValidNames DEF RenameCanister, RenameResponse
    <3>2. PICK s \in AfterRename(canisters[p], name, id) : canisters' = [canisters EXCEPT ![p] = s]
      BY <2>2 DEF RenameCanister
    <3>3. Has(canisters[p], id)
      BY <2>2 DEF RenameCanister, RenameResponse
    <3>4. s \in Seq(NamedCanister)
      BY <1>0, <3>1, <3>3, RenamedList
    <3> QED BY <3>2, <3>4
  <2>3. ASSUME DetachCanister(p, id)
        PROVE  \E s : canisters' = [canisters EXCEPT ![p] = s] /\ s \in Seq(NamedCanister)
    <3>1. AfterDetach(canisters[p], id) \in Seq(NamedCanister)
      BY <1>0, <2>3, CanisterIndex, Removed DEF DetachCanister, AfterDetach
    <3> QED BY <2>3, <3>1 DEF DetachCanister
  <2>4. ASSUME AttachNewlyCreatedCanister(p, id)
        PROVE  \E s : canisters' = [canisters EXCEPT ![p] = s] /\ s \in Seq(NamedCanister)
    <3>1. PICK s \in AfterNewlyCreated(canisters[p], id) : canisters' = [canisters EXCEPT ![p] = s]
      BY <2>4 DEF AttachNewlyCreatedCanister
    <3>2. EmptyName \in Names
      BY CanisterListAssumption DEF EmptyName, Names
    <3>3. s \in Seq(NamedCanister)
      BY <1>0, <3>1, <3>2, PushedAndSorted DEF AfterNewlyCreated
    <3> QED BY <3>1, <3>3
  <2> QED BY <2>1, <2>2, <2>3, <2>4
<1>2. canisters' \in [Principals -> Seq(NamedCanister)]
  BY <1>1 DEF TypeOK
<1>3. UNCHANGED <<accounts, known, subs, wallets, tokens, index, sync>>
  BY DEF AttachCanister, RenameCanister, DetachCanister, AttachNewlyCreatedCanister
<1> QED BY <1>2, <1>3 DEF TypeOK, index, sync

\* A transfer from the ledger keeps the types, whoever pays and whether it is queued or not.
LEMMA ProcessTransferType ==
    ASSUME TypeOK, NEW from \in UserAccounts, NEW to, NEW m, ProcessTransfer(from, to, m)
    PROVE  TypeOK'
<1>1. synced + 1 \in 1 .. MaxHeight /\ synced' = synced + 1 /\ UNCHANGED <<account, index>>
  BY AccountsStoreAssumption DEF TypeOK, ProcessTransfer
<1>2. CASE UNCHANGED <<queue, sender>>
  <2>1. synced' \in 0 .. MaxHeight
    BY <1>1
  <2>2. /\ queue' \in Seq([height : 1 .. MaxHeight, controller : Principals])
        /\ sender' \in [1 .. MaxHeight -> UserAccounts \cup {NoSender}]
    BY <1>2 DEF TypeOK
  <2> QED BY <1>1, <2>1, <2>2 DEF TypeOK, account, index
<1>3. CASE \E p \in TryGetPrincipal(from) :
              /\ queue' = Append(queue, [height |-> synced + 1, controller |-> p])
              /\ sender' = [sender EXCEPT ![synced + 1] = from]
  <2>1. PICK p \in TryGetPrincipal(from) :
              /\ queue' = Append(queue, [height |-> synced + 1, controller |-> p])
              /\ sender' = [sender EXCEPT ![synced + 1] = from]
    BY <1>3
  <2>2. p \in Principals
    BY PrincipalIsOwner DEF UserAccounts
  <2>3. [height |-> synced + 1, controller |-> p] \in [height : 1 .. MaxHeight, controller : Principals]
    BY <1>1, <2>2
  <2>4. queue' \in Seq([height : 1 .. MaxHeight, controller : Principals])
    BY <2>1, <2>3 DEF TypeOK
  <2>5. sender' \in [1 .. MaxHeight -> UserAccounts \cup {NoSender}]
    BY <2>1 DEF TypeOK
  <2> QED BY <1>1, <2>4, <2>5 DEF TypeOK, account, index
<1> QED BY <1>2, <1>3 DEF ProcessTransfer

\* Taking the next payment from the queue keeps the types.
LEMMA TakeNextType ==
    ASSUME TypeOK, TakeNextTransaction
    PROVE  TypeOK'
BY SMTT(60) DEF TypeOK, TakeNextTransaction, account, index

----------------------------------------------------------------------------
(***************************************************************************)
(* The invariant is inductive.                                             *)
(***************************************************************************)

\* IndInv in two parts.
Parts == TypeOK /\ StoreInv /\ PaymentsAreThePayers

\* The inductive invariant is the conjunction of the parts that are proved one by one.
LEMMA IndInvParts == IndInv <=> Parts
BY DEF IndInv, Parts, StoreInv

\* The store starts without sub-accounts, wallets and payments.
LEMMA InitParts == Init => Parts
<1> SUFFICES ASSUME Init PROVE Parts
  OBVIOUS
<1>1. TypeOK
  <2>1. NoName \in Names \cup {NoName} /\ <<>> \in Seq(Wallet) /\ <<>> \in Seq(NamedCanister)
        /\ <<>> \in Seq(Principals)
    OBVIOUS
  <2>2. 0 \in 0 .. MaxHeight
    BY AccountsStoreAssumption
  <2> QED BY <2>1, <2>2 DEF Init, TypeOK
<1>2. IndexConsistent
  <2>1. subIndex = {a \in Principals \X SubIds : a[1] \in accounts /\ subs[a[1]][a[2]] # NoName}
    BY DEF Init
  <2>2. ASSUME NEW q \in Principals
        PROVE  /\ Elems(links[q]) = {p \in accounts : \E w \in Elems(wallets[p]) : w.principal = q}
               /\ Cardinality(Elems(links[q])) = Len(links[q])
    <3>1. Elems(links[q]) = {} /\ Len(links[q]) = 0
      BY DEF Init, Elems
    <3>2. \A p \in accounts : Elems(wallets[p]) = {}
      BY DEF Init, Elems
    <3> QED BY <3>1, <3>2, FS_EmptySet
  <2> QED BY <2>1, <2>2 DEF IndexConsistent
<1>3. CountersExact
  <2>1. SubAccounts = {}
    BY DEF Init, SubAccounts
  <2>2. WalletSlots = {}
    BY AccountsStoreAssumption DEF Init, WalletSlots
  <2> QED BY <2>1, <2>2, FS_EmptySet DEF Init, CountersExact, SubAccounts, WalletSlots
<1>4. NothingWithoutAccount /\ WalletsInLimit
  BY AccountsStoreAssumption DEF Init, NothingWithoutAccount, WalletsInLimit
<1>5. PaymentsAreThePayers
  BY DEF Init, PaymentsAreThePayers
<1> QED BY <1>1, <1>2, <1>3, <1>4, <1>5 DEF Parts, StoreInv

\* Every step keeps all of it.
LEMMA NextParts == Parts /\ [Next]_vars => Parts'
<1> SUFFICES ASSUME Parts, [Next]_vars PROVE Parts'
  OBVIOUS
<1> USE DEF Parts
<1>1. ASSUME NEW p \in Principals, AddAccount(p) PROVE Parts'
  BY <1>1, AddAccountType, AddAccountStore, SyncUnchanged DEF AddAccount
<1>2. ASSUME NEW p \in Principals, NEW n \in RequestNames, CreateSubAccount(p, n) PROVE Parts'
  BY <1>2, CreateSubAccountType, CreateSubAccountStore, SyncUnchanged DEF CreateSubAccount
<1>3. ASSUME NEW p \in Principals, NEW n \in RequestNames, NEW a \in UserAccounts,
             RenameSubAccount(p, a, n)
      PROVE  Parts'
  BY <1>3, RenameSubAccountType, RenameSubAccountStore, SyncUnchanged DEF RenameSubAccount
<1>4. ASSUME NEW p \in Principals, NEW n \in RequestNames, NEW q \in Principals,
             RegisterHardwareWallet(p, n, q)
      PROVE  Parts'
  BY <1>4, RegisterHardwareWalletType, RegisterHardwareWalletStore, SyncUnchanged
     DEF RegisterHardwareWallet
<1>5. ASSUME NEW p \in Principals, NEW c \in CanisterIds,
             \/ \E n \in RequestNames : AttachCanister(p, n, c) \/ RenameCanister(p, n, c)
             \/ DetachCanister(p, c)
             \/ AttachNewlyCreatedCanister(p, c)
      PROVE  Parts'
  <2>1. UNCHANGED storeVars /\ UNCHANGED sync
    BY <1>5 DEF storeVars, AttachCanister, RenameCanister, DetachCanister,
                AttachNewlyCreatedCanister
  <2> QED BY <1>5, <2>1, CanistersType, StoreUnchanged, SyncUnchanged
<1>6. ASSUME NEW p \in Principals, NEW n \in 0 .. MaxTokens + 1, SetImportedTokens(p, n)
      PROVE  Parts'
  <2>1. UNCHANGED storeVars /\ UNCHANGED sync
    BY <1>6 DEF storeVars, SetImportedTokens
  <2>2. TypeOK'
    <3>1. n \in 0 .. MaxTokens
      BY <1>6, AccountsStoreAssumption DEF SetImportedTokens
    <3> QED BY <1>6, <3>1 DEF TypeOK, SetImportedTokens, index, sync
  <2> QED BY <2>1, <2>2, StoreUnchanged, SyncUnchanged
<1>7. ASSUME NEW from \in UserAccounts, NEW to \in Targets, NEW m \in BOOLEAN,
             ProcessTransfer(from, to, m)
      PROVE  Parts'
  <2>1. UNCHANGED storeVars
    BY <1>7 DEF ProcessTransfer, account, storeVars
  <2> QED BY <1>7, <2>1, StoreUnchanged, ProcessTransferType, ProcessTransferPayments
<1>8. ASSUME ProcessOther PROVE Parts'
  <2>1. UNCHANGED storeVars
    BY <1>8 DEF ProcessOther, account, storeVars
  <2>2. synced \in Nat /\ synced' = synced + 1 /\ synced' \in 0 .. MaxHeight
        /\ UNCHANGED <<account, index, queue, sender>>
    BY <1>8, AccountsStoreAssumption DEF ProcessOther, TypeOK
  <2>3. TypeOK'
    BY <2>2 DEF TypeOK, account, index
  <2>4. PaymentsAreThePayers'
    <3>1. \A i \in DOMAIN queue : queue[i].height \in Nat
      BY QueuedHeights
    <3>2. \A i \in DOMAIN queue : queue[i].height <= synced'
      BY <2>2, <3>1 DEF PaymentsAreThePayers
    <3> QED BY <2>2, <3>2 DEF PaymentsAreThePayers
  <2> QED BY <2>1, <2>3, <2>4, StoreUnchanged
<1>9. ASSUME TakeNextTransaction PROVE Parts'
  <2>1. UNCHANGED storeVars
    BY <1>9 DEF TakeNextTransaction, account, storeVars
  <2> QED BY <1>9, <2>1, StoreUnchanged, TakeNextType, TakeNextPayments
<1>10. ASSUME Upgrade PROVE Parts'
  <2>1. UNCHANGED links
    BY <1>10, UpgradeStore
  <2>2. UNCHANGED vars
    BY <1>10, <2>1 DEF Upgrade, vars, account, index
  <2>3. TypeOK'
    BY <2>2 DEF TypeOK, vars, account, index, sync
  <2>4. UNCHANGED storeVars /\ UNCHANGED sync
    BY <2>2 DEF vars, account, index, storeVars
  <2> QED BY <2>3, <2>4, StoreUnchanged, SyncUnchanged
<1>11. ASSUME UNCHANGED vars PROVE Parts'
  <2>1. TypeOK'
    BY <1>11 DEF TypeOK, vars, account, index, sync
  <2>2. UNCHANGED storeVars /\ UNCHANGED sync
    BY <1>11 DEF vars, account, index, storeVars
  <2> QED BY <2>1, <2>2, StoreUnchanged, SyncUnchanged
<1> HIDE DEF Parts
<1> QED BY <1>1, <1>2, <1>3, <1>4, <1>5, <1>6, <1>7, <1>8, <1>9, <1>10, <1>11 DEF Next, UserCall

\* In every reachable state.
THEOREM StoreInvariance == Spec => []IndInv
<1>1. Init => IndInv
  BY InitParts, IndInvParts
<1>2. IndInv /\ [Next]_vars => IndInv'
  <2>1. (IndInv <=> Parts)'
    BY DEF IndInv, Parts, StoreInv
  <2> QED BY <2>1, NextParts, IndInvParts
<1> QED BY <1>1, <1>2, PTL DEF Spec

\* try_get_principal finds the owner of whatever account the store has.
LEMMA OwnerIsFound == TypeOK /\ IndexConsistent => OwnerFound
<1> SUFFICES ASSUME TypeOK, IndexConsistent, NEW a \in UserAccounts, StoreHasAccount(a)
             PROVE  TryGetPrincipal(a) = IF a[1] \in accounts \ known THEN {} ELSE {a[1]}
  BY DEF OwnerFound
<1>1. known \subseteq accounts /\ accounts \subseteq Principals
  BY DEF TypeOK
<1>2. PICK p \in Principals, i \in SubIds \cup {0} : a = <<p, i>>
  BY DEF UserAccounts
<1>3. CASE i # 0
  <2>1. a \in subIndex
    BY <1>1, <1>2, <1>3 DEF StoreHasAccount, InIndex, Main
  <2>2. p \in accounts
    BY <1>2, <2>1 DEF IndexConsistent
  <2>3. TryGetPrincipal(a) = {r \in known : r = p}
    BY <1>2, <1>3, <2>1 DEF TryGetPrincipal, Main
  <2> QED BY <1>2, <2>2, <2>3
<1>4. CASE i = 0 /\ p \in accounts
  <2>1. TryGetPrincipal(a) = {r \in known : r = p}
    BY <1>2, <1>4 DEF TryGetPrincipal, Main
  <2> QED BY <1>2, <1>4, <2>1
<1>5. CASE i = 0 /\ p \notin accounts
  <2>1. a \notin subIndex
    BY <1>2, <1>5 DEF TypeOK, SubIds
  <2>2. TryGetPrincipal(a) = WalletPrincipal(a)
    BY <1>2, <1>5, <2>1 DEF TryGetPrincipal, Main
  <2>3. links[p] # <<>>
    BY <1>2, <1>5, <2>1 DEF StoreHasAccount, InIndex, Main
  <2>4. Linked(p) # {}
    <3>1. links[p] \in Seq(Principals)
      BY DEF TypeOK
    <3>2. Elems(links[p]) # {}
      <4>1. 1 \in DOMAIN links[p]
        BY <2>3, <3>1
      <4> QED BY <4>1 DEF Elems
    <3>3. PICK r \in accounts : \E w \in Elems(wallets[r]) : w.principal = p
      BY <3>2 DEF IndexConsistent
    <3>4. r \in Elems(links[p])
      BY <3>3 DEF IndexConsistent
    <3> QED BY <3>3, <3>4 DEF Linked
  <2>5. WalletPrincipal(a) = {p}
    BY <1>2, <1>5, <2>4 DEF WalletPrincipal, Main
  <2> QED BY <1>1, <1>2, <1>5, <2>2, <2>5
<1> QED BY <1>3, <1>4, <1>5

\* The store knows every account that get_account shows a user, and finds the user
\* for those that the user controls.
LEMMA ShownIsFound == TypeOK /\ IndexConsistent => ShownAreFound
<1> SUFFICES ASSUME TypeOK, IndexConsistent, NEW p \in Principals, NEW a \in GetAccount(p)
             PROVE  StoreHasAccount(a) /\ (a[1] = p => TryGetPrincipal(a) = {p})
  BY DEF ShownAreFound
<1>1. p \in known /\ p \in accounts /\ accounts \subseteq Principals
  BY DEF TypeOK, GetAccount
<1>2. a = Main(p) => StoreHasAccount(a) /\ TryGetPrincipal(a) = {p}
  BY <1>1 DEF StoreHasAccount, TryGetPrincipal, Main
<1>3. ASSUME NEW i \in SubIds, subs[p][i] # NoName, a = <<p, i>>
      PROVE  StoreHasAccount(a) /\ TryGetPrincipal(a) = {p}
  <2>1. a \in subIndex
    BY <1>1, <1>3 DEF IndexConsistent
  <2>2. i # 0
    BY AccountsStoreAssumption DEF SubIds
  <2> QED BY <1>1, <1>3, <2>1, <2>2 DEF StoreHasAccount, InIndex, TryGetPrincipal, Main
<1>4. ASSUME NEW w \in Elems(wallets[p]), a = Main(w.principal)
      PROVE  StoreHasAccount(a)
  <2>1. w.principal \in Principals
    <3>1. wallets[p] \in Seq(Wallet)
      BY DEF TypeOK
    <3>2. w \in Wallet
      BY <3>1 DEF Elems
    <3> QED BY <3>2 DEF Wallet
  <2>2. p \in Elems(links[w.principal])
    BY <1>1, <2>1 DEF IndexConsistent
  <2>3. links[w.principal] # <<>>
    BY <2>2 DEF Elems
  <2> QED BY <1>4, <2>1, <2>3 DEF StoreHasAccount, InIndex
<1>5. \/ a = Main(p)
      \/ \E i \in SubIds : subs[p][i] # NoName /\ a = <<p, i>>
      \/ \E w \in Elems(wallets[p]) : a = Main(w.principal)
  BY <1>1 DEF GetAccount
<1> QED BY <1>2, <1>3, <1>4, <1>5 DEF Main

\* The index of sub-accounts and hardware wallets, the counters and the accounts
\* agree after any operations and upgrades, and the owner of every account that
\* the store has is found.
THEOREM StoreConsistent == Spec => []StoreIsConsistent
<1>1. IndInv => StoreIsConsistent
  BY OwnerIsFound, ShownIsFound DEF IndInv, StoreIsConsistent
<1> QED BY <1>1, StoreInvariance, PTL

\* A payment that the runner takes from the queue was made by the principal that
\* it is queued for, and no block is queued twice.
THEOREM PaymentsOfThePayers == Spec => []PaymentsAreThePayers
<1>1. IndInv => PaymentsAreThePayers
  BY DEF IndInv
<1> QED BY <1>1, StoreInvariance, PTL

----------------------------------------------------------------------------
(***************************************************************************)
(* The lists of canisters.                                                 *)
(***************************************************************************)

\* SoundList without the order.
Distinct(list) ==
    \A i, j \in DOMAIN list :
        i # j => /\ list[i].id # list[j].id
                 /\ list[i].name = list[j].name => list[i].name = EmptyName

\* A sound list has no canister twice.
LEMMA SoundIsDistinct ==
    ASSUME NEW list \in Seq(NamedCanister), SoundList(list)
    PROVE  Distinct(list)
<1>1. DOMAIN list = 1 .. Len(list) /\ Len(list) \in Nat
  OBVIOUS
<1>2. ASSUME NEW i \in DOMAIN list, NEW j \in DOMAIN list, i # j
      PROVE  /\ list[i].id # list[j].id
             /\ list[i].name = list[j].name => list[i].name = EmptyName
  <2>1. i < j \/ j < i
    BY <1>1, <1>2
  <2> QED BY <2>1 DEF SoundList
<1> QED BY <1>2 DEF Distinct

\* Where the elements of a list go when one is removed.
LEMMA RemovedPositions ==
    ASSUME NEW S, NEW s \in Seq(S), NEW k \in DOMAIN s
    PROVE  LET r == Remove(s, k)
               from(i) == IF i < k THEN i ELSE i + 1
           IN  /\ DOMAIN r = 1 .. Len(s) - 1
               /\ \A i \in DOMAIN r : from(i) \in DOMAIN s /\ from(i) # k /\ r[i] = s[from(i)]
               /\ \A i, j \in DOMAIN r : i < j => from(i) < from(j)
<1>1. Len(s) \in Nat /\ DOMAIN s = 1 .. Len(s) /\ k \in 1 .. Len(s)
  OBVIOUS
<1>2. Remove(s, k) = [i \in 1 .. Len(s) - 1 |-> IF i < k THEN s[i] ELSE s[i + 1]]
  BY DEF Remove
<1> QED BY <1>1, <1>2

\* Taking any entry out of a sound list leaves a sound list.
LEMMA RemovedSound ==
    ASSUME NEW list \in Seq(NamedCanister), SoundList(list), NEW k \in DOMAIN list
    PROVE  SoundList(Remove(list, k))
<1> DEFINE r == Remove(list, k)
           from(i) == IF i < k THEN i ELSE i + 1
<1>1. /\ \A i \in DOMAIN r : from(i) \in DOMAIN list /\ r[i] = list[from(i)]
      /\ \A i, j \in DOMAIN r : i < j => from(i) < from(j)
  BY RemovedPositions
<1> HIDE DEF r, from
<1>2. SoundList(r)
  BY <1>1 DEF SoundList
<1> QED BY <1>2 DEF r

\* push and sort leave a sound list, when the canister and its name are new.
LEMMA PushedSound ==
    ASSUME NEW list \in Seq(NamedCanister), SoundList(list),
           NEW name \in Names, NEW id \in CanisterIds,
           \A i \in DOMAIN list :
              list[i].id # id /\ (list[i].name = name => name = EmptyName),
           NEW s \in PushAndSort(list, name, id)
    PROVE  SoundList(s)
<1> DEFINE c == [name |-> name, id |-> id]
           new == Append(list, c)
           n == Len(list)
<1>1. /\ n \in Nat /\ DOMAIN list = 1 .. n /\ DOMAIN new = 1 .. n + 1
      /\ \A i \in 1 .. n : new[i] = list[i]
      /\ new[n + 1] = c /\ c.name = name /\ c.id = id
  OBVIOUS
<1>2. PICK f \in [DOMAIN new -> DOMAIN new] :
        /\ \A i, j \in DOMAIN new : f[i] = f[j] => i = j
        /\ s = [i \in DOMAIN new |-> new[f[i]]]
  BY DEF PushAndSort, Sorted
<1>3. \A i, j \in DOMAIN s : i < j => CanisterLE(s[i], s[j])
  BY DEF PushAndSort, Sorted
<1> HIDE DEF n, new, c
<1>4. Distinct(new)
  <2>1. ASSUME NEW i \in 1 .. n + 1, NEW j \in 1 .. n + 1, i # j
        PROVE  /\ new[i].id # new[j].id
               /\ new[i].name = new[j].name => new[i].name = EmptyName
    <3>1. CASE i \in 1 .. n /\ j \in 1 .. n
      BY <1>1, <2>1, <3>1, SoundIsDistinct DEF Distinct
    <3>2. CASE i \in 1 .. n /\ j = n + 1
      BY <1>1, <3>2
    <3>3. CASE i = n + 1 /\ j \in 1 .. n
      BY <1>1, <3>3
    <3> QED BY <1>1, <2>1, <3>1, <3>2, <3>3
  <2> QED BY <1>1, <2>1 DEF Distinct
<1>5. ASSUME NEW i \in DOMAIN s, NEW j \in DOMAIN s, i < j
      PROVE  /\ s[i].id # s[j].id
             /\ s[i].name = s[j].name => s[i].name = EmptyName
  <2>1. i \in DOMAIN new /\ j \in DOMAIN new /\ i # j
    BY <1>1, <1>2, <1>5
  <2>2. f[i] \in DOMAIN new /\ f[j] \in DOMAIN new /\ f[i] # f[j]
    BY <1>2, <2>1
  <2>3. s[i] = new[f[i]] /\ s[j] = new[f[j]]
    BY <1>2, <2>1
  <2> QED BY <1>4, <2>2, <2>3 DEF Distinct
<1> QED BY <1>3, <1>5 DEF SoundList

\* What the answer Ok of attach_canister says of the entries that it scanned.
LEMMA AttachAllowed ==
    ASSUME NEW list \in Seq(NamedCanister), NEW name \in RequestNames, NEW id,
           AttachResponse(list, name, id) = "Ok"
    PROVE  /\ name \in Names
           /\ \A i \in DOMAIN list :
                 ~TakenBy(name, list[i]) /\ ~AlreadyAttached(name, id, list[i])
<1>1. name \in Names
  BY ValidNames DEF AttachResponse
<1>2. \A i \in DOMAIN list : ~AlreadyAttached(name, id, list[i])
  BY DEF AttachResponse
<1>3. ~\E i \in DOMAIN list :
          TakenBy(name, list[i])
            /\ \A j \in 1 .. i - 1 : ~(TakenBy(name, list[j]) \/ AlreadyAttached(name, id, list[j]))
  BY DEF AttachResponse
<1> DEFINE T == {i \in DOMAIN list : TakenBy(name, list[i])}
<1>4. T = {}
  <2> SUFFICES ASSUME T # {} PROVE FALSE
    OBVIOUS
  <2>1. T \in SUBSET Nat /\ DOMAIN list = 1 .. Len(list) /\ Len(list) \in Nat
    OBVIOUS
  <2>2. PICK i \in T : \A j \in T : i <= j
    <3> HIDE DEF T
    <3> QED BY <2>1, SmallestNumber
  <2>3. i \in DOMAIN list /\ TakenBy(name, list[i]) /\ i \in Nat
    BY <2>1
  <2>4. ASSUME NEW j \in 1 .. i - 1
        PROVE  ~TakenBy(name, list[j]) /\ ~AlreadyAttached(name, id, list[j])
    <3>1. j \in DOMAIN list /\ ~(i <= j)
      BY <2>1, <2>3
    <3>2. j \notin T
      <4> HIDE DEF T
      <4> QED BY <2>2, <3>1
    <3> QED BY <1>2, <3>1, <3>2
  <2> QED BY <1>3, <2>3, <2>4
<1> QED BY <1>1, <1>2, <1>4

\* What attach_canister leaves when it answers Ok is sorted again and has no canister and no name
\* twice.
LEMMA AttachedSound ==
    ASSUME NEW list \in Seq(NamedCanister), SoundList(list),
           NEW name \in RequestNames, NEW id \in CanisterIds,
           AttachResponse(list, name, id) = "Ok", NEW s \in AfterAttach(list, name, id)
    PROVE  SoundList(s)
<1> DEFINE old == {i \in DOMAIN list : Replaces(name, id, list[i])}
           remaining == WithoutReplaced(list, name, id)
<1>1. name \in Names /\ \A i \in DOMAIN list :
        /\ list[i].name = name => name = EmptyName
        /\ list[i].id = id => i \in old
  BY AttachAllowed DEF TakenBy, AlreadyAttached, Replaces
<1>2. /\ remaining \in Seq(NamedCanister) /\ SoundList(remaining)
      /\ \A i \in DOMAIN remaining :
            remaining[i].id # id /\ (remaining[i].name = name => name = EmptyName)
  <2>1. CASE old = {}
    <3>1. remaining = list
      BY <2>1 DEF WithoutReplaced
    <3> QED BY <1>1, <2>1, <3>1
  <2>2. CASE old # {}
    <3>1. old \in SUBSET (1 .. Len(list)) /\ Len(list) \in Nat
      OBVIOUS
    <3>2. \E i \in old : \A j \in old : j <= i
      <4> HIDE DEF old
      <4> QED BY <2>2, <3>1, LastPosition
    <3> DEFINE k == CHOOSE i \in old : \A j \in old : j <= i
    <3>3. k \in old
      <4> HIDE DEF old
      <4> QED BY <3>2
    <3>4. k \in DOMAIN list /\ list[k].id = id
      BY <3>3 DEF Replaces
    <3>5. remaining = Remove(list, k)
      BY <2>2 DEF WithoutReplaced
    <3> DEFINE from(i) == IF i < k THEN i ELSE i + 1
    <3> HIDE DEF remaining, k, old
    <3>6. remaining \in Seq(NamedCanister) /\ SoundList(remaining)
      BY <3>4, <3>5, Removed, RemovedSound
    <3>7. \A i \in DOMAIN remaining :
            from(i) \in DOMAIN list /\ from(i) # k /\ remaining[i] = list[from(i)]
      BY <3>4, <3>5, RemovedPositions
    <3> HIDE DEF from
    <3>8. \A i \in DOMAIN remaining : list[from(i)].id # id
      BY <3>4, <3>7, SoundIsDistinct DEF Distinct
    <3> QED BY <1>1, <3>6, <3>7, <3>8
  <2> QED BY <2>1, <2>2
<1> HIDE DEF remaining
<1>3. s \in PushAndSort(remaining, name, id)
  BY DEF AfterAttach, remaining
<1> QED BY <1>1, <1>2, <1>3, PushedSound

\* What rename_canister leaves when it answers Ok is sound.
LEMMA RenamedSound ==
    ASSUME NEW list \in Seq(NamedCanister), SoundList(list),
           NEW name \in RequestNames, NEW id \in CanisterIds,
           RenameResponse(list, name, id) = "Ok", NEW s \in AfterRename(list, name, id)
    PROVE  SoundList(s)
<1> DEFINE k == FindCanisterIndex(list, id)
           remaining == Remove(list, k)
           from(i) == IF i < k THEN i ELSE i + 1
<1>1. name \in Names /\ Has(list, id) /\ \A i \in DOMAIN list : ~TakenBy(name, list[i])
  BY ValidNames DEF RenameResponse, Elems
<1>2. k \in DOMAIN list
  BY <1>1, CanisterIndex
<1>3. list[k].id = id
  BY <1>1, CanisterIndex
<1> HIDE DEF k
<1>4. remaining \in Seq(NamedCanister) /\ SoundList(remaining)
  BY <1>2, Removed, RemovedSound
<1>5. \A i \in DOMAIN remaining :
        from(i) \in DOMAIN list /\ from(i) # k /\ remaining[i] = list[from(i)]
  BY <1>2, RemovedPositions
<1>6. s \in PushAndSort(remaining, name, id)
  BY DEF AfterRename, k
<1> HIDE DEF remaining, from
<1>7. \A i \in DOMAIN remaining : remaining[i].id # id /\ (remaining[i].name = name => name = EmptyName)
  BY <1>1, <1>2, <1>3, <1>5, SoundIsDistinct DEF Distinct, TakenBy
<1> QED BY <1>1, <1>4, <1>6, <1>7, PushedSound

\* What the runner leaves when it attaches a canister is sound, at and beyond the limit.
LEMMA NewlyCreatedSound ==
    ASSUME NEW list \in Seq(NamedCanister), SoundList(list), NEW id \in CanisterIds,
           NEW s \in AfterNewlyCreated(list, id)
    PROVE  SoundList(s)
<1>1. EmptyName \in Names
  BY CanisterListAssumption DEF EmptyName, Names
<1>2. CASE Has(list, id)
  BY <1>2 DEF AfterNewlyCreated
<1>3. CASE ~Has(list, id)
  <2>1. \A i \in DOMAIN list : list[i].id # id
    BY <1>3 DEF Has, Elems
  <2>2. s \in PushAndSort(list, EmptyName, id)
    BY <1>3 DEF AfterNewlyCreated
  <2> QED BY <1>1, <2>1, <2>2, PushedSound
<1> QED BY <1>2, <1>3

\* A step on one account's canisters keeps the lists sound.
LEMMA CanistersStep ==
    ASSUME TypeOK, CanistersSound, NEW p \in Principals, NEW id \in CanisterIds,
           \/ \E name \in RequestNames : AttachCanister(p, name, id) \/ RenameCanister(p, name, id)
           \/ DetachCanister(p, id)
           \/ AttachNewlyCreatedCanister(p, id)
    PROVE  CanistersSound'
<1>0. canisters[p] \in Seq(NamedCanister) /\ SoundList(canisters[p])
  BY DEF TypeOK, CanistersSound
<1>1. PICK s : canisters' = [canisters EXCEPT ![p] = s] /\ SoundList(s)
  <2>1. ASSUME NEW name \in RequestNames, AttachCanister(p, name, id)
        PROVE  \E s : canisters' = [canisters EXCEPT ![p] = s] /\ SoundList(s)
    BY <1>0, <2>1, AttachedSound DEF AttachCanister
  <2>2. ASSUME NEW name \in RequestNames, RenameCanister(p, name, id)
        PROVE  \E s : canisters' = [canisters EXCEPT ![p] = s] /\ SoundList(s)
    BY <1>0, <2>2, RenamedSound DEF RenameCanister
  <2>3. ASSUME DetachCanister(p, id)
        PROVE  \E s : canisters' = [canisters EXCEPT ![p] = s] /\ SoundList(s)
    <3>1. SoundList(AfterDetach(canisters[p], id))
      BY <1>0, <2>3, CanisterIndex, RemovedSound DEF DetachCanister, AfterDetach
    <3> QED BY <2>3, <3>1 DEF DetachCanister
  <2>4. ASSUME AttachNewlyCreatedCanister(p, id)
        PROVE  \E s : canisters' = [canisters EXCEPT ![p] = s] /\ SoundList(s)
    BY <1>0, <2>4, NewlyCreatedSound DEF AttachNewlyCreatedCanister
  <2> QED BY <2>1, <2>2, <2>3, <2>4
<1> QED BY <1>1 DEF TypeOK, CanistersSound

\* However attaching, renaming and detaching by the user and attaching by the
\* periodic task runner follow on each other, no account lists a canister twice or
\* a name twice, and the lists are sorted.
THEOREM CanisterListsSound == Spec => []CanistersSound
<1>1. Init => CanistersSound
  BY DEF Init, CanistersSound, SoundList
<1>2. IndInv /\ CanistersSound /\ [Next]_vars => CanistersSound'
  <2> SUFFICES ASSUME TypeOK, CanistersSound, [Next]_vars PROVE CanistersSound'
    BY DEF IndInv
  <2>1. ASSUME UNCHANGED canisters PROVE CanistersSound'
    BY <2>1 DEF CanistersSound
  <2>2. ASSUME NEW p \in Principals, NEW c \in CanisterIds,
               \/ \E n \in RequestNames : AttachCanister(p, n, c) \/ RenameCanister(p, n, c)
               \/ DetachCanister(p, c)
               \/ AttachNewlyCreatedCanister(p, c)
        PROVE  CanistersSound'
    BY <2>2, CanistersStep
  <2>3. \/ UNCHANGED canisters
        \/ \E p \in Principals, c \in CanisterIds :
              \/ \E n \in RequestNames : AttachCanister(p, n, c) \/ RenameCanister(p, n, c)
              \/ DetachCanister(p, c)
              \/ AttachNewlyCreatedCanister(p, c)
    <3>1. CASE UNCHANGED vars
      BY <3>1 DEF vars, account
    <3>2. CASE Next
      BY <3>2 DEF Next, UserCall, AddAccount, CreateSubAccount, RenameSubAccount, RegisterHardwareWallet,
                  SetImportedTokens, ProcessTransfer, ProcessOther, TakeNextTransaction, Upgrade,
                  account
    <3> QED BY <3>1, <3>2
  <2> QED BY <2>1, <2>2, <2>3
<1> QED BY <1>1, <1>2, StoreInvariance, PTL DEF Spec

----------------------------------------------------------------------------
(***************************************************************************)
(* Lists that are full.                                                    *)
(***************************************************************************)

\* A request that attach_canister grants makes no list longer that is full: only
\* the entry of the runner, which it replaces, makes room.
LEMMA AttachedInLimit ==
    ASSUME NEW list \in Seq(NamedCanister), Len(list) >= MaxCanisters,
           NEW name \in RequestNames, NEW id \in CanisterIds,
           AttachResponse(list, name, id) = "Ok", NEW s \in AfterAttach(list, name, id)
    PROVE  ~(Len(s) > Len(list))
<1> DEFINE old == {i \in DOMAIN list : Replaces(name, id, list[i])}
           remaining == WithoutReplaced(list, name, id)
<1>1. name \in Names
  BY AttachAllowed
<1>2. ~IsFull(remaining)
  BY DEF AttachResponse
<1>3. CASE old = {}
  <2>1. remaining = list
    BY <1>3 DEF WithoutReplaced
  <2> QED BY <1>2, <2>1 DEF IsFull
<1>4. CASE old # {}
  <2>1. old \in SUBSET (1 .. Len(list)) /\ Len(list) \in Nat
    OBVIOUS
  <2>2. \E i \in old : \A j \in old : j <= i
    <3> HIDE DEF old
    <3> QED BY <1>4, <2>1, LastPosition
  <2> DEFINE k == CHOOSE i \in old : \A j \in old : j <= i
  <2>3. k \in old
    <3> HIDE DEF old
    <3> QED BY <2>2
  <2>4. k \in DOMAIN list
    BY <2>3
  <2>5. remaining = Remove(list, k)
    BY <1>4 DEF WithoutReplaced
  <2> HIDE DEF remaining, k, old
  <2>6. remaining \in Seq(NamedCanister) /\ Len(remaining) = Len(list) - 1
    BY <2>4, <2>5, Removed
  <2>7. s \in PushAndSort(remaining, name, id)
    BY DEF AfterAttach, remaining
  <2>8. Len(s) = Len(remaining) + 1
    BY <1>1, <2>6, <2>7, PushedAndSorted
  <2> QED BY <2>1, <2>6, <2>8
<1> QED BY <1>3, <1>4

\* Renaming keeps the length.
LEMMA RenamedLength ==
    ASSUME NEW list \in Seq(NamedCanister), NEW name \in RequestNames, NEW id \in CanisterIds,
           RenameResponse(list, name, id) = "Ok", NEW s \in AfterRename(list, name, id)
    PROVE  Len(s) = Len(list)
<1> DEFINE remaining == Remove(list, FindCanisterIndex(list, id))
<1>1. name \in Names /\ Has(list, id)
  BY ValidNames DEF RenameResponse
<1>2. remaining \in Seq(NamedCanister) /\ Len(remaining) = Len(list) - 1
  BY <1>1, CanisterIndex, Removed
<1>3. s \in PushAndSort(remaining, name, id)
  BY DEF AfterRename
<1> HIDE DEF remaining
<1>4. Len(s) = Len(remaining) + 1
  BY <1>1, <1>2, <1>3, PushedAndSorted
<1>5. Len(list) \in Nat
  OBVIOUS
<1> QED BY <1>2, <1>4, <1>5

\* Whatever users ask for, a list of canisters that is full only gets those that
\* the periodic task runner attaches, without a name.
THEOREM FullListsGetNoMore == Spec => FullListGetsNoMore
<1>1. IndInv /\ [Next]_vars => FullListStep
  <2> SUFFICES ASSUME TypeOK, [Next]_vars, NEW q \in Principals,
                      Len(canisters[q]) >= MaxCanisters, Len(canisters'[q]) > Len(canisters[q])
               PROVE  \E id \in CanisterIds :
                         Elems(canisters'[q])
                           = Elems(canisters[q]) \cup {[name |-> EmptyName, id |-> id]}
    BY DEF IndInv, FullListStep
  <2>0. canisters[q] \in Seq(NamedCanister) /\ Len(canisters[q]) \in Nat
    BY DEF TypeOK
  <2>1. canisters'[q] # canisters[q]
    BY <2>0
  <2>2. PICK p \in Principals, id \in CanisterIds :
          \/ \E n \in RequestNames : AttachCanister(p, n, id) \/ RenameCanister(p, n, id)
          \/ DetachCanister(p, id)
          \/ AttachNewlyCreatedCanister(p, id)
    <3>1. ~UNCHANGED canisters
      BY <2>1
    <3>2. Next
      BY <3>1 DEF vars, account
    <3> QED BY <3>1, <3>2 DEF Next, UserCall, AddAccount, CreateSubAccount, RenameSubAccount,
               RegisterHardwareWallet, SetImportedTokens, ProcessTransfer, ProcessOther,
               TakeNextTransaction, Upgrade, account
  <2>3. ASSUME NEW n \in RequestNames, AttachCanister(p, n, id) PROVE FALSE
    <3>1. PICK s \in AfterAttach(canisters[p], n, id) : canisters' = [canisters EXCEPT ![p] = s]
      BY <2>3 DEF AttachCanister
    <3>2. p = q /\ canisters'[q] = s
      BY <2>1, <3>1 DEF TypeOK
    <3> QED BY <2>0, <2>3, <3>1, <3>2, AttachedInLimit DEF AttachCanister
  <2>4. ASSUME NEW n \in RequestNames, RenameCanister(p, n, id) PROVE FALSE
    <3>1. PICK s \in AfterRename(canisters[p], n, id) : canisters' = [canisters EXCEPT ![p] = s]
      BY <2>4 DEF RenameCanister
    <3>2. p = q /\ canisters'[q] = s
      BY <2>1, <3>1 DEF TypeOK
    <3>3. Len(s) = Len(canisters[q])
      BY <2>0, <2>4, <3>1, <3>2, RenamedLength DEF RenameCanister
    <3> QED BY <2>0, <3>2, <3>3
  <2>5. ASSUME DetachCanister(p, id) PROVE FALSE
    <3>1. canisters' = [canisters EXCEPT ![p] = AfterDetach(canisters[p], id)]
      BY <2>5 DEF DetachCanister
    <3>2. p = q /\ canisters'[q] = AfterDetach(canisters[q], id)
      BY <2>1, <3>1 DEF TypeOK
    <3>3. Len(canisters'[q]) = Len(canisters[q]) - 1
      BY <2>0, <2>5, <3>2, CanisterIndex, Removed DEF DetachCanister, AfterDetach
    <3> QED BY <2>0, <3>3
  <2>6. ASSUME AttachNewlyCreatedCanister(p, id)
        PROVE  Elems(canisters'[q])
                 = Elems(canisters[q]) \cup {[name |-> EmptyName, id |-> id]}
    <3>1. PICK s \in AfterNewlyCreated(canisters[p], id) : canisters' = [canisters EXCEPT ![p] = s]
      BY <2>6 DEF AttachNewlyCreatedCanister
    <3>2. p = q /\ canisters'[q] = s
      BY <2>1, <3>1 DEF TypeOK
    <3>3. s \in PushAndSort(canisters[q], EmptyName, id)
      BY <2>1, <3>1, <3>2 DEF AfterNewlyCreated
    <3>4. EmptyName \in Names
      BY CanisterListAssumption DEF EmptyName, Names
    <3> QED BY <2>0, <3>2, <3>3, <3>4, PushedAndSorted
  <2> QED BY <2>2, <2>3, <2>4, <2>5, <2>6
<1> QED BY <1>1, StoreInvariance, PTL DEF Spec, FullListGetsNoMore

----------------------------------------------------------------------------
(***************************************************************************)
(* The accounts database, while it is migrated (AccountsDb).               *)
(***************************************************************************)

\* What the steps of the database keep.  What complete_migration checks follows.
DbInv == DbTypeOK /\ MigrationIsFaithful

\* The next key to migrate is one of the keys that are left, if there are any.
LEMMA NextKeyIsLeast ==
    ASSUME NEW S \in SUBSET Keys
    PROVE  /\ NextKey(S) \in Keys \cup {NoKey}
           /\ S = {} => NextKey(S) = NoKey
           /\ \A k \in S : NextKey(S) # NoKey /\ NextKey(S) <= k
<1>1. CASE S = {}
  BY <1>1 DEF NextKey
<1>2. CASE S # {}
  <2>1. S \in SUBSET Nat
    BY AccountsDbAssumption
  <2>2. \E x \in S : \A y \in S : x <= y
    BY <1>2, <2>1, SmallestNumber
  <2>3. Least(S) \in S /\ \A y \in S : Least(S) <= y
    BY <2>2 DEF Least
  <2>4. NextKey(S) = Least(S)
    BY <1>2 DEF NextKey
  <2>5. Least(S) \in Nat
    BY <2>1, <2>3
  <2>6. Least(S) # NoKey
    BY <2>5 DEF NoKey
  <2> QED BY <1>2, <2>3, <2>4, <2>6
<1> QED BY <1>1, <1>2

\* A migration that has passed every key has what the old database has.
LEMMA PassedAll ==
    ASSUME DbInv, NEW m \in migration, m.next = NoKey
    PROVE  m.db = authoritative
<1>1. m.db \in Databases /\ authoritative \in Databases
  BY DEF DbInv, DbTypeOK, Migration
<1>2. \A k \in Keys : m.db[k] = authoritative[k]
  BY DEF DbInv, MigrationIsFaithful, Passed
<1> QED BY <1>1, <1>2 DEF Databases

\* The invariant says that no account is lost.
LEMMA DbInvGivesSound == DbInv => MigrationIsSound
<1> SUFFICES ASSUME DbInv PROVE MigrationIsSound
  OBVIOUS
<1>1. ASSUME NEW m \in migration, m.next = NoKey PROVE SameEnds(authoritative, m.db)
  <2>1. m.db = authoritative
    BY <1>1, PassedAll
  <2> QED BY <2>1 DEF SameEnds
<1> QED BY <1>1 DEF DbInv, MigrationIsSound, MigrationsComplete

\* It holds before the first upgrade ...
LEMMA DbInitInv == InitDb => DbInv
<1> SUFFICES ASSUME InitDb PROVE DbInv
  OBVIOUS
<1>1. authoritative \in Databases /\ EmptyDb \in Databases
  BY DEF InitDb, EmptyDb, Databases
<1>2. Stored(authoritative) \in SUBSET Keys
  BY DEF Stored
<1>3. steps \in [Slots -> {0, 1, StepSize}]
  BY DEF InitDb
<1>4. CASE migration = {}
  BY <1>1, <1>3, <1>4 DEF DbInv, DbTypeOK, MigrationIsFaithful
<1>5. CASE migration = {[db |-> EmptyDb, next |-> NextKey(Stored(authoritative))]}
  <2> DEFINE n == NextKey(Stored(authoritative))
  <2>1. n \in Keys \cup {NoKey}
    BY <1>2, NextKeyIsLeast
  <2>2. DbTypeOK
    BY <1>1, <1>3, <1>5, <2>1 DEF DbTypeOK, Migration
  <2>3. ASSUME NEW k \in Keys, EmptyDb[k] # authoritative[k]
        PROVE  n # NoKey /\ n <= k /\ EmptyDb[k] = NoAccount
    <3>1. EmptyDb[k] = NoAccount
      BY DEF EmptyDb
    <3>2. k \in Stored(authoritative)
      BY <2>3, <3>1 DEF Stored
    <3> QED BY <1>2, <3>1, <3>2, NextKeyIsLeast
  <2>4. ASSUME NEW k \in Keys, EmptyDb[k] # authoritative[k]
        PROVE  ~(n = NoKey \/ k < n) /\ EmptyDb[k] = NoAccount
    <3>1. k \in Int
      BY AccountsDbAssumption
    <3>2. n # NoKey /\ n <= k /\ EmptyDb[k] = NoAccount
      BY <2>3, <2>4
    <3> HIDE DEF n
    <3>3. n \in Int
      BY <2>1, <3>2, AccountsDbAssumption
    <3> QED BY <3>1, <3>2, <3>3
  <2> HIDE DEF n
  <2>5. MigrationIsFaithful
    BY <1>5, <2>4 DEF MigrationIsFaithful, Passed, n
  <2> QED BY <2>2, <2>5 DEF DbInv
<1> QED BY <1>4, <1>5 DEF InitDb

\* A change of both databases at a key, to an account or to none.
LEMMA BothChanged ==
    ASSUME DbInv, NEW k \in Keys, NEW a \in Accounts \cup {NoAccount},
           authoritative' = [authoritative EXCEPT ![k] = a],
           migration' = {[m EXCEPT !.db[k] = a] : m \in migration},
           UNCHANGED steps
    PROVE  DbInv'
<1>1. authoritative' \in Databases
  BY DEF DbInv, DbTypeOK, Databases
<1>2. ASSUME NEW m \in migration
      PROVE  /\ [m EXCEPT !.db[k] = a] \in Migration
             /\ [m EXCEPT !.db[k] = a].next = m.next
             /\ \A j \in Keys : [m EXCEPT !.db[k] = a].db[j] = IF j = k THEN a ELSE m.db[j]
  <2>1. m \in Migration
    BY DEF DbInv, DbTypeOK
  <2> QED BY <2>1 DEF Migration, Databases
<1>3. DbTypeOK'
  <2>1. \A m, n \in migration : m = n
    BY DEF DbInv, DbTypeOK
  <2>2. \A m, n \in migration' : m = n
    BY <2>1
  <2>3. migration' \subseteq Migration
    BY <1>2
  <2> QED BY <1>1, <2>2, <2>3 DEF DbInv, DbTypeOK
<1>4. ASSUME NEW n \in migration', NEW j \in Keys
      PROVE  n.db[j] = authoritative'[j] \/ (j \notin Passed(n) /\ n.db[j] = NoAccount)
  <2>1. PICK m \in migration : n = [m EXCEPT !.db[k] = a]
    OBVIOUS
  <2>2. n.next = m.next /\ n.db[j] = IF j = k THEN a ELSE m.db[j]
    BY <1>2, <2>1
  <2>3. authoritative'[j] = IF j = k THEN a ELSE authoritative[j]
    BY DEF DbInv, DbTypeOK, Databases
  <2>4. m.db[j] = authoritative[j] \/ (j \notin Passed(m) /\ m.db[j] = NoAccount)
    BY DEF DbInv, MigrationIsFaithful
  <2>5. Passed(n) = Passed(m)
    BY <2>2 DEF Passed
  <2> QED BY <2>2, <2>3, <2>4, <2>5
<1> QED BY <1>3, <1>4 DEF DbInv, MigrationIsFaithful, Passed

\* A batch is copied: what is left is ahead of the next key.
LEMMA BatchCopied ==
    ASSUME DbInv, NEW m \in migration, NEW size, m.next # NoKey,
           NEW n, n = Copied(m, size)
    PROVE  /\ n \in Migration
           /\ \A k \in Keys : n.db[k] = authoritative[k] \/ (k \notin Passed(n) /\ n.db[k] = NoAccount)
<1> DEFINE batch == Take(authoritative, m.next, Clamp(size))
           left == From(authoritative, m.next) \ batch
<1>1. m \in Migration /\ authoritative \in Databases
  BY DEF DbInv, DbTypeOK
<1>2. /\ n.db = [k \in Keys |-> IF k \in batch THEN authoritative[k] ELSE m.db[k]]
      /\ n.next = NextKey(left)
      /\ n = [db |-> n.db, next |-> n.next]
  BY DEF Copied
<1>3. left \in SUBSET Keys
  BY DEF From, Stored
<1>4. n.next \in Keys \cup {NoKey} /\ \A k \in left : n.next # NoKey /\ n.next <= k
  BY <1>2, <1>3, NextKeyIsLeast
<1>5. n.db \in Databases
  BY <1>1, <1>2 DEF Migration, Databases
<1>6. n \in Migration
  BY <1>2, <1>4, <1>5 DEF Migration
<1>7. ASSUME NEW k \in Keys, n.db[k] # authoritative[k]
      PROVE  k \notin Passed(n) /\ n.db[k] = NoAccount
  <2>1. k \notin batch /\ n.db[k] = m.db[k]
    BY <1>2, <1>7
  <2>2. k \notin Passed(m) /\ m.db[k] = NoAccount
    BY <1>7, <2>1 DEF DbInv, MigrationIsFaithful
  <2>3. k \in Nat /\ m.next \in Nat
    BY <1>1, AccountsDbAssumption DEF Migration
  <2>4. m.next <= k
    BY <2>2, <2>3 DEF Passed
  <2>5. k \in Stored(authoritative)
    BY <1>7, <2>1, <2>2 DEF Stored
  <2>6. k \in left
    BY <2>1, <2>4, <2>5 DEF From
  <2>7. n.next # NoKey /\ n.next <= k
    BY <1>4, <2>6
  <2>8. n.next \in Nat
    BY <1>4, <2>7, AccountsDbAssumption
  <2>9. ~(n.next = NoKey \/ k < n.next)
    <3> HIDE DEF left, batch
    <3> QED BY <2>3, <2>7, <2>8
  <2> QED BY <2>1, <2>2, <2>9 DEF Passed
<1> QED BY <1>6, <1>7

\* A step of the migration changes nothing in the old database; a new one that replaces it
\* has the same accounts.
LEMMA StepKeepsAccounts ==
    ASSUME DbInv, NEW size, StepMigration(size)
    PROVE  authoritative' = authoritative
<1>1. ASSUME NEW m \in migration, m.next = NoKey,
             authoritative' = IF SameEnds(authoritative, m.db) THEN m.db ELSE authoritative
      PROVE  authoritative' = authoritative
  BY <1>1, PassedAll
<1> QED BY <1>1 DEF StepMigration

\* ... a step of the migration keeps it ...
LEMMA StepKeepsDbInv ==
    ASSUME DbInv, NEW size, StepMigration(size), steps' \in [Slots -> {0, 1, StepSize}]
    PROVE  DbInv'
<1>1. authoritative' = authoritative /\ authoritative \in Databases
  BY StepKeepsAccounts DEF DbInv, DbTypeOK
<1>2. CASE migration' = migration
  BY <1>1, <1>2 DEF DbInv, DbTypeOK, MigrationIsFaithful, Passed
<1>3. CASE migration' = {}
  BY <1>1, <1>3 DEF DbInv, DbTypeOK, MigrationIsFaithful, Passed
<1>4. ASSUME NEW m \in migration, m.next # NoKey, migration' = {Copied(m, size)}
      PROVE  DbInv'
  <2> DEFINE n == Copied(m, size)
  <2>1. /\ n \in Migration
        /\ \A k \in Keys : n.db[k] = authoritative[k] \/ (k \notin Passed(n) /\ n.db[k] = NoAccount)
    <3>1. \A x : x = n => /\ x \in Migration
                          /\ \A k \in Keys : \/ x.db[k] = authoritative[k]
                                             \/ k \notin Passed(x) /\ x.db[k] = NoAccount
      BY <1>4, BatchCopied
    <3> HIDE DEF n
    <3> QED BY <3>1
  <2> HIDE DEF n
  <2>2. migration' = {n}
    BY <1>4 DEF n
  <2>3. DbTypeOK'
    BY <1>1, <2>1, <2>2 DEF DbTypeOK
  <2>4. MigrationIsFaithful'
    BY <1>1, <2>1, <2>2 DEF MigrationIsFaithful, Passed
  <2> QED BY <2>3, <2>4 DEF DbInv
<1> QED BY <1>2, <1>3, <1>4 DEF StepMigration

\* ... and so does every other step.
LEMMA DbNextInv == DbInv /\ [NextDb]_dbVars => DbInv'
<1> SUFFICES ASSUME DbInv, [NextDb]_dbVars PROVE DbInv'
  OBVIOUS
<1>1. ASSUME NEW k \in Keys, RemoveAccount(k) PROVE DbInv'
  BY <1>1, BothChanged DEF RemoveAccount
<1>2. ASSUME NEW k \in Keys, NEW a \in Accounts, InsertAccount(k, a) PROVE DbInv'
  BY <1>2, BothChanged DEF InsertAccount
<1>3. ASSUME NEW s \in Slots, HeartbeatMigrates(s) PROVE DbInv'
  BY <1>3 DEF HeartbeatMigrates, DbInv, DbTypeOK, MigrationIsFaithful, Passed
<1>4. ASSUME NEW s \in Slots, StepSucceeds(s) PROVE DbInv'
  <2>1. steps' \in [Slots -> {0, 1, StepSize}]
    BY <1>4 DEF StepSucceeds, DbInv, DbTypeOK
  <2> QED BY <1>4, <2>1, StepKeepsDbInv DEF StepSucceeds
<1>5. ASSUME NEW s \in Slots, StepFails(s) PROVE DbInv'
  BY <1>5 DEF StepFails, DbInv, DbTypeOK, MigrationIsFaithful, Passed
<1>6. CASE UpgradeDb
  BY <1>6 DEF UpgradeDb, DbInv, DbTypeOK, MigrationIsFaithful, Passed
<1>7. CASE UNCHANGED dbVars
  BY <1>7 DEF dbVars, DbInv, DbTypeOK, MigrationIsFaithful, Passed
<1> QED BY <1>1, <1>2, <1>3, <1>4, <1>5, <1>6, <1>7 DEF NextDb

\* A migration copies what is there, whatever is written meanwhile, and is completed: for
\* any keys, accounts, step sizes and number of steps in flight (AccountsDbAsProxy).
THEOREM MigrationsAreSound == SpecDb => []MigrationIsSound
<1>1. SpecDb => []DbInv
  BY DbInitInv, DbNextInv, PTL DEF SpecDb
<1> QED BY <1>1, DbInvGivesSound, PTL

\* Each step of the proxy is one of the map, or changes nothing in it.
LEMMA ProxyStep ==
    DbInv /\ [NextDb]_dbVars => [Map!Next]_<<authoritative, asked>>
<1> SUFFICES ASSUME DbInv, [NextDb]_dbVars
             PROVE  Map!Next \/ UNCHANGED <<authoritative, asked>>
  OBVIOUS
<1>1. ASSUME NEW k \in Keys, RemoveAccount(k) PROVE Map!Next
  BY <1>1 DEF RemoveAccount, Map!Next, Map!Remove
<1>2. ASSUME NEW k \in Keys, NEW a \in Accounts, InsertAccount(k, a) PROVE Map!Next
  BY <1>2 DEF InsertAccount, Map!Next, Map!Insert
<1>3. ASSUME NEW s \in Slots, StepSucceeds(s) PROVE UNCHANGED <<authoritative, asked>>
  BY <1>3, StepKeepsAccounts DEF StepSucceeds
<1> QED BY <1>1, <1>2, <1>3
        DEF NextDb, HeartbeatMigrates, StepFails, UpgradeDb, dbVars

\* The proxy in front of two databases implements one map (AccountsDbTrait): neither a step
\* of a migration, nor its end, nor an upgrade changes an account.
THEOREM ProxyImplementsMap == SpecDb => ProxyIsOneMap
<1>1. SpecDb => []DbInv
  BY DbInitInv, DbNextInv, PTL DEF SpecDb
<1>2. InitDb => Map!Init
  BY DEF InitDb, Map!Init, Map!Maps, Databases
<1> QED BY <1>1, <1>2, ProxyStep, PTL DEF SpecDb, ProxyIsOneMap, Map!Spec

----------------------------------------------------------------------------
(***************************************************************************)
(* The web pages and their certificates (CertifiedAssets).                 *)
(***************************************************************************)

\* A file may be served at its own path; an upload only there.
LEMMA OwnPath == \A p : p \in AlternatePaths(p)
BY DEF AlternatePaths

\* A file that is uploaded is served under its own path only.
LEMMA UploadPath ==
    ASSUME NEW p \in DOMAIN Uploads
    PROVE  AlternatePaths(p) = {p}
<1>1. p \in Path /\ ~p.gz /\ ~IsIndex(p)
  BY CertifiedAssetsAssumption
<1>2. Uncompressed(p) = p
  BY <1>1 DEF Uncompressed, Path
<1> QED BY <1>1, <1>2 DEF AlternatePaths

\* What is served at a path is a file that may be served there.
LEMMA ServedIsAlternate ==
    ASSUME NEW files \in SUBSET Path, NEW p \in Path, NEW f \in Get(files, p)
    PROVE  f \in files /\ p \in AlternatePaths(f)
<1>1. ASSUME NEW q \in Path, f \in WithEncoding(files, q)
      PROVE  f \in files /\ (f = q \/ f = Compressed(q))
  BY <1>1 DEF WithEncoding
<1>2. CASE f \in WithEncoding(files, p)
  <2>1. f \in files /\ (f = p \/ f = Compressed(p))
    BY <1>1, <1>2
  <2>2. CASE f = p
    BY <2>1, <2>2, OwnPath
  <2>3. CASE f = Compressed(p)
    <3>1. CASE p.gz
      <4>1. f = p
        BY <2>3, <3>1 DEF Compressed, Path
      <4> QED BY <2>1, <4>1, OwnPath
    <3>2. CASE ~p.gz
      <4>1. p = Uncompressed(f)
        BY <2>3, <3>2 DEF Compressed, Uncompressed, Path
      <4> QED BY <2>1, <4>1 DEF AlternatePaths
    <3> QED BY <3>1, <3>2
  <2> QED BY <2>1, <2>2, <2>3
<1>3. CASE f \notin WithEncoding(files, p)
  <2>1. PICK i \in IndexOf(p) : f \in WithEncoding(files, i)
    BY <1>3 DEF Get
  <2>2. ~p.gz /\ ~IsIndex(p) /\ i = [p EXCEPT !.suffix = "/index.html"]
    BY <2>1 DEF IndexOf
  <2>3. i \in Path /\ IsIndex(i) /\ ~i.gz /\ i.root = p.root
    BY <2>2 DEF Path, IsIndex
  <2>4. f \in files /\ (f = i \/ f = Compressed(i))
    BY <1>1, <2>1, <2>3
  <2>5. f \in Path /\ IsIndex(f) /\ f.root = p.root
    BY <2>3, <2>4 DEF Compressed, Path, IsIndex
  <2>6. p.suffix \in {"", "/"}
    BY <2>2 DEF Path, IsIndex
  <2>7. p = [Uncompressed(f) EXCEPT !.suffix = p.suffix]
    BY <2>2, <2>5 DEF Uncompressed, Path
  <2> QED BY <2>4, <2>5, <2>6, <2>7 DEF AlternatePaths
<1> QED BY <1>2, <1>3

\* Something is served wherever a file may be.
LEMMA AlternateIsServed ==
    ASSUME NEW files \in SUBSET Path, NEW f \in files, NEW p \in AlternatePaths(f)
    PROVE  p \in Path /\ Get(files, p) # {}
<1>1. f \in Path /\ Uncompressed(f) \in Path
  BY DEF Path, Uncompressed
<1>2. WithEncoding(files, f) # {}
  BY DEF WithEncoding
<1>3. WithEncoding(files, Uncompressed(f)) # {}
  <2>1. CASE f.gz
    <3>1. Compressed(Uncompressed(f)) = f
      BY <1>1, <2>1 DEF Compressed, Uncompressed, Path
    <3> QED BY <3>1 DEF WithEncoding
  <2>2. CASE ~f.gz
    <3>1. Uncompressed(f) = f
      BY <1>1, <2>2 DEF Uncompressed, Path
    <3> QED BY <1>2, <3>1
  <2> QED BY <2>1, <2>2
<1>4. CASE p = f \/ p = Uncompressed(f)
  BY <1>1, <1>2, <1>3, <1>4 DEF Get
<1>5. ASSUME IsIndex(f), NEW s \in {"", "/"}, p = [Uncompressed(f) EXCEPT !.suffix = s]
      PROVE  p \in Path /\ IndexOf(p) = {Uncompressed(f)}
  <2>1. p \in Path /\ ~p.gz /\ ~IsIndex(p) /\ [p EXCEPT !.suffix = "/index.html"] = Uncompressed(f)
    <3> DEFINE u == Uncompressed(f)
    <3>1. u \in Path /\ ~u.gz /\ u.suffix = "/index.html"
      BY <1>1, <1>5 DEF Path, IsIndex, Uncompressed
    <3> HIDE DEF u
    <3>2. p = [u EXCEPT !.suffix = s] /\ s # "/index.html" /\ s \in {"", "/", "/index.html"}
      BY <1>5 DEF u
    <3>3. p \in Path /\ ~p.gz /\ p.suffix = s /\ p.root = u.root
      BY <3>1, <3>2 DEF Path
    <3>4. [p EXCEPT !.suffix = "/index.html"] = u
      BY <3>1, <3>2, <3>3 DEF Path
    <3> QED BY <3>2, <3>3, <3>4 DEF IsIndex, u
  <2> QED BY <2>1 DEF IndexOf
<1>6. ASSUME p \in Path, IndexOf(p) = {Uncompressed(f)} PROVE Get(files, p) # {}
  <2>1. WithEncoding(files, Uncompressed(f)) \subseteq UNION {WithEncoding(files, i) : i \in IndexOf(p)}
    BY <1>6
  <2>2. UNION {WithEncoding(files, i) : i \in IndexOf(p)} # {}
    BY <1>3, <2>1
  <2> QED BY <2>2 DEF Get
<1> QED BY <1>4, <1>5, <1>6 DEF AlternatePaths

\* What the hashes are for the files of the database.
Certifies(h, a) ==
    /\ DOMAIN h = UNION {AlternatePaths(p) : p \in DOMAIN a}
    /\ \A p \in DOMAIN a : \A q \in AlternatePaths(p) : h[q] = Hash(a[p])

\* Hashes made from scratch certify what is served.
LEMMA HashedCertifies ==
    ASSUME NEW new, Disjoint(DOMAIN new)
    PROVE  Certifies(Hashed(new), new)
<1>1. ASSUME NEW p \in DOMAIN new, NEW q \in AlternatePaths(p)
      PROVE  Hashed(new)[q] = Hash(new[p])
  <2> DEFINE r == CHOOSE r \in DOMAIN new : q \in AlternatePaths(r)
  <2>1. r \in DOMAIN new /\ q \in AlternatePaths(r)
    OBVIOUS
  <2>2. r = p
    <3> HIDE DEF r
    <3> QED BY <2>1 DEF Disjoint
  <2>3. q \in UNION {AlternatePaths(x) : x \in DOMAIN new}
    OBVIOUS
  <2>4. Hashed(new)[q] = Hash(new[r])
    BY <2>3 DEF Hashed
  <2> HIDE DEF r
  <2> QED BY <2>2, <2>4
<1>2. DOMAIN Hashed(new) = UNION {AlternatePaths(p) : p \in DOMAIN new}
  BY DEF Hashed
<1> QED BY <1>1, <1>2 DEF Certifies

\* What a later map says prevails.
LEMMA OverAt ==
    ASSUME NEW f, NEW g
    PROVE  /\ DOMAIN Over(f, g) = DOMAIN f \cup DOMAIN g
           /\ \A p \in DOMAIN g : Over(f, g)[p] = g[p]
           /\ \A p \in DOMAIN f \ DOMAIN g : Over(f, g)[p] = f[p]
BY DEF Over

\* The new files go over those that are there.
LEMMA OverCertifies ==
    ASSUME NEW h, NEW a, NEW new, Certifies(h, a), Disjoint(DOMAIN a \cup DOMAIN new)
    PROVE  Certifies(Over(h, Hashed(new)), Over(a, new))
<1> DEFINE hh == Over(h, Hashed(new))
           aa == Over(a, new)
<1>1. Disjoint(DOMAIN new)
  BY DEF Disjoint
<1>2. Certifies(Hashed(new), new)
  BY <1>1, HashedCertifies
<1>3. /\ DOMAIN aa = DOMAIN a \cup DOMAIN new
      /\ \A p \in DOMAIN new : aa[p] = new[p]
      /\ \A p \in DOMAIN a \ DOMAIN new : aa[p] = a[p]
  BY OverAt
<1>4. DOMAIN hh = UNION {AlternatePaths(p) : p \in DOMAIN aa}
  <2>1. DOMAIN hh = DOMAIN h \cup DOMAIN Hashed(new)
    BY OverAt
  <2> HIDE DEF hh, aa
  <2> QED BY <1>2, <1>3, <2>1 DEF Certifies
<1>5. ASSUME NEW p \in DOMAIN aa, NEW q \in AlternatePaths(p)
      PROVE  hh[q] = Hash(aa[p])
  <2>1. CASE p \in DOMAIN new
    <3>1. aa[p] = new[p]
      <4> HIDE DEF aa
      <4> QED BY <1>3, <2>1
    <3>2. q \in DOMAIN Hashed(new) /\ Hashed(new)[q] = Hash(new[p])
      BY <1>2, <2>1 DEF Certifies
    <3>3. hh[q] = Hashed(new)[q]
      BY ZenonT(60), <3>2, OverAt
    <3> HIDE DEF hh, aa
    <3> QED BY <3>1, <3>2, <3>3
  <2>2. CASE p \notin DOMAIN new
    <3>1. p \in DOMAIN a
      BY <1>3, <2>2
    <3>2. aa[p] = a[p]
      <4> HIDE DEF aa
      <4> QED BY <1>3, <2>2, <3>1
    <3>3. q \in DOMAIN h /\ h[q] = Hash(a[p])
      BY <3>1 DEF Certifies
    <3>4. q \notin DOMAIN Hashed(new)
      <4>1. \A r \in DOMAIN new : r # p
        BY <2>2
      <4>2. \A r \in DOMAIN new : q \notin AlternatePaths(r)
        BY <3>1, <4>1 DEF Disjoint
      <4> QED BY <1>2, <4>2 DEF Certifies
    <3>5. hh[q] = h[q]
      BY <3>3, <3>4, OverAt
    <3> HIDE DEF hh, aa
    <3> QED BY <3>2, <3>3, <3>5
  <2> QED BY <2>1, <2>2
<1> HIDE DEF hh, aa
<1>6. Certifies(hh, aa)
  BY <1>4, <1>5 DEF Certifies
<1> QED BY <1>6 DEF hh, aa

-----------------------------------------------------------------------------
\* What installations, upgrades and uploads keep.
AssetInv ==
    /\ certified = hashes
    /\ bundle \in Bundles
    /\ Certifies(hashes, assets)
    /\ NothingIsStale

\* Uploads and the files of a bundle are different files, at different paths.
LEMMA FilesAreDisjoint ==
    ASSUME NEW b \in Bundles
    PROVE  /\ DOMAIN b \subseteq Path /\ DOMAIN Uploads \subseteq Path
           /\ DOMAIN b \cap DOMAIN Uploads = {}
           /\ \A files \in SUBSET (DOMAIN b \cup DOMAIN Uploads) : Disjoint(files)
<1>1. /\ DOMAIN b \subseteq Path /\ DOMAIN Uploads \subseteq Path
      /\ Disjoint(DOMAIN b \cup DOMAIN Uploads)
      /\ \A p \in DOMAIN b : p.gz
      /\ \A p \in DOMAIN Uploads : ~p.gz
  BY CertifiedAssetsAssumption
<1>2. \A files \in SUBSET (DOMAIN b \cup DOMAIN Uploads) : Disjoint(files)
  BY <1>1 DEF Disjoint
<1> QED BY <1>1, <1>2

\* The files are those of the bundle and those that were uploaded.
LEMMA AssetFiles ==
    ASSUME AssetInv
    PROVE  DOMAIN assets \subseteq DOMAIN bundle \cup DOMAIN Uploads
BY DEF AssetInv, NothingIsStale

\* The files of a bundle with the arguments that the canister got
LEMMA TemplatedFiles ==
    ASSUME NEW b, NEW args
    PROVE  DOMAIN Templated(b, args) = DOMAIN b
BY DEF Templated

\* One of them
LEMMA TemplatedFile ==
    ASSUME NEW b, NEW args, NEW p \in DOMAIN b
    PROVE  /\ ~Templated(b, args)[p].stable
           /\ Templated(b, args)[p].bytes = b[p]
           /\ IsIndex(p) => Templated(b, args)[p].args = args
<1>1. Templated(b, args)[p] =
          [bytes |-> b[p], args |-> IF IsIndex(p) THEN args ELSE PlainText, stable |-> FALSE]
  BY DEF Templated
<1> QED BY <1>1

LEMMA AssetInitInv == Install => AssetInv
<1> SUFFICES ASSUME Install PROVE AssetInv
  OBVIOUS
<1>1. PICK b \in Bundles, args \in Arguments :
          /\ assets = Templated(b, args) /\ hashes = Hashed(Templated(b, args))
          /\ certified = hashes /\ arguments = args /\ bundle = b
  BY DEF Install
<1>2. DOMAIN assets = DOMAIN b /\ Disjoint(DOMAIN b)
  BY <1>1, TemplatedFiles, FilesAreDisjoint
<1>3. Certifies(hashes, assets)
  <2>1. Disjoint(DOMAIN Templated(b, args))
    BY <1>1, <1>2
  <2> QED BY <1>1, <2>1, HashedCertifies
<1>4. NothingIsStale
  <2> SUFFICES ASSUME NEW q \in DOMAIN assets
               PROVE  IF assets[q].stable THEN q \in DOMAIN Uploads /\ assets[q].bytes = Uploads[q]
                      ELSE /\ q \in DOMAIN b /\ assets[q].bytes = b[q]
                           /\ IsIndex(q) => assets[q].args = args
    BY <1>1 DEF NothingIsStale
  <2>1. /\ ~Templated(b, args)[q].stable /\ Templated(b, args)[q].bytes = b[q]
        /\ IsIndex(q) => Templated(b, args)[q].args = args
    BY <1>2, TemplatedFile
  <2> QED BY <1>1, <1>2, <2>1
<1> QED BY <1>1, <1>3, <1>4 DEF AssetInv

LEMMA AddKeepsInv ==
    ASSUME AssetInv, NEW p \in DOMAIN Uploads, AddStableAsset(p)
    PROVE  AssetInv'
<1> DEFINE new == [q \in {p} |-> [bytes |-> Uploads[p], args |-> PlainText, stable |-> TRUE]]
<1>1. /\ assets' = Over(assets, new) /\ hashes' = Over(hashes, Hashed(new))
      /\ certified' = hashes' /\ arguments' = arguments /\ bundle' = bundle
  BY DEF AddStableAsset
<1>2. DOMAIN new = {p} /\ new[p] = [bytes |-> Uploads[p], args |-> PlainText, stable |-> TRUE]
  OBVIOUS
<1> HIDE DEF new
<1>3. Disjoint(DOMAIN assets \cup DOMAIN new)
  BY <1>2, AssetFiles, FilesAreDisjoint DEF AssetInv
<1>4. Certifies(hashes', assets')
  BY <1>1, <1>3, OverCertifies DEF AssetInv
<1>5. DOMAIN assets' = DOMAIN assets \cup {p} /\ assets'[p] = new[p]
      /\ \A q \in DOMAIN assets \ {p} : assets'[q] = assets[q]
  <2>1. /\ DOMAIN Over(assets, new) = DOMAIN assets \cup DOMAIN new
        /\ \A q \in DOMAIN new : Over(assets, new)[q] = new[q]
        /\ \A q \in DOMAIN assets \ DOMAIN new : Over(assets, new)[q] = assets[q]
    BY OverAt
  <2> QED BY <1>1, <1>2, <2>1
<1>6. NothingIsStale'
  <2> SUFFICES ASSUME NEW q \in DOMAIN assets'
               PROVE  IF assets'[q].stable THEN q \in DOMAIN Uploads /\ assets'[q].bytes = Uploads[q]
                      ELSE /\ q \in DOMAIN bundle /\ assets'[q].bytes = bundle[q]
                           /\ IsIndex(q) => assets'[q].args = arguments
    BY <1>1 DEF NothingIsStale
  <2>1. CASE q = p
    BY <1>2, <1>5, <2>1
  <2>2. CASE q # p
    BY <1>5, <2>2 DEF AssetInv, NothingIsStale
  <2> QED BY <2>1, <2>2
<1> QED BY <1>1, <1>4, <1>6 DEF AssetInv

\* What an upgrade keeps of the files, and what post_upgrade hashes of them.
LEMMA UpgradeKeepsInv ==
    ASSUME AssetInv, NEW b \in Bundles, NEW args \in Arguments, UpgradeAssets(b, args)
    PROVE  AssetInv'
<1> DEFINE kept == {p \in DOMAIN assets : assets[p].stable}
           old == [p \in kept |-> assets[p]]
           oldHashes == [p \in kept |-> Hash(assets[p])]
           new == Templated(b, args)
<1>1. /\ assets' = Over(old, new) /\ hashes' = Over(oldHashes, Hashed(new))
      /\ certified' = hashes' /\ arguments' = args /\ bundle' = b
  BY DEF UpgradeAssets, InitAssets
<1>2. \A p \in kept : p \in DOMAIN Uploads /\ assets[p].stable /\ assets[p].bytes = Uploads[p]
  BY DEF AssetInv, NothingIsStale
<1>3. DOMAIN old = kept /\ \A p \in kept : old[p] = assets[p]
  OBVIOUS
<1>4. DOMAIN oldHashes = kept /\ \A p \in kept : oldHashes[p] = Hash(assets[p])
  OBVIOUS
<1> HIDE DEF kept, old, oldHashes
<1>5. Certifies(oldHashes, old)
  <2>1. \A p \in kept : AlternatePaths(p) = {p}
    BY <1>2, UploadPath
  <2>2. UNION {AlternatePaths(p) : p \in DOMAIN old} = kept
    BY <1>3, <2>1
  <2> QED BY <1>3, <1>4, <2>1, <2>2 DEF Certifies
<1>6. DOMAIN new = DOMAIN b
  BY TemplatedFiles
<1>7. Disjoint(DOMAIN old \cup DOMAIN new)
  <2> HIDE DEF new
  <2> QED BY <1>2, <1>3, <1>6, FilesAreDisjoint
<1>8. Certifies(hashes', assets')
  <2> HIDE DEF new
  <2> QED BY <1>1, <1>5, <1>7, OverCertifies
<1>9. DOMAIN assets' = kept \cup DOMAIN b
      /\ (\A p \in DOMAIN b : assets'[p] = new[p])
      /\ \A p \in kept : p \notin DOMAIN b => assets'[p] = assets[p]
  <2> HIDE DEF new
  <2>1. /\ DOMAIN Over(old, new) = DOMAIN old \cup DOMAIN new
        /\ \A p \in DOMAIN new : Over(old, new)[p] = new[p]
        /\ \A p \in DOMAIN old \ DOMAIN new : Over(old, new)[p] = old[p]
    BY OverAt
  <2> QED BY <1>1, <1>3, <1>6, <2>1
<1>10. NothingIsStale'
  <2> SUFFICES ASSUME NEW q \in DOMAIN assets'
               PROVE  IF assets'[q].stable THEN q \in DOMAIN Uploads /\ assets'[q].bytes = Uploads[q]
                      ELSE /\ q \in DOMAIN b /\ assets'[q].bytes = b[q]
                           /\ IsIndex(q) => assets'[q].args = args
    BY <1>1 DEF NothingIsStale
  <2>1. CASE q \in DOMAIN b
    <3>1. assets'[q] = new[q]
      BY <1>9, <2>1
    <3>2. ~assets'[q].stable /\ assets'[q].bytes = b[q] /\ (IsIndex(q) => assets'[q].args = args)
      <4>1. /\ ~new[q].stable /\ new[q].bytes = b[q]
            /\ IsIndex(q) => new[q].args = args
        BY <2>1, TemplatedFile
      <4> HIDE DEF new
      <4> QED BY <3>1, <4>1
    <3> QED BY <2>1, <3>2
  <2>2. CASE q \notin DOMAIN b
    <3>1. q \in kept /\ assets'[q] = assets[q]
      BY <1>9, <2>2
    <3> QED BY <1>2, <3>1
  <2> QED BY <2>1, <2>2
<1> QED BY <1>1, <1>8, <1>10 DEF AssetInv

LEMMA AssetNextInv == AssetInv /\ [NextAssets]_assetVars => AssetInv'
<1> SUFFICES ASSUME AssetInv, [NextAssets]_assetVars PROVE AssetInv'
  OBVIOUS
<1>1. ASSUME NEW p \in DOMAIN Uploads, AddStableAsset(p) PROVE AssetInv'
  BY <1>1, AddKeepsInv
<1>2. ASSUME NEW b \in Bundles, NEW args \in Arguments, UpgradeAssets(b, args) PROVE AssetInv'
  BY <1>2, UpgradeKeepsInv
<1>3. CASE UNCHANGED assetVars
  BY <1>3 DEF assetVars, AssetInv, NothingIsStale, Certifies
<1> QED BY <1>1, <1>2, <1>3 DEF NextAssets

LEMMA AssetInvGivesSound == AssetInv => AssetsAreSound
<1> SUFFICES ASSUME AssetInv PROVE AssetsAreSound
  OBVIOUS
<1>1. DOMAIN assets \in SUBSET Path
  BY AssetFiles, FilesAreDisjoint DEF AssetInv
<1>2. ASSUME NEW p \in Path
      PROVE  /\ Get(DOMAIN assets, p) = {} <=> p \notin DOMAIN hashes
             /\ \A f \in Get(DOMAIN assets, p) : hashes[p] = Hash(assets[f])
  <2>1. \A f \in Get(DOMAIN assets, p) : f \in DOMAIN assets /\ p \in AlternatePaths(f)
    BY <1>1, ServedIsAlternate
  <2>2. \A f \in DOMAIN assets : p \in AlternatePaths(f) => Get(DOMAIN assets, p) # {}
    BY <1>1, AlternateIsServed
  <2>3. p \in DOMAIN hashes <=> \E f \in DOMAIN assets : p \in AlternatePaths(f)
    BY DEF AssetInv, Certifies
  <2>4. \A f \in DOMAIN assets : p \in AlternatePaths(f) => hashes[p] = Hash(assets[f])
    BY DEF AssetInv, Certifies
  <2> QED BY <2>1, <2>2, <2>3, <2>4
<1> QED BY <1>2 DEF AssetInv, AssetsAreSound, ServedIsCertified

\* Whatever was uploaded and installed, and wherever a file is looked up, what is served is
\* what is certified, and nothing of an older version is left but uploads (http_request).
THEOREM AssetsSound == SpecAssets => []AssetsAreSound
<1>1. SpecAssets => []AssetInv
  BY AssetInitInv, AssetNextInv, PTL DEF SpecAssets
<1> QED BY <1>1, AssetInvGivesSound, PTL

----------------------------------------------------------------------------
(***************************************************************************)
(* The heap across upgrades, and the value locked in it (ValueLocked).     *)
(***************************************************************************)

\* What may be in tvl, and in a word of the memory.
Values ==
    [locked : Amounts \cup {0},
     rate : {0} \cup {ConvertToE8s(r.rate, r.decimals) : r \in Rates}, time : Nat]
Words == Nat \cup Values

LEMMA EuclideanDivision ==
    ASSUME NEW x \in Nat, NEW b \in Nat, b # 0
    PROVE  /\ x \div b \in Nat /\ x % b \in 0 .. b - 1
           /\ x = b * (x \div b) + (x % b)
<1>1. x = b * (x \div b) + (x % b)
  OBVIOUS
<1>2. x % b \in 0 .. b - 1
  OBVIOUS
<1>3. x \div b \in Nat
  OBVIOUS
<1> QED BY <1>1, <1>2, <1>3

\* As many pages as are counted hold the words.
LEMMA PagesHold ==
    ASSUME NEW x \in Nat, NEW pages \in Nat, CeilDiv(x, PageSize) <= pages
    PROVE  pages * PageSize \in Nat /\ x <= pages * PageSize
<1> DEFINE y == x + PageSize - 1
           q == y \div PageSize
           r == y % PageSize
<1>1. PageSize \in Nat /\ PageSize # 0 /\ y \in Nat
  BY ValueLockedAssumption
<1>2. q \in Nat /\ r \in 0 .. PageSize - 1 /\ y = PageSize * q + r
  <2> HIDE DEF y
  <2> QED BY <1>1, EuclideanDivision
<1>3. q <= pages
  BY DEF CeilDiv
<1> HIDE DEF q, r
<1>4. PageSize * q \in Int /\ PageSize * q <= pages * PageSize
  BY <1>1, <1>2, <1>3
<1>5. pages * PageSize \in Nat
  BY <1>1
<1> QED BY <1>1, <1>2, <1>4, <1>5

\* The words are written where they should be, and those before them are kept.
Written(mem, offset, words, result) ==
    /\ result \in Seq(Words) /\ offset + Len(words) <= Len(result)
    /\ \A i \in 1 .. Len(words) : result[offset + i] = words[i]
    /\ \A i \in 1 .. offset : i <= Len(mem) => result[i] = mem[i]

LEMMA WrittenWords ==
    ASSUME NEW mem \in Seq(Words), NEW offset \in Nat, NEW words \in Seq(Words),
           NEW result, result = GrowingWrite(mem, offset, words)
    PROVE  Written(mem, offset, words, result)
<1> DEFINE size == Len(words) + offset
           min == CeilDiv(size, PageSize)
           current == Len(mem) \div PageSize
           pages == IF current < min THEN min ELSE current
           n == pages * PageSize
           at(i) == IF i \in offset + 1 .. offset + Len(words) THEN words[i - offset]
                    ELSE IF i <= Len(mem) THEN mem[i] ELSE 0
<1>1. result = [i \in 1 .. n |-> at(i)]
  BY DEF GrowingWrite
<1>2. PageSize \in Nat /\ PageSize # 0 /\ size \in Nat /\ Len(mem) \in Nat /\ Len(words) \in Nat
  BY ValueLockedAssumption
<1>3. current \in Nat
  BY <1>2, EuclideanDivision
<1>4. min \in Nat
  <2>1. size + PageSize - 1 \in Nat
    BY <1>2
  <2> HIDE DEF size
  <2> QED BY <1>2, <2>1, EuclideanDivision DEF CeilDiv
<1>5. pages \in Nat /\ min <= pages
  <2> HIDE DEF min, current
  <2> QED BY <1>3, <1>4
<1>6. n \in Nat /\ size <= n
  <2> HIDE DEF pages, size
  <2> QED BY <1>2, <1>5, PagesHold
<1> HIDE DEF pages, n
<1>7. ASSUME NEW i \in 1 .. n PROVE at(i) \in Words
  <2>1. CASE i \in offset + 1 .. offset + Len(words)
    <3>1. i - offset \in 1 .. Len(words)
      BY <1>2, <2>1
    <3>2. words[i - offset] \in Words
      BY <3>1
    <3> QED BY <2>1, <3>2
  <2>2. CASE i \notin offset + 1 .. offset + Len(words) /\ i <= Len(mem)
    <3>1. i \in 1 .. Len(mem)
      BY <1>2, <1>6, <2>2
    <3>2. mem[i] \in Words
      BY <3>1
    <3> QED BY <2>2, <3>2
  <2>3. CASE i \notin offset + 1 .. offset + Len(words) /\ ~(i <= Len(mem))
    <3>1. at(i) = 0
      BY <2>3
    <3> QED BY <3>1 DEF Words
  <2> QED BY <2>1, <2>2, <2>3
<1>8. result \in [1 .. n -> Words] /\ \A i \in 1 .. n : result[i] = at(i)
  <2> HIDE DEF at
  <2> QED BY <1>1, <1>7
<1>9. result \in Seq(Words) /\ Len(result) = n
  BY <1>6, <1>8
<1>10. ASSUME NEW i \in 1 .. Len(words) PROVE result[offset + i] = words[i]
  <2>1. offset + i \in 1 .. n /\ offset + i \in offset + 1 .. offset + Len(words)
    BY <1>2, <1>6
  <2>2. (offset + i) - offset = i
    OBVIOUS
  <2>3. at(offset + i) = words[(offset + i) - offset]
    BY <2>1
  <2>4. result[offset + i] = at(offset + i)
    <3> HIDE DEF at
    <3> QED BY <1>8, <2>1
  <2> QED BY <2>2, <2>3, <2>4
<1>11. ASSUME NEW i \in 1 .. offset, i <= Len(mem) PROVE result[i] = mem[i]
  <2>1. i \in 1 .. n /\ i \notin offset + 1 .. offset + Len(words)
    BY <1>2, <1>6
  <2>2. at(i) = mem[i]
    BY <1>11, <2>1
  <2>3. result[i] = at(i)
    <3> HIDE DEF at
    <3> QED BY <1>8, <2>1
  <2> QED BY <2>2, <2>3
<1>12. offset + Len(words) <= Len(result)
  BY <1>2, <1>6, <1>9
<1> QED BY <1>9, <1>10, <1>11, <1>12 DEF Written

LEMMA EncodedWords ==
    ASSUME NEW value \in Values, NEW length \in Nat
    PROVE  /\ Encode(value, length) \in Seq(Words)
           /\ Len(Encode(value, length)) = length + 1
           /\ Encode(value, length)[1] = value
<1> DEFINE tail == [i \in 1 .. length |-> i]
<1>1. tail \in [1 .. length -> Words]
  BY DEF Words
<1>2. tail \in Seq(Words) /\ Len(tail) = length
  BY <1>1
<1> HIDE DEF tail
<1>3. <<value>> \in Seq(Words) /\ Len(<<value>>) = 1 /\ <<value>>[1] = value
  BY DEF Words
<1>4. Encode(value, length) = <<value>> \o tail
  BY DEF Encode, tail
<1> QED BY <1>2, <1>3, <1>4

\* What is saved is recovered, whatever was in the memory.
LEMMA SavedThenRecovered ==
    ASSUME NEW mem \in Seq(Words), NEW value \in Values, NEW length \in Nat,
           NEW saved, saved = SaveHeap(mem, Encode(value, length))
    PROVE  /\ saved \in Seq(Words) /\ saved[1] + 1 <= Len(saved)
           /\ Decode(RecoverHeap(saved)) = [tvl |-> value, rest |-> length]
<1> DEFINE words == Encode(value, length)
           first == GrowingWrite(mem, 0, <<Len(words)>>)
<1>1. words \in Seq(Words) /\ Len(words) = length + 1 /\ words[1] = value
  BY EncodedWords
<1> HIDE DEF words
<1>2. <<Len(words)>> \in Seq(Words) /\ Len(<<Len(words)>>) = 1 /\ <<Len(words)>>[1] = length + 1
  BY <1>1 DEF Words
<1>3. first \in Seq(Words) /\ 1 <= Len(first) /\ first[1] = length + 1
  <2> DEFINE one == <<Len(words)>>
  <2>1. one \in Seq(Words) /\ Len(one) = 1 /\ one[1] = length + 1
    BY <1>2
  <2>2. first = GrowingWrite(mem, 0, one)
    OBVIOUS
  <2> HIDE DEF first, one
  <2>3. Written(mem, 0, one, first)
    BY <2>1, <2>2, WrittenWords
  <2>4. first[0 + 1] = one[1] /\ first \in Seq(Words) /\ 0 + 1 <= Len(first)
    BY <2>1, <2>3 DEF Written
  <2> QED BY <2>1, <2>4
<1>4. saved = GrowingWrite(first, 1, words)
  BY DEF SaveHeap, words
<1> HIDE DEF first
<1>5. /\ saved \in Seq(Words) /\ 1 + (length + 1) <= Len(saved)
      /\ \A i \in 1 .. length + 1 : saved[1 + i] = words[i]
      /\ saved[1] = first[1]
  <2>1. Written(first, 1, words, saved)
    BY <1>1, <1>3, <1>4, WrittenWords
  <2> QED BY <1>1, <1>3, <2>1 DEF Written
<1>6. saved[1] = length + 1 /\ saved[1 + 1] = value
  BY <1>1, <1>3, <1>5
<1> DEFINE read == SubSeq(saved, 2, length + 2)
<1>7. RecoverHeap(saved) = read
  BY <1>6 DEF RecoverHeap
<1>8. Len(read) = length + 1 /\ read[1] = saved[2]
  BY <1>5
<1> HIDE DEF read
<1>9. Decode(read) = [tvl |-> value, rest |-> length]
  BY <1>6, <1>8 DEF Decode
<1> QED BY <1>5, <1>6, <1>7, <1>9

-----------------------------------------------------------------------------
\* What the calls, the timers and the upgrades keep.
HeapInv ==
    /\ tvl \in Values /\ rest \in Nat /\ memory \in Seq(Words)
    /\ now \in Nat /\ rateCalls \in [Calls -> 0 .. now]
    /\ tvl.time <= now
    /\ IF answers = {} THEN tvl.rate = 0 /\ tvl.time = 0
       ELSE [rate |-> tvl.rate, time |-> tvl.time] \in answers

LEMMA HeapInitInv == InitState => HeapInv
<1> SUFFICES ASSUME InitState PROVE HeapInv
  OBVIOUS
<1>1. tvl \in Values /\ tvl.rate = 0 /\ tvl.time = 0
  BY DEF InitState, NoValue, Values
<1>2. memory \in Seq(Words)
  BY DEF InitState
<1>3. now \in Nat /\ rest \in Nat /\ rateCalls \in [Calls -> 0 .. now]
  BY ValueLockedAssumption DEF InitState
<1> QED BY <1>1, <1>2, <1>3 DEF HeapInv, InitState

LEMMA AnsweredKeepsInv ==
    ASSUME HeapInv, NEW s \in Calls, NEW r \in Rates, RateAnswered(s, r)
    PROVE  HeapInv'
<1> DEFINE rate == ConvertToE8s(r.rate, r.decimals)
<1>1. /\ tvl' = [tvl EXCEPT !.rate = rate, !.time = rateCalls[s]]
      /\ answers' = answers \cup {[rate |-> rate, time |-> rateCalls[s]]}
      /\ rateCalls' = [rateCalls EXCEPT ![s] = 0]
      /\ UNCHANGED <<rest, memory, now>>
  BY DEF RateAnswered
<1>2. rate \in {0} \cup {ConvertToE8s(x.rate, x.decimals) : x \in Rates}
  OBVIOUS
<1> HIDE DEF rate
<1>3. rateCalls[s] \in 0 .. now /\ rateCalls[s] \in Nat /\ now \in Nat
  BY DEF HeapInv
<1>4. tvl' \in Values /\ tvl'.rate = rate /\ tvl'.time = rateCalls[s]
  BY <1>1, <1>2, <1>3 DEF HeapInv, Values
<1>5. rateCalls' \in [Calls -> 0 .. now']
  BY <1>1, <1>3 DEF HeapInv
<1>6. answers' # {} /\ [rate |-> tvl'.rate, time |-> tvl'.time] \in answers'
  <2>1. [rate |-> rate, time |-> rateCalls[s]] \in answers'
    BY <1>1
  <2>2. [rate |-> tvl'.rate, time |-> tvl'.time] = [rate |-> rate, time |-> rateCalls[s]]
    BY <1>4
  <2> QED BY <2>1, <2>2
<1>7. rest' \in Nat /\ memory' \in Seq(Words) /\ now' \in Nat /\ tvl'.time <= now'
  BY <1>1, <1>3, <1>4 DEF HeapInv
<1> QED BY <1>4, <1>5, <1>6, <1>7 DEF HeapInv

LEMMA UpgradeKeepsHeapInv ==
    ASSUME HeapInv, UpgradeState
    PROVE  HeapInv'
<1>1. /\ memory' = SaveHeap(memory, Encode(tvl, rest))
      /\ tvl' = Decode(RecoverHeap(memory')).tvl /\ rest' = Decode(RecoverHeap(memory')).rest
      /\ rateCalls' = [s \in Calls |-> 0] /\ UNCHANGED <<now, answers>>
  BY DEF UpgradeState
<1>2. memory' \in Seq(Words) /\ Decode(RecoverHeap(memory')) = [tvl |-> tvl, rest |-> rest]
  BY <1>1, SavedThenRecovered DEF HeapInv
<1>3. tvl' = tvl /\ rest' = rest
  BY <1>1, <1>2
<1>4. rateCalls' \in [Calls -> 0 .. now']
  BY <1>1 DEF HeapInv
<1> QED BY <1>1, <1>2, <1>3, <1>4 DEF HeapInv

LEMMA HeapNextInv == HeapInv /\ [NextState]_tvlVars => HeapInv'
<1> SUFFICES ASSUME HeapInv, [NextState]_tvlVars PROVE HeapInv'
  OBVIOUS
<1>1. ASSUME NEW s \in Calls, AskRate(s) PROVE HeapInv'
  <2>1. now - Margin \in 0 .. now
    BY <1>1, ValueLockedAssumption DEF AskRate, HeapInv
  <2>2. rateCalls' \in [Calls -> 0 .. now']
    BY <1>1, <2>1 DEF AskRate, HeapInv
  <2> QED BY <1>1, <2>2 DEF AskRate, HeapInv
<1>2. ASSUME NEW s \in Calls, RateFails(s) PROVE HeapInv'
  <2>1. rateCalls' \in [Calls -> 0 .. now']
    BY <1>2 DEF RateFails, HeapInv
  <2> QED BY <1>2, <2>1 DEF RateFails, HeapInv
<1>3. ASSUME NEW s \in Calls, NEW r \in Rates, RateAnswered(s, r) PROVE HeapInv'
  BY <1>3, AnsweredKeepsInv
<1>4. ASSUME NEW s \in Calls, AskLocked(s) \/ LockedFails(s) PROVE HeapInv'
  BY <1>4 DEF AskLocked, LockedFails, HeapInv
<1>5. ASSUME NEW s \in Calls, NEW a \in Amounts, LockedAnswered(s, a) PROVE HeapInv'
  <2>1. tvl' \in Values /\ tvl'.rate = tvl.rate /\ tvl'.time = tvl.time
    BY <1>5 DEF LockedAnswered, HeapInv, Values
  <2> QED BY <1>5, <2>1 DEF LockedAnswered, HeapInv
<1>6. CASE HeapChanges
  <2>1. rest' \in Nat
    BY <1>6, ValueLockedAssumption DEF HeapChanges
  <2> QED BY <1>6, <2>1 DEF HeapChanges, HeapInv
<1>7. CASE UpgradeState
  BY <1>7, UpgradeKeepsHeapInv
<1>8. CASE TimePasses
  <2>1. now' \in Nat /\ now <= now' /\ rateCalls' = rateCalls
    BY <1>8 DEF TimePasses, HeapInv
  <2>2. rateCalls' \in [Calls -> 0 .. now']
    BY <2>1 DEF HeapInv
  <2>3. tvl' = tvl /\ tvl.time <= now'
    BY <1>8, <2>1 DEF TimePasses, HeapInv, Values
  <2> QED BY <1>8, <2>1, <2>2, <2>3 DEF TimePasses, HeapInv
<1>9. CASE UNCHANGED tvlVars
  BY <1>9 DEF tvlVars, HeapInv
<1> QED BY <1>1, <1>2, <1>3, <1>4, <1>5, <1>6, <1>7, <1>8, <1>9 DEF NextState

LEMMA HeapInvGivesKept == HeapInv => HeapIsKept
<1> SUFFICES ASSUME HeapInv PROVE HeapIsKept
  OBVIOUS
<1>1. SavedIsRecovered
  <2> DEFINE mem == SaveHeap(memory, Encode(tvl, rest))
  <2>1. mem[1] + 1 <= Len(mem) /\ Decode(RecoverHeap(mem)) = [tvl |-> tvl, rest |-> rest]
    BY SavedThenRecovered DEF HeapInv
  <2> QED BY <2>1 DEF SavedIsRecovered
<1>2. RateIsOneAnswer
  <2>1. GetTvl.time = tvl.time
    BY DEF GetTvl
  <2> QED BY <2>1 DEF HeapInv, RateIsOneAnswer
<1> QED BY <1>1, <1>2 DEF HeapIsKept

\* Whatever heaps were saved before, the heap that an upgrade saves is recovered, for any size
\* of a page, and the rate that is shown was answered, at the time that is shown (get_tvl).
THEOREM HeapKept == SpecState => []HeapIsKept
<1>1. SpecState => []HeapInv
  BY HeapInitInv, HeapNextInv, PTL DEF SpecState
<1> QED BY <1>1, HeapInvGivesKept, PTL
-----------------------------------------------------------------------------
(***************************************************************************)
(* CanisterPages: the settings of canisters.                               *)
(***************************************************************************)

\* Controllers that were confirmed for a canister, unless it does not exist
Confirmed(c, s, g) == s # Unborn => {c} \X s \subseteq g

\* The settings, and those that a call may return, that a page shows and that a dialog is about
\* to write, were confirmed for the canister that they are written to.
SettingsSound(cs, g) ==
    /\ cs \in [CanisterIds -> (SUBSET People) \cup {Unborn}]
    /\ \A c \in CanisterIds : Confirmed(c, cs[c], g)
ReadSound(r, g) ==
    /\ r \in Reads
    /\ r = NoRead \/ r.id \in CanisterIds
    /\ \A s \in r.seen : Confirmed(r.id, s, g)
ReadsSound(rs, g) ==
    /\ rs \in [1 .. MaxReads -> Reads]
    /\ \A r \in 1 .. MaxReads : ReadSound(rs[r], g)
DetailsSound(ds, g) ==
    \A i \in DOMAIN ds : {ds[i].id} \X ds[i].controllers \subseteq g
SelectionSound(sel, g) == sel \in Selections /\ DetailsSound(sel.details, g)
DialogSound(d, g) ==
    /\ d \in Dialogs
    /\ d.phase # "none" => d.kind # "none"
    /\ d.kind \notin {"none", "create"} => d.id \in CanisterIds
    /\ d.kind \in {"add", "remove"} => {d.id} \X d.from \subseteq g

\* What is waited for is a part of what was asked for, and all of it only if no certified
\* answer came.
LoadSound(l, f) ==
    /\ l \in Loads
    /\ l.request.waiting \subseteq CallsOf(f)
    /\ l.request.waiting = CallsOf(f) => Heard(l.request)
LoadsSound(ls, f) ==
    /\ ls \in [1 .. MaxLoads -> Loads]
    /\ \A s \in 1 .. MaxLoads : LoadSound(ls[s], f)

PageSound(p) ==
    /\ p \in [path : Paths, id : CanisterIds \cup {Nothing}]
    /\ p.path = "canister" => p.id \in CanisterIds
StoreSound(st) == st \in Seq(Seq(NamedCanister))
ListSound(l) == l \in Seq(NamedCanister) /\ SoundList(l)

\* The inductive invariant behind SettingsAreSound
PagesInv ==
    /\ ListSound(linked)
    /\ SettingsSound(controllers, given)
    /\ forced \in Forced
    /\ StoreSound(store)
    /\ PageSound(page)
    /\ SelectionSound(selected, given)
    /\ DialogSound(dialog, given)
    /\ LoadsSound(loads, forced)
    /\ ReadsSound(reads, given)
    /\ given \subseteq CanisterIds \X People

\* Calls are sound if each of them is.
LEMMA EachIsSound ==
    /\ \A rs, g : /\ rs = [r \in 1 .. MaxReads |-> rs[r]]
                  /\ \A r \in 1 .. MaxReads : ReadSound(rs[r], g)
                  => ReadsSound(rs, g)
    /\ \A ls, f : /\ ls = [s \in 1 .. MaxLoads |-> ls[s]]
                  /\ \A s \in 1 .. MaxLoads : LoadSound(ls[s], f)
                  => LoadsSound(ls, f)
BY DEF ReadsSound, ReadSound, LoadsSound, LoadSound

\* What was confirmed stays confirmed.
LEMMA ConfirmedForGood ==
    ASSUME NEW g, NEW h, g \subseteq h
    PROVE  /\ \A cs : SettingsSound(cs, g) => SettingsSound(cs, h)
           /\ \A rs : ReadsSound(rs, g) => ReadsSound(rs, h)
           /\ \A sel : SelectionSound(sel, g) => SelectionSound(sel, h)
           /\ \A d : DialogSound(d, g) => DialogSound(d, h)
<1>1. \A c, s : Confirmed(c, s, g) => Confirmed(c, s, h)
  BY DEF Confirmed
<1>2. \A cs : SettingsSound(cs, g) => SettingsSound(cs, h)
  BY <1>1 DEF SettingsSound
<1>3. \A rs : ReadsSound(rs, g) => ReadsSound(rs, h)
  BY <1>1 DEF ReadsSound, ReadSound
<1>4. \A sel : SelectionSound(sel, g) => SelectionSound(sel, h)
  BY DEF SelectionSound, DetailsSound
<1>5. \A d : DialogSound(d, g) => DialogSound(d, h)
  BY DEF DialogSound
<1> QED BY <1>2, <1>3, <1>4, <1>5

\* A free slot is found.
LEMMA FirstIsFree ==
    ASSUME NEW n \in Nat, NEW slots, DOMAIN slots = 1 .. n, NEW empty, Free(slots, empty) # {}
    PROVE  First(Free(slots, empty)) \in 1 .. n /\ slots[First(Free(slots, empty))] = empty
<1> DEFINE free == Free(slots, empty)
<1>1. free \in SUBSET Nat /\ free # {}
  BY DEF Free
<1>2. \A s \in free : s \in 1 .. n /\ slots[s] = empty
  BY DEF Free
<1> HIDE DEF free
<1>3. \E s \in free : \A t \in free : s <= t
  BY <1>1, SmallestNumber
<1>4. First(free) \in free
  BY <1>3 DEF First
<1> QED BY <1>2, <1>4 DEF free

\* Nothing, and what is sent
LEMMA NoneSound ==
    /\ \A g : ReadSound(NoRead, g)
    /\ \A g : SelectionSound(NoSelection, g)
    /\ \A g : DialogSound(NoDialog, g)
    /\ \A f \in Forced : LoadSound(NoLoad, f)
    /\ PageSound(NoPage)
    /\ PageSound([path |-> "canisters", id |-> Nothing])
    /\ StoreSound(<<>>) /\ StoreSound(<< <<>> >>)
<1>1. \A g : ReadSound(NoRead, g)
  BY DEF ReadSound, NoRead, Reads
<1>2. NoSelection \in Selections /\ NoSelection.details = <<>>
  <2>1. <<>> \in Seq(NamedCanister) /\ <<>> \in Seq(Details)
    OBVIOUS
  <2> QED BY <2>1 DEF NoSelection, Selections
<1>3. \A g : SelectionSound(NoSelection, g)
  BY <1>2 DEF SelectionSound, DetailsSound
<1>4. NoDialog \in Dialogs /\ NoDialog.kind = "none" /\ NoDialog.phase = "none"
  <2>1. EmptyName \in RequestNames
    BY CanisterListAssumption DEF EmptyName, RequestNames, Names
  <2> QED BY <2>1, CanisterPagesAssumption DEF NoDialog, Dialogs, Kinds, Phases
<1>5. \A g : DialogSound(NoDialog, g)
  BY <1>4 DEF DialogSound
<1>6. \A f \in Forced : LoadSound(NoLoad, f)
  <2> SUFFICES ASSUME NEW f \in Forced PROVE LoadSound(NoLoad, f)
    OBVIOUS
  <2>1. NoLoad.request = Sent("query") /\ NoLoad.by = "none" /\ NoLoad.seen = {}
    BY DEF NoLoad
  <2>2. Sent("query") \in Requests /\ Sent("query").waiting = {FALSE} /\ Heard(Sent("query"))
    BY DEF Sent, Requests, CallsOf, Strategies, Heard
  <2>3. NoLoad \in Loads
    BY <2>2 DEF NoLoad, Loads
  <2>4. {FALSE} \subseteq CallsOf(f)
    BY CanisterPagesAssumption DEF CallsOf
  <2> QED BY <2>1, <2>2, <2>3, <2>4 DEF LoadSound
<1>7. PageSound(NoPage) /\ PageSound([path |-> "canisters", id |-> Nothing])
  BY DEF PageSound, NoPage, Paths
<1>8. StoreSound(<<>>) /\ StoreSound(<< <<>> >>)
  BY DEF StoreSound
<1> QED BY <1>1, <1>3, <1>5, <1>6, <1>7, <1>8

\* A read that is sent returns settings that were confirmed.
LEMMA DetailsAsked ==
    ASSUME NEW rs, NEW g, ReadsSound(rs, g), SettingsSound(controllers, g),
           NEW c \in CanisterIds, NEW by \in {"page", "op"}
    PROVE  ReadsSound(QueryCanisterDetails(rs, by, c), g)
<1> DEFINE new == [by |-> by, id |-> c, here |-> TRUE, seen |-> {controllers[c]}]
           ss == QueryCanisterDetails(rs, by, c)
<1>1. ReadSound(new, g)
  BY DEF ReadSound, SettingsSound, Reads
<1>2. /\ ss = [r \in 1 .. MaxReads |-> ss[r]]
      /\ \A r \in 1 .. MaxReads : ss[r] = rs[r] \/ ss[r] = new
  BY DEF QueryCanisterDetails, ReadsSound
<1> HIDE DEF ss, new
<1>3. \A r \in 1 .. MaxReads : ReadSound(ss[r], g)
  BY <1>1, <1>2 DEF ReadsSound
<1>4. ReadsSound(ss, g)
  BY <1>2, <1>3, EachIsSound
<1> QED BY <1>4 DEF ss

\* ... and so do calls that are on their way when the settings change.
LEMMA SettingsChanged ==
    ASSUME NEW g, ReadsSound(reads, g), SettingsSound(controllers, g),
           NEW c \in CanisterIds, NEW s \in SUBSET People, {c} \X s \subseteq g,
           ControllersAreNow(c, s)
    PROVE  ReadsSound(reads', g) /\ SettingsSound(controllers', g)
<1>1. SettingsSound(controllers', g)
  BY DEF SettingsSound, ControllersAreNow, Confirmed
<1>2. DOMAIN reads = 1 .. MaxReads /\ DOMAIN reads' = 1 .. MaxReads
  BY DEF ReadsSound, ControllersAreNow
<1>3. ASSUME NEW r \in 1 .. MaxReads PROVE ReadSound(reads'[r], g)
  <2>1. ReadSound(reads[r], g)
    BY DEF ReadsSound
  <2>2. CASE reads[r].id # c
    <3>1. reads'[r] = reads[r]
      BY <1>2, <2>2 DEF ControllersAreNow
    <3> QED BY <2>1, <3>1
  <2>3. CASE reads[r].id = c
    <3>1. reads'[r] = [reads[r] EXCEPT !.seen = @ \cup {s}]
      BY <1>2, <2>3 DEF ControllersAreNow
    <3>2. reads[r] \in Reads /\ \A t \in reads[r].seen : Confirmed(c, t, g)
      BY <2>1, <2>3 DEF ReadSound
    <3>3. /\ reads'[r] \in Reads /\ reads'[r].id = c
          /\ reads'[r].seen = reads[r].seen \cup {s}
      BY <2>3, <3>1, <3>2 DEF Reads
    <3>4. Confirmed(c, s, g)
      BY DEF Confirmed
    <3> QED BY <3>2, <3>3, <3>4 DEF ReadSound
  <2> QED BY <2>2, <2>3
<1>4. reads' = [r \in 1 .. MaxReads |-> reads'[r]]
  BY <1>2 DEF ControllersAreNow
<1> QED BY <1>1, <1>3, <1>4, EachIsSound

\* Calls of a page that is gone
LEMMA OrphanedSound ==
    ASSUME NEW g, ReadsSound(reads, g)
    PROVE  ReadsSound(Orphaned, g)
<1>1. ASSUME NEW r \in 1 .. MaxReads PROVE ReadSound(Orphaned[r], g)
  <2>1. ReadSound(reads[r], g) /\ r \in DOMAIN reads
    BY DEF ReadsSound
  <2>2. CASE reads[r].by = "page" \/ reads[r] = NoRead
    <3>1. Orphaned[r] = NoRead
      BY <2>1, <2>2 DEF Orphaned
    <3> QED BY <3>1, NoneSound
  <2>3. CASE ~(reads[r].by = "page" \/ reads[r] = NoRead)
    <3>1. Orphaned[r] = [reads[r] EXCEPT !.here = FALSE]
      BY <2>1, <2>3 DEF Orphaned
    <3>2. reads[r] \in Reads /\ reads[r].id \in CanisterIds
      BY <2>1, <2>3 DEF ReadSound
    <3>3. /\ Orphaned[r] \in Reads /\ Orphaned[r].id = reads[r].id
          /\ Orphaned[r].seen = reads[r].seen
      BY <3>1, <3>2 DEF Reads
    <3> QED BY <2>1, <3>2, <3>3 DEF ReadSound
  <2> QED BY <2>2, <2>3
<1>2. Orphaned = [r \in 1 .. MaxReads |-> Orphaned[r]]
  BY DEF Orphaned, ReadsSound
<1> QED BY <1>1, <1>2, EachIsSound

\* What a change of the store or of the page selects
LEMMA ReactSound ==
    ASSUME NEW g, NEW sel, SelectionSound(sel, g), NEW p, PageSound(p), NEW st, StoreSound(st),
           NEW rs, ReadsSound(rs, g), SettingsSound(controllers, g), React(sel, p, st, rs)
    PROVE  SelectionSound(selected', g) /\ ReadsSound(reads', g)
<1>1. CASE p.path # "canister" \/ ~CanistersStoreReady(sel, st)
  BY <1>1 DEF React
<1>2. CASE ~(p.path # "canister" \/ ~CanistersStoreReady(sel, st))
  <2> DEFINE info == GetCanisterFromStore(p.id, st)
             new == Selects(sel, p.id, st)
  <2>1. p.id \in CanisterIds
    BY <1>2 DEF PageSound
  <2>2. info \in Seq(NamedCanister)
    <3>1. CASE st = <<>> \/ ~Has(st[1], p.id)
      BY <3>1 DEF GetCanisterFromStore
    <3>2. CASE ~(st = <<>> \/ ~Has(st[1], p.id))
      <4>1. st[1] \in Seq(NamedCanister)
        BY <3>2 DEF StoreSound
      <4>2. FindCanisterIndex(st[1], p.id) \in DOMAIN st[1]
        BY <3>2, <4>1, CanisterIndex
      <4>3. st[1][FindCanisterIndex(st[1], p.id)] \in NamedCanister
        BY <4>1, <4>2
      <4> QED BY <3>2, <4>3 DEF GetCanisterFromStore
    <3> QED BY <3>1, <3>2
  <2>3. new \in Selections /\ new.details = <<>>
    <3>1. sel \in Selections
      BY DEF SelectionSound
    <3>2. new = [sel EXCEPT !.ready = TRUE, !.info = info, !.details = <<>>,
                           !.controller = "undefined", !.loading = @ \/ info # <<>>,
                           !.leaving = @ \/ info = <<>>]
      BY DEF Selects, SameCanister
    <3> HIDE DEF info, new
    <3>3. <<>> \in Seq(Details)
      OBVIOUS
    <3> QED BY <2>2, <3>1, <3>2, <3>3 DEF Selections
  <2>4. selected' = NotifyIfNeeded(new)
    BY <1>2 DEF React
  <2> HIDE DEF info, new
  <2>5. selected' \in Selections /\ selected'.details = <<>>
    <3>1. CASE new.notify = Nothing /\ new.info # <<>>
      <4>1. new.info[1].id \in CanisterIds
        <5>1. new.info \in Seq(NamedCanister) /\ new.info # <<>>
          BY <2>3, <3>1 DEF Selections
        <5>2. new.info[1] \in NamedCanister
          BY <5>1
        <5> QED BY <5>2 DEF NamedCanister
      <4>2. selected' = [new EXCEPT !.notify = new.info[1].id]
        BY <2>4, <3>1 DEF NotifyIfNeeded
      <4> QED BY <2>3, <4>1, <4>2 DEF Selections
    <3>2. CASE ~(new.notify = Nothing /\ new.info # <<>>)
      BY <2>3, <2>4, <3>2 DEF NotifyIfNeeded
    <3> QED BY <3>1, <3>2
  <2>6. SelectionSound(selected', g)
    BY <2>5 DEF SelectionSound, DetailsSound
  <2>7. ReadsSound(reads', g)
    <3>1. CASE selected'.info = <<>>
      BY <1>2, <3>1 DEF React
    <3>2. CASE selected'.info # <<>>
      <4>1. reads' = QueryCanisterDetails(rs, "page", p.id)
        BY <1>2, <3>2 DEF React
      <4> QED BY <2>1, <4>1, DetailsAsked
    <3> QED BY <3>1, <3>2
  <2> QED BY <2>6, <2>7
<1> QED BY <1>1, <1>2

\* A call of get_canisters that is sent
LEMMA ListAsked ==
    ASSUME NEW ls, LoadsSound(ls, forced), forced \in Forced, linked \in Seq(NamedCanister),
           NEW by \in {"page", "op"}
    PROVE  LoadsSound(QueryCanisters(ls, by), forced)
<1> DEFINE new == [by |-> by, request |-> Sent(forced), seen |-> {linked}]
           ss == QueryCanisters(ls, by)
<1>1. LoadSound(new, forced)
  <2>1. forced \in Strategies
    BY CanisterPagesAssumption DEF Strategies
  <2>2. /\ Sent(forced) \in Requests /\ Sent(forced).waiting = CallsOf(forced)
        /\ Heard(Sent(forced))
    BY <2>1 DEF Sent, Requests, CallsOf, Heard
  <2>3. new \in Loads /\ new.request = Sent(forced)
    BY <2>2 DEF Loads
  <2> QED BY <2>2, <2>3 DEF LoadSound
<1>2. /\ ss = [s \in 1 .. MaxLoads |-> ss[s]]
      /\ \A s \in 1 .. MaxLoads : ss[s] = ls[s] \/ ss[s] = new
  BY DEF QueryCanisters, LoadsSound
<1> HIDE DEF ss, new
<1>3. \A s \in 1 .. MaxLoads : LoadSound(ss[s], forced)
  BY <1>1, <1>2 DEF LoadsSound
<1>4. LoadsSound(ss, forced)
  BY <1>2, <1>3, EachIsSound
<1> QED BY <1>4 DEF ss

\* The list changes while calls are on their way.
LEMMA ListChanged ==
    ASSUME LoadsSound(loads, forced), NEW l \in Seq(NamedCanister), ListIsNow(l)
    PROVE  LoadsSound(loads', forced) /\ linked' = l
<1>1. DOMAIN loads = 1 .. MaxLoads /\ DOMAIN loads' = 1 .. MaxLoads
  BY DEF LoadsSound, ListIsNow
<1>2. ASSUME NEW s \in 1 .. MaxLoads PROVE LoadSound(loads'[s], forced)
  <2>1. LoadSound(loads[s], forced)
    BY DEF LoadsSound
  <2>2. CASE loads[s] = NoLoad
    BY <1>1, <2>1, <2>2 DEF ListIsNow
  <2>3. CASE loads[s] # NoLoad
    <3>1. loads'[s] = [loads[s] EXCEPT !.seen = @ \cup {l}]
      BY <1>1, <2>3 DEF ListIsNow
    <3>2. loads[s] \in Loads
      BY <2>1 DEF LoadSound
    <3>3. loads'[s] \in Loads /\ loads'[s].request = loads[s].request
      BY <3>1, <3>2 DEF Loads
    <3> QED BY <2>1, <3>3 DEF LoadSound
  <2> QED BY <2>2, <2>3
<1>3. linked' = l /\ loads' = [s \in 1 .. MaxLoads |-> loads'[s]]
  BY <1>1 DEF ListIsNow
<1> QED BY <1>2, <1>3, EachIsSound

\* The list of canisters is opened.
LEMMA CanistersPageSound ==
    ASSUME NEW g, NEW st, StoreSound(st), NEW ls, LoadsSound(ls, forced), forced \in Forced,
           linked \in Seq(NamedCanister), ReadsSound(reads, g), CanistersPage(st, ls)
    PROVE  /\ PageSound(page') /\ SelectionSound(selected', g) /\ ReadsSound(reads', g)
           /\ StoreSound(store') /\ LoadsSound(loads', forced)
<1>1. PageSound(page') /\ SelectionSound(selected', g)
  BY NoneSound DEF CanistersPage
<1>2. ReadsSound(reads', g)
  BY OrphanedSound DEF CanistersPage
<1>3. CASE ~IsRoute("canisters") /\ ReloadRouteData(st)
  <2>1. store' = <<>> /\ loads' = QueryCanisters(ls, "page")
    BY <1>3 DEF CanistersPage
  <2> QED BY <1>1, <1>2, <2>1, ListAsked, NoneSound
<1>4. CASE ~(~IsRoute("canisters") /\ ReloadRouteData(st))
  BY <1>1, <1>2, <1>4 DEF CanistersPage
<1> QED BY <1>3, <1>4

\* One of the two calls of a load is answered or fails.
LEMMA RemainingSound ==
    ASSUME LoadsSound(loads, forced), forced \in Forced, NEW s \in DOMAIN loads,
           NEW isCertified \in loads[s].request.waiting
    PROVE  LoadsSound(Remaining(s, isCertified), forced)
<1> DEFINE r == Answered(loads[s].request, isCertified)
           left == Remaining(s, isCertified)
<1>1. LoadSound(loads[s], forced) /\ DOMAIN loads = 1 .. MaxLoads
  BY DEF LoadsSound
<1>2. loads[s] \in Loads /\ loads[s].request \in Requests
  BY <1>1 DEF LoadSound, Loads
<1>3. /\ r \in Requests /\ r.waiting = loads[s].request.waiting \ {isCertified}
  BY <1>2 DEF Answered, Requests
<1>4. r.waiting \subseteq CallsOf(forced) /\ r.waiting # CallsOf(forced)
  BY <1>1, <1>3 DEF LoadSound
<1>5. LoadSound([loads[s] EXCEPT !.request = r], forced)
  <2> DEFINE l == [loads[s] EXCEPT !.request = r]
  <2> HIDE DEF r
  <2>1. l \in Loads /\ l.request = r
    BY <1>2, <1>3 DEF Loads
  <2> HIDE DEF l
  <2>2. LoadSound(l, forced)
    BY <1>4, <2>1 DEF LoadSound
  <2> QED BY <2>2 DEF l
<1>6. left = [loads EXCEPT ![s] = IF r.waiting = {} THEN NoLoad
                                   ELSE [loads[s] EXCEPT !.request = r]]
  BY DEF Remaining
<1> HIDE DEF left, r
<1>7. left = [t \in 1 .. MaxLoads |-> left[t]]
  BY <1>1, <1>6
<1>8. \A t \in 1 .. MaxLoads : LoadSound(left[t], forced)
  BY <1>1, <1>5, <1>6, NoneSound DEF LoadsSound
<1>9. LoadsSound(left, forced)
  BY <1>7, <1>8, EachIsSound
<1> QED BY <1>9 DEF left

\* The user goes from page to page.
LEMMA NavigationKeepsPages ==
    ASSUME PagesInv,
           \/ OpenCanisters \/ GoBack \/ Leave
           \/ \E c \in Owned : OpenCanister(c) \/ SwitchCanister(c)
    PROVE  PagesInv'
<1>1. CASE OpenCanisters \/ GoBack
  <2>1. CanistersPage(store, loads)
    BY <1>1 DEF OpenCanisters, GoBack
  <2>2. UNCHANGED <<linked, controllers, forced, dialog, given>>
    BY <1>1 DEF OpenCanisters, GoBack
  <2>3. /\ PageSound(page') /\ SelectionSound(selected', given) /\ ReadsSound(reads', given)
        /\ StoreSound(store') /\ LoadsSound(loads', forced)
    BY <2>1, CanistersPageSound DEF PagesInv, ListSound
  <2> QED BY <2>2, <2>3 DEF PagesInv
<1>2. CASE Leave
  <2>1. page' = NoPage /\ selected' = NoSelection /\ reads' = Orphaned
    BY <1>2 DEF Leave
  <2>2. UNCHANGED <<linked, controllers, forced, store, dialog, loads, given>>
    BY <1>2 DEF Leave
  <2>3. PageSound(page') /\ SelectionSound(selected', given) /\ ReadsSound(reads', given)
    BY <2>1, NoneSound, OrphanedSound DEF PagesInv
  <2> QED BY <2>2, <2>3 DEF PagesInv
<1>3. ASSUME NEW c \in Owned, OpenCanister(c) PROVE PagesInv'
  <2>1. page' = [path |-> "canister", id |-> c] /\ React(NoSelection, page', store, Orphaned)
    BY <1>3 DEF OpenCanister
  <2>2. UNCHANGED <<linked, controllers, forced, store, dialog, given>>
    BY <1>3 DEF OpenCanister
  <2>3. PageSound(page')
    BY <2>1, CanisterPagesAssumption DEF PageSound, Paths
  <2>4. SelectionSound(selected', given) /\ ReadsSound(reads', given)
    <3>1. SelectionSound(NoSelection, given) /\ ReadsSound(Orphaned, given)
      BY NoneSound, OrphanedSound DEF PagesInv
    <3>2. StoreSound(store) /\ SettingsSound(controllers, given)
      BY DEF PagesInv
    <3> QED BY <2>1, <2>3, <3>1, <3>2, ReactSound
  <2>5. LoadsSound(loads', forced)
    <3>1. CASE store = <<>>
      <4>1. loads' = QueryCanisters(loads, "page")
        BY <1>3, <3>1 DEF OpenCanister
      <4> QED BY <4>1, ListAsked DEF PagesInv, ListSound
    <3>2. CASE store # <<>>
      BY <1>3, <3>2 DEF OpenCanister, PagesInv
    <3> QED BY <3>1, <3>2
  <2> QED BY <2>2, <2>3, <2>4, <2>5 DEF PagesInv
<1>4. ASSUME NEW c \in Owned, SwitchCanister(c) PROVE PagesInv'
  <2>1. page' = [page EXCEPT !.id = c] /\ React(selected, page', store, reads)
    BY <1>4 DEF SwitchCanister
  <2>2. UNCHANGED <<linked, controllers, forced, store, dialog, loads, given>>
    BY <1>4 DEF SwitchCanister
  <2>3. PageSound(page')
    BY <2>1, CanisterPagesAssumption DEF PageSound, PagesInv
  <2>4. SelectionSound(selected', given) /\ ReadsSound(reads', given)
    BY <2>1, <2>3, ReactSound DEF PagesInv
  <2> QED BY <2>2, <2>3, <2>4 DEF PagesInv
<1> QED BY <1>1, <1>2, <1>3, <1>4

\* What follows when the store is st after an answer
LEMMA ContinueSound ==
    ASSUME PagesInv, NEW s \in DOMAIN loads, NEW isCertified, NEW st, StoreSound(st),
           Continue(s, isCertified, st)
    PROVE  PagesInv'
<1>1. isCertified \in loads[s].request.waiting
  BY DEF Continue
<1>2. LoadsSound(Remaining(s, isCertified), forced)
  BY <1>1, RemainingSound DEF PagesInv
<1>3. UNCHANGED <<linked, controllers, forced, given>>
  BY DEF Continue
<1>4. DialogSound(dialog', given)
  <2>1. dialog' = NoDialog \/ dialog' = dialog
    BY DEF Continue, Ends
  <2> QED BY <2>1, NoneSound DEF PagesInv
<1>5. /\ PageSound(page') /\ SelectionSound(selected', given) /\ ReadsSound(reads', given)
      /\ StoreSound(store') /\ LoadsSound(loads', forced)
  <2>1. CASE IsAwaited(s) /\ dialog.kind = "unlink"
    <3>1. CanistersPage(st, Remaining(s, isCertified))
      BY <2>1 DEF Continue
    <3>2. ReadsSound(reads, given) /\ forced \in Forced /\ linked \in Seq(NamedCanister)
      BY DEF PagesInv, ListSound
    <3> QED BY <1>2, <3>1, <3>2, CanistersPageSound
  <2>2. CASE ~(IsAwaited(s) /\ dialog.kind = "unlink")
    <3>1. store' = st /\ loads' = Remaining(s, isCertified) /\ page' = page
      BY <2>2 DEF Continue
    <3>2. PageSound(page) /\ SelectionSound(selected, given) /\ ReadsSound(reads, given)
          /\ SettingsSound(controllers, given)
      BY DEF PagesInv
    <3>3. CASE st = store
      <4>1. selected' = selected /\ reads' = reads
        BY <2>2, <3>3 DEF Continue
      <4> QED BY <1>2, <3>1, <3>2, <4>1
    <3>4. CASE st # store
      <4>1. React(selected, page, st, reads)
        BY <2>2, <3>4 DEF Continue
      <4>2. SelectionSound(selected', given) /\ ReadsSound(reads', given)
        BY <3>2, <4>1, ReactSound
      <4> QED BY <1>2, <3>1, <3>2, <4>2
    <3> QED BY <3>3, <3>4
  <2> QED BY <2>1, <2>2
<1>6. ListSound(linked) /\ SettingsSound(controllers, given) /\ forced \in Forced
      /\ given \subseteq CanisterIds \X People
  BY DEF PagesInv
<1> QED BY <1>3, <1>4, <1>5, <1>6 DEF PagesInv

\* An answer of get_canisters, or its failure
LEMMA ListAnswersKeepPages ==
    ASSUME PagesInv, NEW s \in DOMAIN loads, NEW isCertified \in BOOLEAN,
           ListAnswers(s, isCertified) \/ ListFails(s, isCertified)
    PROVE  PagesInv'
<1>1. StoreSound(store) /\ LoadSound(loads[s], forced)
  BY DEF PagesInv, LoadsSound
<1>2. PICK st : StoreSound(st) /\ Continue(s, isCertified, st)
  <2>1. CASE ListAnswers(s, isCertified)
    <3>1. PICK value \in loads[s].seen :
            Continue(s, isCertified, IF Heard(loads[s].request) THEN <<value>> ELSE store)
      BY <2>1 DEF ListAnswers
    <3>2. StoreSound(<<value>>)
      BY <1>1 DEF StoreSound, LoadSound, Loads
    <3> QED BY <1>1, <3>1, <3>2
  <2>2. CASE ListFails(s, isCertified)
    <3>1. Continue(s, isCertified,
                   IF Heard(loads[s].request) /\ IsLastCall(forced, isCertified)
                   THEN << <<>> >> ELSE store)
      BY <2>2 DEF ListFails
    <3> QED BY <1>1, <3>1, NoneSound
  <2> QED BY <2>1, <2>2
<1> QED BY <1>2, ContinueSound

\* The details of a canister come, or an error does.
LEMMA ReadEndsSound ==
    ASSUME PagesInv, NEW s \in DOMAIN reads, NEW answer,
           answer.kind = "ok" =>
              /\ answer.details \in Details
              /\ {answer.details.id} \X answer.details.controllers \subseteq given,
           ReadEnds(s, answer)
    PROVE  PagesInv'
<1>1. UNCHANGED <<linked, controllers, forced, store, page, loads, given>>
  BY DEF ReadEnds
<1>2. ReadsSound(reads', given)
  <2>1. reads' = [reads EXCEPT ![s] = NoRead] /\ ReadsSound(reads, given)
    BY DEF ReadEnds, PagesInv
  <2>2. reads' = [r \in 1 .. MaxReads |-> reads'[r]]
    BY <2>1 DEF ReadsSound
  <2>3. \A r \in 1 .. MaxReads : ReadSound(reads'[r], given)
    BY <2>1, NoneSound DEF ReadsSound
  <2> QED BY <2>2, <2>3, EachIsSound
<1>3. DialogSound(dialog', given)
  <2>1. dialog' = NoDialog \/ dialog' = dialog
    BY DEF ReadEnds, Ends
  <2> QED BY <2>1, NoneSound DEF PagesInv
<1>4. SelectionSound(selected', given)
  <2>1. SelectionSound(selected, given)
    BY DEF PagesInv
  <2>2. SelectionSound(Loaded(selected, answer), given)
    <3> DEFINE ds == IF answer.kind = "ok" THEN <<answer.details>> ELSE <<>>
               shown == CASE answer.kind = "ok" -> "true"
                          [] answer.kind = "not_controller" -> "false"
                          [] OTHER -> "undefined"
               new == Loaded(selected, answer)
    <3>1. ds \in Seq(Details) /\ DetailsSound(ds, given)
      <4>1. CASE answer.kind = "ok"
        <5> DEFINE d == answer.details
        <5>1. d \in Details /\ {d.id} \X d.controllers \subseteq given /\ ds = <<d>>
          BY <4>1
        <5> HIDE DEF ds, d
        <5>2. ds \in Seq(Details) /\ DOMAIN ds = {1} /\ ds[1] = d
          BY <5>1
        <5> QED BY <5>1, <5>2 DEF DetailsSound
      <4>2. CASE answer.kind # "ok"
        BY <4>2 DEF DetailsSound
      <4> QED BY <4>1, <4>2
    <3>2. shown \in {"true", "false", "undefined"}
      OBVIOUS
    <3>3. new = [selected EXCEPT !.details = ds, !.controller = shown, !.loading = FALSE]
      BY DEF Loaded
    <3> HIDE DEF ds, shown, new
    <3>4. selected \in Selections
      BY <2>1 DEF SelectionSound
    <3>5. new \in Selections /\ new.details = ds
      BY <3>1, <3>2, <3>3, <3>4 DEF Selections
    <3> QED BY <3>1, <3>5 DEF SelectionSound, new
  <2> QED BY <2>1, <2>2 DEF ReadEnds
<1>5. ListSound(linked) /\ SettingsSound(controllers, given) /\ forced \in Forced
      /\ given \subseteq CanisterIds \X People
      /\ StoreSound(store) /\ PageSound(page) /\ LoadsSound(loads, forced)
  BY DEF PagesInv
<1> QED BY <1>1, <1>2, <1>3, <1>4, <1>5 DEF PagesInv

\* An answer of canister_status, or its failure
LEMMA DetailsKeepPages ==
    ASSUME PagesInv, NEW s \in DOMAIN reads, DetailsAnswer(s) \/ DetailsFail(s)
    PROVE  PagesInv'
<1>1. CASE DetailsAnswer(s)
  <2>1. PICK value \in reads[s].seen : ReadEnds(s, MapError(reads[s].id, value))
    BY <1>1 DEF DetailsAnswer
  <2> DEFINE answer == MapError(reads[s].id, value)
  <2>2. ReadSound(reads[s], given) /\ reads[s] # NoRead
    BY <2>1 DEF PagesInv, ReadsSound, ReadEnds
  <2>3. ASSUME answer.kind = "ok"
        PROVE  /\ answer.details \in Details
               /\ {answer.details.id} \X answer.details.controllers \subseteq given
    <3>1. "me" \in value
      BY <2>3 DEF MapError
    <3>2. value # Unborn
      BY <3>1 DEF Unborn
    <3>3. value \in SUBSET People /\ reads[s].id \in CanisterIds
      <4>1. reads[s] \in Reads /\ reads[s].id \in CanisterIds
        BY <2>2 DEF ReadSound
      <4>2. value \in (SUBSET People) \cup {Unborn}
        BY <4>1 DEF Reads
      <4> QED BY <3>2, <4>1, <4>2
    <3>4. {reads[s].id} \X value \subseteq given
      BY <2>2, <3>2 DEF ReadSound, Confirmed
    <3>5. answer.details = [id |-> reads[s].id, controllers |-> value]
      BY DEF MapError, ToCanisterDetails
    <3> QED BY <3>3, <3>4, <3>5 DEF Details
  <2> HIDE DEF answer
  <2>4. ReadEnds(s, answer)
    BY <2>1 DEF answer
  <2> QED BY <2>3, <2>4, ReadEndsSound
<1>2. CASE DetailsFail(s)
  <2> DEFINE answer == [kind |-> "error"]
  <2>1. ReadEnds(s, answer) /\ answer.kind # "ok"
    BY <1>2 DEF DetailsFail
  <2> HIDE DEF answer
  <2> QED BY <2>1, ReadEndsSound
<1> QED BY <1>1, <1>2

\* The answer of notifyTopUpIfNeeded
LEMMA NotifyKeepsPages ==
    ASSUME PagesInv, NotifyAnswers
    PROVE  PagesInv'
<1>1. UNCHANGED <<linked, controllers, forced, store, page, dialog, loads, given>>
  BY DEF NotifyAnswers
<1>2. ReadsSound(reads', given)
  <2>1. CASE reads' = reads
    BY <2>1 DEF PagesInv
  <2>2. CASE reads' # reads
    <3>1. reads' = QueryCanisterDetails(reads, "page", selected.notify)
      BY <2>2 DEF NotifyAnswers
    <3>2. selected.notify \in CanisterIds
      BY DEF NotifyAnswers
    <3> QED BY <3>1, <3>2, DetailsAsked DEF PagesInv
  <2> QED BY <2>1, <2>2
<1>3. SelectionSound(selected', given)
  <2> DEFINE loading == selected.loading \/ reads' # reads
  <2>1. selected' = [selected EXCEPT !.notify = -1, !.loading = loading]
    BY DEF NotifyAnswers
  <2>2. loading \in BOOLEAN
    OBVIOUS
  <2>3. selected \in Selections /\ DetailsSound(selected.details, given)
    BY DEF PagesInv, SelectionSound
  <2> HIDE DEF loading
  <2>4. selected' \in Selections /\ selected'.details = selected.details
    BY <2>1, <2>2, <2>3 DEF Selections
  <2> QED BY <2>3, <2>4 DEF SelectionSound
<1>4. ListSound(linked) /\ SettingsSound(controllers, given) /\ forced \in Forced
      /\ given \subseteq CanisterIds \X People
      /\ StoreSound(store) /\ PageSound(page) /\ LoadsSound(loads, forced)
      /\ DialogSound(dialog, given)
  BY DEF PagesInv
<1> QED BY <1>1, <1>2, <1>3, <1>4 DEF PagesInv

\* A dialog is confirmed.
LEMMA ConfirmsSound ==
    ASSUME PagesInv, NEW kind \in Kinds \ {"none"}, NEW id, NEW name \in RequestNames,
           NEW controller \in People, NEW from \in SUBSET People,
           Confirms(kind, id, name, controller, from),
           given \subseteq given', given' \subseteq CanisterIds \X People,
           id \in CanisterIds \/ (kind = "create" /\ id = Nothing),
           kind \in {"add", "remove"} => {id} \X from \subseteq given'
    PROVE  PagesInv'
<1> DEFINE d == [kind |-> kind, phase |-> "call", id |-> id, name |-> name,
                 controller |-> controller, from |-> from]
<1>1. dialog' = d
  BY DEF Confirms
<1>2. DialogSound(d, given')
  <2>1. d \in Dialogs
    BY DEF Dialogs, Phases
  <2>2. d.kind = kind /\ d.id = id /\ d.from = from
    OBVIOUS
  <2> HIDE DEF d
  <2> QED BY <2>1, <2>2 DEF DialogSound
<1>3. UNCHANGED <<linked, controllers, forced, store, page, selected, loads, reads>>
  BY DEF Confirms
<1>4. /\ SettingsSound(controllers, given') /\ ReadsSound(reads, given')
      /\ SelectionSound(selected, given')
  BY ConfirmedForGood DEF PagesInv
<1>5. ListSound(linked) /\ forced \in Forced /\ StoreSound(store) /\ PageSound(page)
      /\ LoadsSound(loads, forced)
  BY DEF PagesInv
<1> HIDE DEF d
<1> QED BY <1>1, <1>2, <1>3, <1>4, <1>5 DEF PagesInv

\* The user confirms one.
LEMMA DialogsKeepPages ==
    ASSUME PagesInv,
           \/ UnlinkCanisterModal
           \/ \E cycles \in 0 .. 2 : AddCyclesModal(cycles)
           \/ \E n \in Typed :
                 \/ RenameCanisterModal(n) \/ \E cycles \in 0 .. 2 : CreateCanisterModal(n, cycles)
                 \/ \E c \in Owned : LinkCanisterModal(c, n)
           \/ \E p \in People : NewControllerReview(p) \/ RemoveCanisterControllerModal(p)
    PROVE  PagesInv'
<1>1. /\ "me" \in People /\ EmptyName \in RequestNames /\ {} \in SUBSET People
      /\ {"link", "rename", "unlink", "create", "cycles", "add", "remove"}
            \subseteq Kinds \ {"none"}
  BY CanisterListAssumption, CanisterPagesAssumption DEF EmptyName, RequestNames, Names, Kinds
<1>2. given \subseteq CanisterIds \X People
  BY DEF PagesInv
<1>3. ASSUME selected.info # <<>> PROVE selected.info[1].id \in CanisterIds
  <2>1. selected.info \in Seq(NamedCanister)
    BY DEF PagesInv, SelectionSound, Selections
  <2>2. selected.info[1] \in NamedCanister
    BY <1>3, <2>1
  <2> QED BY <2>2 DEF NamedCanister
<1>4. CASE UnlinkCanisterModal
  <2>1. Confirms("unlink", selected.info[1].id, EmptyName, "me", {}) /\ given' = given
        /\ selected.info # <<>>
    BY <1>4 DEF UnlinkCanisterModal
  <2> QED BY <1>1, <1>2, <1>3, <2>1, ConfirmsSound
<1>5. ASSUME NEW cycles \in 0 .. 2, AddCyclesModal(cycles) PROVE PagesInv'
  <2>1. Confirms("cycles", selected.info[1].id, EmptyName, "me", {}) /\ given' = given
        /\ selected.info # <<>>
    BY <1>5 DEF AddCyclesModal
  <2> QED BY <1>1, <1>2, <1>3, <2>1, ConfirmsSound
<1>6. ASSUME NEW n \in Typed, RenameCanisterModal(n) PROVE PagesInv'
  <2>1. Confirms("rename", selected.info[1].id, n, "me", {}) /\ given' = given
        /\ selected.info # <<>> /\ n \in RequestNames
    BY <1>6, CanisterPagesAssumption DEF RenameCanisterModal
  <2> QED BY <1>1, <1>2, <1>3, <2>1, ConfirmsSound
<1>7. ASSUME NEW n \in Typed, NEW cycles \in 0 .. 2, CreateCanisterModal(n, cycles)
      PROVE  PagesInv'
  <2>1. Confirms("create", Nothing, n, "me", {}) /\ given' = given /\ n \in RequestNames
    BY <1>7, CanisterPagesAssumption DEF CreateCanisterModal
  <2> QED BY <1>1, <1>2, <2>1, ConfirmsSound
<1>8. ASSUME NEW n \in Typed, NEW c \in Owned, LinkCanisterModal(c, n) PROVE PagesInv'
  <2>1. Confirms("link", c, n, "me", {}) /\ given' = given /\ n \in RequestNames
        /\ c \in CanisterIds
    BY <1>8, CanisterPagesAssumption DEF LinkCanisterModal
  <2> QED BY <1>1, <1>2, <2>1, ConfirmsSound
<1>9. ASSUME NEW p \in People, ControllersCard
      PROVE  LET d == selected.details[1]
             IN  /\ d \in Details /\ {d.id} \X d.controllers \subseteq given
  <2>1. selected.details \in Seq(Details) /\ selected.details # <<>>
    BY <1>9 DEF PagesInv, SelectionSound, Selections, ControllersCard
  <2>2. 1 \in DOMAIN selected.details /\ selected.details[1] \in Details
    BY <2>1
  <2>3. DetailsSound(selected.details, given)
    BY DEF PagesInv, SelectionSound
  <2> QED BY <2>2, <2>3 DEF DetailsSound
<1>10. ASSUME NEW p \in People, NewControllerReview(p) PROVE PagesInv'
  <2> DEFINE d == selected.details[1]
  <2>1. d \in Details /\ {d.id} \X d.controllers \subseteq given
    BY <1>9, <1>10 DEF NewControllerReview
  <2>2. /\ Confirms("add", d.id, EmptyName, p, d.controllers \cup {p})
        /\ given' = given \cup {<<d.id, p>>}
    BY <1>10 DEF NewControllerReview, SettingsOf, WithController
  <2> HIDE DEF d
  <2>3. d.id \in CanisterIds /\ d.controllers \in SUBSET People
    BY <2>1 DEF Details
  <2>4. /\ given \subseteq given' /\ given' \subseteq CanisterIds \X People
        /\ {d.id} \X (d.controllers \cup {p}) \subseteq given'
        /\ d.controllers \cup {p} \in SUBSET People
    BY <1>2, <2>1, <2>2, <2>3
  <2> QED BY <1>1, <2>2, <2>3, <2>4, ConfirmsSound
<1>11. ASSUME NEW p \in People, RemoveCanisterControllerModal(p) PROVE PagesInv'
  <2> DEFINE d == selected.details[1]
  <2>1. d \in Details /\ {d.id} \X d.controllers \subseteq given
    BY <1>9, <1>11 DEF RemoveCanisterControllerModal
  <2>2. Confirms("remove", d.id, EmptyName, p, d.controllers \ {p}) /\ given' = given
    BY <1>11 DEF RemoveCanisterControllerModal, SettingsOf, WithoutController
  <2> HIDE DEF d
  <2>3. d.id \in CanisterIds /\ d.controllers \in SUBSET People
    BY <2>1 DEF Details
  <2>4. /\ {d.id} \X (d.controllers \ {p}) \subseteq given'
        /\ d.controllers \ {p} \in SUBSET People
    BY <2>1, <2>2, <2>3
  <2> QED BY <1>1, <1>2, <2>2, <2>3, <2>4, ConfirmsSound
<1> QED BY <1>4, <1>5, <1>6, <1>7, <1>8, <1>10, <1>11

\* What the calls on the list leave is such a list.
LEMMA ListsLeft ==
    ASSUME NEW l, ListSound(l), NEW name \in RequestNames, NEW c \in CanisterIds
    PROVE  /\ AttachResponse(l, name, c) = "Ok" => \A r \in AfterAttach(l, name, c) : ListSound(r)
           /\ RenameResponse(l, name, c) = "Ok" => \A r \in AfterRename(l, name, c) : ListSound(r)
           /\ Has(l, c) => ListSound(AfterDetach(l, c))
           /\ \A r \in AfterNewlyCreated(l, c) : ListSound(r)
<1>0. l \in Seq(NamedCanister) /\ SoundList(l)
  BY DEF ListSound
<1>1. ASSUME AttachResponse(l, name, c) = "Ok", NEW r \in AfterAttach(l, name, c)
      PROVE  ListSound(r)
  <2>1. name \in Names
    BY <1>0, <1>1, AttachAllowed
  <2>2. r \in Seq(NamedCanister)
    BY <1>0, <1>1, <2>1, AttachedList
  <2>3. SoundList(r)
    BY <1>0, <1>1, AttachedSound
  <2> QED BY <2>2, <2>3 DEF ListSound
<1>2. ASSUME RenameResponse(l, name, c) = "Ok", NEW r \in AfterRename(l, name, c)
      PROVE  ListSound(r)
  <2>1. name \in Names /\ Has(l, c)
    BY <1>2, ValidNames DEF RenameResponse
  <2>2. r \in Seq(NamedCanister)
    BY <1>0, <1>2, <2>1, RenamedList
  <2>3. SoundList(r)
    BY <1>0, <1>2, RenamedSound
  <2> QED BY <2>2, <2>3 DEF ListSound
<1>3. ASSUME Has(l, c) PROVE ListSound(AfterDetach(l, c))
  <2>1. FindCanisterIndex(l, c) \in DOMAIN l
    BY <1>0, <1>3, CanisterIndex
  <2> QED BY <1>0, <2>1, Removed, RemovedSound DEF AfterDetach, ListSound
<1>4. ASSUME NEW r \in AfterNewlyCreated(l, c) PROVE ListSound(r)
  <2>1. SoundList(r)
    BY <1>0, <1>4, NewlyCreatedSound
  <2>2. r \in Seq(NamedCanister)
    <3>1. CASE Has(l, c)
      BY <1>0, <1>4, <3>1 DEF AfterNewlyCreated
    <3>2. CASE ~Has(l, c)
      <4>1. EmptyName \in Names
        BY CanisterListAssumption DEF EmptyName, Names
      <4>2. r \in PushAndSort(l, EmptyName, c)
        BY <1>4, <3>2 DEF AfterNewlyCreated
      <4> QED BY <1>0, <4>1, <4>2, PushedAndSorted
    <3> QED BY <3>1, <3>2
  <2> QED BY <2>1, <2>2 DEF ListSound
<1> QED BY <1>1, <1>2, <1>3, <1>4

\* A dialog goes on to another phase, with its canister if it has just made it.
LEMMA PhaseSound ==
    ASSUME NEW d, NEW g, DialogSound(d, g), d.phase # "none", NEW phase \in Phases
    PROVE  /\ DialogSound([d EXCEPT !.phase = phase], g)
           /\ \A c \in CanisterIds : d.kind = "create" =>
                 DialogSound([d EXCEPT !.phase = phase, !.id = c], g)
<1>1. d \in Dialogs /\ d.kind # "none"
  BY DEF DialogSound
<1>2. DialogSound([d EXCEPT !.phase = phase], g)
  <2> DEFINE e == [d EXCEPT !.phase = phase]
  <2>1. e \in Dialogs /\ e.kind = d.kind /\ e.id = d.id /\ e.from = d.from
    BY <1>1 DEF Dialogs
  <2> HIDE DEF e
  <2>2. DialogSound(e, g)
    BY <2>1 DEF DialogSound
  <2> QED BY <2>2 DEF e
<1>3. ASSUME NEW c \in CanisterIds, d.kind = "create"
      PROVE  DialogSound([d EXCEPT !.phase = phase, !.id = c], g)
  <2> DEFINE e == [d EXCEPT !.phase = phase, !.id = c]
  <2>1. e \in Dialogs /\ e.kind = "create"
    BY <1>1, <1>3 DEF Dialogs
  <2> HIDE DEF e
  <2>2. DialogSound(e, g)
    BY <2>1 DEF DialogSound
  <2> QED BY <2>2 DEF e
<1> QED BY <1>2, <1>3

\* The backend executes a call, or refuses it.
LEMMA ExecutesSound ==
    ASSUME PagesInv, NEW kind, NEW accepted, NEW after, Executes(kind, accepted, after),
           accepted => \A l \in after : ListSound(l)
    PROVE  PagesInv'
<1>1. UNCHANGED <<controllers, forced, store, page, selected, reads, given>>
  BY DEF Executes
<1>2. ListSound(linked') /\ LoadsSound(loads', forced) /\ DialogSound(dialog', given)
  <2>1. CASE accepted
    <3>1. PICK l \in after : ListIsNow(l)
      BY <2>1 DEF Executes
    <3>2. ListSound(l) /\ l \in Seq(NamedCanister)
      BY <2>1, <3>1 DEF ListSound
    <3>3. linked' = l /\ LoadsSound(loads', forced)
      BY <3>1, <3>2, ListChanged DEF PagesInv
    <3>4. dialog' = [dialog EXCEPT !.phase = "done"]
      BY <2>1 DEF Executes
    <3>5. "done" \in Phases /\ DialogSound(dialog, given) /\ dialog.phase # "none"
      BY DEF Phases, PagesInv, Executes
    <3>6. DialogSound(dialog', given)
      BY <3>4, <3>5, PhaseSound
    <3> QED BY <3>2, <3>3, <3>6
  <2>2. CASE ~accepted
    <3>1. dialog' = NoDialog /\ linked' = linked /\ loads' = loads
      BY <2>2 DEF Executes, CallFails
    <3> QED BY <3>1, NoneSound DEF PagesInv
  <2> QED BY <2>1, <2>2
<1>3. SettingsSound(controllers, given) /\ forced \in Forced
      /\ given \subseteq CanisterIds \X People
      /\ StoreSound(store) /\ PageSound(page) /\ SelectionSound(selected, given)
      /\ ReadsSound(reads, given)
  BY DEF PagesInv
<1> QED BY <1>1, <1>2, <1>3 DEF PagesInv

\* The backend executes attachCanister, renameCanister or detachCanister.
LEMMA CallsKeepPages ==
    ASSUME PagesInv, LinkExecutes \/ RenameExecutes \/ UnlinkExecutes
    PROVE  PagesInv'
<1>0. dialog.name \in RequestNames /\ ListSound(linked)
      /\ (dialog.kind \notin {"none", "create"} => dialog.id \in CanisterIds)
  BY DEF PagesInv, DialogSound, Dialogs
<1>1. CASE LinkExecutes
  <2>1. dialog.id \in CanisterIds
    BY <1>0, <1>1 DEF LinkExecutes, Executes
  <2>2. AttachIsSent /\ AttachIsOk =>
          \A l \in AfterAttach(linked, dialog.name, dialog.id) : ListSound(l)
    BY <1>0, <2>1, ListsLeft DEF AttachIsOk
  <2> QED BY <1>1, <2>2, ExecutesSound DEF LinkExecutes
<1>2. CASE RenameExecutes
  <2>1. dialog.id \in CanisterIds
    BY <1>0, <1>2 DEF RenameExecutes, Executes
  <2>2. RenameIsSent /\ RenameIsOk =>
          \A l \in AfterRename(linked, dialog.name, dialog.id) : ListSound(l)
    BY <1>0, <2>1, ListsLeft DEF RenameIsOk
  <2> QED BY <1>2, <2>2, ExecutesSound DEF RenameExecutes
<1>3. CASE UnlinkExecutes
  <2>1. dialog.id \in CanisterIds
    BY <1>0, <1>3 DEF UnlinkExecutes, Executes
  <2>2. DetachIsOk => \A l \in {AfterDetach(linked, dialog.id)} : ListSound(l)
    BY <1>0, <2>1, ListsLeft DEF DetachIsOk
  <2> QED BY <1>3, <2>2, ExecutesSound DEF UnlinkExecutes
<1> QED BY <1>1, <1>2, <1>3

\* A canister is created.
LEMMA CreateKeepsPages ==
    ASSUME PagesInv, NEW c \in Owned, CreateExecutes(c)
    PROVE  PagesInv'
<1>0. c \in CanisterIds /\ "me" \in People
  BY CanisterPagesAssumption
<1>1. UNCHANGED <<forced, store, page, selected, reads>>
  BY DEF CreateExecutes
<1>2. /\ given' = given \cup {<<c, "me">>} /\ given \subseteq given'
      /\ given' \subseteq CanisterIds \X People
  BY <1>0 DEF CreateExecutes, PagesInv
<1>3. /\ SettingsSound(controllers, given') /\ ReadsSound(reads, given')
      /\ SelectionSound(selected, given') /\ DialogSound(dialog, given')
  BY <1>2, ConfirmedForGood DEF PagesInv
<1>4. SettingsSound(controllers', given')
  <2>1. controllers' = [controllers EXCEPT ![c] = {"me"}]
    BY DEF CreateExecutes
  <2>2. Confirmed(c, {"me"}, given')
    BY <1>2 DEF Confirmed
  <2>3. {"me"} \in (SUBSET People) \cup {Unborn}
    BY <1>0
  <2> QED BY <1>3, <2>1, <2>2, <2>3 DEF SettingsSound
<1>5. dialog.name \in RequestNames /\ dialog.kind = "create" /\ ListSound(linked)
  BY DEF PagesInv, DialogSound, Dialogs, CreateExecutes
<1>6. PICK l : ListIsNow(l) /\ ListSound(l)
  <2>1. CASE AttachResponse(linked, dialog.name, c) = "Ok"
    <3>1. PICK l \in AfterAttach(linked, dialog.name, c) : ListIsNow(l)
      BY <2>1 DEF CreateExecutes
    <3>2. ListSound(l)
      BY <1>0, <1>5, <2>1, <3>1, ListsLeft
    <3> QED BY <3>1, <3>2
  <2>2. CASE AttachResponse(linked, dialog.name, c) # "Ok"
    <3>1. PICK l \in AfterNewlyCreated(linked, c) : ListIsNow(l)
      BY <2>2 DEF CreateExecutes
    <3>2. ListSound(l)
      BY <1>0, <1>5, <3>1, ListsLeft
    <3> QED BY <3>1, <3>2
  <2> QED BY <2>1, <2>2
<1>7. ListSound(linked') /\ LoadsSound(loads', forced)
  <2>1. l \in Seq(NamedCanister) /\ LoadsSound(loads, forced)
    BY <1>6 DEF ListSound, PagesInv
  <2> QED BY <1>6, <2>1, ListChanged
<1>8. DialogSound(dialog', given')
  <2>1. dialog' = [dialog EXCEPT !.phase = "done", !.id = c] \/ dialog' = NoDialog
    BY DEF CreateExecutes, CallFails
  <2>2. "done" \in Phases /\ dialog.phase # "none"
    BY DEF Phases, CreateExecutes
  <2>3. DialogSound([dialog EXCEPT !.phase = "done", !.id = c], given')
    BY <1>0, <1>3, <1>5, <2>2, PhaseSound
  <2> QED BY <2>1, <2>3, NoneSound
<1>9. forced \in Forced /\ StoreSound(store) /\ PageSound(page)
  BY DEF PagesInv
<1> QED BY <1>1, <1>2, <1>3, <1>4, <1>7, <1>8, <1>9 DEF PagesInv

\* updateSettings and topUpCanister
LEMMA SettingsKeepPages ==
    ASSUME PagesInv, SettingsExecute \/ CyclesExecute
    PROVE  PagesInv'
<1>1. UNCHANGED <<linked, forced, store, page, selected, loads, given>>
  BY DEF SettingsExecute, CyclesExecute
<1>2. DialogSound(dialog', given)
  <2>1. dialog' = [dialog EXCEPT !.phase = "done"] \/ dialog' = NoDialog
    BY DEF SettingsExecute, CyclesExecute, CallFails
  <2>2. "done" \in Phases /\ DialogSound(dialog, given) /\ dialog.phase # "none"
    BY DEF Phases, PagesInv, SettingsExecute, CyclesExecute
  <2>3. DialogSound([dialog EXCEPT !.phase = "done"], given)
    BY <2>2, PhaseSound
  <2>4. DialogSound(NoDialog, given)
    BY NoneSound
  <2> QED BY <2>1, <2>3, <2>4
<1>3. SettingsSound(controllers', given) /\ ReadsSound(reads', given)
  <2>0. SettingsSound(controllers, given) /\ ReadsSound(reads, given)
    BY DEF PagesInv
  <2>1. CASE UNCHANGED <<controllers, reads>>
    BY <2>0, <2>1
  <2>2. CASE ~UNCHANGED <<controllers, reads>>
    <3>1. dialog.kind \in {"add", "remove"} /\ ControllersAreNow(dialog.id, dialog.from)
      BY <2>2 DEF SettingsExecute, CyclesExecute
    <3>2. /\ dialog.id \in CanisterIds /\ dialog.from \in SUBSET People
          /\ {dialog.id} \X dialog.from \subseteq given
      BY <3>1 DEF PagesInv, DialogSound, Dialogs
    <3> QED BY <2>0, <3>1, <3>2, SettingsChanged
  <2> QED BY <2>1, <2>2
<1>4. ListSound(linked) /\ forced \in Forced /\ given \subseteq CanisterIds \X People
      /\ StoreSound(store) /\ PageSound(page) /\ SelectionSound(selected, given)
      /\ LoadsSound(loads, forced)
  BY DEF PagesInv
<1> QED BY <1>1, <1>2, <1>3, <1>4 DEF PagesInv

\* The answer of a call arrives, or it failed.
LEMMA AnswersKeepPages ==
    ASSUME PagesInv, ListCallAnswers \/ SettingsAnswer \/ CallIsLost
    PROVE  PagesInv'
<1>0. /\ DialogSound(dialog, given) /\ "list" \in Phases /\ "reload" \in Phases
  BY DEF Phases, PagesInv
<1>1. ListSound(linked) /\ SettingsSound(controllers, given) /\ forced \in Forced
      /\ given \subseteq CanisterIds \X People
      /\ StoreSound(store) /\ PageSound(page) /\ SelectionSound(selected, given)
      /\ LoadsSound(loads, forced) /\ ReadsSound(reads, given)
  BY DEF PagesInv
<1>2. CASE ListCallAnswers
  <2>1. UNCHANGED <<linked, controllers, forced, store, page, selected, reads, given>>
    BY <1>2 DEF ListCallAnswers
  <2>2. dialog' = [dialog EXCEPT !.phase = "list"] /\ loads' = QueryCanisters(loads, "op")
    BY <1>2 DEF ListCallAnswers, ReloadsList
  <2>3. LoadsSound(loads', forced)
    BY <1>1, <2>2, ListAsked DEF ListSound
  <2>4. DialogSound(dialog', given)
    <3>1. dialog.phase # "none"
      BY <1>2 DEF ListCallAnswers
    <3> QED BY <1>0, <2>2, <3>1, PhaseSound
  <2> QED BY <1>1, <2>1, <2>3, <2>4 DEF PagesInv
<1>3. CASE SettingsAnswer
  <2> DEFINE rs == QueryCanisterDetails(reads, "op", dialog.id)
  <2>1. UNCHANGED <<linked, controllers, forced, store, page, loads, given>>
    BY <1>3 DEF SettingsAnswer
  <2>2. dialog' = [dialog EXCEPT !.phase = "reload"]
    BY <1>3 DEF SettingsAnswer
  <2>3. DialogSound(dialog', given)
    <3>1. dialog.phase # "none"
      BY <1>3 DEF SettingsAnswer
    <3> QED BY <1>0, <2>2, <3>1, PhaseSound
  <2>4. dialog.id \in CanisterIds
    <3>1. dialog.phase = "done" /\ dialog.kind \notin ListKinds
      BY <1>3 DEF SettingsAnswer
    <3> QED BY <1>0, <3>1 DEF ListKinds, DialogSound
  <2>5. ReadsSound(rs, given)
    BY <1>1, <2>4, DetailsAsked
  <2> HIDE DEF rs
  <2>6. SelectionSound(selected', given) /\ ReadsSound(reads', given)
    <3>1. CASE IsRoute("canister")
      <4>1. reads' = rs /\ selected' = [selected EXCEPT !.loading = TRUE]
        BY <1>3, <3>1 DEF SettingsAnswer, rs
      <4>2. selected' \in Selections /\ selected'.details = selected.details
        BY <1>1, <4>1 DEF SelectionSound, Selections
      <4> QED BY <1>1, <2>5, <4>1, <4>2 DEF SelectionSound
    <3>2. CASE ~IsRoute("canister")
      <4>1. reads' = [s \in DOMAIN rs |-> [rs[s] EXCEPT !.here = FALSE]] /\ selected' = selected
        BY <1>3, <3>2 DEF SettingsAnswer, rs
      <4>2. ASSUME NEW s \in 1 .. MaxReads PROVE ReadSound(reads'[s], given)
        <5>1. ReadSound(rs[s], given) /\ s \in DOMAIN rs
          BY <2>5 DEF ReadsSound
        <5>2. reads'[s] = [rs[s] EXCEPT !.here = FALSE]
          BY <4>1, <5>1
        <5>3. rs[s] \in Reads
          BY <5>1 DEF ReadSound
        <5>4. /\ reads'[s] \in Reads /\ reads'[s].id = rs[s].id /\ reads'[s].seen = rs[s].seen
          BY <5>2, <5>3 DEF Reads
        <5>5. rs[s] = NoRead => reads'[s] = NoRead
          <6>1. \A r \in Reads : ~r.here => [r EXCEPT !.here = FALSE] = r
            BY DEF Reads
          <6>2. ~NoRead.here
            BY DEF NoRead
          <6> QED BY <5>2, <5>3, <6>1, <6>2
        <5> QED BY <5>1, <5>4, <5>5 DEF ReadSound
      <4>3. reads' = [s \in 1 .. MaxReads |-> reads'[s]]
        BY <2>5, <4>1 DEF ReadsSound
      <4>4. ReadsSound(reads', given)
        BY <4>2, <4>3, EachIsSound
      <4> QED BY <1>1, <4>1, <4>4
    <3> QED BY <3>1, <3>2
  <2> QED BY <1>1, <2>1, <2>3, <2>6 DEF PagesInv
<1>4. CASE CallIsLost
  <2>1. UNCHANGED <<linked, controllers, forced, store, page, selected, loads, reads, given>>
        /\ dialog' = NoDialog
    BY <1>4 DEF CallIsLost, CallFails
  <2>2. DialogSound(dialog', given)
    BY <2>1, NoneSound
  <2> QED BY <1>1, <2>1, <2>2 DEF PagesInv
<1> QED BY <1>2, <1>3, <1>4

\* Another tab or another tool
LEMMA ElsewhereKeepsPages ==
    ASSUME PagesInv, Elsewhere
    PROVE  PagesInv'
<1>1. UNCHANGED <<forced, store, page, selected, dialog>>
  BY DEF Elsewhere
<1>2. CASE \E c \in {x.id : x \in Elems(linked)} : ListIsNow(AfterDetach(linked, c))
           /\ UNCHANGED <<controllers, reads, given>>
  <2>1. PICK c \in {x.id : x \in Elems(linked)} : ListIsNow(AfterDetach(linked, c))
    BY <1>2
  <2>2. c \in CanisterIds /\ Has(linked, c)
    <3>1. PICK x \in Elems(linked) : x.id = c
      OBVIOUS
    <3>2. x \in NamedCanister
      BY DEF PagesInv, ListSound, Elems
    <3> QED BY <3>1, <3>2 DEF NamedCanister, Has
  <2>3. ListSound(AfterDetach(linked, c))
    <3>1. EmptyName \in RequestNames
      BY CanisterListAssumption DEF EmptyName, RequestNames, Names
    <3> QED BY <2>2, <3>1, ListsLeft DEF PagesInv
  <2>4. linked' = AfterDetach(linked, c) /\ LoadsSound(loads', forced)
    BY <2>1, <2>3, ListChanged DEF PagesInv, ListSound
  <2> QED BY <1>1, <1>2, <2>3, <2>4 DEF PagesInv
<1>3. ASSUME NEW c \in CanisterIds, NEW p \in People, controllers[c] # Unborn,
             ControllersAreNow(c, controllers[c] \cup {p}), given' = given \cup {<<c, p>>},
             UNCHANGED <<linked, loads>>
      PROVE  PagesInv'
  <2>1. given \subseteq given' /\ given' \subseteq CanisterIds \X People
    BY <1>3 DEF PagesInv
  <2>2. /\ SettingsSound(controllers, given') /\ ReadsSound(reads, given')
        /\ SelectionSound(selected, given') /\ DialogSound(dialog, given')
    BY <2>1, ConfirmedForGood DEF PagesInv
  <2>3. /\ controllers[c] \cup {p} \in SUBSET People
        /\ {c} \X (controllers[c] \cup {p}) \subseteq given'
    <3>1. controllers[c] \in SUBSET People /\ {c} \X controllers[c] \subseteq given'
      BY <1>3, <2>2 DEF SettingsSound, Confirmed
    <3> QED BY <1>3, <3>1
  <2>4. ReadsSound(reads', given') /\ SettingsSound(controllers', given')
    BY <1>3, <2>2, <2>3, SettingsChanged
  <2> QED BY <1>1, <1>3, <2>1, <2>2, <2>4 DEF PagesInv
<1> QED BY <1>2, <1>3 DEF Elsewhere

\* The pages start out sound ...
LEMMA PagesInitInv == PagesInit => PagesInv
<1> SUFFICES ASSUME PagesInit PROVE PagesInv
  OBVIOUS
<1>1. PICK c \in Owned, d \in Owned :
        /\ c < d
        /\ \/ /\ linked = <<[name |-> EmptyName, id |-> c]>>
              /\ controllers = [x \in CanisterIds |-> IF x = c THEN {"me"} ELSE Unborn]
           \/ /\ linked = <<[name |-> EmptyName, id |-> c], [name |-> EmptyName, id |-> d]>>
              /\ \E s \in {{"me"}, People \ {"me"}} :
                    controllers = [x \in CanisterIds |-> IF x = c THEN {"me"}
                                                        ELSE IF x = d THEN s ELSE Unborn]
  BY DEF PagesInit
<1>2. c \in CanisterIds /\ d \in CanisterIds /\ c \in Nat /\ d \in Nat /\ EmptyName \in Names
      /\ "me" \in People
  BY CanisterListAssumption, CanisterPagesAssumption DEF EmptyName, Names
<1>3. ListSound(linked)
  <2> DEFINE first == [name |-> EmptyName, id |-> c]
             second == [name |-> EmptyName, id |-> d]
  <2>1. /\ first \in NamedCanister /\ second \in NamedCanister
        /\ first.id # second.id /\ CanisterLE(first, second)
        /\ first.name = EmptyName
    BY <1>1, <1>2 DEF NamedCanister, CanisterLE
  <2>2. linked = <<first>> \/ linked = <<first, second>>
    BY <1>1
  <2> HIDE DEF first, second
  <2>3. CASE linked = <<first>>
    <3>1. linked \in Seq(NamedCanister) /\ DOMAIN linked = {1}
      BY <2>1, <2>3
    <3>2. \A i, j \in DOMAIN linked : ~(i < j)
      BY <3>1
    <3> QED BY <3>1, <3>2 DEF ListSound, SoundList
  <2>4. CASE linked = <<first, second>>
    <3>1. /\ linked \in Seq(NamedCanister) /\ DOMAIN linked = {1, 2}
          /\ linked[1] = first /\ linked[2] = second
      BY <2>1, <2>4
    <3>2. \A i, j \in DOMAIN linked : i < j => i = 1 /\ j = 2
      BY <3>1
    <3> QED BY <2>1, <3>1, <3>2 DEF ListSound, SoundList
  <2> QED BY <2>2, <2>3, <2>4
<1>4. controllers \in [CanisterIds -> (SUBSET People) \cup {Unborn}]
  BY <1>1, <1>2
<1>5. given = {x \in CanisterIds \X People : x[2] \in controllers[x[1]]}
  BY DEF PagesInit
<1>6. SettingsSound(controllers, given)
  <2>1. ASSUME NEW e \in CanisterIds PROVE Confirmed(e, controllers[e], given)
    <3>1. controllers[e] # Unborn => controllers[e] \in SUBSET People
      BY <1>4
    <3> QED BY <1>5, <3>1 DEF Confirmed
  <2> QED BY <1>4, <2>1 DEF SettingsSound
<1>7. LoadsSound(loads, forced) /\ ReadsSound(reads, given)
  <2>1. forced \in Forced /\ loads = [s \in 1 .. MaxLoads |-> NoLoad]
        /\ reads = [s \in 1 .. MaxReads |-> NoRead]
    BY DEF PagesInit
  <2>2. /\ loads = [s \in 1 .. MaxLoads |-> loads[s]] /\ reads = [s \in 1 .. MaxReads |-> reads[s]]
        /\ \A s \in 1 .. MaxLoads : loads[s] = NoLoad
        /\ \A s \in 1 .. MaxReads : reads[s] = NoRead
    BY <2>1
  <2>3. /\ \A s \in 1 .. MaxLoads : LoadSound(loads[s], forced)
        /\ \A s \in 1 .. MaxReads : ReadSound(reads[s], given)
    BY <2>1, <2>2, NoneSound
  <2> QED BY <2>2, <2>3, EachIsSound
<1>8. /\ forced \in Forced /\ StoreSound(store) /\ PageSound(page)
      /\ SelectionSound(selected, given) /\ DialogSound(dialog, given)
  BY NoneSound DEF PagesInit
<1> QED BY <1>3, <1>5, <1>6, <1>7, <1>8 DEF PagesInv

\* ... and every step keeps them so.
LEMMA PagesNextInv == PagesInv /\ [PagesNext]_pagesVars => PagesInv'
<1> SUFFICES ASSUME PagesInv, [PagesNext]_pagesVars PROVE PagesInv'
  OBVIOUS
<1>1. CASE Browser
  <2>1. ASSUME NEW s \in DOMAIN loads, NEW isCertified \in BOOLEAN,
               ListAnswers(s, isCertified) \/ ListFails(s, isCertified)
        PROVE  PagesInv'
    BY <2>1, ListAnswersKeepPages
  <2>2. ASSUME NEW s \in DOMAIN reads, DetailsAnswer(s) \/ DetailsFail(s) PROVE PagesInv'
    BY <2>2, DetailsKeepPages
  <2>3. CASE GoBack
    BY <2>3, NavigationKeepsPages
  <2>4. CASE NotifyAnswers
    BY <2>4, NotifyKeepsPages
  <2>5. CASE LinkExecutes \/ RenameExecutes \/ UnlinkExecutes
    BY <2>5, CallsKeepPages
  <2>6. CASE SettingsExecute \/ CyclesExecute
    BY <2>6, SettingsKeepPages
  <2>7. ASSUME NEW c \in Owned, CreateExecutes(c) PROVE PagesInv'
    BY <2>7, CreateKeepsPages
  <2>8. CASE ListCallAnswers \/ SettingsAnswer \/ CallIsLost
    BY <2>8, AnswersKeepPages
  <2> QED BY <1>1, <2>1, <2>2, <2>3, <2>4, <2>5, <2>6, <2>7, <2>8 DEF Browser
<1>2. CASE User
  <2>1. CASE Elsewhere
    BY <2>1, ElsewhereKeepsPages
  <2>2. CASE OpenCanisters \/ Leave \/ \E c \in Owned : OpenCanister(c) \/ SwitchCanister(c)
    BY <2>2, NavigationKeepsPages
  <2>3. CASE \/ UnlinkCanisterModal
             \/ \E cycles \in 0 .. 2 : AddCyclesModal(cycles)
             \/ \E n \in Typed :
                   \/ RenameCanisterModal(n)
                   \/ \E cycles \in 0 .. 2 : CreateCanisterModal(n, cycles)
                   \/ \E c \in Owned : LinkCanisterModal(c, n)
             \/ \E p \in People : NewControllerReview(p) \/ RemoveCanisterControllerModal(p)
    BY <2>3, DialogsKeepPages
  <2> QED BY <1>2, <2>1, <2>2, <2>3 DEF User
<1>3. CASE UNCHANGED pagesVars
  BY <1>3 DEF pagesVars, PagesInv
<1> QED BY <1>1, <1>2, <1>3 DEF PagesNext

\* The invariant says what a canister's settings may be.
LEMMA PagesInvGivesSettings == PagesInv => SettingsAreSound
<1> SUFFICES ASSUME PagesInv PROVE SettingsAreSound
  OBVIOUS
<1>1. loads \in [1 .. MaxLoads -> Loads]
  BY DEF PagesInv, LoadsSound
<1>2. reads \in [1 .. MaxReads -> Reads]
  BY DEF PagesInv, ReadsSound
<1>3. PagesTypeOK
  <2>1. /\ linked \in Seq(NamedCanister) /\ selected \in Selections /\ dialog \in Dialogs
        /\ page \in [path : Paths, id : CanisterIds \cup {Nothing}]
        /\ store \in Seq(Seq(NamedCanister))
        /\ controllers \in [CanisterIds -> (SUBSET People) \cup {Unborn}]
        /\ forced \in Forced /\ given \subseteq CanisterIds \X People
    BY DEF PagesInv, ListSound, SelectionSound, DialogSound, PageSound, StoreSound,
           SettingsSound
  <2> QED BY <1>1, <1>2, <2>1 DEF PagesTypeOK
<1>4. ControllersWereConfirmed
  BY DEF PagesInv, SettingsSound, Confirmed, ControllersWereConfirmed
<1> QED BY <1>3, <1>4 DEF SettingsAreSound

\* Whatever order the details of several canisters arrive in, and whatever another tab does
\* meanwhile, no canister gets a controller that was not confirmed for it (updateSettings).
THEOREM SettingsSafe == PagesSpec => []SettingsAreSound
<1>1. PagesSpec => []PagesInv
  BY PagesInitInv, PagesNextInv, PTL DEF PagesSpec
<1> QED BY <1>1, PagesInvGivesSettings, PTL
-----------------------------------------------------------------------------
(***************************************************************************)
(* CanisterPages: what a dialog that reports success did is shown.         *)
(***************************************************************************)

\* The calls of get_canisters that a dialog sent and that are not answered at all, and the
\* calls of canister_status that a dialog sent
Awaited(ls, f) == {s \in DOMAIN ls : ls[s].by = "op" /\ ls[s].request.waiting = CallsOf(f)}
OpReads(rs) == {r \in DOMAIN rs : rs[r].by = "op"}
AtMostOne(S) == \A s, t \in S : s = t

\* Only the dialog that works waits for a call, and for one of them.
OneAwaited ==
    /\ Awaited(loads, forced) # {} => dialog.phase = "list"
    /\ AtMostOne(Awaited(loads, forced))
    /\ OpReads(reads) # {} => dialog.phase = "reload"
    /\ AtMostOne(OpReads(reads))

\* What a dialog did is in the list and in every list that its call may return.
DoneIsListed ==
    elsewhere = 0 =>
        /\ dialog.phase = "done" /\ dialog.kind \in ListKinds => ShownIn(linked, dialog)
        /\ \A s \in Awaited(loads, forced) : \A l \in loads[s].seen : ShownIn(l, dialog)

\* The inductive invariant behind SuccessIsShown
Waiting == elsewhere \in Nat /\ failures \in Nat /\ OneAwaited /\ DoneIsListed

\* A step after which as much is waited for, or less
Quiet ==
    /\ UNCHANGED <<dialog, linked, elsewhere, forced>>
    /\ Awaited(loads', forced) \subseteq Awaited(loads, forced)
    /\ \A s \in Awaited(loads', forced) : loads'[s].seen = loads[s].seen
    /\ OpReads(reads') \subseteq OpReads(reads)

\* A step after which nothing is waited for
Idle ==
    /\ Awaited(loads', forced') = {} /\ OpReads(reads') = {}
    /\ dialog'.phase = "done" /\ dialog'.kind \in ListKinds => ShownIn(linked', dialog')

\* Both keep the invariant.
LEMMA QuietOrIdle ==
    ASSUME Waiting, Quiet \/ Idle, elsewhere' \in Nat, failures' \in Nat
    PROVE  Waiting'
<1>1. CASE Quiet
  <2>1. OneAwaited'
    BY <1>1 DEF Waiting, Quiet, OneAwaited, AtMostOne
  <2>2. DoneIsListed'
    BY <1>1 DEF Waiting, Quiet, DoneIsListed
  <2> QED BY <2>1, <2>2 DEF Waiting
<1>2. CASE Idle
  <2>1. OneAwaited'
    BY <1>2 DEF Idle, OneAwaited, AtMostOne
  <2>2. DoneIsListed'
    BY <1>2 DEF Idle, DoneIsListed
  <2> QED BY <2>1, <2>2 DEF Waiting
<1> QED BY <1>1, <1>2

\* Nothing is waited for but in the last phases of a dialog.
LEMMA NothingAwaited ==
    ASSUME Waiting, dialog.phase \in {"none", "call", "done"}
    PROVE  Awaited(loads, forced) = {} /\ OpReads(reads) = {}
BY DEF Waiting, OneAwaited

\* Free slots are not waited for, and the page does not wait.
LEMMA AskedByPage ==
    /\ \A ls, f : /\ Awaited(QueryCanisters(ls, "page"), f) \subseteq Awaited(ls, f)
                  /\ \A s \in Awaited(QueryCanisters(ls, "page"), f) :
                        QueryCanisters(ls, "page")[s] = ls[s]
    /\ \A rs, c : OpReads(QueryCanisterDetails(rs, "page", c)) \subseteq OpReads(rs)
    /\ OpReads(Orphaned) \subseteq OpReads(reads)
<1>1. ASSUME NEW ls, NEW f, NEW s \in Awaited(QueryCanisters(ls, "page"), f)
      PROVE  s \in Awaited(ls, f) /\ QueryCanisters(ls, "page")[s] = ls[s]
  <2> DEFINE new == [by |-> "page", request |-> Sent(forced), seen |-> {linked}]
             qs == QueryCanisters(ls, "page")
  <2>1. s \in DOMAIN ls /\ (qs[s] = ls[s] \/ qs[s] = new)
    BY DEF Awaited, QueryCanisters
  <2>2. qs[s].by = "op" /\ new.by = "page"
    BY DEF Awaited
  <2> HIDE DEF new
  <2> QED BY <2>1, <2>2 DEF Awaited
<1>2. ASSUME NEW rs, NEW c, NEW r \in OpReads(QueryCanisterDetails(rs, "page", c))
      PROVE  r \in OpReads(rs)
  <2> DEFINE new == [by |-> "page", id |-> c, here |-> TRUE, seen |-> {controllers[c]}]
             qs == QueryCanisterDetails(rs, "page", c)
  <2>1. r \in DOMAIN rs /\ (qs[r] = rs[r] \/ qs[r] = new)
    BY DEF OpReads, QueryCanisterDetails
  <2>2. qs[r].by = "op" /\ new.by = "page"
    BY DEF OpReads
  <2> HIDE DEF new, qs
  <2> QED BY <2>1, <2>2 DEF OpReads
<1>3. ASSUME NEW r \in OpReads(Orphaned) PROVE r \in OpReads(reads)
  <2>1. r \in DOMAIN reads /\ Orphaned[r].by = "op"
    BY DEF OpReads, Orphaned
  <2>2. Orphaned[r] # NoRead
    BY <2>1 DEF NoRead
  <2>3. Orphaned[r] = [reads[r] EXCEPT !.here = FALSE]
    BY <2>1, <2>2 DEF Orphaned
  <2>4. reads[r].by = "op"
    BY <2>1, <2>3
  <2> QED BY <2>1, <2>4 DEF OpReads
<1> QED BY <1>1, <1>2, <1>3

\* Neither does a page that reacts.
LEMMA ReactAsks ==
    ASSUME NEW sel, NEW p, NEW st, NEW rs, React(sel, p, st, rs)
    PROVE  OpReads(reads') \subseteq OpReads(rs)
<1>1. reads' = rs \/ reads' = QueryCanisterDetails(rs, "page", p.id)
  BY DEF React
<1> QED BY <1>1, AskedByPage

\* The list, when it is opened
LEMMA CanistersPageAsks ==
    ASSUME NEW st, NEW ls, CanistersPage(st, ls), NEW f
    PROVE  /\ Awaited(loads', f) \subseteq Awaited(ls, f)
           /\ \A s \in Awaited(loads', f) : loads'[s] = ls[s]
           /\ OpReads(reads') \subseteq OpReads(reads)
<1>1. reads' = Orphaned /\ (loads' = ls \/ loads' = QueryCanisters(ls, "page"))
  BY DEF CanistersPage
<1> QED BY <1>1, AskedByPage

\* The user goes from page to page.
LEMMA NavigationIsQuiet ==
    ASSUME \/ OpenCanisters \/ GoBack \/ Leave
           \/ \E c \in Owned : OpenCanister(c) \/ SwitchCanister(c)
    PROVE  Quiet /\ UNCHANGED failures
<1>1. CASE OpenCanisters \/ GoBack
  <2>1. CanistersPage(store, loads) /\ UNCHANGED <<dialog, linked, elsewhere, forced, failures>>
    BY <1>1 DEF OpenCanisters, GoBack, bounds
  <2> QED BY <2>1, CanistersPageAsks DEF Quiet
<1>2. CASE Leave
  <2>1. reads' = Orphaned /\ UNCHANGED <<dialog, linked, elsewhere, forced, loads, failures>>
    BY <1>2 DEF Leave
  <2> QED BY <2>1, AskedByPage DEF Quiet
<1>3. ASSUME NEW c \in Owned, OpenCanister(c) PROVE Quiet /\ UNCHANGED failures
  <2>1. /\ React(NoSelection, page', store, Orphaned)
        /\ UNCHANGED <<dialog, linked, elsewhere, forced, failures>>
        /\ loads' = loads \/ loads' = QueryCanisters(loads, "page")
    BY <1>3 DEF OpenCanister
  <2>2. OpReads(reads') \subseteq OpReads(reads)
    BY <2>1, ReactAsks, AskedByPage
  <2> QED BY <2>1, <2>2, AskedByPage DEF Quiet
<1>4. ASSUME NEW c \in Owned, SwitchCanister(c) PROVE Quiet /\ UNCHANGED failures
  <2>1. /\ React(selected, page', store, reads)
        /\ UNCHANGED <<dialog, linked, elsewhere, forced, loads, failures>>
    BY <1>4 DEF SwitchCanister
  <2> QED BY <2>1, ReactAsks DEF Quiet
<1> QED BY <1>1, <1>2, <1>3, <1>4

\* An answer to a dialog is the last that it waits for.
LEMMA RemainingAwaited ==
    ASSUME LoadsSound(loads, forced), NEW s \in DOMAIN loads,
           NEW isCertified \in loads[s].request.waiting
    PROVE  /\ Awaited(Remaining(s, isCertified), forced) \subseteq Awaited(loads, forced) \ {s}
           /\ \A t \in Awaited(Remaining(s, isCertified), forced) :
                 Remaining(s, isCertified)[t] = loads[t]
<1> DEFINE r == Answered(loads[s].request, isCertified)
           left == Remaining(s, isCertified)
<1>1. LoadSound(loads[s], forced)
  BY DEF LoadsSound
<1>2. loads[s] \in Loads /\ loads[s].request \in Requests
  BY <1>1 DEF LoadSound, Loads
<1>3. r.waiting = loads[s].request.waiting \ {isCertified}
  BY <1>2 DEF Answered, Requests
<1>4. r.waiting # CallsOf(forced)
  BY <1>1, <1>3 DEF LoadSound
<1>5. left = [loads EXCEPT ![s] = IF r.waiting = {} THEN NoLoad
                                   ELSE [loads[s] EXCEPT !.request = r]]
  BY DEF Remaining
<1>6. [loads[s] EXCEPT !.request = r].request = r
  BY <1>2 DEF Loads
<1> HIDE DEF left, r
<1>7. left[s] = NoLoad \/ left[s].request = r
  BY <1>5, <1>6
<1>8. s \notin Awaited(left, forced)
  <2>1. NoLoad.by # "op"
    BY DEF NoLoad
  <2> QED BY <1>4, <1>7, <2>1 DEF Awaited
<1>9. \A t \in DOMAIN loads : t # s => left[t] = loads[t]
  BY <1>5
<1>10. DOMAIN left = DOMAIN loads
  BY <1>5
<1>11. /\ Awaited(left, forced) \subseteq Awaited(loads, forced) \ {s}
       /\ \A t \in Awaited(left, forced) : left[t] = loads[t]
  BY <1>8, <1>9, <1>10 DEF Awaited
<1> QED BY <1>11 DEF left

\* One of the two calls of a load is answered or fails, and the dialog that waits for it ends.
LEMMA ContinueKeepsWaiting ==
    ASSUME Waiting, LoadsSound(loads, forced), NEW s \in DOMAIN loads, NEW isCertified, NEW st,
           Continue(s, isCertified, st), failures' \in Nat
    PROVE  Waiting'
<1>1. isCertified \in loads[s].request.waiting /\ UNCHANGED <<linked, forced, elsewhere>>
  BY DEF Continue
<1> DEFINE left == Remaining(s, isCertified)
<1>2. /\ Awaited(left, forced) \subseteq Awaited(loads, forced) \ {s}
      /\ \A t \in Awaited(left, forced) : left[t] = loads[t]
  BY <1>1, RemainingAwaited
<1> HIDE DEF left
<1>3. /\ Awaited(loads', forced) \subseteq Awaited(left, forced)
      /\ \A t \in Awaited(loads', forced) : loads'[t] = left[t]
      /\ OpReads(reads') \subseteq OpReads(reads)
  <2>1. CASE CanistersPage(st, left)
    BY <2>1, CanistersPageAsks
  <2>2. CASE ~CanistersPage(st, left)
    <3>1. loads' = left
      BY <2>2 DEF Continue, left
    <3>2. reads' = reads \/ React(selected, page, st, reads)
      BY <2>2 DEF Continue, left
    <3> QED BY <3>1, <3>2, ReactAsks
  <2> QED BY <2>1, <2>2
<1>4. CASE IsAwaited(s)
  <2>1. s \in Awaited(loads, forced) /\ dialog.phase = "list"
    BY <1>4 DEF IsAwaited, Awaited
  <2>2. Awaited(loads', forced) = {} /\ OpReads(reads') = {}
    BY <1>2, <1>3, <2>1 DEF Waiting, OneAwaited, AtMostOne
  <2>3. dialog'.phase = "none"
    BY <1>4 DEF Continue, Ends, NoDialog
  <2>4. Idle
    BY <1>1, <2>2, <2>3 DEF Idle
  <2>5. elsewhere' \in Nat
    BY <1>1 DEF Waiting
  <2> QED BY <2>4, <2>5, QuietOrIdle
<1>5. CASE ~IsAwaited(s)
  <2>1. dialog' = dialog
    BY <1>5 DEF Continue
  <2>2. Quiet
    BY <1>1, <1>2, <1>3, <2>1 DEF Quiet
  <2>3. elsewhere' \in Nat
    BY <1>1 DEF Waiting
  <2> QED BY <2>2, <2>3, QuietOrIdle
<1> QED BY <1>4, <1>5

\* An answer of canister_status, or its failure
LEMMA ReadKeepsWaiting ==
    ASSUME Waiting, NEW s \in DOMAIN reads, NEW answer, ReadEnds(s, answer), failures' \in Nat
    PROVE  Waiting'
<1>1. reads' = [reads EXCEPT ![s] = NoRead] /\ UNCHANGED <<linked, forced, loads, elsewhere>>
  BY DEF ReadEnds
<1>2. OpReads(reads') \subseteq OpReads(reads) \ {s}
  <2>1. NoRead.by # "op"
    BY DEF NoRead
  <2> QED BY <1>1, <2>1 DEF OpReads
<1>3. elsewhere' \in Nat
  BY <1>1 DEF Waiting
<1>4. CASE reads[s].by = "op"
  <2>1. s \in OpReads(reads)
    BY <1>4 DEF OpReads
  <2>2. OpReads(reads') = {} /\ dialog.phase = "reload"
    BY <1>2, <2>1 DEF Waiting, OneAwaited, AtMostOne
  <2>3. Awaited(loads', forced') = {}
    BY <1>1, <2>2 DEF Waiting, OneAwaited
  <2>4. dialog'.phase = "none"
    BY <1>4 DEF ReadEnds, Ends, NoDialog
  <2>5. Idle
    BY <2>2, <2>3, <2>4 DEF Idle
  <2> QED BY <1>3, <2>5, QuietOrIdle
<1>5. CASE reads[s].by # "op"
  <2>1. dialog' = dialog
    BY <1>5 DEF ReadEnds
  <2>2. Quiet
    BY <1>1, <1>2, <2>1 DEF Quiet
  <2> QED BY <1>3, <2>2, QuietOrIdle
<1> QED BY <1>4, <1>5

\* Calls on their way when the list or the settings change are waited for as before.
LEMMA ChangesAreQuiet ==
    /\ \A l : LoadsSound(loads, forced) /\ ListIsNow(l) =>
          Awaited(loads', forced) = Awaited(loads, forced)
    /\ \A g, c, s : ReadsSound(reads, g) /\ ControllersAreNow(c, s) =>
          OpReads(reads') = OpReads(reads)
<1>1. ASSUME LoadsSound(loads, forced), NEW l, ListIsNow(l)
      PROVE  Awaited(loads', forced) = Awaited(loads, forced)
  <2>1. DOMAIN loads' = DOMAIN loads
    BY <1>1 DEF ListIsNow
  <2>2. ASSUME NEW t \in DOMAIN loads
        PROVE  loads'[t].by = loads[t].by /\ loads'[t].request = loads[t].request
    <3>1. loads[t] \in Loads
      BY <1>1 DEF LoadsSound
    <3>2. loads'[t] = loads[t] \/ loads'[t] = [loads[t] EXCEPT !.seen = @ \cup {l}]
      BY <1>1 DEF ListIsNow
    <3> QED BY <3>1, <3>2 DEF Loads
  <2> QED BY <2>1, <2>2 DEF Awaited
<1>2. ASSUME NEW g, ReadsSound(reads, g), NEW c, NEW s, ControllersAreNow(c, s)
      PROVE  OpReads(reads') = OpReads(reads)
  <2>1. DOMAIN reads' = DOMAIN reads
    BY <1>2 DEF ControllersAreNow
  <2>2. ASSUME NEW t \in DOMAIN reads PROVE reads'[t].by = reads[t].by
    <3>1. reads[t] \in Reads
      BY <1>2 DEF ReadsSound
    <3>2. reads'[t] = reads[t] \/ reads'[t] = [reads[t] EXCEPT !.seen = @ \cup {s}]
      BY <1>2 DEF ControllersAreNow
    <3> QED BY <3>1, <3>2 DEF Reads
  <2> QED BY <2>1, <2>2 DEF OpReads
<1> QED BY <1>1, <1>2

\* What a call that succeeds leaves shows it.
LEMMA ShownAfterCall ==
    ASSUME NEW l, ListSound(l), NEW d, d.name \in RequestNames, d.id \in CanisterIds
    PROVE  /\ d.kind \in {"link", "create"} /\ AttachResponse(l, d.name, d.id) = "Ok" =>
                 \A r \in AfterAttach(l, d.name, d.id) : ShownIn(r, d)
           /\ d.kind = "rename" /\ RenameResponse(l, d.name, d.id) = "Ok" =>
                 \A r \in AfterRename(l, d.name, d.id) : ShownIn(r, d)
           /\ d.kind = "unlink" /\ Has(l, d.id) => ShownIn(AfterDetach(l, d.id), d)
<1> DEFINE new == [name |-> d.name, id |-> d.id]
<1>0. l \in Seq(NamedCanister) /\ SoundList(l) /\ new.id = d.id /\ new.name = d.name
  BY DEF ListSound
<1>1. ASSUME d.kind \in {"link", "create"}, AttachResponse(l, d.name, d.id) = "Ok",
             NEW r \in AfterAttach(l, d.name, d.id)
      PROVE  ShownIn(r, d)
  <2>1. d.name \in Names
    BY <1>0, <1>1, AttachAllowed
  <2>2. new \in Elems(r)
    BY <1>0, <1>1, <2>1, AttachedList
  <2> HIDE DEF new
  <2> QED BY <1>0, <1>1, <2>2 DEF ShownIn, Has
<1>2. ASSUME d.kind = "rename", RenameResponse(l, d.name, d.id) = "Ok",
             NEW r \in AfterRename(l, d.name, d.id)
      PROVE  ShownIn(r, d)
  <2>1. d.name \in Names /\ Has(l, d.id)
    BY <1>2, ValidNames DEF RenameResponse
  <2>2. new \in Elems(r)
    BY <1>0, <1>2, <2>1, RenamedList
  <2> HIDE DEF new
  <2> QED BY <1>0, <1>2, <2>2 DEF ShownIn
<1>3. ASSUME d.kind = "unlink", Has(l, d.id) PROVE ShownIn(AfterDetach(l, d.id), d)
  <2> DEFINE k == FindCanisterIndex(l, d.id)
             r == Remove(l, k)
             from(i) == IF i < k THEN i ELSE i + 1
  <2>1. k \in DOMAIN l /\ l[k].id = d.id
    BY <1>0, <1>3, CanisterIndex
  <2>2. \A i, j \in DOMAIN l : i # j => l[i].id # l[j].id
    BY <1>0, SoundIsDistinct DEF Distinct
  <2> HIDE DEF k
  <2>3. \A i \in DOMAIN r : from(i) \in DOMAIN l /\ from(i) # k /\ r[i] = l[from(i)]
    BY <1>0, <2>1, RemovedPositions
  <2> HIDE DEF r, from
  <2>4. \A i \in DOMAIN r : r[i].id # d.id
    BY <2>1, <2>2, <2>3
  <2>5. ~Has(r, d.id)
    BY <2>4 DEF Has, Elems
  <2> QED BY <1>3, <2>5 DEF ShownIn, AfterDetach, r, k
<1> QED BY <1>1, <1>2, <1>3

\* The user confirms a dialog.
LEMMA ConfirmsIsIdle ==
    ASSUME Waiting,
           \/ UnlinkCanisterModal
           \/ \E cycles \in 0 .. 2 : AddCyclesModal(cycles)
           \/ \E n \in Typed :
                 \/ RenameCanisterModal(n)
                 \/ \E cycles \in 0 .. 2 : CreateCanisterModal(n, cycles)
                 \/ \E c \in Owned : LinkCanisterModal(c, n)
           \/ \E p \in People : NewControllerReview(p) \/ RemoveCanisterControllerModal(p)
    PROVE  Idle /\ UNCHANGED <<elsewhere, failures>> /\ dialog.phase = "none"
<1>1. PICK kind, id, name, controller, from : Confirms(kind, id, name, controller, from)
  BY DEF UnlinkCanisterModal, AddCyclesModal, RenameCanisterModal, CreateCanisterModal,
         LinkCanisterModal, NewControllerReview, RemoveCanisterControllerModal
<1>2. /\ dialog.phase = "none" /\ dialog'.phase = "call"
      /\ UNCHANGED <<linked, loads, forced, reads, elsewhere, failures>>
  BY <1>1 DEF Confirms, Busy
<1>3. Awaited(loads, forced) = {} /\ OpReads(reads) = {}
  BY <1>2, NothingAwaited
<1> QED BY <1>2, <1>3 DEF Idle

\* The backend executes a call, or refuses it.
LEMMA ExecutesIsIdle ==
    ASSUME PagesInv, Waiting, LinkExecutes \/ RenameExecutes \/ UnlinkExecutes
    PROVE  Idle /\ UNCHANGED <<elsewhere, failures>>
<1>0. LoadsSound(loads, forced) /\ ListSound(linked) /\ dialog \in Dialogs
      /\ (dialog.kind \notin {"none", "create"} => dialog.id \in CanisterIds)
  BY DEF PagesInv, DialogSound
<1>1. ASSUME NEW kind \in {"link", "rename", "unlink"}, NEW accepted, NEW after,
             Executes(kind, accepted, after),
             accepted => \A l \in after, d \in Dialogs :
                 d.kind = kind /\ d.id = dialog.id /\ d.name = dialog.name => ShownIn(l, d)
      PROVE  Idle /\ UNCHANGED <<elsewhere, failures>>
  <2>1. UNCHANGED <<forced, reads, elsewhere, failures>> /\ dialog.phase = "call"
        /\ dialog.kind = kind
    BY <1>1 DEF Executes, bounds
  <2>2. Awaited(loads, forced) = {} /\ OpReads(reads) = {}
    BY <2>1, NothingAwaited
  <2>3. CASE accepted
    <3>1. PICK l \in after : ListIsNow(l)
      BY <1>1, <2>3 DEF Executes
    <3>2. Awaited(loads', forced) = {} /\ linked' = l
      BY <1>0, <2>2, <3>1, ChangesAreQuiet DEF ListIsNow
    <3>3. dialog' = [dialog EXCEPT !.phase = "done"]
      BY <1>1, <2>3 DEF Executes
    <3>4. dialog' \in Dialogs /\ dialog'.kind = kind /\ dialog'.id = dialog.id
          /\ dialog'.name = dialog.name
      BY <1>0, <2>1, <3>3 DEF Dialogs, Phases
    <3>5. ShownIn(linked', dialog')
      BY <1>1, <2>3, <3>2, <3>4
    <3> QED BY <2>1, <2>2, <3>2, <3>5 DEF Idle
  <2>4. CASE ~accepted
    <3>1. dialog'.phase = "none" /\ loads' = loads
      BY <1>1, <2>4 DEF Executes, CallFails, NoDialog
    <3> QED BY <2>1, <2>2, <3>1 DEF Idle
  <2> QED BY <2>3, <2>4
<1>2. CASE LinkExecutes
  <2>1. dialog.id \in CanisterIds /\ dialog.name \in RequestNames
    BY <1>0, <1>2 DEF LinkExecutes, Executes, Dialogs
  <2>2. AttachIsSent /\ AttachIsOk =>
          \A l \in AfterAttach(linked, dialog.name, dialog.id), d \in Dialogs :
             d.kind = "link" /\ d.id = dialog.id /\ d.name = dialog.name => ShownIn(l, d)
    BY <1>0, <2>1, ShownAfterCall DEF AttachIsOk
  <2> QED BY <1>1, <1>2, <2>2 DEF LinkExecutes
<1>3. CASE RenameExecutes
  <2>1. dialog.id \in CanisterIds /\ dialog.name \in RequestNames
    BY <1>0, <1>3 DEF RenameExecutes, Executes, Dialogs
  <2>2. RenameIsSent /\ RenameIsOk =>
          \A l \in AfterRename(linked, dialog.name, dialog.id), d \in Dialogs :
             d.kind = "rename" /\ d.id = dialog.id /\ d.name = dialog.name => ShownIn(l, d)
    BY <1>0, <2>1, ShownAfterCall DEF RenameIsOk
  <2> QED BY <1>1, <1>3, <2>2 DEF RenameExecutes
<1>4. CASE UnlinkExecutes
  <2>1. dialog.id \in CanisterIds /\ dialog.name \in RequestNames
    BY <1>0, <1>4 DEF UnlinkExecutes, Executes, Dialogs
  <2>2. DetachIsOk =>
          \A l \in {AfterDetach(linked, dialog.id)}, d \in Dialogs :
             d.kind = "unlink" /\ d.id = dialog.id /\ d.name = dialog.name => ShownIn(l, d)
    BY <1>0, <2>1, ShownAfterCall DEF DetachIsOk
  <2> QED BY <1>1, <1>4, <2>2 DEF UnlinkExecutes
<1> QED BY <1>2, <1>3, <1>4

\* A canister is created.
LEMMA CreateIsIdle ==
    ASSUME PagesInv, Waiting, NEW c \in Owned, CreateExecutes(c)
    PROVE  Idle /\ UNCHANGED <<elsewhere, failures>>
<1>0. LoadsSound(loads, forced) /\ ListSound(linked) /\ dialog \in Dialogs /\ c \in CanisterIds
  BY CanisterPagesAssumption DEF PagesInv, DialogSound
<1>1. UNCHANGED <<forced, reads, elsewhere, failures>> /\ dialog.phase = "call"
      /\ dialog.kind = "create"
  BY DEF CreateExecutes, bounds
<1>2. Awaited(loads, forced) = {} /\ OpReads(reads) = {}
  BY <1>1, NothingAwaited
<1>3. PICK l : ListIsNow(l)
  BY DEF CreateExecutes
<1>4. Awaited(loads', forced) = {}
  BY <1>0, <1>2, <1>3, ChangesAreQuiet
<1>5. CASE AttachResponse(linked, dialog.name, c) = "Ok"
  <2>1. PICK r \in AfterAttach(linked, dialog.name, c) : linked' = r
    BY <1>5 DEF CreateExecutes, ListIsNow
  <2>2. dialog' = [dialog EXCEPT !.phase = "done", !.id = c]
    BY <1>5 DEF CreateExecutes
  <2>3. dialog'.kind = "create" /\ dialog'.id = c /\ dialog'.name = dialog.name
        /\ dialog.name \in RequestNames
    BY <1>0, <1>1, <2>2 DEF Dialogs
  <2>4. ShownIn(linked', dialog')
    BY <1>0, <1>5, <2>1, <2>3, ShownAfterCall
  <2> QED BY <1>1, <1>2, <1>4, <2>4 DEF Idle
<1>6. CASE AttachResponse(linked, dialog.name, c) # "Ok"
  <2>1. dialog'.phase = "none"
    BY <1>6 DEF CreateExecutes, CallFails, NoDialog
  <2> QED BY <1>1, <1>2, <1>4, <2>1 DEF Idle
<1> QED BY <1>5, <1>6

\* New settings, or cycles
LEMMA SettingsAreIdle ==
    ASSUME PagesInv, Waiting, SettingsExecute \/ CyclesExecute
    PROVE  Idle /\ UNCHANGED <<elsewhere, failures>>
<1>0. ReadsSound(reads, given) /\ dialog \in Dialogs
  BY DEF PagesInv, DialogSound
<1>1. UNCHANGED <<forced, loads, elsewhere, failures>> /\ dialog.phase = "call"
      /\ dialog.kind \notin ListKinds
  BY DEF SettingsExecute, CyclesExecute, bounds, ListKinds
<1>2. Awaited(loads, forced) = {} /\ OpReads(reads) = {}
  BY <1>1, NothingAwaited
<1>3. OpReads(reads') = {}
  <2>1. reads' = reads \/ ControllersAreNow(dialog.id, dialog.from)
    BY DEF SettingsExecute, CyclesExecute
  <2> QED BY <1>0, <1>2, <2>1, ChangesAreQuiet
<1>4. dialog' = NoDialog \/ dialog' = [dialog EXCEPT !.phase = "done"]
  BY DEF SettingsExecute, CyclesExecute, CallFails
<1>5. dialog'.phase = "done" => dialog'.kind \notin ListKinds
  <2>1. NoDialog.phase # "done"
    BY DEF NoDialog
  <2>2. [dialog EXCEPT !.phase = "done"].kind = dialog.kind
    BY <1>0 DEF Dialogs
  <2> QED BY <1>1, <1>4, <2>1, <2>2
<1> QED BY <1>1, <1>2, <1>3, <1>5 DEF Idle

\* A dialog waits for the one call that it sends.
LEMMA AskedByDialog ==
    /\ \A ls, f : \A s \in Awaited(QueryCanisters(ls, "op"), f) :
          \/ s \in Awaited(ls, f)
          \/ s = First(Free(ls, NoLoad)) /\ QueryCanisters(ls, "op")[s].seen = {linked}
    /\ \A rs, c : \A r \in OpReads(QueryCanisterDetails(rs, "op", c)) :
          r \in OpReads(rs) \/ r = First(Free(rs, NoRead))
<1>1. ASSUME NEW ls, NEW f, NEW s \in Awaited(QueryCanisters(ls, "op"), f)
      PROVE  \/ s \in Awaited(ls, f)
             \/ s = First(Free(ls, NoLoad)) /\ QueryCanisters(ls, "op")[s].seen = {linked}
  <2>1. s \in DOMAIN ls
    BY DEF Awaited, QueryCanisters
  <2>2. CASE s = First(Free(ls, NoLoad))
    BY <2>1, <2>2 DEF QueryCanisters
  <2>3. CASE s # First(Free(ls, NoLoad))
    <3>1. QueryCanisters(ls, "op")[s] = ls[s]
      BY <2>1, <2>3 DEF QueryCanisters
    <3> QED BY <2>1, <3>1 DEF Awaited
  <2> QED BY <2>2, <2>3
<1>2. ASSUME NEW rs, NEW c, NEW r \in OpReads(QueryCanisterDetails(rs, "op", c))
      PROVE  r \in OpReads(rs) \/ r = First(Free(rs, NoRead))
  BY DEF OpReads, QueryCanisterDetails
<1> QED BY <1>1, <1>2

\* The answer of a call arrives, or it failed.
LEMMA AnswersKeepWaiting ==
    ASSUME PagesInv, Waiting, ListCallAnswers \/ SettingsAnswer \/ CallIsLost
    PROVE  Waiting'
<1>0. /\ ReadsSound(reads, given) /\ dialog \in Dialogs
      /\ Awaited(loads, forced) = {} /\ OpReads(reads) = {}
  <2>1. dialog.phase \in {"none", "call", "done"}
    BY DEF ListCallAnswers, SettingsAnswer, CallIsLost
  <2> QED BY <2>1, NothingAwaited DEF PagesInv, DialogSound
<1>1. CASE ListCallAnswers
  <2>1. /\ UNCHANGED <<linked, forced, reads, elsewhere, failures>>
        /\ dialog' = [dialog EXCEPT !.phase = "list"] /\ loads' = QueryCanisters(loads, "op")
        /\ dialog.phase = "done" /\ dialog.kind \in ListKinds
    BY <1>1 DEF ListCallAnswers, ReloadsList, bounds
  <2>2. \A s \in Awaited(loads', forced) :
          s = First(Free(loads, NoLoad)) /\ loads'[s].seen = {linked}
    BY <1>0, <2>1, AskedByDialog
  <2>3. dialog'.phase = "list" /\ \A l : ShownIn(l, dialog') <=> ShownIn(l, dialog)
    <3>1. dialog'.phase = "list" /\ dialog'.kind = dialog.kind /\ dialog'.id = dialog.id
          /\ dialog'.name = dialog.name
      BY <1>0, <2>1 DEF Dialogs
    <3> QED BY <3>1 DEF ShownIn
  <2>4. OneAwaited'
    BY <1>0, <2>1, <2>2, <2>3 DEF OneAwaited, AtMostOne
  <2>5. DoneIsListed'
    BY <2>1, <2>2, <2>3 DEF Waiting, DoneIsListed
  <2> QED BY <2>1, <2>4, <2>5 DEF Waiting
<1>2. CASE SettingsAnswer
  <2> DEFINE rs == QueryCanisterDetails(reads, "op", dialog.id)
  <2>1. /\ UNCHANGED <<linked, forced, loads, elsewhere, failures>>
        /\ dialog' = [dialog EXCEPT !.phase = "reload"]
    BY <1>2 DEF SettingsAnswer, bounds
  <2>2. dialog'.phase = "reload"
    BY <1>0, <2>1 DEF Dialogs
  <2>3. \A r \in OpReads(rs) : r = First(Free(reads, NoRead))
    BY <1>0, AskedByDialog
  <2>4. OpReads(reads') \subseteq OpReads(rs)
    <3>1. reads' = rs \/ reads' = [r \in DOMAIN rs |-> [rs[r] EXCEPT !.here = FALSE]]
      BY <1>2 DEF SettingsAnswer
    <3>2. \A r \in DOMAIN rs : rs[r] \in Reads
      <4>1. dialog.id \in CanisterIds
        BY <1>2 DEF SettingsAnswer, ListKinds, PagesInv, DialogSound
      <4>2. ReadsSound(rs, given)
        BY <1>0, <4>1, DetailsAsked DEF PagesInv
      <4> QED BY <4>2 DEF ReadsSound
    <3> HIDE DEF rs
    <3>3. \A r \in DOMAIN rs : [rs[r] EXCEPT !.here = FALSE].by = rs[r].by
      BY <3>2 DEF Reads
    <3> QED BY <3>1, <3>3 DEF OpReads
  <2> HIDE DEF rs
  <2>5. OneAwaited'
    BY <1>0, <2>1, <2>2, <2>3, <2>4 DEF OneAwaited, AtMostOne
  <2>6. DoneIsListed'
    BY <1>0, <2>1, <2>2 DEF DoneIsListed
  <2> QED BY <2>1, <2>5, <2>6 DEF Waiting
<1>3. CASE CallIsLost
  <2>1. /\ UNCHANGED <<linked, forced, loads, reads, elsewhere>>
        /\ failures' = failures + 1 /\ dialog'.phase = "none"
    BY <1>3 DEF CallIsLost, MayFail, CallFails, NoDialog
  <2>2. Idle
    BY <1>0, <2>1 DEF Idle
  <2>3. elsewhere' \in Nat /\ failures' \in Nat
    BY <2>1 DEF Waiting
  <2> QED BY <2>2, <2>3, QuietOrIdle
<1> QED BY <1>1, <1>2, <1>3

\* Another tab or another tool
LEMMA ElsewhereKeepsWaiting ==
    ASSUME PagesInv, Waiting, Elsewhere
    PROVE  Waiting'
<1>1. /\ elsewhere' = elsewhere + 1 /\ elsewhere' \in Nat /\ elsewhere' # 0
      /\ UNCHANGED <<forced, dialog, failures>>
  BY DEF Elsewhere, Waiting
<1>2. Awaited(loads', forced) = Awaited(loads, forced) /\ OpReads(reads') = OpReads(reads)
  <2>1. LoadsSound(loads, forced) /\ ReadsSound(reads, given)
    BY DEF PagesInv
  <2>2. \/ (\E l : ListIsNow(l)) /\ UNCHANGED reads
        \/ (\E c, s : ControllersAreNow(c, s)) /\ UNCHANGED loads
    BY DEF Elsewhere
  <2> QED BY <2>1, <2>2, ChangesAreQuiet
<1>3. OneAwaited'
  BY <1>1, <1>2 DEF Waiting, OneAwaited
<1>4. DoneIsListed'
  BY <1>1 DEF DoneIsListed
<1> QED BY <1>1, <1>3, <1>4 DEF Waiting

\* At first nothing is waited for ...
LEMMA WaitingInit == PagesInit => Waiting
<1> SUFFICES ASSUME PagesInit PROVE Waiting
  OBVIOUS
<1>1. /\ loads = [s \in 1 .. MaxLoads |-> NoLoad] /\ reads = [s \in 1 .. MaxReads |-> NoRead]
      /\ dialog.phase = "none" /\ elsewhere = 0 /\ failures = 0
  BY DEF PagesInit, NoDialog
<1>2. NoLoad.by # "op" /\ NoRead.by # "op"
  BY DEF NoLoad, NoRead
<1>3. Awaited(loads, forced) = {} /\ OpReads(reads) = {}
  BY <1>1, <1>2 DEF Awaited, OpReads
<1> QED BY <1>1, <1>3 DEF Waiting, OneAwaited, AtMostOne, DoneIsListed

\* ... and every step keeps the invariant.
LEMMA WaitingNext ==
    ASSUME PagesInv, Waiting, [PagesNext]_pagesVars
    PROVE  Waiting'
<1>0. elsewhere \in Nat /\ failures \in Nat /\ LoadsSound(loads, forced)
  BY DEF Waiting, PagesInv
<1>1. CASE Browser
  <2>1. ASSUME NEW s \in DOMAIN loads, NEW isCertified \in BOOLEAN,
               ListAnswers(s, isCertified) \/ ListFails(s, isCertified)
        PROVE  Waiting'
    <3>1. failures' \in Nat
      BY <1>0, <2>1 DEF ListAnswers, ListFails, MayFail
    <3>2. PICK st : Continue(s, isCertified, st)
      BY <2>1 DEF ListAnswers, ListFails
    <3> QED BY <1>0, <3>1, <3>2, ContinueKeepsWaiting
  <2>2. ASSUME NEW s \in DOMAIN reads, DetailsAnswer(s) \/ DetailsFail(s) PROVE Waiting'
    <3>1. failures' \in Nat
      BY <1>0, <2>2 DEF DetailsAnswer, DetailsFail, MayFail
    <3>2. PICK answer : ReadEnds(s, answer)
      BY <2>2 DEF DetailsAnswer, DetailsFail
    <3> QED BY <3>1, <3>2, ReadKeepsWaiting
  <2>3. CASE GoBack
    <3>1. Quiet /\ elsewhere' = elsewhere /\ failures' = failures
      BY <2>3, NavigationIsQuiet DEF Quiet
    <3> QED BY <1>0, <3>1, QuietOrIdle
  <2>4. CASE NotifyAnswers
    <3>1. UNCHANGED <<dialog, linked, elsewhere, forced, loads, failures>>
      BY <2>4 DEF NotifyAnswers, bounds
    <3>2. OpReads(reads') \subseteq OpReads(reads)
      <4>1. reads' = reads \/ reads' = QueryCanisterDetails(reads, "page", selected.notify)
        BY <2>4 DEF NotifyAnswers
      <4> QED BY <4>1, AskedByPage
    <3>3. Quiet
      BY <3>1, <3>2 DEF Quiet
    <3> QED BY <1>0, <3>1, <3>3, QuietOrIdle
  <2>5. CASE LinkExecutes \/ RenameExecutes \/ UnlinkExecutes
    <3>1. Idle /\ elsewhere' = elsewhere /\ failures' = failures
      BY <2>5, ExecutesIsIdle
    <3> QED BY <1>0, <3>1, QuietOrIdle
  <2>6. CASE SettingsExecute \/ CyclesExecute
    <3>1. Idle /\ elsewhere' = elsewhere /\ failures' = failures
      BY <2>6, SettingsAreIdle
    <3> QED BY <1>0, <3>1, QuietOrIdle
  <2>7. ASSUME NEW c \in Owned, CreateExecutes(c) PROVE Waiting'
    <3>1. Idle /\ elsewhere' = elsewhere /\ failures' = failures
      BY <2>7, CreateIsIdle
    <3> QED BY <1>0, <3>1, QuietOrIdle
  <2>8. CASE ListCallAnswers \/ SettingsAnswer \/ CallIsLost
    BY <2>8, AnswersKeepWaiting
  <2> QED BY <1>1, <2>1, <2>2, <2>3, <2>4, <2>5, <2>6, <2>7, <2>8 DEF Browser
<1>2. CASE User
  <2>1. CASE Elsewhere
    BY <2>1, ElsewhereKeepsWaiting
  <2>2. CASE OpenCanisters \/ Leave \/ \E c \in Owned : OpenCanister(c) \/ SwitchCanister(c)
    <3>1. Quiet /\ elsewhere' = elsewhere /\ failures' = failures
      BY <2>2, NavigationIsQuiet DEF Quiet
    <3> QED BY <1>0, <3>1, QuietOrIdle
  <2>3. CASE \/ UnlinkCanisterModal
             \/ \E cycles \in 0 .. 2 : AddCyclesModal(cycles)
             \/ \E n \in Typed :
                   \/ RenameCanisterModal(n)
                   \/ \E cycles \in 0 .. 2 : CreateCanisterModal(n, cycles)
                   \/ \E c \in Owned : LinkCanisterModal(c, n)
             \/ \E p \in People : NewControllerReview(p) \/ RemoveCanisterControllerModal(p)
    <3>1. Idle /\ elsewhere' = elsewhere /\ failures' = failures
      BY <2>3, ConfirmsIsIdle
    <3> QED BY <1>0, <3>1, QuietOrIdle
  <2> QED BY <1>2, <2>1, <2>2, <2>3 DEF User
<1>3. CASE UNCHANGED pagesVars
  BY <1>3 DEF pagesVars, Waiting, OneAwaited, DoneIsListed
<1> QED BY <1>1, <1>2, <1>3 DEF PagesNext

\* The answer that a dialog waits for shows what it did, or the list is loaded anew.
LEMMA AnswerShows ==
    ASSUME PagesInv, Waiting, NEW s \in DOMAIN loads, NEW isCertified,
           ListAnswers(s, isCertified), IsAwaited(s), elsewhere = 0
    PROVE  \/ store' # <<>> /\ ShownIn(store'[1], dialog)
           \/ \E t \in DOMAIN loads' : loads'[t] # NoLoad
<1> DEFINE left == Remaining(s, isCertified)
<1>1. PICK value \in loads[s].seen :
        Continue(s, isCertified, IF Heard(loads[s].request) THEN <<value>> ELSE store)
  BY DEF ListAnswers
<1>2. s \in Awaited(loads, forced)
  BY DEF IsAwaited, Awaited
<1>3. ShownIn(value, dialog)
  BY <1>2 DEF Waiting, DoneIsListed
<1>4. Continue(s, isCertified, <<value>>)
  <2>1. LoadSound(loads[s], forced) /\ loads[s].request.waiting = CallsOf(forced)
    BY DEF PagesInv, LoadsSound, IsAwaited
  <2>2. Heard(loads[s].request)
    BY <2>1 DEF LoadSound
  <2> QED BY <1>1, <2>2
<1>5. isCertified \in loads[s].request.waiting
  BY <1>4 DEF Continue
<1>6. LoadsSound(left, forced)
  BY <1>5, RemainingSound DEF PagesInv
<1> HIDE DEF left
<1>7. CASE store' = <<value>>
  BY <1>3, <1>7
<1>8. CASE store' # <<value>>
  <2>1. CanistersPage(<<value>>, left)
    BY <1>4, <1>8 DEF Continue, left
  <2>2. Free(left, NoLoad) # {} /\ loads' = QueryCanisters(left, "page")
    BY <1>8, <2>1 DEF CanistersPage
  <2> DEFINE t == First(Free(left, NoLoad))
  <2>3. t \in DOMAIN left
    <3>1. DOMAIN left = 1 .. MaxLoads /\ MaxLoads \in Nat
      BY <1>6, CanisterPagesAssumption DEF LoadsSound
    <3> QED BY <2>2, <3>1, FirstIsFree
  <2>4. t \in DOMAIN loads' /\ loads'[t].by = "page"
    BY <2>2, <2>3 DEF QueryCanisters
  <2>5. NoLoad.by # "page"
    BY DEF NoLoad
  <2> HIDE DEF t
  <2> QED BY <2>4, <2>5
<1> QED BY <1>7, <1>8

\* No other step ends a dialog of the list whose call succeeded, unless a call fails.
LEMMA SuccessOfStep ==
    ASSUME PagesInv, Waiting, [PagesNext]_pagesVars
    PROVE  SuccessStep
<1> SUFFICES ASSUME dialog.phase \in {"done", "list"}, dialog.kind \in ListKinds,
                    dialog'.phase = "none", failures' = failures, elsewhere = 0
             PROVE  \/ store' # <<>> /\ ShownIn(store'[1], dialog)
                    \/ \E t \in DOMAIN loads' : loads'[t] # NoLoad
  BY DEF SuccessStep
<1>0. dialog' # dialog /\ failures' # failures + 1 /\ dialog \in Dialogs
  BY DEF Waiting, PagesInv, DialogSound
<1>1. CASE Browser
  <2>1. ASSUME NEW s \in DOMAIN loads, NEW isCertified \in BOOLEAN,
               ListAnswers(s, isCertified) \/ ListFails(s, isCertified)
        PROVE  \/ store' # <<>> /\ ShownIn(store'[1], dialog)
               \/ \E t \in DOMAIN loads' : loads'[t] # NoLoad
    <3>1. ListAnswers(s, isCertified)
      BY <1>0, <2>1 DEF ListFails, MayFail
    <3>2. IsAwaited(s)
      BY <1>0, <3>1 DEF ListAnswers, Continue
    <3> QED BY <3>1, <3>2, AnswerShows
  <2>2. ASSUME NEW s \in DOMAIN reads, DetailsAnswer(s) \/ DetailsFail(s) PROVE FALSE
    <3>1. PICK answer : ReadEnds(s, answer)
      BY <2>2 DEF DetailsAnswer, DetailsFail
    <3>2. reads[s].by = "op"
      BY <1>0, <3>1 DEF ReadEnds
    <3>3. OpReads(reads) # {}
      BY <3>2 DEF OpReads
    <3> QED BY <3>3 DEF Waiting, OneAwaited
  <2>3. CASE GoBack
    BY <1>0, <2>3, NavigationIsQuiet DEF Quiet
  <2>4. CASE NotifyAnswers
    BY <1>0, <2>4 DEF NotifyAnswers
  <2>5. CASE LinkExecutes \/ RenameExecutes \/ UnlinkExecutes
    BY <2>5 DEF LinkExecutes, RenameExecutes, UnlinkExecutes, Executes
  <2>6. CASE SettingsExecute \/ CyclesExecute
    BY <2>6 DEF SettingsExecute, CyclesExecute
  <2>7. ASSUME NEW c \in Owned, CreateExecutes(c) PROVE FALSE
    BY <2>7 DEF CreateExecutes
  <2>8. CASE ListCallAnswers \/ SettingsAnswer
    <3>1. dialog' = [dialog EXCEPT !.phase = "list"] \/ dialog' = [dialog EXCEPT !.phase = "reload"]
      BY <2>8 DEF ListCallAnswers, ReloadsList, SettingsAnswer
    <3> QED BY <1>0, <3>1 DEF Dialogs
  <2>9. CASE CallIsLost
    BY <1>0, <2>9 DEF CallIsLost, MayFail
  <2> QED BY <1>1, <2>1, <2>2, <2>3, <2>4, <2>5, <2>6, <2>7, <2>8, <2>9 DEF Browser
<1>2. CASE User
  <2>1. CASE Elsewhere
    BY <1>0, <2>1 DEF Elsewhere
  <2>2. CASE OpenCanisters \/ Leave \/ \E c \in Owned : OpenCanister(c) \/ SwitchCanister(c)
    BY <1>0, <2>2, NavigationIsQuiet DEF Quiet
  <2>3. CASE \/ UnlinkCanisterModal
             \/ \E cycles \in 0 .. 2 : AddCyclesModal(cycles)
             \/ \E n \in Typed :
                   \/ RenameCanisterModal(n)
                   \/ \E cycles \in 0 .. 2 : CreateCanisterModal(n, cycles)
                   \/ \E c \in Owned : LinkCanisterModal(c, n)
             \/ \E p \in People : NewControllerReview(p) \/ RemoveCanisterControllerModal(p)
    BY <2>3, ConfirmsIsIdle
  <2> QED BY <1>2, <2>1, <2>2, <2>3 DEF User
<1>3. CASE UNCHANGED pagesVars
  BY <1>0, <1>3 DEF pagesVars
<1> QED BY <1>1, <1>2, <1>3 DEF PagesNext

\* A dialog that links, renames, unlinks or creates a canister reports success only with a list
\* that shows what it did (listCanisters after the call), whatever answers come late.
THEOREM DialogsShowSuccess == PagesSpec => SuccessIsShown
<1>1. PagesSpec => []PagesInv
  BY PagesInitInv, PagesNextInv, PTL DEF PagesSpec
<1>2. PagesInv /\ Waiting /\ [PagesNext]_pagesVars => Waiting'
  BY WaitingNext
<1>3. PagesInv /\ Waiting /\ [PagesNext]_pagesVars => [SuccessStep]_pagesVars
  BY SuccessOfStep
<1> QED BY <1>1, <1>2, <1>3, WaitingInit, PTL DEF PagesSpec, SuccessIsShown
=============================================================================
