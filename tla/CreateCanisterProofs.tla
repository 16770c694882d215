------------------------ MODULE CreateCanisterProofs ------------------------
(***************************************************************************)
(* Theorems about CreateCanister for any number of payments, names and     *)
(* failures: whatever the browser, the periodic task runner and the user   *)
(* do with the list of canisters, no canister leaves it that the user did  *)
(* not detach, and a creation that reports success left the canister there *)
(* with the name that the user gave.                                       *)
(***************************************************************************)
EXTENDS CreateCanister, FiniteSetTheorems, TLAPS

\* attach_canister is asked at most once for a payment, and createCanister ends
\* only with an answer that it takes for success.
OneRequest ==
    \A k \in Payments :
        /\ client[k] \in {"idle", "transfer", "notify"} => attach[k] = "none"
        /\ client[k] = "done" => Ignored(attach[k])

\* An entry has no name, or the user's request gave it or the user changed it
\* later: so a request that finds its canister attached finds the runner's entry.
NamesGiven ==
    \A c \in Elems(list) :
        \/ c.id \in renamed \/ c.name = EmptyName
        \/ attach[c.id] = "Ok" /\ c.name = name[c.id]

AnsweredIsListed ==
    \A k \in Payments : Ignored(attach[k]) /\ k \notin renamed \cup detached =>
        [name |-> name[k], id |-> k] \in Elems(list)

IInv == TypeOK /\ OneRequest /\ NamesGiven /\ AnsweredIsListed /\ NeverForgotten

-----------------------------------------------------------------------------
(***************************************************************************)
(* The elements of a list.                                                 *)
(***************************************************************************)

\* A nonempty set of numbers has a smallest one.
LEMMA SmallestNumber ==
    ASSUME NEW T \in SUBSET Nat, T # {}
    PROVE  \E x \in T : \A y \in T : x <= y
<1> DEFINE R == OpToRel(<, Nat)
<1>1. IsWellFoundedOn(R, Nat)
  BY NatLessThanWellFounded
<1>2. R = {p \in Nat \X Nat : p[1] < p[2]}
  BY DEF OpToRel
<1>3. PICK x \in T : \A y \in T : ~(<<y, x>> \in R)
  <2> HIDE DEF R
  <2> QED BY <1>1, WFMin
<1>4. ASSUME NEW y \in T PROVE x <= y
  <2> HIDE DEF R
  <2>1. x \in Nat /\ y \in Nat
    OBVIOUS
  <2>2. ~(y < x)
    BY <1>2, <1>3, <2>1
  <2> QED BY <2>1, <2>2
<1> QED BY <1>4

\* A nonempty set of positions has a last one.
LEMMA LastPosition ==
    ASSUME NEW n \in Nat, NEW T \in SUBSET (1 .. n), T # {}
    PROVE  \E x \in T : \A y \in T : y <= x
<1> DEFINE D == {n - x : x \in T}
<1>1. D \in SUBSET Nat /\ D # {}
  <2>1. \A x \in T : n - x \in Nat
    OBVIOUS
  <2>2. PICK x \in T : TRUE
    OBVIOUS
  <2>3. n - x \in D
    OBVIOUS
  <2> QED BY <2>1, <2>3
<1>2. PICK d \in D : \A e \in D : d <= e
  <2> HIDE DEF D
  <2> QED BY <1>1, SmallestNumber
<1>3. PICK x \in T : d = n - x
  OBVIOUS
<1>4. ASSUME NEW y \in T PROVE y <= x
  <2>1. n - x <= n - y
    BY <1>2, <1>3
  <2>2. x \in Int /\ y \in Int /\ n \in Int
    OBVIOUS
  <2> HIDE DEF D
  <2> QED BY <2>1, <2>2
<1> QED BY <1>4

\* Moving the elements of a sequence to other positions keeps them all.
LEMMA Rearranged ==
    ASSUME NEW S, NEW s \in Seq(S), NEW f \in [DOMAIN s -> DOMAIN s],
           \A i, j \in DOMAIN s : f[i] = f[j] => i = j
    PROVE  LET r == [i \in DOMAIN s |-> s[f[i]]]
           IN  r \in Seq(S) /\ Elems(r) = Elems(s)
<1> DEFINE n == Len(s)
           r == [i \in DOMAIN s |-> s[f[i]]]
<1>1. n \in Nat /\ DOMAIN s = 1 .. n /\ \A i \in 1 .. n : s[i] \in S
  OBVIOUS
<1>2. r = [i \in 1 .. n |-> s[f[i]]] /\ f \in [1 .. n -> 1 .. n]
  BY <1>1
<1>3. \A i \in 1 .. n : r[i] = s[f[i]] /\ f[i] \in 1 .. n
  BY <1>2
<1> HIDE DEF n, r
<1>4. r \in Seq(S) /\ Len(r) = n /\ DOMAIN r = 1 .. n
  <2>1. \A i \in 1 .. n : s[f[i]] \in S
    BY <1>1, <1>3
  <2> QED BY <1>1, <1>2, <2>1
<1>5. f \in Surjection(1 .. n, 1 .. n)
  <2>1. f \in Injection(1 .. n, 1 .. n)
    BY <1>1, <1>2 DEF Injection, IsInjective
  <2>2. IsFiniteSet(1 .. n)
    BY <1>1, FS_Interval
  <2> QED BY <2>1, <2>2, FS_Injection
<1>6. ASSUME NEW x PROVE x \in Elems(r) <=> x \in Elems(s)
  <2>1. ASSUME x \in Elems(r) PROVE x \in Elems(s)
    <3>1. PICK i \in 1 .. n : x = r[i]
      BY <1>4, <2>1 DEF Elems
    <3> QED BY <1>1, <1>3, <3>1 DEF Elems
  <2>2. ASSUME x \in Elems(s) PROVE x \in Elems(r)
    <3>1. PICK k \in 1 .. n : x = s[k]
      BY <1>1, <2>2 DEF Elems
    <3>2. PICK i \in 1 .. n : f[i] = k
      BY <1>5 DEF Surjection
    <3>3. r[i] = x
      BY <1>3, <3>1, <3>2
    <3> QED BY <1>4, <3>3 DEF Elems
  <2> QED BY <2>1, <2>2
<1> QED BY <1>4, <1>6 DEF n, r

\* What Append adds.
LEMMA Appended ==
    ASSUME NEW S, NEW s \in Seq(S), NEW x \in S
    PROVE  /\ Append(s, x) \in Seq(S)
           /\ Elems(Append(s, x)) = Elems(s) \cup {x}
<1> DEFINE r == Append(s, x)
<1>1. /\ r \in Seq(S) /\ Len(s) \in Nat /\ Len(r) = Len(s) + 1
      /\ DOMAIN s = 1 .. Len(s) /\ DOMAIN r = 1 .. Len(s) + 1
      /\ \A i \in 1 .. Len(s) : r[i] = s[i]
      /\ r[Len(s) + 1] = x
  OBVIOUS
<1> HIDE DEF r
<1>2. ASSUME NEW y PROVE y \in Elems(r) <=> y \in Elems(s) \cup {x}
  <2>1. ASSUME y \in Elems(r) PROVE y \in Elems(s) \cup {x}
    <3>1. PICK i \in 1 .. Len(s) + 1 : y = r[i]
      BY <1>1, <2>1 DEF Elems
    <3>2. CASE i = Len(s) + 1
      BY <1>1, <3>1, <3>2
    <3>3. CASE i # Len(s) + 1
      <4>1. i \in 1 .. Len(s)
        BY <1>1, <3>1, <3>3
      <4> QED BY <1>1, <3>1, <4>1 DEF Elems
    <3> QED BY <3>2, <3>3
  <2>2. ASSUME y \in Elems(s) PROVE y \in Elems(r)
    <3>1. PICK i \in 1 .. Len(s) : y = s[i]
      BY <1>1, <2>2 DEF Elems
    <3>2. i \in 1 .. Len(s) + 1
      BY <1>1, <3>1
    <3> QED BY <1>1, <3>1, <3>2 DEF Elems
  <2>3. x \in Elems(r)
    <3>1. Len(s) + 1 \in DOMAIN r
      BY <1>1
    <3> QED BY <1>1, <3>1 DEF Elems
  <2> QED BY <2>1, <2>2, <2>3
<1> QED BY <1>1, <1>2 DEF r

\* What Remove leaves.
LEMMA Removed ==
    ASSUME NEW S, NEW s \in Seq(S), NEW k \in DOMAIN s
    PROVE  /\ Remove(s, k) \in Seq(S) /\ Elems(Remove(s, k)) \subseteq Elems(s)
           /\ \A x \in Elems(s) : x # s[k] => x \in Elems(Remove(s, k))
<1> DEFINE r == Remove(s, k)
<1>1. Len(s) \in Nat /\ DOMAIN s = 1 .. Len(s) /\ k \in 1 .. Len(s) /\ \A i \in 1 .. Len(s) : s[i] \in S
  OBVIOUS
<1>2. r = [i \in 1 .. Len(s) - 1 |-> IF i < k THEN s[i] ELSE s[i + 1]]
  BY DEF Remove
<1>3. \A i \in 1 .. Len(s) - 1 : \E j \in 1 .. Len(s) : r[i] = s[j]
  BY <1>1, <1>2
<1>4. \A j \in 1 .. Len(s) : j # k => \E i \in 1 .. Len(s) - 1 : r[i] = s[j]
  <2> SUFFICES ASSUME NEW j \in 1 .. Len(s), j # k PROVE \E i \in 1 .. Len(s) - 1 : r[i] = s[j]
    OBVIOUS
  <2>1. CASE j < k
    <3>1. j \in 1 .. Len(s) - 1 /\ r[j] = s[j]
      BY <1>1, <1>2, <2>1
    <3> QED BY <3>1
  <2>2. CASE k < j
    <3>1. j - 1 \in 1 .. Len(s) - 1 /\ r[j - 1] = s[j]
      BY <1>1, <1>2, <2>2
    <3> QED BY <3>1
  <2> QED BY <1>1, <2>1, <2>2
<1>5. r \in Seq(S) /\ DOMAIN r = 1 .. Len(s) - 1
  <2>1. Len(s) - 1 \in Nat
    BY <1>1
  <2>2. \A i \in 1 .. Len(s) - 1 : r[i] \in S
    BY <1>1, <1>3
  <2>3. r = [i \in 1 .. Len(s) - 1 |-> r[i]]
    BY <1>2
  <2> HIDE DEF r
  <2> QED BY <2>1, <2>2, <2>3
<1> HIDE DEF r
<1>6. Elems(r) \subseteq Elems(s)
  BY <1>1, <1>3, <1>5 DEF Elems
<1>7. ASSUME NEW x \in Elems(s), x # s[k] PROVE x \in Elems(r)
  <2>1. PICK j \in 1 .. Len(s) : x = s[j] /\ j # k
    BY <1>1, <1>7 DEF Elems
  <2>2. PICK i \in 1 .. Len(s) - 1 : r[i] = s[j]
    BY <1>4, <2>1
  <2> QED BY <1>5, <2>1, <2>2 DEF Elems
<1> QED BY <1>5, <1>6, <1>7 DEF r

\* push and sort add the canister.
LEMMA PushedAndSorted ==
    ASSUME NEW l \in Seq(NamedCanister), NEW n \in Names, NEW id \in CanisterIds,
           NEW s \in PushAndSort(l, n, id)
    PROVE  /\ s \in Seq(NamedCanister)
           /\ Elems(s) = Elems(l) \cup {[name |-> n, id |-> id]}
<1> DEFINE new == Append(l, [name |-> n, id |-> id])
<1>1. /\ new \in Seq(NamedCanister)
      /\ Elems(new) = Elems(l) \cup {[name |-> n, id |-> id]}
  <2>1. [name |-> n, id |-> id] \in NamedCanister
    BY DEF NamedCanister
  <2> QED BY <2>1, Appended
<1>2. PICK f \in [DOMAIN new -> DOMAIN new] :
        /\ \A i, j \in DOMAIN new : f[i] = f[j] => i = j
        /\ s = [i \in DOMAIN new |-> new[f[i]]]
  BY DEF PushAndSort, Sorted
<1> HIDE DEF new
<1>3. s \in Seq(NamedCanister) /\ Elems(s) = Elems(new)
  BY ZenonT(60), <1>1, <1>2, Rearranged
<1> QED BY <1>1, <1>3

-----------------------------------------------------------------------------
(***************************************************************************)
(* The operations on the list, by what they keep.                          *)
(***************************************************************************)

\* The entries of the other canisters stay.
OthersStay(new, id) == \A c \in Elems(list) : c.id # id => c \in Elems(new)

\* Nothing but this one entry is new.
Adds(new, c) == c \in Elems(new) /\ Elems(new) \subseteq Elems(list) \cup {c}

\* A name that the backend accepts is one of the names of the model.
LEMMA ValidNames ==
    ASSUME NEW n \in RequestNames, ValidName(n)
    PROVE  n \in Names
BY CanisterListAssumption DEF RequestNames, Names, LongName, WideName, ValidName

\* A successful attach_canister keeps the other canisters with their names and adds the canister
\* with the requested one.
LEMMA Attached ==
    ASSUME list \in Seq(NamedCanister), NEW n \in RequestNames, NEW id \in CanisterIds,
           AttachResponse(list, n, id) = "Ok", NEW new \in AfterAttach(list, n, id)
    PROVE  new \in Seq(NamedCanister) /\ OthersStay(new, id) /\ Adds(new, [name |-> n, id |-> id])
<1> DEFINE old == {i \in DOMAIN list : Replaces(n, id, list[i])}
           rest == WithoutReplaced(list, n, id)
<1>1. n \in Names
  BY ValidNames DEF AttachResponse
<1>2. /\ rest \in Seq(NamedCanister) /\ Elems(rest) \subseteq Elems(list)
      /\ \A c \in Elems(list) : c.id # id => c \in Elems(rest)
  <2>1. CASE old = {}
    BY <2>1 DEF WithoutReplaced
  <2>2. CASE old # {}
    <3>1. old \in SUBSET (1 .. Len(list)) /\ Len(list) \in Nat
      OBVIOUS
    <3>2. \E i \in old : \A j \in old : j <= i
      <4> HIDE DEF old
      <4> QED BY <2>2, <3>1, LastPosition
    <3> DEFINE k == CHOOSE i \in old : \A j \in old : j <= i
    <3>3. k \in old
      <4> HIDE DEF old
      <4> QED BY <3>2
    <3>4. k \in DOMAIN list /\ list[k].id = id
      BY <3>3 DEF Replaces
    <3>5. rest = Remove(list, k)
      BY <2>2 DEF WithoutReplaced
    <3> HIDE DEF rest, k, old
    <3> QED BY <3>4, <3>5, Removed
  <2> QED BY <2>1, <2>2
<1>3. new \in PushAndSort(rest, n, id)
  BY DEF AfterAttach
<1> HIDE DEF rest
<1>4. new \in Seq(NamedCanister) /\ Elems(new) = Elems(rest) \cup {[name |-> n, id |-> id]}
  BY <1>1, <1>2, <1>3, PushedAndSorted
<1> QED BY <1>2, <1>4 DEF OthersStay, Adds

\* The position that find_canister_index finds.
LEMMA CanisterIndex ==
    ASSUME list \in Seq(NamedCanister), NEW id, Has(list, id)
    PROVE  FindCanisterIndex(list, id) \in DOMAIN list /\ list[FindCanisterIndex(list, id)].id = id
<1> DEFINE T == {i \in DOMAIN list : list[i].id = id}
<1>1. T \in SUBSET Nat /\ T # {} /\ DOMAIN list = 1 .. Len(list) /\ Len(list) \in Nat
  BY DEF Has, Elems
<1>2. PICK i \in T : \A j \in T : i <= j
  <2> HIDE DEF T
  <2> QED BY <1>1, SmallestNumber
<1>3. i \in DOMAIN list /\ list[i].id = id /\ i \in Nat
  BY <1>1
<1>4. \A j \in 1 .. i - 1 : list[j].id # id
  <2> SUFFICES ASSUME NEW j \in 1 .. i - 1, list[j].id = id PROVE FALSE
    OBVIOUS
  <2>1. j \in T
    BY <1>1, <1>3
  <2> HIDE DEF T
  <2> QED BY <1>2, <1>3, <2>1
<1> QED BY <1>3, <1>4 DEF FindCanisterIndex

\* detach_canister keeps the other canisters with their names and adds nothing.
LEMMA Detached ==
    ASSUME list \in Seq(NamedCanister), NEW id \in CanisterIds, Has(list, id)
    PROVE  LET new == AfterDetach(list, id) IN
           new \in Seq(NamedCanister) /\ OthersStay(new, id) /\ Elems(new) \subseteq Elems(list)
BY CanisterIndex, Removed DEF AfterDetach, OthersStay

\* A successful rename_canister keeps the other canisters and gives the canister the requested
\* name.
LEMMA Renamed ==
    ASSUME list \in Seq(NamedCanister), NEW n \in RequestNames, NEW id \in CanisterIds,
           RenameResponse(list, n, id) = "Ok", NEW new \in AfterRename(list, n, id)
    PROVE  new \in Seq(NamedCanister) /\ OthersStay(new, id) /\ Adds(new, [name |-> n, id |-> id])
<1> DEFINE rest == Remove(list, FindCanisterIndex(list, id))
<1>1. n \in Names /\ Has(list, id)
  BY ValidNames DEF RenameResponse
<1>2. /\ rest \in Seq(NamedCanister) /\ Elems(rest) \subseteq Elems(list)
      /\ \A c \in Elems(list) : c.id # id => c \in Elems(rest)
  BY <1>1, CanisterIndex, Removed
<1>3. new \in PushAndSort(rest, n, id)
  BY DEF AfterRename
<1> HIDE DEF rest
<1>4. new \in Seq(NamedCanister) /\ Elems(new) = Elems(rest) \cup {[name |-> n, id |-> id]}
  BY <1>1, <1>2, <1>3, PushedAndSorted
<1> QED BY <1>2, <1>4 DEF OthersStay, Adds

\* The runner's canister is added or there already; all entries stay.
LEMMA NewlyCreated ==
    ASSUME list \in Seq(NamedCanister), NEW id \in CanisterIds, NEW new \in AfterNewlyCreated(list, id)
    PROVE  /\ new \in Seq(NamedCanister) /\ Elems(list) \subseteq Elems(new)
           /\ Elems(new) \subseteq Elems(list) \cup {[name |-> EmptyName, id |-> id]}
<1>1. CASE Has(list, id)
  BY <1>1 DEF AfterNewlyCreated
<1>2. CASE ~Has(list, id)
  <2>1. EmptyName \in Names
    BY CanisterListAssumption DEF EmptyName, Names
  <2>2. new \in PushAndSort(list, EmptyName, id)
    BY <1>2 DEF AfterNewlyCreated
  <2>3. new \in Seq(NamedCanister) /\ Elems(new) = Elems(list) \cup {[name |-> EmptyName, id |-> id]}
    BY <2>1, <2>2, PushedAndSorted
  <2> QED BY <2>3
<1> QED BY <1>1, <1>2

\* The answer CanisterAlreadyAttached: there is an entry that does not give way.
LEMMA AttachedAlready ==
    ASSUME list \in Seq(NamedCanister), NEW n, NEW id,
           AttachResponse(list, n, id) = "CanisterAlreadyAttached"
    PROVE  \E c \in Elems(list) : AlreadyAttached(n, id, c)
BY DEF AttachResponse, Elems

-----------------------------------------------------------------------------
(***************************************************************************)
(* The steps that leave the list alone.                                    *)
(***************************************************************************)

\* The entries of the list are those of payments.
LEMMA EntriesAreCanisters ==
    ASSUME list \in Seq(NamedCanister)
    PROVE  \A c \in Elems(list) : c.id \in Payments /\ c = [name |-> c.name, id |-> c.id]
<1> SUFFICES ASSUME NEW c \in Elems(list)
             PROVE  c.id \in Payments /\ c = [name |-> c.name, id |-> c.id]
  OBVIOUS
<1>1. c \in NamedCanister
  BY DEF Elems
<1> QED BY <1>1 DEF NamedCanister, Payments

\* What is said of the list stays true when no request is answered.
LEMMA ListKept ==
    ASSUME IInv, UNCHANGED <<list, history>>,
           \A k \in Payments :
              \/ attach'[k] = attach[k] /\ name'[k] = name[k]
              \/ attach[k] = "none" /\ ~Ignored(attach'[k])
    PROVE  NamesGiven' /\ AnsweredIsListed' /\ NeverForgotten'
<1>1. list \in Seq(NamedCanister)
  BY DEF IInv, TypeOK
<1>2. NamesGiven'
  BY <1>1, EntriesAreCanisters DEF IInv, NamesGiven, history, Elems
<1>3. AnsweredIsListed'
  BY DEF IInv, AnsweredIsListed, history, Elems
<1>4. NeverForgotten'
  BY DEF IInv, NeverForgotten, history, Elems, Has
<1> QED BY <1>2, <1>3, <1>4

\* An answer or a new call of notify_create_canister keeps the type.
Notifications == [Callers -> [Payments -> {"none", "sent", "ok", "processing", "err"}]]

\* A notification that moves on is still one that the browser or the runner can have.
LEMMA NotificationType ==
    ASSUME notify \in Notifications, NEW c \in Callers, NEW k \in Payments,
           NEW a \in {"none", "sent", "ok", "processing", "err"}
    PROVE  [notify EXCEPT ![c][k] = a] \in Notifications
BY DEF Notifications

\* The ledger, the CMC and the rejected calls of the runner touch neither the
\* browser's call nor the list.
LEMMA AroundKeeps ==
    ASSUME IInv, NEW k \in Payments,
           \/ LedgerTransfers(k) \/ Cmc(k) \/ RunnerNotifies(k) \/ RunnerCallRejected(k)
    PROVE  IInv'
<1>1. UNCHANGED <<client, name, attempts, attach, list, history>>
  BY DEF LedgerTransfers, Cmc, CmcReceives, CmcCompletes, RunnerNotifies, RunnerCallRejected,
         browser
<1>2. TypeOK'
  <2>1. CASE LedgerTransfers(k)
    BY <2>1 DEF LedgerTransfers, IInv, TypeOK, history
  <2>2. CASE Cmc(k)
    <3>1. notify' \in Notifications
      <4>0. notify \in Notifications /\ \A c \in Callers : c \in {"client", "runner"}
        BY DEF IInv, TypeOK, Notifications, Callers
      <4>1. CASE \E c \in Callers : CmcReceives(c, k)
        <5>1. PICK c \in Callers : CmcReceives(c, k)
          BY <4>1
        <5>2. CASE UNCHANGED notify
          BY <4>0, <5>2
        <5>3. CASE \E a \in {"none", "sent", "ok", "processing", "err"} :
                      notify' = [notify EXCEPT ![c][k] = a]
          <6>1. PICK a \in {"none", "sent", "ok", "processing", "err"} :
                   notify' = [notify EXCEPT ![c][k] = a]
            BY <5>3
          <6>2. [notify EXCEPT ![c][k] = a] \in Notifications
            BY <4>0, NotificationType
          <6> QED BY <6>1, <6>2
        <5> QED BY <5>1, <5>2, <5>3 DEF CmcReceives
      <4>2. CASE CmcCompletes(k)
        <5>1. PICK c \in Callers : c = cmc[k]
          BY <4>2 DEF CmcCompletes
        <5>2. PICK a \in {"none", "sent", "ok", "processing", "err"} :
                 notify' = [notify EXCEPT ![c][k] = a]
          BY <4>2, <5>1 DEF CmcCompletes
        <5>3. notify \in Notifications
          BY <4>0
        <5>4. [notify EXCEPT ![c][k] = a] \in Notifications
          BY <5>3, NotificationType
        <5> QED BY <5>2, <5>4
      <4> QED BY <2>2, <4>1, <4>2 DEF Cmc
    <3>2. cmc' \in [Payments -> {"new", "created", "refunded"} \cup Callers]
      BY <2>2 DEF Cmc, CmcReceives, CmcCompletes, IInv, TypeOK
    <3>3. UNCHANGED <<browser, runner, rejected, list, paid, history>>
      BY <2>2 DEF Cmc, CmcReceives, CmcCompletes
    <3> QED BY <3>1, <3>2, <3>3 DEF IInv, TypeOK, history, browser, Notifications
  <2>3. CASE RunnerNotifies(k)
    BY <2>3 DEF RunnerNotifies, IInv, TypeOK, history, browser, Callers
  <2>4. CASE RunnerCallRejected(k)
    BY <2>4 DEF RunnerCallRejected, IInv, TypeOK, history, browser, Callers
  <2> QED BY <2>1, <2>2, <2>3, <2>4
<1>3. OneRequest'
  BY <1>1 DEF IInv, OneRequest
<1>4. NamesGiven' /\ AnsweredIsListed' /\ NeverForgotten'
  BY <1>1, ListKept
<1> QED BY <1>2, <1>3, <1>4 DEF IInv

\* A transfer for a new canister keeps the invariant.
LEMMA StartKeeps ==
    ASSUME IInv, NEW k \in Payments, NEW n \in RequestNames, Start(k, n)
    PROVE  IInv'
<1>1. TypeOK'
  BY DEF Start, IInv, TypeOK, history, Ended
<1>2. OneRequest'
  BY DEF Start, IInv, TypeOK, OneRequest, Ended
<1>3. attach[k] = "none"
  BY DEF Start, IInv, OneRequest
<1>4. NamesGiven' /\ AnsweredIsListed' /\ NeverForgotten'
  <2>1. ~Ignored("none") /\ UNCHANGED <<list, history, attach>>
    BY DEF Ignored, Start
  <2>2. \A j \in Payments : j # k => name'[j] = name[j]
    BY DEF Start, IInv, TypeOK
  <2> QED BY <1>3, <2>1, <2>2, ListKept
<1> QED BY <1>1, <1>2, <1>4 DEF IInv

\* Notifying, polling, finishing and the loss of the browser keep the invariant.
LEMMA ClientKeeps ==
    ASSUME IInv, NEW k \in Payments, Client(k) \/ ClientFails(k)
    PROVE  IInv'
<1>1. TypeOK'
  <2>1. CASE ClientNotifies(k)
    BY <2>1 DEF ClientNotifies, IInv, TypeOK, history, Callers
  <2>2. CASE ClientPolls(k)
    <3>1. CASE MayRetry(attempts[k] + 1)
      <4>1. notify' \in Notifications /\ UNCHANGED client
        <5>1. notify' = [notify EXCEPT !["client"][k] = "sent"] /\ UNCHANGED client
          BY <2>2, <3>1 DEF ClientPolls
        <5> QED BY <5>1 DEF IInv, TypeOK, Notifications, Callers
      <4>2. attempts' \in [Payments -> 0 .. MaxAttempts - 1]
        BY <2>2, <3>1, CreateCanisterAssumption DEF ClientPolls, MayRetry, IInv, TypeOK
      <4> QED BY <2>2, <4>1, <4>2 DEF ClientPolls, IInv, TypeOK, history, Notifications
    <3>2. CASE ~MayRetry(attempts[k] + 1)
      <4>1. /\ UNCHANGED <<notify, name, transfer, attach, runner, rejected, list, paid, cmc, history>>
            /\ attempts' = [attempts EXCEPT ![k] = 0]
            /\ client' = [client EXCEPT ![k] = "failed"]
        BY <2>2, <3>2 DEF ClientPolls
      <4>2. attempts' \in [Payments -> 0 .. MaxAttempts - 1]
        BY <4>1, CreateCanisterAssumption DEF IInv, TypeOK
      <4> QED BY <4>1, <4>2 DEF IInv, TypeOK, history, Ended
    <3> QED BY <3>1, <3>2
  <2>3. CASE ClientAttaches(k)
    BY <2>3, CreateCanisterAssumption DEF ClientAttaches, IInv, TypeOK, history, Callers
  <2>4. CASE ClientDone(k)
    BY <2>4 DEF ClientDone, IInv, TypeOK, history, Ended
  <2>5. CASE ClientFails(k)
    <3>1. notify' \in Notifications
      BY <2>5, NotificationType DEF ClientFails, IInv, TypeOK, Notifications, Callers
    <3>2. attempts' \in [Payments -> 0 .. MaxAttempts - 1]
      BY <2>5, CreateCanisterAssumption DEF ClientFails, IInv, TypeOK
    <3>3. client' \in [Payments -> {"idle", "transfer", "notify", "attach"} \cup Ended]
      BY <2>5 DEF ClientFails, IInv, TypeOK, Ended
    <3> QED BY <2>5, <3>1, <3>2, <3>3 DEF ClientFails, IInv, TypeOK, history, Notifications
  <2> QED BY <2>1, <2>2, <2>3, <2>4, <2>5 DEF Client
<1>2. OneRequest'
  <2>1. CASE ClientNotifies(k)
    BY <2>1 DEF ClientNotifies, IInv, TypeOK, OneRequest
  <2>2. CASE ClientPolls(k)
    BY <2>2 DEF ClientPolls, IInv, TypeOK, OneRequest
  <2>3. CASE ClientAttaches(k)
    BY <2>3 DEF ClientAttaches, IInv, TypeOK, OneRequest
  <2>4. CASE ClientDone(k)
    BY <2>4 DEF ClientDone, IInv, TypeOK, OneRequest
  <2>5. CASE ClientFails(k)
    BY <2>5 DEF ClientFails, IInv, TypeOK, OneRequest
  <2> QED BY <2>1, <2>2, <2>3, <2>4, <2>5 DEF Client
<1>3. NamesGiven' /\ AnsweredIsListed' /\ NeverForgotten'
  <2>1. UNCHANGED <<list, history, name>>
    BY DEF Client, ClientNotifies, ClientPolls, ClientAttaches, ClientDone, ClientFails
  <2>2. CASE ClientAttaches(k)
    <3>1. attach[k] = "none"
      BY <2>2 DEF ClientAttaches, IInv, OneRequest
    <3>2. \A j \in Payments : attach'[j] = IF j = k THEN "sent" ELSE attach[j]
      BY <2>2 DEF ClientAttaches, IInv, TypeOK
    <3>3. ~Ignored("sent")
      BY DEF Ignored
    <3> QED BY <2>1, <3>1, <3>2, <3>3, ListKept
  <2>3. CASE ~ClientAttaches(k)
    <3>1. UNCHANGED attach
      BY <2>3 DEF Client, ClientNotifies, ClientPolls, ClientDone, ClientFails
    <3> QED BY <2>1, <3>1, ListKept
  <2> QED BY <2>2, <2>3
<1> QED BY <1>1, <1>2, <1>3 DEF IInv

-----------------------------------------------------------------------------
(***************************************************************************)
(* The steps that change the list.                                         *)
(***************************************************************************)

\* Canisters that are in the new list, if they were in the old one, are not
\* forgotten.
LEMMA NoneForgotten ==
    ASSUME IInv, NEW new, ListBecomes(new), detached \subseteq detached',
           \A id \in Payments : id \notin detached' /\ Has(list, id) => Has(new, id)
    PROVE  NeverForgotten'
<1> SUFFICES ASSUME NEW id \in listed' \ detached' PROVE Has(new, id)
  BY DEF NeverForgotten, ListBecomes, Has, Elems
<1>1. CASE id \in {c.id : c \in Elems(new)}
  BY <1>1 DEF Has
<1>2. CASE id \notin {c.id : c \in Elems(new)}
  <2>1. id \in listed \ detached
    BY <1>2 DEF ListBecomes
  <2> QED BY <2>1 DEF IInv, TypeOK, NeverForgotten
<1> QED BY <1>1, <1>2

\* The type of the history when the list changes
LEMMA ListedType ==
    ASSUME IInv, NEW new \in Seq(NamedCanister), ListBecomes(new)
    PROVE  list' \in Seq(NamedCanister) /\ listed' \subseteq Payments
<1>1. ASSUME NEW c \in Elems(new) PROVE c.id \in Payments
  <2>1. c \in NamedCanister
    BY DEF Elems
  <2> QED BY <2>1 DEF NamedCanister, Payments
<1> QED BY <1>1 DEF ListBecomes, IInv, TypeOK

\* attach_canister keeps the invariant: an entry of this canister without a name can only be the
\* runner's, and CanisterAlreadyAttached means that the name of the request is there.
LEMMA BackendAttachesKeeps ==
    ASSUME IInv, NEW k \in Payments, BackendAttaches(k)
    PROVE  IInv'
<1> DEFINE answer == AttachResponse(list, name[k], k)
<1>1. /\ list \in Seq(NamedCanister) /\ name[k] \in RequestNames /\ attach[k] = "sent"
      /\ \A j \in Payments : attach'[j] = IF j = k THEN answer ELSE attach[j]
      /\ UNCHANGED <<client, name, renamed, detached>>
  BY DEF BackendAttaches, IInv, TypeOK
<1>2. \E new \in Seq(NamedCanister) : ListBecomes(new)
  <2>1. CASE answer = "Ok"
    <3>1. PICK new \in AfterAttach(list, name[k], k) : ListBecomes(new)
      BY <1>1, <2>1 DEF BackendAttaches
    <3> QED BY <1>1, <2>1, <3>1, Attached DEF Payments
  <2>2. CASE answer # "Ok"
    BY <1>1, <2>2 DEF BackendAttaches, AfterRefusal
  <2> QED BY <2>1, <2>2
<1>3. TypeOK'
  <2>1. answer \in {"Ok", "CanisterAlreadyAttached", "NameAlreadyTaken", "NameTooLong",
                    "CanisterLimitExceeded"}
    BY DEF AttachResponse
  <2>2. list' \in Seq(NamedCanister) /\ listed' \subseteq Payments
    BY <1>2, ListedType
  <2> HIDE DEF answer
  <2>3. attach' = [attach EXCEPT ![k] = answer]
    BY DEF BackendAttaches, answer
  <2> QED BY <2>1, <2>2, <2>3 DEF BackendAttaches, IInv, TypeOK
<1>4. OneRequest'
  <2>1. client[k] \notin {"idle", "transfer", "notify", "done"}
    BY <1>1 DEF IInv, OneRequest, Ignored
  <2> HIDE DEF answer
  <2> QED BY <1>1, <2>1 DEF IInv, OneRequest
<1>5. CASE answer = "Ok"
  <2> DEFINE entry == [name |-> name[k], id |-> k]
  <2>1. PICK new \in AfterAttach(list, name[k], k) : ListBecomes(new)
    BY <1>1, <1>5 DEF BackendAttaches
  <2>2. OthersStay(new, k) /\ Adds(new, entry)
    BY <1>1, <1>5, Attached DEF Payments
  <2>3. list' = new
    BY <2>1 DEF ListBecomes
  <2> HIDE DEF answer
  <2>4. NamesGiven'
    <3> SUFFICES ASSUME NEW c \in Elems(new)
                 PROVE  \/ c.id \in renamed \/ c.name = EmptyName
                        \/ attach'[c.id] = "Ok" /\ c.name = name[c.id]
      BY <1>1, <2>3 DEF NamesGiven, Elems
    <3>1. CASE c = entry
      BY <1>1, <1>5, <3>1
    <3>2. CASE c # entry
      <4>1. c \in Elems(list) /\ c.id \in Payments
        BY <1>1, <2>2, <3>2, EntriesAreCanisters DEF Adds
      <4>2. \/ c.id \in renamed \/ c.name = EmptyName
            \/ attach[c.id] = "Ok" /\ c.name = name[c.id]
        BY <4>1 DEF IInv, NamesGiven
      <4> QED BY <1>1, <4>1, <4>2
    <3> QED BY <3>1, <3>2
  <2>5. AnsweredIsListed'
    <3> SUFFICES ASSUME NEW j \in Payments, Ignored(attach'[j]), j \notin renamed \cup detached
                 PROVE  [name |-> name[j], id |-> j] \in Elems(new)
      BY <1>1, <2>3 DEF AnsweredIsListed, Elems
    <3>1. CASE j = k
      BY <2>2, <3>1 DEF Adds
    <3>2. CASE j # k
      <4>1. [name |-> name[j], id |-> j] \in Elems(list)
        BY <1>1, <3>2 DEF IInv, AnsweredIsListed
      <4> QED BY <2>2, <3>2, <4>1 DEF OthersStay
    <3> QED BY <3>1, <3>2
  <2>6. NeverForgotten'
    <3>1. \A id \in Payments : Has(list, id) => Has(new, id)
      BY <2>2 DEF Has, OthersStay, Adds
    <3> QED BY <1>1, <2>1, <3>1, NoneForgotten
  <2> QED BY <1>3, <1>4, <2>4, <2>5, <2>6 DEF IInv
<1>6. CASE answer # "Ok"
  <2>1. ListBecomes(list)
    BY <1>1, <1>6 DEF BackendAttaches, AfterRefusal
  <2>2. list' = list
    BY <2>1 DEF ListBecomes
  <2>3. NamesGiven'
    <3> SUFFICES ASSUME NEW c \in Elems(list)
                 PROVE  \/ c.id \in renamed \/ c.name = EmptyName
                        \/ attach'[c.id] = "Ok" /\ c.name = name[c.id]
      BY <1>1, <2>2 DEF NamesGiven, Elems
    <3> HIDE DEF answer
    <3>1. c.id \in Payments
      BY <1>1, EntriesAreCanisters
    <3> QED BY <1>1, <3>1 DEF IInv, NamesGiven
  <2>4. AnsweredIsListed'
    <3> SUFFICES ASSUME NEW j \in Payments, Ignored(attach'[j]), j \notin renamed \cup detached
                 PROVE  [name |-> name[j], id |-> j] \in Elems(list)
      BY <1>1, <2>2 DEF AnsweredIsListed, Elems
    <3>1. CASE j = k
      <4>1. answer = "CanisterAlreadyAttached"
        BY <1>1, <1>6, <3>1 DEF Ignored
      <4>2. PICK c \in Elems(list) : AlreadyAttached(name[k], k, c)
        BY <1>1, <4>1, AttachedAlready
      <4>3. c.id = k /\ c.name = EmptyName /\ name[k] = EmptyName
        BY <1>1, <3>1, <4>2 DEF AlreadyAttached, IInv, NamesGiven
      <4> QED BY <1>1, <3>1, <4>3, EntriesAreCanisters
    <3>2. CASE j # k
      BY <1>1, <3>2 DEF IInv, AnsweredIsListed
    <3> QED BY <3>1, <3>2
  <2>5. NeverForgotten'
    BY <1>1, <2>1, NoneForgotten
  <2> QED BY <1>3, <1>4, <2>3, <2>4, <2>5 DEF IInv
<1> QED BY <1>5, <1>6

\* A rename by the user keeps the invariant.
LEMMA UserRenamesKeeps ==
    ASSUME IInv, NEW id \in Payments, NEW n \in RequestNames, UserRenames(id, n)
    PROVE  IInv'
<1> DEFINE entry == [name |-> n, id |-> id]
<1>1. PICK new \in AfterRename(list, n, id) : ListBecomes(new)
  BY DEF UserRenames
<1>2. list \in Seq(NamedCanister) /\ renamed' = renamed \cup {id}
      /\ UNCHANGED <<client, name, attach, detached>>
  BY DEF UserRenames, IInv, TypeOK, browser
<1>3. new \in Seq(NamedCanister) /\ OthersStay(new, id) /\ Adds(new, entry)
  BY <1>2, Renamed DEF UserRenames, Payments
<1>4. list' = new
  BY <1>1 DEF ListBecomes
<1>5. TypeOK'
  <2>1. list' \in Seq(NamedCanister) /\ listed' \subseteq Payments
    BY <1>1, <1>3, ListedType
  <2> QED BY <2>1 DEF UserRenames, IInv, TypeOK, browser
<1>6. OneRequest'
  BY <1>2 DEF IInv, OneRequest
<1>7. NamesGiven'
  <2> SUFFICES ASSUME NEW c \in Elems(new), c.id # id
               PROVE  \/ c.id \in renamed \/ c.name = EmptyName
                      \/ attach[c.id] = "Ok" /\ c.name = name[c.id]
    BY <1>2, <1>4 DEF NamesGiven, Elems
  <2>1. c \in Elems(list)
    BY <1>3 DEF Adds
  <2> QED BY <2>1 DEF IInv, NamesGiven
<1>8. AnsweredIsListed'
  <2> SUFFICES ASSUME NEW j \in Payments, Ignored(attach[j]), j \notin renamed' \cup detached
               PROVE  [name |-> name[j], id |-> j] \in Elems(new)
    BY <1>2, <1>4 DEF AnsweredIsListed, Elems
  <2>1. j # id /\ [name |-> name[j], id |-> j] \in Elems(list)
    BY <1>2 DEF IInv, AnsweredIsListed
  <2> QED BY <1>3, <2>1 DEF OthersStay
<1>9. NeverForgotten'
  <2>1. \A j \in Payments : Has(list, j) => Has(new, j)
    BY <1>3 DEF Has, OthersStay, Adds
  <2> QED BY <1>1, <1>2, <2>1, NoneForgotten
<1> QED BY <1>5, <1>6, <1>7, <1>8, <1>9 DEF IInv

\* A detach by the user keeps the invariant; from then on the canister need not be listed.
LEMMA UserDetachesKeeps ==
    ASSUME IInv, NEW id \in Payments, UserDetaches(id)
    PROVE  IInv'
<1> DEFINE new == AfterDetach(list, id)
<1>1. ListBecomes(new)
  BY DEF UserDetaches
<1>2. list \in Seq(NamedCanister) /\ detached' = detached \cup {id}
      /\ UNCHANGED <<client, name, attach, renamed>>
  BY DEF UserDetaches, IInv, TypeOK, browser
<1>3. new \in Seq(NamedCanister) /\ OthersStay(new, id) /\ Elems(new) \subseteq Elems(list)
  BY <1>2, Detached DEF UserDetaches, Payments
<1>4. list' = new
  BY <1>1 DEF ListBecomes
<1> HIDE DEF new
<1>5. TypeOK'
  <2>1. list' \in Seq(NamedCanister) /\ listed' \subseteq Payments
    BY <1>1, <1>3, ListedType
  <2> QED BY <2>1 DEF UserDetaches, IInv, TypeOK, browser
<1>6. OneRequest'
  BY <1>2 DEF IInv, OneRequest
<1>7. NamesGiven'
  BY <1>2, <1>3, <1>4 DEF IInv, NamesGiven, Elems
<1>8. AnsweredIsListed'
  <2> SUFFICES ASSUME NEW j \in Payments, Ignored(attach[j]), j \notin renamed \cup detached'
               PROVE  [name |-> name[j], id |-> j] \in Elems(new)
    BY <1>2, <1>4 DEF AnsweredIsListed, Elems
  <2>1. j # id /\ [name |-> name[j], id |-> j] \in Elems(list)
    BY <1>2 DEF IInv, AnsweredIsListed
  <2> QED BY <1>3, <2>1 DEF OthersStay
<1>9. NeverForgotten'
  <2>1. \A j \in Payments : j # id /\ Has(list, j) => Has(new, j)
    BY <1>3 DEF Has, OthersStay
  <2> QED BY <1>1, <1>2, <2>1, NoneForgotten
<1> QED BY <1>5, <1>6, <1>7, <1>8, <1>9 DEF IInv

\* The end of the runner's call keeps the invariant, whether it attaches, queues again or drops the
\* payment.
LEMMA RunnerFinishesKeeps ==
    ASSUME IInv, NEW k \in Payments, RunnerFinishes(k)
    PROVE  IInv'
<1> DEFINE entry == [name |-> EmptyName, id |-> k]
<1>1. list \in Seq(NamedCanister) /\ UNCHANGED <<client, name, attach, renamed, detached>>
  BY DEF RunnerFinishes, IInv, TypeOK, browser
<1>2. runner' \in [Payments -> {"queued", "calling", "done"}]
  BY DEF RunnerFinishes, RunnerNext, IInv, TypeOK
<1>3. OneRequest'
  BY <1>1 DEF IInv, OneRequest
<1>4. CASE notify["runner"][k] = "ok"
  <2>1. PICK new \in AfterNewlyCreated(list, k) : ListBecomes(new)
    BY <1>4 DEF RunnerFinishes
  <2>2. /\ new \in Seq(NamedCanister) /\ Elems(list) \subseteq Elems(new)
        /\ Elems(new) \subseteq Elems(list) \cup {entry}
    BY <1>1, NewlyCreated DEF Payments
  <2>3. list' = new
    BY <2>1 DEF ListBecomes
  <2>4. TypeOK'
    <3>1. list' \in Seq(NamedCanister) /\ listed' \subseteq Payments
      BY <2>1, <2>2, ListedType
    <3> QED BY <1>2, <3>1 DEF RunnerFinishes, IInv, TypeOK, browser
  <2>5. NamesGiven'
    <3> SUFFICES ASSUME NEW c \in Elems(new)
                 PROVE  \/ c.id \in renamed \/ c.name = EmptyName
                        \/ attach[c.id] = "Ok" /\ c.name = name[c.id]
      BY <1>1, <2>3 DEF NamesGiven, Elems
    <3>1. c = entry \/ c \in Elems(list)
      BY <2>2
    <3> QED BY <3>1 DEF IInv, NamesGiven
  <2>6. AnsweredIsListed'
    BY ZenonT(60), <1>1, <2>2, <2>3 DEF IInv, AnsweredIsListed, Elems
  <2>7. NeverForgotten'
    <3>1. \A j \in Payments : Has(list, j) => Has(new, j)
      BY <2>2 DEF Has
    <3> QED BY <1>1, <2>1, <3>1, NoneForgotten
  <2> QED BY <1>3, <2>4, <2>5, <2>6, <2>7 DEF IInv
<1>5. CASE notify["runner"][k] # "ok"
  <2>1. UNCHANGED <<list, history>>
    BY <1>5 DEF RunnerFinishes, history
  <2>2. TypeOK'
    BY <1>2, <2>1 DEF RunnerFinishes, IInv, TypeOK, browser, history
  <2>3. NamesGiven' /\ AnsweredIsListed' /\ NeverForgotten'
    BY <1>1, <2>1, ListKept
  <2> QED BY <1>3, <2>2, <2>3 DEF IInv
<1> QED BY <1>4, <1>5

-----------------------------------------------------------------------------
(***************************************************************************)
(* The theorems.                                                           *)
(***************************************************************************)

\* The invariant holds before the first transfer.
LEMMA Initially == Init => IInv
<1> SUFFICES ASSUME Init PROVE IInv
  OBVIOUS
<1>1. TypeOK
  <2>1. EmptyName \in RequestNames
    BY CanisterListAssumption DEF EmptyName, RequestNames, Names
  <2>2. 0 \in 0 .. MaxAttempts - 1
    BY CreateCanisterAssumption
  <2> QED BY <2>1, <2>2 DEF Init, TypeOK, Callers
<1>2. OneRequest
  BY DEF Init, OneRequest
<1>3. NamesGiven /\ AnsweredIsListed /\ NeverForgotten
  BY DEF Init, NamesGiven, AnsweredIsListed, NeverForgotten, Ignored, Elems
<1> QED BY <1>1, <1>2, <1>3 DEF IInv

\* Every step keeps the invariant, one action at a time.
LEMMA Inductive == IInv /\ [Next]_vars => IInv'
<1> SUFFICES ASSUME IInv, [Next]_vars PROVE IInv'
  OBVIOUS
<1>1. CASE UNCHANGED vars
  <2>1. UNCHANGED <<client, name, attempts, transfer, attach, notify, runner, rejected, list,
                    paid, cmc, listed, renamed, detached>>
    BY <1>1 DEF vars, browser, history
  <2>2. NamesGiven' /\ AnsweredIsListed' /\ NeverForgotten'
    BY <2>1, ListKept DEF history
  <2> QED BY <2>1, <2>2 DEF IInv, TypeOK, OneRequest
<1>2. CASE Next
  <2>1. PICK k \in Payments :
          \/ \E n \in RequestNames : Start(k, n) \/ UserRenames(k, n)
          \/ UserDetaches(k)
          \/ LedgerTransfers(k) \/ Cmc(k)
          \/ Client(k) \/ ClientFails(k) \/ BackendAttaches(k)
          \/ Runner(k) \/ RunnerCallRejected(k)
    BY <1>2 DEF Next
  <2> QED BY <2>1, StartKeeps, UserRenamesKeeps, UserDetachesKeeps, AroundKeeps, ClientKeeps,
             BackendAttachesKeeps, RunnerFinishesKeeps DEF Runner
<1> QED BY <1>1, <1>2

\* The invariant of this module.
THEOREM InvariantHolds == Spec => []IInv
BY Initially, Inductive, PTL DEF Spec

\* Every variable has its type: in particular the lists are made of canisters of
\* this user's payments with names that fit, and no poll of notify_create_canister
\* goes beyond its attempts.
THEOREM TypeCorrect == Spec => []TypeOK
<1>1. IInv => TypeOK
  BY DEF IInv
<1> QED BY <1>1, InvariantHolds, PTL

\* When createCanister of canisters.api.ts reports success, the canister is listed
\* with the user's name: the answer CanisterAlreadyAttachedError that it ignores is
\* given only for an entry with this very name.
THEOREM SuccessesAreListed == Spec => []SuccessIsListed
<1>1. IInv => SuccessIsListed
  BY DEF IInv, OneRequest, AnsweredIsListed, SuccessIsListed
<1> QED BY <1>1, InvariantHolds, PTL

\* attach_canister, rename_canister and attach_newly_created_canister of
\* accounts_store.rs never lose a canister of the list.
THEOREM CanistersAreKept == Spec => []NeverForgotten
<1>1. IInv => NeverForgotten
  BY DEF IInv
<1> QED BY <1>1, InvariantHolds, PTL
=============================================================================
