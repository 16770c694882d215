------------------------- MODULE IcpAccountsProofs -------------------------
(***************************************************************************)
(* Theorems about IcpAccounts, for every set of accounts and every bound:  *)
(* the queued stores show, for each account, the answer of the last        *)
(* request that has one (the refinement of FreshestAnswer), no request     *)
(* finds its spot gone, and the two stores agree.                          *)
(*                                                                         *)
(* The argument is about a queue and a history of answers, whatever they   *)
(* are about: Represents says how the two fit, and the operations of       *)
(* QueuedStore keep it.  It is then used for both stores.                  *)
(*                                                                         *)
(* And about HardwareWallet, for any number of wallets and tabs: a request *)
(* is signed by the wallet of its account, and once.                       *)
(***************************************************************************)
EXTENDS IcpAccounts, HardwareWallet, FiniteSetTheorems, WellFoundedInduction, TLAPS

-----------------------------------------------------------------------------
(***************************************************************************)
(* A queued store and the answers that filled it.                          *)
(***************************************************************************)

\* The entries of a queue, and their spots
Elems(queue) == {queue[i] : i \in DOMAIN queue}
Keys(queue) == {queue[i].mutationKey : i \in DOMAIN queue}

\* What one request was answered about an item; `ans` has at most one element.
Says(ans, i) == \E x \in ans : i \in DOMAIN x.items
ItemOf(ans, i) == (CHOOSE x \in ans : TRUE).items[i]

\* The data show the last answer among those of the requests in R.
ShowsItem(data, initial, answers, R, i) ==
    \/ /\ \A r \in R : ~Says(answers[r], i)
       /\ data[i] = initial[i]
    \/ \E r \in R :
        /\ Says(answers[r], i) /\ data[i] = ItemOf(answers[r], i)
        /\ \A s \in R : Says(answers[s], i) => s <= r

Shows(data, initial, answers, R) ==
    \A i \in DOMAIN initial : ShowsItem(data, initial, answers, R, i)

\* An entry holds what its request was answered.
Matches(entry, ans) ==
    /\ Mutation(entry) = {x.items : x \in ans}
    /\ entry.certifiedMutation = {x.items : x \in {y \in ans : y.certified}}

\* The spots stand in the order of the requests and hold their answers.
Filled(queue, answers) ==
    /\ \A i, j \in DOMAIN queue : i < j => queue[i].mutationKey < queue[j].mutationKey
    /\ \A i \in DOMAIN queue :
        queue[i].mutationKey \in DOMAIN answers /\ Matches(queue[i], answers[queue[i].mutationKey])

\* What left the queue came before what is in it, and is in the data.
Before(R, queue, answers) ==
    \A r \in R : answers[r] # {} => \A i \in DOMAIN queue : r < queue[i].mutationKey

Represents(store, initial, answers) ==
    LET gone == DOMAIN answers \ Keys(store.mutationQueue) IN
    /\ Filled(store.mutationQueue, answers)
    /\ Before(gone, store.mutationQueue, answers)
    /\ Shows(store.certifiedData, initial, answers, gone)
    /\ Shows(store.exposed, initial, answers, DOMAIN answers)

\* The types
Parts(Items, Values) == UNION {[S -> Values] : S \in SUBSET Items}

Entries(Items, Values) ==
    [mutationKey : Nat, strategy : Strategies, certifiedMutation : SUBSET Parts(Items, Values),
     nonCertifiedMutation : SUBSET Parts(Items, Values)]

Stores(Items, Values) ==
    [certifiedData : [Items -> Values], mutationQueue : Seq(Entries(Items, Values)),
     exposed : [Items -> Values]]

\* At most one answer
AnswerSets(Items, Values) ==
    {{}} \cup {{x} : x \in [certified : BOOLEAN, items : Parts(Items, Values)]}

-----------------------------------------------------------------------------
(***************************************************************************)
(* The invariant.                                                          *)
(***************************************************************************)
Balances == [count : Counts, certified : BOOLEAN, present : BOOLEAN]
Shown == {"absent", "uncertified", "certified"}
RequestKinds == {"sync", "init", "load", "poll"}

NoBalances == [a \in Accounts |-> NoBalance]
NoDetails == [a \in Accounts |-> "absent"]

RequestRecords ==
    [kind : RequestKinds, accounts : SUBSET Accounts, call : Requests, since : [Accounts -> Counts],
     had : SUBSET Accounts, answer : AnswerSets(Accounts, Balances)]

Types ==
    /\ ledger \in [Accounts -> Counts] /\ known \in SUBSET Accounts
    /\ sent \in SUBSET (Accounts \X Accounts)
    /\ requests \in Seq(RequestRecords)
    /\ polling \in {0} \cup DOMAIN requests
    /\ balances \in Stores(Accounts, Balances) /\ details \in Stores(Accounts, Shown)
    /\ forced \in BOOLEAN /\ transfers \in Counts /\ failures \in 0 .. MaxFailures

\* Every transaction of an account is one of the transfers.
LedgerBound == \A a \in Accounts : ledger[a] <= transfers

\* What the requests were answered, and what the details show of it
Given == [r \in DOMAIN requests |-> requests[r].answer]

DetailsIn(x) ==
    [a \in Accounts |-> IF ~x.items[a].present THEN "absent"
                        ELSE IF x.certified THEN "certified" ELSE "uncertified"]

DetailAnswers ==
    [r \in DOMAIN requests |->
        IF requests[r].kind = "load" THEN {}
        ELSE {[certified |-> x.certified, items |-> DetailsIn(x)] : x \in requests[r].answer}]

\* What an answer of a request is about: all accounts, or the one whose balance
\* was loaded.  A certified answer is at least as new as the request.
AnswersFit ==
    \A r \in DOMAIN requests : \A x \in requests[r].answer :
        /\ requests[r].kind # "load" => DOMAIN x.items = Accounts
        /\ requests[r].kind = "load" => \A a \in DOMAIN x.items : x.items[a].present
        /\ x.certified => \A a \in DOMAIN x.items :
              x.items[a].present => requests[r].since[a] <= x.items[a].count

\* The ledger only grows.
SinceGrows ==
    /\ \A r \in DOMAIN requests, a \in Accounts : requests[r].since[a] <= ledger[a]
    /\ \A r, s \in DOMAIN requests : r < s =>
          \A a \in Accounts : requests[r].since[a] <= requests[s].since[a]

\* An answer that came is not waited for, and the certified one is the last that
\* is heard.
CallsFit ==
    \A r \in DOMAIN requests : \A x \in requests[r].answer :
        IF x.certified THEN requests[r].call.waiting = {} \/ ~Heard(requests[r].call)
        ELSE FALSE \notin requests[r].call.waiting

\* There is one poll at a time, and it makes one call.
PollsFit ==
    /\ \A r \in DOMAIN requests : requests[r].kind = "poll" =>
          /\ Heard(requests[r].call) /\ requests[r].call.waiting # BOOLEAN
          /\ requests[r].call.waiting # {} => polling = r
    /\ polling # 0 => /\ requests[polling].kind = "poll" /\ requests[polling].answer = {}
                      /\ requests[polling].call.waiting # {}

\* A request keeps its spot as long as a call of it can be heard.
Awaited(r) == requests[r].call.waiting # {} /\ Heard(requests[r].call)

SpotsFit(queue, reqs) ==
    \A e \in Elems(queue) :
        e.strategy = "query" => TRUE \notin reqs[e.mutationKey].call.waiting

SpotsKept ==
    /\ \A r \in DOMAIN requests : Awaited(r) =>
          /\ r \in Keys(balances.mutationQueue)
          /\ requests[r].kind # "load" => r \in Keys(details.mutationQueue)
    /\ SpotsFit(balances.mutationQueue, requests) /\ SpotsFit(details.mutationQueue, requests)

BalancesFit == Represents(balances, NoBalances, Given)
DetailsFit == Represents(details, NoDetails, DetailAnswers)

IInv ==
    /\ Types /\ LedgerBound /\ AnswersFit /\ SinceGrows /\ CallsFit /\ PollsFit /\ SpotsKept
    /\ BalancesFit /\ DetailsFit

-----------------------------------------------------------------------------
(***************************************************************************)
(* The fold of UpdateExposedData and ApplyFinal.                           *)
(***************************************************************************)

\* A nonempty set of numbers has a smallest one.
LEMMA SmallestNumber ==
    ASSUME NEW T \in SUBSET Nat, T # {}
    PROVE  \E x \in T : \A y \in T : x <= y
<1> DEFINE R == OpToRel(<, Nat)
<1>1. IsWellFoundedOn(R, Nat)
  BY NatLessThanWellFounded
<1>2. R = {p \in Nat \X Nat : p[1] < p[2]}
  BY DEF OpToRel
<1>3. PICK x \in T : \A y \in T : ~(<<y, x>> \in R)
  <2> HIDE DEF R
  <2> QED BY <1>1, WFMin
<1>4. ASSUME NEW y \in T PROVE x <= y
  <2> HIDE DEF R
  <2>1. x \in Nat /\ y \in Nat
    OBVIOUS
  <2>2. ~(y < x)
    BY <1>2, <1>3, <2>1
  <2> QED BY <2>1, <2>2
<1> QED BY <1>4

\* A nonempty set of numbers up to n has a largest one.
LEMMA LargestNumber ==
    ASSUME NEW n \in Nat, NEW T \in SUBSET (0 .. n), T # {}
    PROVE  \E x \in T : \A y \in T : y <= x
<1> DEFINE D == {n - x : x \in T}
<1>1. D \in SUBSET Nat /\ D # {}
  <2>1. \A x \in T : n - x \in Nat
    OBVIOUS
  <2>2. PICK x \in T : TRUE
    OBVIOUS
  <2>3. n - x \in D
    OBVIOUS
  <2> QED BY <2>1, <2>3
<1>2. PICK d \in D : \A e \in D : d <= e
  <2> HIDE DEF D
  <2> QED BY <1>1, SmallestNumber
<1>3. PICK x \in T : d = n - x
  OBVIOUS
<1>4. ASSUME NEW y \in T PROVE y <= x
  <2>1. n - x <= n - y
    BY <1>2, <1>3
  <2>2. x \in Int /\ y \in Int /\ n \in Int
    OBVIOUS
  <2> HIDE DEF D
  <2> QED BY <2>1, <2>2
<1> QED BY <1>4

\* The largest element of a nonempty set of numbers up to n.
LEMMA MaxOfNumbers ==
    ASSUME NEW n \in Nat, NEW T \in SUBSET (0 .. n), T # {}
    PROVE  Max(T) \in T /\ \A y \in T : y <= Max(T)
<1>1. \E x \in T : \A y \in T : y <= x
  BY LargestNumber
<1>2. \E x \in T : \A y \in T : x >= y
  BY <1>1
<1> QED BY <1>2 DEF Max

\* The same for positions of a sequence
LEMMA MaxOfPositions ==
    ASSUME NEW n \in Nat, NEW T \in SUBSET (1 .. n), T # {}
    PROVE  Max(T) \in T /\ \A y \in T : y <= Max(T)
<1>1. T \in SUBSET (0 .. n)
  OBVIOUS
<1> QED BY <1>1, MaxOfNumbers

\* The entries at the positions s that change an item, and what they leave of it
TouchesIn(q, s, i) ==
    {j \in s : Mutation(q[j]) # {} /\ i \in DOMAIN (CHOOSE m \in Mutation(q[j]) : TRUE)}

LastOnesIn(data, q, s) ==
    [i \in DOMAIN data |->
        IF TouchesIn(q, s, i) = {} THEN data[i]
        ELSE (CHOOSE m \in Mutation(q[Max(TouchesIn(q, s, i))]) : TRUE)[i]]

\* Applying one more entry, the last one.
LEMMA OneMore ==
    ASSUME NEW n \in Nat, NEW q, NEW data, NEW s \in SUBSET (1 .. n), s # {}
    PROVE  LastOnesIn(data, q, s) = Mutated(LastOnesIn(data, q, s \ {Max(s)}), q[Max(s)])
<1> DEFINE x == Max(s)
           rest == s \ {x}
           D == LastOnesIn(data, q, rest)
<1>1. x \in s /\ \A y \in s : y <= x
  BY MaxOfPositions
<1>2. \A i : TouchesIn(q, s, i) \in SUBSET (1 .. n) /\ TouchesIn(q, rest, i) \in SUBSET (1 .. n)
  BY DEF TouchesIn
<1>3. DOMAIN D = DOMAIN data
  BY DEF LastOnesIn
<1>4. CASE Mutation(q[x]) = {}
  <2>1. \A i : TouchesIn(q, s, i) = TouchesIn(q, rest, i)
    BY <1>4 DEF TouchesIn
  <2>2. LastOnesIn(data, q, s) = LastOnesIn(data, q, rest)
    <3> HIDE DEF rest
    <3>1. ASSUME NEW i \in DOMAIN data
          PROVE  LastOnesIn(data, q, s)[i] = LastOnesIn(data, q, rest)[i]
      <4>1. TouchesIn(q, s, i) = TouchesIn(q, rest, i)
        BY <2>1
      <4> QED BY <4>1 DEF LastOnesIn
    <3>2. /\ LastOnesIn(data, q, s) = [i \in DOMAIN data |-> LastOnesIn(data, q, s)[i]]
          /\ LastOnesIn(data, q, rest) = [i \in DOMAIN data |-> LastOnesIn(data, q, rest)[i]]
      BY DEF LastOnesIn
    <3> QED BY <3>1, <3>2
  <2> QED BY <1>4, <2>2 DEF Mutated
<1>5. CASE Mutation(q[x]) # {}
  <2> DEFINE m == CHOOSE y \in Mutation(q[x]) : TRUE
  <2>1. ASSUME NEW i \in DOMAIN data
        PROVE  LastOnesIn(data, q, s)[i] = IF i \in DOMAIN m THEN m[i] ELSE D[i]
    <3>1. CASE i \in DOMAIN m
      <4>1. x \in TouchesIn(q, s, i)
        BY <1>1, <1>5, <3>1 DEF TouchesIn
      <4>2. Max(TouchesIn(q, s, i)) \in TouchesIn(q, s, i) /\ x <= Max(TouchesIn(q, s, i))
        BY <1>2, <4>1, MaxOfPositions
      <4>3. Max(TouchesIn(q, s, i)) = x
        <5> DEFINE z == Max(TouchesIn(q, s, i))
        <5>1. z \in s /\ x <= z
          BY <4>2 DEF TouchesIn
        <5>2. \A y \in s : y \in Int
          OBVIOUS
        <5> HIDE DEF x, z
        <5>3. z <= x /\ z \in Int /\ x \in Int
          BY <1>1, <5>1, <5>2
        <5>4. z = x
          BY <5>1, <5>3
        <5> QED BY <5>4 DEF z
      <4> QED BY <3>1, <4>1, <4>3 DEF LastOnesIn
    <3>2. CASE i \notin DOMAIN m
      <4>1. TouchesIn(q, s, i) = TouchesIn(q, rest, i)
        BY <1>5, <3>2 DEF TouchesIn
      <4> QED BY <3>2, <4>1 DEF LastOnesIn
    <3> QED BY <3>1, <3>2
  <2>2. LastOnesIn(data, q, s) = [i \in DOMAIN data |-> LastOnesIn(data, q, s)[i]]
    BY DEF LastOnesIn
  <2> HIDE DEF m
  <2>3. Mutated(D, q[x]) = Changed(D, m)
    BY <1>5 DEF Mutated, m
  <2>4. Changed(D, m) = [i \in DOMAIN data |-> IF i \in DOMAIN m THEN m[i] ELSE D[i]]
    BY <1>3 DEF Changed
  <2> HIDE DEF D, x, rest
  <2> QED BY <2>1, <2>2, <2>3, <2>4 DEF D, x, rest
<1> QED BY <1>4, <1>5

\* The fold leaves, of every item, what the last entry says that has it.
LEMMA FoldIsLast ==
    ASSUME NEW n \in Nat, NEW q, DOMAIN q = 1 .. n, NEW Items, NEW Values,
           NEW data \in [Items -> Values]
    PROVE  FoldLeft(Mutated, data, q) = LastOnesIn(data, q, 1 .. n)
<1> DEFINE P == SUBSET (1 .. n)
           F(f) == [s \in P |-> IF s = {} THEN data ELSE Mutated(f[s \ {Max(s)}], q[Max(s)])]
           C == [s \in P |-> LastOnesIn(data, q, s)]
           iter == CHOOSE f : f = F(f)
<1>1. C = F(C)
  <2>1. ASSUME NEW s \in P PROVE C[s] = IF s = {} THEN data ELSE Mutated(C[s \ {Max(s)}], q[Max(s)])
    <3>1. CASE s = {}
      <4>1. \A i : TouchesIn(q, s, i) = {}
        BY <3>1 DEF TouchesIn
      <4>2. LastOnesIn(data, q, s) = [i \in DOMAIN data |-> data[i]]
        BY <4>1 DEF LastOnesIn
      <4> QED BY <3>1, <4>2
    <3>2. CASE s # {}
      <4>1. s \ {Max(s)} \in P
        OBVIOUS
      <4> QED BY <3>2, <4>1, OneMore
    <3> QED BY <3>1, <3>2
  <2> QED BY <2>1
<1>2. iter = F(iter)
  <2> HIDE DEF C, F
  <2> QED BY <1>1
<1>3. ASSUME NEW m \in 0 .. n, NEW t \in SUBSET (1 .. m), iter[t] # C[t]
      PROVE  FALSE
  <2> DEFINE Bad == {k \in 0 .. n : \E s \in SUBSET (1 .. k) : iter[s] # C[s]}
  <2>1. Bad \in SUBSET Nat /\ m \in Bad
    <3> HIDE DEF iter, C
    <3>1. 0 .. n \subseteq Nat
      OBVIOUS
    <3> QED BY <1>3, <3>1
  <2>2. PICK k \in Bad : \A l \in Bad : k <= l
    <3> HIDE DEF Bad
    <3> QED BY <2>1, SmallestNumber
  <2>3. PICK s \in SUBSET (1 .. k) : iter[s] # C[s]
    OBVIOUS
  <2>4. k \in 0 .. n /\ s \in P
    OBVIOUS
  <2>5. s # {}
    BY <1>1, <1>2, <2>3, <2>4
  <2> DEFINE x == Max(s)
  <2>6. x \in s /\ \A y \in s : y <= x
    BY <2>4, <2>5, MaxOfPositions
  <2>7. x - 1 \in 0 .. n /\ x - 1 < k /\ s \ {x} \in SUBSET (1 .. (x - 1)) /\ s \ {x} \in P
    <3> HIDE DEF x
    <3>1. x \in 1 .. k
      BY <2>6
    <3>2. \A y \in s : y \in Int
      OBVIOUS
    <3> QED BY <2>4, <2>6, <3>1, <3>2
  <2>8. iter[s \ {x}] = C[s \ {x}]
    <3>1. x - 1 \notin Bad
      <4> HIDE DEF Bad, x
      <4>1. k \in Int
        BY <2>4
      <4> QED BY <2>2, <2>7, <4>1
    <3> HIDE DEF x, iter, C
    <3> QED BY <2>7, <3>1
  <2>9. iter[s] = Mutated(iter[s \ {x}], q[x]) /\ C[s] = Mutated(C[s \ {x}], q[x])
    <3> HIDE DEF iter, C
    <3> QED BY <1>1, <1>2, <2>4, <2>5
  <2> QED BY <2>3, <2>8, <2>9
<1>4. iter[1 .. n] = C[1 .. n]
  <2>1. n \in 0 .. n /\ 1 .. n \in SUBSET (1 .. n)
    OBVIOUS
  <2> HIDE DEF iter, C
  <2> QED BY <1>3, <2>1
<1>5. FoldLeft(Mutated, data, q) = iter[1 .. n]
  BY DEF FoldLeft, MapThenFoldSet
<1> QED BY <1>4, <1>5

-----------------------------------------------------------------------------
(***************************************************************************)
(* What the fold shows.                                                    *)
(***************************************************************************)

\* An entry says of an item what its request was answered.
LEMMA EntrySays ==
    ASSUME NEW Items, NEW Values, NEW entry, NEW ans \in AnswerSets(Items, Values),
           Matches(entry, ans), NEW i
    PROVE  LET m == CHOOSE y \in Mutation(entry) : TRUE IN
           /\ (Mutation(entry) # {} /\ i \in DOMAIN m) <=> Says(ans, i)
           /\ Says(ans, i) => m[i] = ItemOf(ans, i) /\ ItemOf(ans, i) \in Values
<1>1. CASE ans = {}
  BY <1>1 DEF Matches, Says
<1>2. CASE ans # {}
  <2>1. PICK x \in [certified : BOOLEAN, items : Parts(Items, Values)] : ans = {x}
    BY <1>2 DEF AnswerSets
  <2>2. PICK S \in SUBSET Items : x.items \in [S -> Values]
    BY DEF Parts
  <2>3. Mutation(entry) = {x.items}
    BY <2>1 DEF Matches
  <2>4. (CHOOSE y \in Mutation(entry) : TRUE) = x.items
    BY <2>3
  <2>5. ItemOf(ans, i) = x.items[i]
    BY <2>1 DEF ItemOf
  <2>6. Says(ans, i) <=> i \in S
    BY <2>1, <2>2 DEF Says
  <2> QED BY <2>2, <2>3, <2>4, <2>5, <2>6
<1> QED BY <1>1, <1>2

\* Applied to data that show the answers before the queue, its mutations make the
\* data show those in the queue as well.
LEMMA FoldShows ==
    ASSUME NEW Items, NEW Values, NEW initial \in [Items -> Values], NEW data \in [Items -> Values],
           NEW queue \in Seq(Entries(Items, Values)),
           NEW answers, DOMAIN answers \in SUBSET Nat,
           \A r \in DOMAIN answers : answers[r] \in AnswerSets(Items, Values),
           Filled(queue, answers), NEW R \in SUBSET DOMAIN answers, Before(R, queue, answers),
           Shows(data, initial, answers, R)
    PROVE  /\ FoldLeft(Mutated, data, queue) \in [Items -> Values]
           /\ Shows(FoldLeft(Mutated, data, queue), initial, answers, R \cup Keys(queue))
<1> DEFINE n == Len(queue)
           fold == LastOnesIn(data, queue, 1 .. n)
           T(i) == TouchesIn(queue, 1 .. n, i)
           key(j) == queue[j].mutationKey
<1>1. n \in Nat /\ DOMAIN queue = 1 .. n
  OBVIOUS
<1>2. FoldLeft(Mutated, data, queue) = fold
  BY <1>1, FoldIsLast
<1>3. ASSUME NEW i \in Items
      PROVE  fold[i] \in Values /\ ShowsItem(fold, initial, answers, R \cup Keys(queue), i)
  <2>1. ASSUME NEW j \in 1 .. n
        PROVE  /\ key(j) \in DOMAIN answers
               /\ j \in T(i) <=> Says(answers[key(j)], i)
               /\ j \in T(i) => /\ (CHOOSE y \in Mutation(queue[j]) : TRUE)[i] = ItemOf(answers[key(j)], i)
                                /\ ItemOf(answers[key(j)], i) \in Values
    <3>1. key(j) \in DOMAIN answers /\ Matches(queue[j], answers[key(j)])
      BY <1>1 DEF Filled
    <3>2. answers[key(j)] \in AnswerSets(Items, Values)
      BY <3>1
    <3> HIDE DEF n, key
    <3> QED BY <3>1, <3>2, EntrySays DEF TouchesIn
  <2>2. ShowsItem(data, initial, answers, R, i)
    BY DEF Shows
  <2>3. CASE T(i) = {}
    <3>1. \A r \in Keys(queue) : ~Says(answers[r], i)
      BY <1>1, <2>1, <2>3 DEF Keys
    <3>2. fold[i] = data[i]
      BY <2>3 DEF LastOnesIn
    <3> HIDE DEF fold
    <3> QED BY <2>2, <3>1, <3>2 DEF ShowsItem
  <2>4. CASE T(i) # {}
    <3> DEFINE last == Max(T(i))
    <3>1. last \in T(i) /\ \A j \in T(i) : j <= last
      <4>1. T(i) \in SUBSET (1 .. n)
        BY DEF TouchesIn
      <4> HIDE DEF T, n
      <4> QED BY <1>1, <2>4, <4>1, MaxOfPositions
    <3>2. last \in 1 .. n
      BY <3>1 DEF TouchesIn
    <3>3. fold[i] = (CHOOSE y \in Mutation(queue[last]) : TRUE)[i]
      BY <2>4 DEF LastOnesIn
    <3> HIDE DEF last, T, fold
    <3>4. fold[i] = ItemOf(answers[key(last)], i) /\ fold[i] \in Values /\ Says(answers[key(last)], i)
      BY <2>1, <3>1, <3>2, <3>3
    <3>5. key(last) \in Keys(queue) /\ key(last) \in Nat
      BY <1>1, <2>1, <3>2 DEF Keys
    <3>6. ASSUME NEW s \in R \cup Keys(queue), Says(answers[s], i) PROVE s <= key(last)
      <4>1. CASE s \in Keys(queue)
        <5>1. PICK j \in 1 .. n : s = key(j)
          BY <1>1, <4>1 DEF Keys
        <5>2. j <= last
          BY <2>1, <3>1, <3>6, <5>1
        <5>3. CASE j = last
          BY <3>5, <5>1, <5>3
        <5>4. CASE j # last
          <6>1. j < last
            BY <3>2, <5>2, <5>4
          <6>2. key(j) < key(last)
            BY <1>1, <3>2, <6>1 DEF Filled
          <6>3. key(j) \in Nat
            BY <2>1
          <6> HIDE DEF key
          <6> QED BY <3>5, <5>1, <6>2, <6>3
        <5> QED BY <5>3, <5>4
      <4>2. CASE s \in R
        <5>1. answers[s] # {} /\ s \in Nat
          BY <3>6, <4>2 DEF Says
        <5>2. s < key(last)
          BY <1>1, <3>2, <4>2, <5>1 DEF Before
        <5> HIDE DEF key
        <5> QED BY <3>5, <5>1, <5>2
      <4> QED BY <4>1, <4>2
    <3> HIDE DEF key
    <3> QED BY <3>4, <3>5, <3>6 DEF ShowsItem
  <2>5. fold[i] \in Values
    <3>1. CASE T(i) = {}
      BY <3>1 DEF LastOnesIn
    <3>2. CASE T(i) # {}
      <4> DEFINE last == Max(T(i))
      <4>1. last \in T(i)
        <5>1. T(i) \in SUBSET (1 .. n)
          BY DEF TouchesIn
        <5> HIDE DEF T, n
        <5> QED BY <1>1, <3>2, <5>1, MaxOfPositions
      <4>2. last \in 1 .. n
        BY <4>1 DEF TouchesIn
      <4>3. fold[i] = (CHOOSE y \in Mutation(queue[last]) : TRUE)[i]
        BY <3>2 DEF LastOnesIn
      <4> HIDE DEF last, T, fold
      <4> QED BY <2>1, <4>1, <4>2, <4>3
    <3> QED BY <3>1, <3>2
  <2> QED BY <2>3, <2>4, <2>5
<1>4. fold \in [Items -> Values]
  <2>1. fold = [i \in Items |-> fold[i]]
    BY DEF LastOnesIn
  <2> HIDE DEF fold
  <2> QED BY <1>3, <2>1
<1>5. Shows(fold, initial, answers, R \cup Keys(queue))
  <2> HIDE DEF fold
  <2> QED BY <1>3 DEF Shows
<1> QED BY <1>2, <1>4, <1>5

-----------------------------------------------------------------------------
(***************************************************************************)
(* The operations of the queued store.                                     *)
(***************************************************************************)

\* Requests without an answer make no difference to what the data show.
LEMMA ShowsSame ==
    ASSUME NEW data, NEW initial, NEW a, NEW b, NEW R, NEW Q, Shows(data, initial, a, R),
           \A r \in R : a[r] # {} => r \in Q /\ b[r] = a[r],
           \A r \in Q : b[r] # {} => r \in R /\ b[r] = a[r]
    PROVE  Shows(data, initial, b, Q)
<1> SUFFICES ASSUME NEW i \in DOMAIN initial PROVE ShowsItem(data, initial, b, Q, i)
  BY DEF Shows
<1>1. ShowsItem(data, initial, a, R, i)
  BY DEF Shows
<1>2. \A r : r \in R /\ Says(a[r], i) <=> r \in Q /\ Says(b[r], i)
  BY DEF Says
<1>3. \A r \in R : Says(a[r], i) => b[r] = a[r]
  BY DEF Says
<1> QED BY <1>1, <1>2, <1>3 DEF ShowsItem

\* The fields of an entry
LEMMA EntryFields ==
    ASSUME NEW Items, NEW Values, NEW e \in Entries(Items, Values)
    PROVE  /\ e.mutationKey \in Nat /\ e.strategy \in Strategies
           /\ e.certifiedMutation \in SUBSET Parts(Items, Values)
           /\ e.nonCertifiedMutation \in SUBSET Parts(Items, Values)
BY DEF Entries

\* A new entry of the queue has its key and its strategy, and stands for a request without an
\* answer.
LEMMA NewEntry ==
    ASSUME NEW k \in Nat, NEW strategy \in Strategies
    PROVE  /\ \A Items, Values : MutationEntry(k, strategy) \in Entries(Items, Values)
           /\ MutationEntry(k, strategy).mutationKey = k
           /\ MutationEntry(k, strategy).strategy = strategy
           /\ Matches(MutationEntry(k, strategy), {})
BY DEF MutationEntry, Entries, Matches, Mutation

\* The keys of a queue in order are different.
LEMMA KeysDiffer ==
    ASSUME NEW Items, NEW Values, NEW queue \in Seq(Entries(Items, Values)), NEW answers,
           Filled(queue, answers), NEW i \in DOMAIN queue, NEW j \in DOMAIN queue,
           queue[i].mutationKey = queue[j].mutationKey
    PROVE  i = j
<1>1. queue[i].mutationKey \in Nat
  <2>1. queue[i] \in Entries(Items, Values)
    OBVIOUS
  <2> QED BY <2>1, EntryFields
<1>2. ~(i < j) /\ ~(j < i)
  BY <1>1 DEF Filled
<1>3. i \in Int /\ j \in Int
  OBVIOUS
<1> QED BY <1>2, <1>3

\* The fields of a store and of an entry
LEMMA StoreFields ==
    ASSUME NEW Items, NEW Values, NEW store \in Stores(Items, Values)
    PROVE  /\ store.certifiedData \in [Items -> Values] /\ store.exposed \in [Items -> Values]
           /\ store.mutationQueue \in Seq(Entries(Items, Values))
           /\ \A q \in Seq(Entries(Items, Values)) :
                /\ [store EXCEPT !.mutationQueue = q] \in Stores(Items, Values)
                /\ [store EXCEPT !.mutationQueue = q].mutationQueue = q
                /\ [store EXCEPT !.mutationQueue = q].certifiedData = store.certifiedData
                /\ [store EXCEPT !.mutationQueue = q].exposed = store.exposed
BY DEF Stores

\* k requests are made, not answered yet.
Extends(ext, answers, n, k) ==
    /\ DOMAIN answers = 1 .. n /\ DOMAIN ext = 1 .. (n + k)
    /\ \A r \in 1 .. n : ext[r] = answers[r]
    /\ \A r \in (n + 1) .. (n + k) : ext[r] = {}

\* A history that k requests were added to: the old ones keep their answers, the new ones have
\* none.
LEMMA Extended ==
    ASSUME NEW answers, NEW n \in Nat, NEW k \in Nat, NEW ext, Extends(ext, answers, n, k)
    PROVE  /\ \A r \in DOMAIN answers : r \in DOMAIN ext /\ ext[r] = answers[r]
           /\ \A r \in DOMAIN ext : r \notin DOMAIN answers => ext[r] = {}
           /\ DOMAIN answers = 1 .. n /\ DOMAIN ext = 1 .. (n + k)
BY DEF Extends

\* Requests are made that reserve no spot.
LEMMA NotReservedKeeps ==
    ASSUME NEW initial, NEW store, NEW answers, NEW n \in Nat, NEW k \in Nat,
           NEW ext, Extends(ext, answers, n, k), Represents(store, initial, answers)
    PROVE  Represents(store, initial, ext)
<1> DEFINE q == store.mutationQueue
<1>1. /\ \A r \in DOMAIN answers : r \in DOMAIN ext /\ ext[r] = answers[r]
      /\ \A r \in DOMAIN ext : r \notin DOMAIN answers => ext[r] = {}
  BY Extended
<1>2. Filled(q, ext)
  BY <1>1 DEF Represents, Filled
<1>3. Before(DOMAIN ext \ Keys(q), q, ext)
  BY <1>1 DEF Represents, Before
<1>4. Shows(store.certifiedData, initial, ext, DOMAIN ext \ Keys(q))
  <2>1. Shows(store.certifiedData, initial, answers, DOMAIN answers \ Keys(q))
    BY DEF Represents
  <2> QED BY <1>1, <2>1, ShowsSame
<1>5. Shows(store.exposed, initial, ext, DOMAIN ext)
  <2>1. Shows(store.exposed, initial, answers, DOMAIN answers)
    BY DEF Represents
  <2> QED BY <1>1, <2>1, ShowsSame
<1> QED BY <1>2, <1>3, <1>4, <1>5 DEF Represents

\* Requests are made, each with a spot.
Chosen(strategies, k) == strategies \in [1 .. k -> Strategies]
Spots(n, strategies) == [i \in DOMAIN strategies |-> MutationEntry(n + i, strategies[i])]

WithSpots(store, n, strategies) == [store EXCEPT !.mutationQueue = @ \o Spots(n, strategies)]

SpotsAdded(Items, Values, initial, store, n, k, ext, strategies, new) ==
    /\ new \in Stores(Items, Values) /\ new.exposed = store.exposed
    /\ Represents(new, initial, ext)
    /\ Keys(new.mutationQueue) = Keys(store.mutationQueue) \cup (n + 1) .. (n + k)
    /\ \A e \in Elems(new.mutationQueue) :
         \/ e \in Elems(store.mutationQueue)
         \/ \E i \in 1 .. k : e = MutationEntry(n + i, strategies[i])

\* Adding k spots for k new requests to a store that represents a history gives one that represents
\* the longer history.
LEMMA ReservedKeeps ==
    ASSUME NEW Items, NEW Values, NEW initial, NEW store \in Stores(Items, Values),
           NEW answers, NEW n \in Nat, NEW k \in Nat, NEW ext, Extends(ext, answers, n, k),
           Represents(store, initial, answers), NEW strategies, Chosen(strategies, k),
           NEW new, new = WithSpots(store, n, strategies)
    PROVE  SpotsAdded(Items, Values, initial, store, n, k, ext, strategies, new)
<1> DEFINE q == store.mutationQueue
           added == Spots(n, strategies)
           r == q \o added
<1>1. /\ \A s \in DOMAIN answers : s \in DOMAIN ext /\ ext[s] = answers[s]
      /\ \A s \in DOMAIN ext : s \notin DOMAIN answers => ext[s] = {}
      /\ DOMAIN ext = 1 .. (n + k) /\ DOMAIN answers = 1 .. n
  <2>1. /\ \A s \in DOMAIN answers : s \in DOMAIN ext /\ ext[s] = answers[s]
        /\ \A s \in DOMAIN ext : s \notin DOMAIN answers => ext[s] = {}
    BY Extended
  <2>2. DOMAIN ext = 1 .. (n + k)
    BY DEF Extends
  <2>3. DOMAIN answers = 1 .. n
    BY DEF Extends
  <2> QED BY <2>1, <2>2, <2>3
<1>2. added \in Seq(Entries(Items, Values)) /\ Len(added) = k
  <2>0. strategies \in [1 .. k -> Strategies]
    BY DEF Chosen
  <2>1. \A i \in 1 .. k : MutationEntry(n + i, strategies[i]) \in Entries(Items, Values)
    <3> SUFFICES ASSUME NEW i \in 1 .. k
                 PROVE  MutationEntry(n + i, strategies[i]) \in Entries(Items, Values)
      OBVIOUS
    <3>1. n + i \in Nat /\ strategies[i] \in Strategies
      BY <1>1, <2>0
    <3> QED BY <3>1, NewEntry
  <2> QED BY <2>0, <2>1 DEF Spots
<1>3. q \in Seq(Entries(Items, Values)) /\ r \in Seq(Entries(Items, Values))
  BY <1>2, StoreFields
<1> DEFINE m == Len(q)
<1>4. /\ m \in Nat /\ DOMAIN q = 1 .. m /\ DOMAIN r = 1 .. (m + k)
      /\ \A i \in 1 .. m : r[i] = q[i]
      /\ \A i \in (m + 1) .. (m + k) :
            r[i] = MutationEntry(n + (i - m), strategies[i - m]) /\ i - m \in 1 .. k
  <2>1. \A i \in 1 .. k : added[i] = MutationEntry(n + i, strategies[i])
    BY DEF Spots, Chosen
  <2> HIDE DEF added
  <2>2. m \in Nat /\ DOMAIN q = 1 .. m /\ DOMAIN r = 1 .. (m + k)
    BY <1>2, <1>3
  <2>3. \A i \in 1 .. m : r[i] = q[i]
    BY <1>2, <1>3, <2>2
  <2>4. ASSUME NEW i \in (m + 1) .. (m + k)
        PROVE  r[i] = MutationEntry(n + (i - m), strategies[i - m]) /\ i - m \in 1 .. k
    <3>1. i - m \in 1 .. k
      BY <2>2
    <3>2. r[i] = added[i - m]
      BY <1>2, <1>3, <2>2
    <3> QED BY <2>1, <3>1, <3>2
  <2> QED BY <2>2, <2>3, <2>4
<1>5. new.mutationQueue = r /\ new \in Stores(Items, Values) /\ new.exposed = store.exposed
      /\ new.certifiedData = store.certifiedData
  <2>1. new = [store EXCEPT !.mutationQueue = r]
    BY DEF WithSpots
  <2> HIDE DEF r
  <2>2. /\ [store EXCEPT !.mutationQueue = r] \in Stores(Items, Values)
        /\ [store EXCEPT !.mutationQueue = r].mutationQueue = r
        /\ [store EXCEPT !.mutationQueue = r].certifiedData = store.certifiedData
        /\ [store EXCEPT !.mutationQueue = r].exposed = store.exposed
    BY <1>3, StoreFields
  <2> QED BY <2>1, <2>2
<1> HIDE DEF added, r, m
<1>6. \A i \in (m + 1) .. (m + k) : r[i].mutationKey = n + (i - m) /\ Matches(r[i], {})
  <2> SUFFICES ASSUME NEW i \in (m + 1) .. (m + k)
               PROVE  r[i].mutationKey = n + (i - m) /\ Matches(r[i], {})
    OBVIOUS
  <2>1. n + (i - m) \in Nat /\ strategies[i - m] \in Strategies
    BY <1>1, <1>4 DEF Chosen
  <2> QED BY <1>4, <2>1, NewEntry
<1>7. \A i \in 1 .. m : q[i].mutationKey \in 1 .. n
  BY <1>1, <1>4 DEF Represents, Filled
<1>8. Filled(r, ext)
  <2>1. ASSUME NEW i \in 1 .. (m + k), NEW j \in 1 .. (m + k), i < j
        PROVE  r[i].mutationKey < r[j].mutationKey
    <3>1. CASE j <= m
      <4>1. i \in 1 .. m /\ j \in 1 .. m
        BY <1>4, <2>1, <3>1
      <4> QED BY <1>4, <2>1, <4>1 DEF Represents, Filled
    <3>2. CASE i <= m /\ m < j
      <4>1. i \in 1 .. m /\ j \in (m + 1) .. (m + k)
        BY <1>4, <3>2
      <4>2. r[i].mutationKey \in 1 .. n
        BY <1>4, <1>7, <4>1
      <4>3. r[j].mutationKey = n + (j - m)
        BY <1>6, <4>1
      <4> QED BY <1>1, <1>4, <4>1, <4>2, <4>3
    <3>3. CASE m < i
      <4>1. i \in (m + 1) .. (m + k) /\ j \in (m + 1) .. (m + k)
        BY <1>4, <2>1, <3>3
      <4> QED BY <1>1, <1>4, <1>6, <2>1, <4>1
    <3> QED BY <1>4, <3>1, <3>2, <3>3
  <2>2. ASSUME NEW i \in 1 .. (m + k)
        PROVE  r[i].mutationKey \in DOMAIN ext /\ Matches(r[i], ext[r[i].mutationKey])
    <3>1. CASE i \in 1 .. m
      BY <1>1, <1>4, <3>1 DEF Represents, Filled
    <3>2. CASE i \in (m + 1) .. (m + k)
      <4>1. n + (i - m) \in 1 .. (n + k) /\ n + (i - m) \notin 1 .. n
        BY <1>1, <1>4, <3>2
      <4> QED BY <1>1, <1>6, <3>2, <4>1
    <3> QED BY <1>4, <3>1, <3>2
  <2> QED BY <1>4, <2>1, <2>2 DEF Filled
<1>9. Keys(r) = Keys(q) \cup (n + 1) .. (n + k)
  <2>1. ASSUME NEW x \in Keys(r) PROVE x \in Keys(q) \cup (n + 1) .. (n + k)
    <3>1. PICK i \in 1 .. (m + k) : x = r[i].mutationKey
      BY <1>4 DEF Keys
    <3>2. CASE i \in 1 .. m
      BY <1>4, <3>1, <3>2 DEF Keys
    <3>3. CASE i \in (m + 1) .. (m + k)
      BY <1>1, <1>4, <1>6, <3>1, <3>3
    <3> QED BY <1>4, <3>2, <3>3
  <2>2. ASSUME NEW x \in Keys(q) PROVE x \in Keys(r)
    <3>1. PICK i \in 1 .. m : x = q[i].mutationKey
      BY <1>4 DEF Keys
    <3> QED BY SMTT(60), <1>4, <3>1 DEF Keys
  <2>3. ASSUME NEW x \in (n + 1) .. (n + k) PROVE x \in Keys(r)
    <3>1. m + (x - n) \in (m + 1) .. (m + k) /\ n + ((m + (x - n)) - m) = x
      BY <1>1, <1>4
    <3>2. r[m + (x - n)].mutationKey = x /\ m + (x - n) \in 1 .. (m + k)
      BY <1>4, <1>6, <3>1
    <3> QED BY <1>4, <3>2 DEF Keys
  <2> QED BY <2>1, <2>2, <2>3
<1>10. Represents(new, initial, ext)
  <2>1. \A s \in DOMAIN ext \ Keys(r) : s \in DOMAIN answers \ Keys(q)
    BY <1>1, <1>9
  <2>2. Before(DOMAIN ext \ Keys(r), r, ext)
    <3> SUFFICES ASSUME NEW s \in DOMAIN ext \ Keys(r), ext[s] # {}, NEW i \in 1 .. (m + k)
                 PROVE  s < r[i].mutationKey
      BY <1>4 DEF Before
    <3>1. s \in DOMAIN answers \ Keys(q) /\ answers[s] # {}
      BY <1>1, <2>1
    <3>2. CASE i \in 1 .. m
      BY <1>4, <3>1, <3>2 DEF Represents, Before
    <3>3. CASE i \in (m + 1) .. (m + k)
      BY <1>1, <1>4, <1>6, <3>1, <3>3
    <3> QED BY <1>4, <3>2, <3>3
  <2>3. Shows(store.certifiedData, initial, ext, DOMAIN ext \ Keys(r))
    <3>1. Shows(store.certifiedData, initial, answers, DOMAIN answers \ Keys(q))
      BY DEF Represents
    <3>2. \A s \in DOMAIN answers \ Keys(q) : s \in DOMAIN ext \ Keys(r) /\ ext[s] = answers[s]
      BY <1>1, <1>9
    <3>3. \A s \in DOMAIN ext \ Keys(r) : s \in DOMAIN answers \ Keys(q) /\ ext[s] = answers[s]
      BY <1>1, <2>1
    <3> QED BY <3>1, <3>2, <3>3, ShowsSame
  <2>4. Shows(store.exposed, initial, ext, DOMAIN ext)
    <3>1. Shows(store.exposed, initial, answers, DOMAIN answers)
      BY DEF Represents
    <3> QED BY <1>1, <3>1, ShowsSame
  <2> QED BY <1>5, <1>8, <2>2, <2>3, <2>4 DEF Represents
<1>11. ASSUME NEW e \in Elems(r)
       PROVE  \/ e \in Elems(q)
              \/ \E i \in 1 .. k : e = MutationEntry(n + i, strategies[i])
  <2>1. PICK i \in 1 .. (m + k) : e = r[i]
    BY <1>4 DEF Elems
  <2>2. CASE i \in 1 .. m
    BY <1>4, <2>1, <2>2 DEF Elems
  <2>3. CASE i \in (m + 1) .. (m + k)
    BY <1>4, <2>1, <2>3
  <2> QED BY <1>4, <2>2, <2>3
<1> QED BY <1>5, <1>9, <1>10, <1>11 DEF SpotsAdded

\* cancel: the spot of a request without an answer is given back.
SpotGivenBack(Items, Values, initial, store, answers, key, result) ==
    /\ result \in Stores(Items, Values) /\ result.exposed = store.exposed
    /\ Represents(result, initial, answers)
    /\ Keys(result.mutationQueue) = Keys(store.mutationQueue) \ {key}
    /\ Elems(result.mutationQueue) \subseteq Elems(store.mutationQueue)

\* Cancelling a mutation whose request never had an answer removes its spot and changes nothing
\* that is shown.
LEMMA CancelKeeps ==
    ASSUME NEW Items, NEW Values, NEW initial, NEW store \in Stores(Items, Values),
           NEW answers, Represents(store, initial, answers),
           NEW key \in Keys(store.mutationQueue), answers[key] = {},
           NEW result, result = Cancel(store, key)
    PROVE  SpotGivenBack(Items, Values, initial, store, answers, key, result)
<1> DEFINE q == store.mutationQueue
           c == CHOOSE j \in EntryOf(store, key) : TRUE
           r == RemoveAt(q, c)
           new == [store EXCEPT !.mutationQueue = r]
           m == Len(q)
<1>1. q \in Seq(Entries(Items, Values)) /\ Filled(q, answers)
  BY StoreFields DEF Represents
<1>2. m \in Nat /\ DOMAIN q = 1 .. m
  BY <1>1
<1>3. c \in 1 .. m /\ q[c].mutationKey = key
  <2>1. EntryOf(store, key) # {}
    BY DEF Keys, EntryOf
  <2>2. c \in EntryOf(store, key)
    BY <2>1
  <2> HIDE DEF c
  <2> QED BY <1>2, <2>2 DEF EntryOf
<1> HIDE DEF c
<1>4. /\ r \in Seq(Entries(Items, Values)) /\ DOMAIN r = 1 .. (m - 1)
      /\ \A j \in 1 .. (m - 1) : r[j] = IF j < c THEN q[j] ELSE q[j + 1]
  <2> DEFINE f == SubSeq(q, 1, c - 1)
             g == SubSeq(q, c + 1, m)
  <2>1. f \in Seq(Entries(Items, Values)) /\ Len(f) = c - 1 /\ \A j \in 1 .. (c - 1) : f[j] = q[j]
    BY <1>1, <1>3
  <2>2. g \in Seq(Entries(Items, Values)) /\ Len(g) = m - c /\ \A j \in 1 .. (m - c) : g[j] = q[c + j]
    BY <1>1, <1>2, <1>3
  <2>3. r = f \o g
    BY DEF RemoveAt
  <2>4. r = f \o g /\ c - 1 \in Nat /\ m - c \in Nat
    BY <1>2, <1>3, <2>3
  <2> HIDE DEF r, f, g, m
  <2>5. r \in Seq(Entries(Items, Values)) /\ DOMAIN r = 1 .. (m - 1)
    BY <1>2, <1>3, <2>1, <2>2, <2>4
  <2>6. ASSUME NEW j \in 1 .. (m - 1) PROVE r[j] = IF j < c THEN q[j] ELSE q[j + 1]
    <3>1. CASE j < c
      <4>1. j \in 1 .. (c - 1)
        BY <1>2, <1>3, <3>1
      <4> QED BY <2>1, <2>2, <2>4, <3>1, <4>1
    <3>2. CASE ~(j < c)
      <4>1. j - (c - 1) \in 1 .. (m - c) /\ c + (j - (c - 1)) = j + 1
        BY <1>2, <1>3, <3>2
      <4>2. r[j] = g[j - (c - 1)]
        BY <1>2, <1>3, <2>1, <2>2, <2>4, <4>1
      <4> QED BY <2>2, <3>2, <4>1, <4>2
    <3> QED BY <3>1, <3>2
  <2> QED BY <2>5, <2>6
<1>5. Cancel(store, key) = new
  BY DEF Cancel, c
<1>6. /\ new \in Stores(Items, Values) /\ new.exposed = store.exposed
      /\ new.mutationQueue = r /\ new.certifiedData = store.certifiedData
  <2> HIDE DEF r
  <2> QED BY <1>4, StoreFields
<1> HIDE DEF r, new, m
<1>7. ASSUME NEW j \in 1 .. (m - 1)
      PROVE  \E i \in 1 .. m : r[j] = q[i] /\ i # c /\ i = (IF j < c THEN j ELSE j + 1)
  <2>1. PICK i : i = IF j < c THEN j ELSE j + 1
    OBVIOUS
  <2>2. i \in 1 .. m /\ i # c
    BY <1>2, <1>3, <2>1
  <2>3. r[j] = q[i]
    BY <1>4, <2>1
  <2> QED BY <2>1, <2>2, <2>3
<1>8. \A i \in 1 .. m : i # c => \E j \in 1 .. (m - 1) : r[j] = q[i]
  <2> SUFFICES ASSUME NEW i \in 1 .. m, i # c PROVE \E j \in 1 .. (m - 1) : r[j] = q[i]
    OBVIOUS
  <2>1. CASE i < c
    <3>1. i \in 1 .. (m - 1) /\ r[i] = q[i]
      BY <1>2, <1>3, <1>4, <2>1
    <3> QED BY <3>1
  <2>2. CASE c < i
    <3>1. i - 1 \in 1 .. (m - 1) /\ r[i - 1] = q[i]
      BY <1>2, <1>3, <1>4, <2>2
    <3> QED BY <3>1
  <2> QED BY <1>2, <1>3, <2>1, <2>2
<1>9. Elems(r) \subseteq Elems(q)
  BY SMTT(60), <1>2, <1>4, <1>7 DEF Elems
<1>10. Keys(r) = Keys(q) \ {key}
  <2>1. ASSUME NEW x \in Keys(r) PROVE x \in Keys(q) /\ x # key
    <3>1. PICK j \in 1 .. (m - 1) : x = r[j].mutationKey
      BY <1>4 DEF Keys
    <3>2. PICK i \in 1 .. m : r[j] = q[i] /\ i # c
      BY <1>7
    <3>3. q[i].mutationKey # q[c].mutationKey
      BY <1>1, <1>2, <1>3, <3>2, KeysDiffer
    <3> QED BY <1>2, <1>3, <3>1, <3>2, <3>3 DEF Keys
  <2>2. ASSUME NEW x \in Keys(q), x # key PROVE x \in Keys(r)
    <3>1. PICK i \in 1 .. m : x = q[i].mutationKey /\ i # c
      BY <1>2, <1>3, <2>2 DEF Keys
    <3>2. PICK j \in 1 .. (m - 1) : r[j] = q[i]
      BY <1>8, <3>1
    <3> QED BY <1>4, <3>1, <3>2 DEF Keys
  <2> QED BY <2>1, <2>2
<1>11. Filled(r, answers)
  <2>1. ASSUME NEW i \in 1 .. (m - 1), NEW j \in 1 .. (m - 1), i < j
        PROVE  r[i].mutationKey < r[j].mutationKey
    <3>1. PICK a \in 1 .. m : r[i] = q[a] /\ a = (IF i < c THEN i ELSE i + 1)
      BY <1>7
    <3>2. PICK b \in 1 .. m : r[j] = q[b] /\ b = (IF j < c THEN j ELSE j + 1)
      BY <1>7
    <3>3. a < b
      BY <1>2, <1>3, <2>1, <3>1, <3>2
    <3> QED BY <1>1, <1>2, <3>1, <3>2, <3>3 DEF Filled
  <2>2. ASSUME NEW i \in 1 .. (m - 1)
        PROVE  r[i].mutationKey \in DOMAIN answers /\ Matches(r[i], answers[r[i].mutationKey])
    <3>1. PICK a \in 1 .. m : r[i] = q[a]
      BY <1>7
    <3> QED BY <1>1, <1>2, <3>1 DEF Filled
  <2> QED BY <1>4, <2>1, <2>2 DEF Filled
<1>12. Represents(new, initial, answers)
  <2> DEFINE gone == DOMAIN answers \ Keys(q)
             left == DOMAIN answers \ Keys(r)
  <2>1. \A s \in left : answers[s] # {} => s \in gone
    BY <1>10
  <2>2. \A s \in gone : s \in left
    BY <1>10
  <2>3. Before(left, r, answers)
    <3> SUFFICES ASSUME NEW s \in left, answers[s] # {}, NEW i \in 1 .. (m - 1)
                 PROVE  s < r[i].mutationKey
      BY <1>4 DEF Before
    <3>1. PICK a \in 1 .. m : r[i] = q[a]
      BY <1>7
    <3> QED BY <1>2, <2>1, <3>1 DEF Represents, Before
  <2>4. Shows(store.certifiedData, initial, answers, gone)
    BY DEF Represents
  <2> HIDE DEF gone, left
  <2>5. Shows(store.certifiedData, initial, answers, left)
    BY <2>1, <2>2, <2>4, ShowsSame
  <2>6. Shows(store.exposed, initial, answers, DOMAIN answers)
    BY DEF Represents
  <2> QED BY <1>6, <1>11, <2>3, <2>5, <2>6 DEF Represents, left
<1> QED BY <1>5, <1>6, <1>9, <1>10, <1>12 DEF SpotGivenBack

\* The mutations of a queue of final entries at its front become certified data.
LEMMA ApplyFinalKeeps ==
    ASSUME NEW Items, NEW Values, NEW initial \in [Items -> Values], NEW store \in Stores(Items, Values),
           NEW answers, DOMAIN answers \in SUBSET Nat,
           \A r \in DOMAIN answers : answers[r] \in AnswerSets(Items, Values),
           Filled(store.mutationQueue, answers),
           Before(DOMAIN answers \ Keys(store.mutationQueue), store.mutationQueue, answers),
           Shows(store.certifiedData, initial, answers, DOMAIN answers \ Keys(store.mutationQueue))
    PROVE  LET new == UpdateExposedData(ApplyFinal(store)) IN
           /\ new \in Stores(Items, Values) /\ Represents(new, initial, answers)
           /\ Elems(new.mutationQueue) \subseteq Elems(store.mutationQueue)
           /\ \A e \in Elems(store.mutationQueue) :
                IsFinal(e) \/ e.mutationKey \in Keys(new.mutationQueue)
<1> DEFINE q == store.mutationQueue
           m == Len(q)
           n == FinalPrefix(q)
           front == SubSeq(q, 1, n)
           rest == SubSeq(q, n + 1, m)
           gone == DOMAIN answers \ Keys(q)
           left == DOMAIN answers \ Keys(rest)
           data == FoldLeft(Mutated, store.certifiedData, front)
           shown == FoldLeft(Mutated, data, rest)
           new == UpdateExposedData(ApplyFinal(store))
<1>1. /\ q \in Seq(Entries(Items, Values)) /\ m \in Nat /\ DOMAIN q = 1 .. m
      /\ store.certifiedData \in [Items -> Values]
  BY StoreFields
<1>2. n \in 0 .. m /\ \A i \in 1 .. n : IsFinal(q[i])
  <2> DEFINE T == {k \in 0 .. m : \A i \in 1 .. k : IsFinal(q[i])}
  <2>1. T \in SUBSET (0 .. m) /\ 0 \in T
    BY <1>1
  <2>2. n = Max(T)
    BY DEF FinalPrefix
  <2>3. Max(T) \in T
    <3> HIDE DEF T
    <3> QED BY <1>1, <2>1, MaxOfNumbers
  <2> QED BY <2>2, <2>3
<1> HIDE DEF n
<1>3. /\ front \in Seq(Entries(Items, Values)) /\ DOMAIN front = 1 .. n
      /\ \A i \in 1 .. n : front[i] = q[i]
  <2> HIDE DEF q
  <2> QED BY <1>1, <1>2 DEF m
<1>4. /\ rest \in Seq(Entries(Items, Values)) /\ DOMAIN rest = 1 .. (m - n)
      /\ \A i \in 1 .. (m - n) : rest[i] = q[n + i]
  <2> HIDE DEF q
  <2> QED BY <1>1, <1>2 DEF m
<1>5. new = [certifiedData |-> data, mutationQueue |-> rest, exposed |-> shown]
  <2>1. ApplyFinal(store) = [store EXCEPT !.certifiedData = data, !.mutationQueue = rest]
    BY DEF ApplyFinal, n
  <2>2. ApplyFinal(store) = [certifiedData |-> data, mutationQueue |-> rest, exposed |-> store.exposed]
    <3> HIDE DEF data, rest
    <3> QED BY <2>1 DEF Stores
  <2> HIDE DEF data, rest
  <2> QED BY <2>2 DEF UpdateExposedData
<1> HIDE DEF front, rest, m, new
<1>6. Keys(q) = Keys(front) \cup Keys(rest)
  <2>1. ASSUME NEW x \in Keys(q) PROVE x \in Keys(front) \cup Keys(rest)
    <3>1. PICK i \in 1 .. m : x = q[i].mutationKey
      BY <1>1 DEF Keys
    <3>2. CASE i <= n
      <4>1. i \in 1 .. n /\ front[i] = q[i]
        BY <1>1, <1>2, <1>3, <3>2
      <4> QED BY <1>3, <3>1, <4>1 DEF Keys
    <3>3. CASE n < i
      <4>1. i - n \in 1 .. (m - n) /\ rest[i - n] = q[i]
        BY <1>1, <1>2, <1>4, <3>3
      <4> QED BY <1>4, <3>1, <4>1 DEF Keys
    <3> QED BY <1>1, <1>2, <3>2, <3>3
  <2>2. ASSUME NEW x \in Keys(front) PROVE x \in Keys(q)
    <3>1. PICK i \in 1 .. n : x = q[i].mutationKey
      BY <1>3 DEF Keys
    <3>2. i \in 1 .. m
      BY <1>1, <1>2
    <3> QED BY <1>1, <3>1, <3>2 DEF Keys
  <2>3. ASSUME NEW x \in Keys(rest) PROVE x \in Keys(q)
    <3>1. PICK i \in 1 .. (m - n) : x = q[n + i].mutationKey
      BY <1>4 DEF Keys
    <3>2. n + i \in 1 .. m
      BY <1>1, <1>2
    <3> QED BY <1>1, <3>1, <3>2 DEF Keys
  <2> QED BY <2>1, <2>2, <2>3
<1>7. Filled(front, answers) /\ Filled(rest, answers)
  <2>1. Filled(front, answers)
    <3>1. \A i \in 1 .. n : i \in 1 .. m
      BY <1>1, <1>2
    <3> QED BY SMTT(60), <1>1, <1>3, <3>1 DEF Filled
  <2>2. Filled(rest, answers)
    <3>1. \A i \in 1 .. (m - n) : n + i \in 1 .. m
      BY <1>1, <1>2
    <3>2. \A i, j \in 1 .. (m - n) : i < j => n + i < n + j
      BY <1>1, <1>2
    <3> QED BY <1>1, <1>4, <3>1, <3>2 DEF Filled
  <2> QED BY <2>1, <2>2
<1>8. \A i \in 1 .. n, j \in 1 .. (m - n) : front[i].mutationKey < rest[j].mutationKey
  <2> SUFFICES ASSUME NEW i \in 1 .. n, NEW j \in 1 .. (m - n)
               PROVE  front[i].mutationKey < rest[j].mutationKey
    OBVIOUS
  <2>1. i \in 1 .. m /\ n + j \in 1 .. m /\ i < n + j
    BY <1>1, <1>2
  <2> QED BY <1>1, <1>3, <1>4, <2>1 DEF Filled
<1>9. Before(gone, front, answers) /\ Before(left, rest, answers)
  <2>1. \A r \in gone, i \in 1 .. m : answers[r] # {} => r < q[i].mutationKey
    BY <1>1 DEF Before
  <2>2. Before(gone, front, answers)
    <3>1. \A i \in 1 .. n : i \in 1 .. m
      BY <1>1, <1>2
    <3> HIDE DEF gone
    <3> QED BY <1>3, <2>1, <3>1 DEF Before
  <2>3. Before(left, rest, answers)
    <3> SUFFICES ASSUME NEW r \in left, answers[r] # {}, NEW j \in 1 .. (m - n)
                 PROVE  r < rest[j].mutationKey
      BY <1>4 DEF Before
    <3>1. CASE r \in Keys(q)
      <4>1. r \in Keys(front)
        BY <1>6, <3>1
      <4>2. PICK i \in 1 .. n : r = front[i].mutationKey
        BY <1>3, <4>1 DEF Keys
      <4> QED BY <1>8, <4>2
    <3>2. CASE r \notin Keys(q)
      <4>1. n + j \in 1 .. m
        BY <1>1, <1>2
      <4> QED BY <1>4, <2>1, <3>2, <4>1
    <3> QED BY <3>1, <3>2
  <2> QED BY <2>2, <2>3
<1>10. Keys(q) \subseteq DOMAIN answers
  BY DEF Filled, Keys
<1>11. data \in [Items -> Values] /\ Shows(data, initial, answers, gone \cup Keys(front))
  <2> HIDE DEF gone
  <2>1. gone \in SUBSET DOMAIN answers
    BY DEF gone
  <2>2. Shows(store.certifiedData, initial, answers, gone)
    BY DEF gone
  <2> QED BY <1>1, <1>3, <1>7, <1>9, <2>1, <2>2, FoldShows
<1>12. gone \cup Keys(front) = left
  <2>1. \A i \in 1 .. n, j \in 1 .. (m - n) : front[i].mutationKey # rest[j].mutationKey
    <3> SUFFICES ASSUME NEW i \in 1 .. n, NEW j \in 1 .. (m - n) PROVE front[i].mutationKey # rest[j].mutationKey
      OBVIOUS
    <3>1. front[i] \in Entries(Items, Values)
      <4>1. i \in 1 .. m /\ front[i] = q[i]
        BY <1>1, <1>2, <1>3
      <4>2. \A k \in 1 .. m : q[k] \in Entries(Items, Values)
        BY <1>1
      <4> QED BY <4>1, <4>2
    <3>2. front[i].mutationKey \in Nat
      BY <3>1, EntryFields
    <3> QED BY <1>8, <3>2
  <2>2. Keys(front) \cap Keys(rest) = {}
    BY <1>3, <1>4, <2>1 DEF Keys
  <2> QED BY <1>6, <1>10, <2>2
<1> HIDE DEF data
<1>13. shown \in [Items -> Values] /\ Shows(shown, initial, answers, left \cup Keys(rest))
  <2> HIDE DEF left, gone
  <2>1. left \in SUBSET DOMAIN answers
    BY DEF left
  <2>2. Shows(data, initial, answers, left) /\ data \in [Items -> Values]
    BY <1>11, <1>12
  <2> QED BY <1>4, <1>7, <1>9, <2>1, <2>2, FoldShows
<1>14. left \cup Keys(rest) = DOMAIN answers
  BY <1>6, <1>10
<1> HIDE DEF shown
<1>15. new \in Stores(Items, Values) /\ Represents(new, initial, answers)
  <2>1. new.certifiedData = data /\ new.mutationQueue = rest /\ new.exposed = shown
    BY <1>5
  <2>2. new \in Stores(Items, Values)
    BY <1>4, <1>5, <1>11, <1>13 DEF Stores
  <2>3. Shows(data, initial, answers, left) /\ Shows(shown, initial, answers, DOMAIN answers)
    BY <1>11, <1>12, <1>13, <1>14
  <2> QED BY <1>7, <1>9, <2>1, <2>2, <2>3 DEF Represents
<1>16. Elems(rest) \subseteq Elems(q)
  <2>1. \A i \in 1 .. (m - n) : n + i \in 1 .. m
    BY <1>1, <1>2
  <2> QED BY <1>1, <1>4, <2>1 DEF Elems
<1>17. ASSUME NEW e \in Elems(q) PROVE IsFinal(e) \/ e.mutationKey \in Keys(rest)
  <2>1. PICK i \in 1 .. m : e = q[i]
    BY <1>1 DEF Elems
  <2>2. CASE i <= n
    <3>1. i \in 1 .. n
      BY <1>1, <1>2, <2>2
    <3> QED BY <1>2, <2>1, <3>1
  <2>3. CASE n < i
    <3>1. i - n \in 1 .. (m - n) /\ rest[i - n] = q[i]
      BY <1>1, <1>2, <1>4, <2>3
    <3> QED BY <1>4, <2>1, <3>1 DEF Keys
  <2> QED BY <1>1, <1>2, <2>2, <2>3
<1> QED BY <1>5, <1>15, <1>16, <1>17 DEF new

\* An answer is written into the spot of its request.
Fill(entry, certified, mutation) ==
    IF certified THEN [entry EXCEPT !.certifiedMutation = {mutation}]
    ELSE [entry EXCEPT !.nonCertifiedMutation = {mutation}]

\* An answer fills its spot: the entry matches the answers of its request, this one included.
LEMMA FillKeeps ==
    ASSUME NEW Items, NEW Values, NEW entry \in Entries(Items, Values), NEW certified \in BOOLEAN,
           NEW mutation \in Parts(Items, Values), NEW ans \in AnswerSets(Items, Values),
           Matches(entry, ans), \A x \in ans : certified /\ ~x.certified,
           NEW y, y.certified = certified, y.items = mutation
    PROVE  LET e == Fill(entry, certified, mutation) IN
           /\ e \in Entries(Items, Values)
           /\ e.mutationKey = entry.mutationKey /\ e.strategy = entry.strategy
           /\ Matches(e, {y})
<1> DEFINE e == Fill(entry, certified, mutation)
<1>1. entry.mutationKey \in Nat /\ entry.strategy \in Strategies
  BY EntryFields
<1>2. CASE certified = TRUE
  <2>1. e = [entry EXCEPT !.certifiedMutation = {mutation}]
    BY <1>2 DEF Fill
  <2> HIDE DEF e
  <2>2. /\ e \in Entries(Items, Values) /\ e.certifiedMutation = {mutation}
        /\ e.mutationKey = entry.mutationKey /\ e.strategy = entry.strategy
    BY <2>1 DEF Entries
  <2>3. Mutation(e) = {mutation}
    BY <2>2 DEF Mutation
  <2>4. {x \in {y} : x.certified} = {y}
    BY <1>2
  <2>5. {x.items : x \in {y}} = {mutation}
    OBVIOUS
  <2> QED BY <2>2, <2>3, <2>4, <2>5 DEF Matches, e
<1>3. CASE certified = FALSE
  <2>1. e = [entry EXCEPT !.nonCertifiedMutation = {mutation}]
    BY <1>3 DEF Fill
  <2>2. ans = {}
    BY <1>3
  <2> HIDE DEF e
  <2>3. /\ e \in Entries(Items, Values) /\ e.certifiedMutation = entry.certifiedMutation
        /\ e.nonCertifiedMutation = {mutation}
        /\ e.mutationKey = entry.mutationKey /\ e.strategy = entry.strategy
    BY <2>1 DEF Entries
  <2>4. entry.certifiedMutation = {}
    BY <2>2 DEF Matches
  <2>5. Mutation(e) = {mutation}
    BY <2>3, <2>4 DEF Mutation
  <2>6. {x.items : x \in {y}} = {mutation} /\ {x \in {y} : x.certified} = {}
    BY <1>3
  <2> QED BY <2>3, <2>4, <2>5, <2>6 DEF Matches, e
<1> QED BY <1>2, <1>3

\* When an entry is final, so is the answer of its request.
LEMMA FinalIsAnswered ==
    ASSUME NEW Items, NEW Values, NEW e \in Entries(Items, Values), NEW ans, Matches(e, ans), IsFinal(e)
    PROVE  (e.strategy = "query" /\ ans # {}) \/ \E x \in ans : x.certified
<1>1. CASE e.strategy = "query"
  <2>1. Mutation(e) # {}
    BY <1>1 DEF IsFinal, Mutation
  <2> QED BY <1>1, <2>1 DEF Matches
<1>2. CASE e.strategy # "query"
  BY <1>2 DEF IsFinal, Matches
<1> QED BY <1>1, <1>2

\* The answer of one request comes; the requests have answers.
AllAnswers(Items, Values, answers) ==
    /\ DOMAIN answers \in SUBSET Nat
    /\ \A r \in DOMAIN answers : answers[r] \in AnswerSets(Items, Values)

Comes(answers, given, key, certified, mutation) ==
    /\ DOMAIN given = DOMAIN answers
    /\ \A r \in DOMAIN answers : r # key => given[r] = answers[r]
    /\ given[key] = {[certified |-> certified, items |-> mutation]}
    /\ \A x \in answers[key] : certified /\ ~x.certified

\* A spot that is gone was final.
AnswerShown(Items, Values, initial, store, given, result) ==
    /\ result \in Stores(Items, Values) /\ Represents(result, initial, given)
    /\ \A e \in Elems(result.mutationQueue) : \E d \in Elems(store.mutationQueue) :
         e.mutationKey = d.mutationKey /\ e.strategy = d.strategy
    /\ \A d \in Elems(store.mutationQueue) :
         \/ d.mutationKey \in Keys(result.mutationQueue)
         \/ d.strategy = "query" /\ given[d.mutationKey] # {}
         \/ \E x \in given[d.mutationKey] : x.certified

\* addMutation on a store that represents a history gives a store that represents the history with
\* this answer, whether its spot was empty, filled by the query or already overtaken.
LEMMA AddMutationKeeps ==
    ASSUME NEW Items, NEW Values, NEW initial \in [Items -> Values], NEW store \in Stores(Items, Values),
           NEW answers, AllAnswers(Items, Values, answers), Represents(store, initial, answers),
           NEW key \in Keys(store.mutationQueue), NEW certified \in BOOLEAN,
           NEW mutation \in Parts(Items, Values),
           NEW given, Comes(answers, given, key, certified, mutation),
           NEW result, result = AddMutation(store, key, certified, mutation)
    PROVE  AnswerShown(Items, Values, initial, store, given, result)
<1>0. /\ DOMAIN answers \in SUBSET Nat
      /\ \A r \in DOMAIN answers : answers[r] \in AnswerSets(Items, Values)
      /\ \A x \in answers[key] : certified /\ ~x.certified
      /\ DOMAIN given = DOMAIN answers
      /\ \A r \in DOMAIN answers : r # key => given[r] = answers[r]
      /\ given[key] = {[certified |-> certified, items |-> mutation]}
  BY DEF AllAnswers, Comes
<1> USE <1>0
<1> DEFINE q == store.mutationQueue
           m == Len(q)
           y == [certified |-> certified, items |-> mutation]
           filled(e) == IF e.mutationKey # key THEN e ELSE Fill(e, certified, mutation)
           queue == [i \in DOMAIN q |-> filled(q[i])]
           full == [store EXCEPT !.mutationQueue = queue]
           new == AddMutation(store, key, certified, mutation)
<1>1. /\ q \in Seq(Entries(Items, Values)) /\ m \in Nat /\ DOMAIN q = 1 .. m
      /\ store.certifiedData \in [Items -> Values]
  BY StoreFields
<1>2. y.certified = certified /\ y.items = mutation /\ given[key] = {y}
      /\ y \in [certified : BOOLEAN, items : Parts(Items, Values)]
  OBVIOUS
<1> HIDE DEF y
<1>3. \A r \in DOMAIN given : given[r] \in AnswerSets(Items, Values)
  <2>1. {y} \in AnswerSets(Items, Values)
    BY <1>2 DEF AnswerSets
  <2> QED BY <1>2, <2>1
<1>4. ASSUME NEW i \in 1 .. m
      PROVE  /\ queue[i] \in Entries(Items, Values)
             /\ queue[i].mutationKey = q[i].mutationKey /\ queue[i].strategy = q[i].strategy
             /\ q[i].mutationKey \in DOMAIN given /\ Matches(queue[i], given[q[i].mutationKey])
  <2>1. q[i] \in Entries(Items, Values) /\ queue[i] = filled(q[i])
    BY <1>1
  <2>2. q[i].mutationKey \in DOMAIN answers /\ Matches(q[i], answers[q[i].mutationKey])
    BY <1>1 DEF Represents, Filled
  <2> HIDE DEF queue
  <2>3. CASE q[i].mutationKey # key
    BY <2>1, <2>2, <2>3
  <2>4. CASE q[i].mutationKey = key
    <3> DEFINE e == q[i]
    <3>1. e \in Entries(Items, Values) /\ Matches(e, answers[key]) /\ answers[key] \in AnswerSets(Items, Values)
      BY <2>1, <2>2, <2>4
    <3>2. queue[i] = Fill(e, certified, mutation)
      BY <2>1, <2>4
    <3> HIDE DEF e
    <3>3. /\ Fill(e, certified, mutation) \in Entries(Items, Values)
          /\ Fill(e, certified, mutation).mutationKey = e.mutationKey
          /\ Fill(e, certified, mutation).strategy = e.strategy
          /\ Matches(Fill(e, certified, mutation), {y})
      BY <1>2, <3>1, FillKeeps
    <3> QED BY <1>2, <2>2, <2>4, <3>2, <3>3 DEF e
  <2> QED BY <2>3, <2>4
<1>5. queue \in Seq(Entries(Items, Values)) /\ Len(queue) = m /\ DOMAIN queue = 1 .. m
  <2>1. queue = [i \in 1 .. m |-> queue[i]]
    BY <1>1
  <2>2. \A i \in 1 .. m : queue[i] \in Entries(Items, Values)
    <3> HIDE DEF queue, q, m
    <3> QED BY <1>4
  <2> HIDE DEF queue, q, m
  <2> QED BY SMTT(60), <1>1, <2>1, <2>2
<1>6. /\ full \in Stores(Items, Values) /\ full.mutationQueue = queue
      /\ full.certifiedData = store.certifiedData
  <2> HIDE DEF queue
  <2> QED BY <1>5, StoreFields
<1>7. new = UpdateExposedData(ApplyFinal(full))
  BY DEF AddMutation, Fill
<1> HIDE DEF queue, full, new
<1>8. Keys(queue) = Keys(q)
  <2>1. DOMAIN queue = 1 .. m /\ DOMAIN q = 1 .. m
    BY <1>1, <1>5
  <2>2. \A i \in 1 .. m : queue[i].mutationKey = q[i].mutationKey
    BY <1>4
  <2> HIDE DEF q, m
  <2> QED BY <2>1, <2>2 DEF Keys
<1>9. Filled(queue, given)
  BY <1>1, <1>4, <1>5 DEF Represents, Filled
<1>10. Before(DOMAIN given \ Keys(queue), queue, given)
  <2> SUFFICES ASSUME NEW r \in DOMAIN given \ Keys(queue), given[r] # {}, NEW i \in 1 .. m
               PROVE  r < queue[i].mutationKey
    BY <1>5 DEF Before
  <2>1. r \in DOMAIN answers \ Keys(q) /\ answers[r] # {}
    BY <1>8
  <2>2. r < q[i].mutationKey
    BY <1>1, <2>1 DEF Represents, Before
  <2> QED BY <1>4, <2>2
<1>11. Shows(store.certifiedData, initial, given, DOMAIN given \ Keys(queue))
  <2>1. Shows(store.certifiedData, initial, answers, DOMAIN answers \ Keys(q))
    BY DEF Represents
  <2> QED BY <1>8, <2>1, ShowsSame
<1>12. /\ new \in Stores(Items, Values) /\ Represents(new, initial, given)
       /\ Elems(new.mutationQueue) \subseteq Elems(queue)
       /\ \A e \in Elems(queue) : IsFinal(e) \/ e.mutationKey \in Keys(new.mutationQueue)
  <2>1. DOMAIN given \in SUBSET Nat
    OBVIOUS
  <2>2. /\ Filled(full.mutationQueue, given)
        /\ Before(DOMAIN given \ Keys(full.mutationQueue), full.mutationQueue, given)
        /\ Shows(full.certifiedData, initial, given, DOMAIN given \ Keys(full.mutationQueue))
    BY <1>6, <1>9, <1>10, <1>11
  <2> QED BY <1>3, <1>6, <1>7, <2>1, <2>2, ApplyFinalKeeps
<1>13. \A e \in Elems(new.mutationQueue) : \E d \in Elems(q) :
          e.mutationKey = d.mutationKey /\ e.strategy = d.strategy
  <2> SUFFICES ASSUME NEW e \in Elems(new.mutationQueue)
               PROVE  \E d \in Elems(q) : e.mutationKey = d.mutationKey /\ e.strategy = d.strategy
    OBVIOUS
  <2>1. PICK i \in 1 .. m : e = queue[i]
    BY <1>5, <1>12 DEF Elems
  <2>2. q[i] \in Elems(q)
    BY <1>1 DEF Elems
  <2> QED BY <1>4, <2>1, <2>2
<1>14. ASSUME NEW d \in Elems(q)
       PROVE  \/ d.mutationKey \in Keys(new.mutationQueue)
              \/ d.strategy = "query" /\ given[d.mutationKey] # {}
              \/ \E x \in given[d.mutationKey] : x.certified
  <2>1. PICK i \in 1 .. m : d = q[i]
    BY <1>1 DEF Elems
  <2>2. queue[i] \in Elems(queue)
    BY <1>5 DEF Elems
  <2>3. CASE d.mutationKey \notin Keys(new.mutationQueue)
    <3>1. IsFinal(queue[i]) /\ queue[i] \in Entries(Items, Values) /\ Matches(queue[i], given[d.mutationKey])
      BY <1>4, <1>12, <2>1, <2>2, <2>3
    <3>2. (queue[i].strategy = "query" /\ given[d.mutationKey] # {}) \/ \E x \in given[d.mutationKey] : x.certified
      BY <3>1, FinalIsAnswered
    <3> QED BY <1>4, <2>1, <3>2
  <2> QED BY <2>3
<1> QED BY <1>12, <1>13, <1>14 DEF new, AnswerShown

-----------------------------------------------------------------------------
(***************************************************************************)
(* The requests and their answers.                                         *)
(***************************************************************************)

\* The fields of a request
LEMMA RequestFields ==
    ASSUME NEW request \in RequestRecords
    PROVE  /\ request.kind \in RequestKinds /\ request.accounts \in SUBSET Accounts
           /\ request.call \in Requests /\ request.call.waiting \in SUBSET BOOLEAN
           /\ request.call.certifiedDone \in BOOLEAN /\ request.call.strategy \in Strategies
           /\ request.since \in [Accounts -> Counts] /\ request.had \in SUBSET Accounts
           /\ request.answer \in AnswerSets(Accounts, Balances)
BY DEF RequestRecords, Requests

\* The requests are numbered 1, 2, ... and each is well formed.
LEMMA Positions ==
    ASSUME Types
    PROVE  /\ Len(requests) \in Nat /\ DOMAIN requests = 1 .. Len(requests)
           /\ DOMAIN requests \in SUBSET Nat
           /\ \A r \in DOMAIN requests : requests[r] \in RequestRecords
BY DEF Types

\* An answer is about some of the accounts.
LEMMA AnswerFields ==
    ASSUME NEW ans \in AnswerSets(Accounts, Balances), NEW x \in ans
    PROVE  /\ ans = {x} /\ x.certified \in BOOLEAN
           /\ x.items \in Parts(Accounts, Balances) /\ DOMAIN x.items \in SUBSET Accounts
           /\ \A a \in DOMAIN x.items : x.items[a] \in Balances
<1>1. ans = {x} /\ x \in [certified : BOOLEAN, items : Parts(Accounts, Balances)]
  BY DEF AnswerSets
<1>2. x.certified \in BOOLEAN /\ x.items \in Parts(Accounts, Balances)
  BY <1>1
<1>3. PICK S \in SUBSET Accounts : x.items \in [S -> Balances]
  BY <1>2 DEF Parts
<1> QED BY <1>1, <1>2, <1>3

\* What an answer says of the details
DetailsOf(x) == [certified |-> x.certified, items |-> DetailsIn(x)]

\* What the store of details makes of an answer about balances is well formed.
LEMMA DetailsType ==
    ASSUME NEW ans \in AnswerSets(Accounts, Balances)
    PROVE  {DetailsOf(x) : x \in ans} \in AnswerSets(Accounts, Shown)
<1>1. CASE ans = {}
  BY <1>1 DEF AnswerSets
<1>2. CASE ans # {}
  <2>1. PICK x \in ans : TRUE
    BY <1>2
  <2>2. ans = {x} /\ x.certified \in BOOLEAN
    BY AnswerFields
  <2>3. DetailsIn(x) \in [Accounts -> Shown]
    BY DEF DetailsIn, Shown
  <2>4. DetailsIn(x) \in Parts(Accounts, Shown)
    BY <2>3 DEF Parts
  <2>5. DetailsOf(x) \in [certified : BOOLEAN, items : Parts(Accounts, Shown)]
    BY <2>2, <2>4 DEF DetailsOf
  <2>6. {DetailsOf(y) : y \in ans} = {DetailsOf(x)}
    BY <2>2
  <2> QED BY <2>5, <2>6 DEF AnswerSets
<1> QED BY <1>1, <1>2

\* The histories of both stores are the answers that the requests had.
LEMMA GivenTypes ==
    ASSUME Types
    PROVE  /\ DOMAIN Given = DOMAIN requests /\ DOMAIN DetailAnswers = DOMAIN requests
           /\ \A r \in DOMAIN requests :
                /\ Given[r] = requests[r].answer /\ Given[r] \in AnswerSets(Accounts, Balances)
                /\ DetailAnswers[r] =
                     IF requests[r].kind = "load" THEN {} ELSE {DetailsOf(x) : x \in requests[r].answer}
                /\ DetailAnswers[r] \in AnswerSets(Accounts, Shown)
<1>1. DOMAIN Given = DOMAIN requests /\ DOMAIN DetailAnswers = DOMAIN requests
  BY DEF Given, DetailAnswers
<1>2. ASSUME NEW r \in DOMAIN requests
      PROVE  /\ Given[r] = requests[r].answer /\ Given[r] \in AnswerSets(Accounts, Balances)
             /\ DetailAnswers[r] =
                  IF requests[r].kind = "load" THEN {} ELSE {DetailsOf(x) : x \in requests[r].answer}
             /\ DetailAnswers[r] \in AnswerSets(Accounts, Shown)
  <2>1. requests[r].answer \in AnswerSets(Accounts, Balances)
    BY Positions, RequestFields
  <2>2. Given[r] = requests[r].answer
    BY DEF Given
  <2>3. DetailAnswers[r] =
          IF requests[r].kind = "load" THEN {} ELSE {DetailsOf(x) : x \in requests[r].answer}
    BY DEF DetailAnswers, DetailsOf
  <2>4. {} \in AnswerSets(Accounts, Shown)
    BY DEF AnswerSets
  <2> QED BY <2>1, <2>2, <2>3, <2>4, DetailsType
<1> QED BY <1>1, <1>2

\* Requests are made at the end of the list.
Made(new) ==
    /\ new \in Seq(RequestRecords)
    /\ \A i \in DOMAIN new : new[i].answer = {} /\ new[i].since = ledger
    /\ requests' = requests \o new
    /\ UNCHANGED ledger

\* New requests are appended: what was known of the earlier ones stays.
LEMMA MadeKeeps ==
    ASSUME IInv, NEW new, Made(new)
    PROVE  /\ requests' \in Seq(RequestRecords) /\ Len(new) \in Nat /\ DOMAIN new = 1 .. Len(new)
           /\ DOMAIN requests' = 1 .. (Len(requests) + Len(new))
           /\ \A r \in DOMAIN requests : r \in DOMAIN requests' /\ requests'[r] = requests[r]
           /\ \A i \in DOMAIN new :
                Len(requests) + i \in DOMAIN requests' /\ requests'[Len(requests) + i] = new[i]
           /\ \A r \in DOMAIN requests' :
                r \in DOMAIN requests \/ \E i \in DOMAIN new : r = Len(requests) + i
           /\ AnswersFit' /\ SinceGrows' /\ CallsFit'
           /\ Extends(Given', Given, Len(requests), Len(new))
           /\ Extends(DetailAnswers', DetailAnswers, Len(requests), Len(new))
<1> DEFINE n == Len(requests)
           k == Len(new)
<1>1. /\ requests \in Seq(RequestRecords) /\ new \in Seq(RequestRecords)
      /\ n \in Nat /\ DOMAIN requests = 1 .. n /\ k \in Nat /\ DOMAIN new = 1 .. k
  BY DEF IInv, Types, Made
<1>2. /\ requests' \in Seq(RequestRecords) /\ DOMAIN requests' = 1 .. (n + k)
      /\ \A r \in 1 .. n : requests'[r] = requests[r]
      /\ \A i \in 1 .. k : requests'[n + i] = new[i]
  BY <1>1 DEF Made
<1> HIDE DEF n, k
<1>3. \A r \in 1 .. (n + k) : r \in 1 .. n \/ \E i \in 1 .. k : r = n + i
  <2> SUFFICES ASSUME NEW r \in 1 .. (n + k), r \notin 1 .. n PROVE \E i \in 1 .. k : r = n + i
    OBVIOUS
  <2>1. r - n \in 1 .. k /\ r = n + (r - n)
    BY <1>1
  <2> QED BY <2>1
<1>4. \A i \in 1 .. k : n + i \in 1 .. (n + k) /\ n + i \notin 1 .. n /\ \A r \in 1 .. n : r \in 1 .. (n + k) /\ r < n + i
  BY <1>1
<1>5. \A r \in 1 .. n : r \in 1 .. (n + k)
  BY <1>1
<1>6. \A i \in 1 .. k : new[i].answer = {} /\ new[i].since = ledger
  BY <1>1 DEF Made
<1>7. AnswersFit'
  <2> SUFFICES ASSUME NEW r \in 1 .. (n + k), NEW x \in requests'[r].answer
               PROVE  /\ requests'[r].kind # "load" => DOMAIN x.items = Accounts
                      /\ requests'[r].kind = "load" => \A a \in DOMAIN x.items : x.items[a].present
                      /\ x.certified => \A a \in DOMAIN x.items :
                            x.items[a].present => requests'[r].since[a] <= x.items[a].count
    BY <1>2 DEF AnswersFit
  <2>1. r \in 1 .. n /\ requests'[r] = requests[r]
    BY <1>2, <1>3, <1>6
  <2> QED BY <1>1, <2>1 DEF IInv, AnswersFit
<1>8. SinceGrows'
  <2>1. ASSUME NEW r \in 1 .. (n + k), NEW a \in Accounts PROVE requests'[r].since[a] <= ledger[a]
    <3>1. CASE r \in 1 .. n
      BY <1>1, <1>2, <3>1 DEF IInv, SinceGrows
    <3>2. CASE r \notin 1 .. n
      <4>1. requests'[r].since[a] = ledger[a]
        BY <1>2, <1>3, <1>6, <3>2
      <4>2. ledger[a] \in Int
        BY DEF IInv, Types, Counts
      <4> QED BY <4>1, <4>2
    <3> QED BY <3>1, <3>2
  <2>2. ASSUME NEW r \in 1 .. (n + k), NEW s \in 1 .. (n + k), r < s, NEW a \in Accounts
        PROVE  requests'[r].since[a] <= requests'[s].since[a]
    <3>1. CASE s \in 1 .. n
      <4>1. r \in 1 .. n
        BY <1>1, <2>2, <3>1
      <4> QED BY <1>1, <1>2, <2>2, <3>1, <4>1 DEF IInv, SinceGrows
    <3>2. CASE s \notin 1 .. n
      <4>1. requests'[s].since[a] = ledger[a]
        BY <1>2, <1>3, <1>6, <3>2
      <4> QED BY <2>1, <4>1
    <3> QED BY <3>1, <3>2
  <2>3. UNCHANGED ledger
    BY DEF Made
  <2> QED BY <1>2, <2>1, <2>2, <2>3 DEF SinceGrows
<1>9. CallsFit'
  <2> SUFFICES ASSUME NEW r \in 1 .. (n + k), NEW x \in requests'[r].answer
               PROVE  IF x.certified THEN requests'[r].call.waiting = {} \/ ~Heard(requests'[r].call)
                      ELSE FALSE \notin requests'[r].call.waiting
    BY <1>2 DEF CallsFit
  <2>1. r \in 1 .. n /\ requests'[r] = requests[r]
    BY <1>2, <1>3, <1>6
  <2> QED BY <1>1, <2>1 DEF IInv, CallsFit
<1>10. Extends(Given', Given, n, k)
  <2>1. DOMAIN Given' = 1 .. (n + k) /\ DOMAIN Given = 1 .. n
    BY <1>1, <1>2 DEF Given
  <2>2. \A r \in 1 .. n : Given'[r] = Given[r]
    BY <1>1, <1>2, <1>5 DEF Given
  <2>3. \A r \in (n + 1) .. (n + k) : Given'[r] = {}
    <3> SUFFICES ASSUME NEW r \in (n + 1) .. (n + k) PROVE Given'[r] = {}
      OBVIOUS
    <3>1. r - n \in 1 .. k /\ r = n + (r - n) /\ r \in 1 .. (n + k)
      BY <1>1
    <3>2. requests'[r].answer = {}
      BY <1>2, <1>6, <3>1
    <3> QED BY <1>2, <3>1, <3>2 DEF Given
  <2> QED BY <2>1, <2>2, <2>3 DEF Extends
<1>11. Extends(DetailAnswers', DetailAnswers, n, k)
  <2>1. DOMAIN DetailAnswers' = 1 .. (n + k) /\ DOMAIN DetailAnswers = 1 .. n
    BY <1>1, <1>2 DEF DetailAnswers
  <2>2. ASSUME NEW r \in 1 .. n PROVE DetailAnswers'[r] = DetailAnswers[r]
    <3>1. r \in DOMAIN requests' /\ r \in DOMAIN requests /\ requests'[r] = requests[r]
      BY <1>1, <1>2, <1>5
    <3> QED BY <3>1 DEF DetailAnswers, DetailsIn
  <2>3. \A r \in (n + 1) .. (n + k) : DetailAnswers'[r] = {}
    <3> SUFFICES ASSUME NEW r \in (n + 1) .. (n + k) PROVE DetailAnswers'[r] = {}
      OBVIOUS
    <3>1. r - n \in 1 .. k /\ r = n + (r - n) /\ r \in 1 .. (n + k)
      BY <1>1
    <3>2. requests'[r].answer = {}
      BY <1>2, <1>6, <3>1
    <3> QED BY <1>2, <3>1, <3>2 DEF DetailAnswers
  <2> QED BY <2>1, <2>2, <2>3 DEF Extends
<1> QED BY <1>1, <1>2, <1>3, <1>4, <1>5, <1>7, <1>8, <1>9, <1>10, <1>11 DEF n, k

-----------------------------------------------------------------------------
(***************************************************************************)
(* Requests are made.                                                      *)
(***************************************************************************)

\* The spots of a queue belong to requests that were made.
LEMMA KeysAreRequests ==
    ASSUME NEW queue, NEW answers, Filled(queue, answers), NEW e \in Elems(queue)
    PROVE  e.mutationKey \in DOMAIN answers /\ e.mutationKey \in Keys(queue)
BY DEF Elems, Keys, Filled

SpotsFitAfter(Items, Values, initial, store, new, ext, result) ==
    /\ result \in Stores(Items, Values) /\ result.exposed = store.exposed
    /\ Represents(result, initial, ext) /\ SpotsFit(result.mutationQueue, requests')
    /\ Keys(store.mutationQueue) \subseteq Keys(result.mutationQueue)
    /\ \A i \in DOMAIN new : Len(requests) + i \in Keys(result.mutationQueue)

\* After new requests were made the spots of the queue are still those of requests that may be
\* heard.
LEMMA ReservedFits ==
    ASSUME IInv, NEW new, Made(new), NEW strategies, Chosen(strategies, Len(new)),
           \A i \in DOMAIN new : strategies[i] = "query" => TRUE \notin new[i].call.waiting,
           NEW Items, NEW Values, NEW initial, NEW store \in Stores(Items, Values), NEW answers, NEW ext,
           Represents(store, initial, answers), Extends(ext, answers, Len(requests), Len(new)),
           SpotsFit(store.mutationQueue, requests),
           NEW result, result = WithSpots(store, Len(requests), strategies)
    PROVE  SpotsFitAfter(Items, Values, initial, store, new, ext, result)
<1> DEFINE n == Len(requests)
           k == Len(new)
           q == store.mutationQueue
<1>1. /\ n \in Nat /\ k \in Nat /\ DOMAIN new = 1 .. k /\ DOMAIN requests = 1 .. n
      /\ \A r \in 1 .. n : requests'[r] = requests[r]
      /\ \A i \in 1 .. k : requests'[n + i] = new[i]
  BY MadeKeeps, Positions DEF IInv
<1>2. strategies \in [1 .. k -> Strategies] /\ Chosen(strategies, k) /\ Extends(ext, answers, n, k)
  BY <1>1 DEF Chosen
<1>3. result = WithSpots(store, n, strategies)
  OBVIOUS
<1> HIDE DEF n, k
<1>4. /\ result \in Stores(Items, Values) /\ result.exposed = store.exposed
      /\ Represents(result, initial, ext)
      /\ Keys(result.mutationQueue) = Keys(q) \cup (n + 1) .. (n + k)
      /\ \A e \in Elems(result.mutationQueue) :
            e \in Elems(q) \/ \E i \in 1 .. k : e = MutationEntry(n + i, strategies[i])
  <2>1. SpotsAdded(Items, Values, initial, store, n, k, ext, strategies, result)
    BY <1>1, <1>2, <1>3, ReservedKeeps
  <2> QED BY <2>1 DEF SpotsAdded
<1>5. \A i \in 1 .. k : n + i \in (n + 1) .. (n + k)
  BY <1>1
<1>6. SpotsFit(result.mutationQueue, requests')
  <2> SUFFICES ASSUME NEW e \in Elems(result.mutationQueue), e.strategy = "query"
               PROVE  TRUE \notin requests'[e.mutationKey].call.waiting
    BY DEF SpotsFit
  <2>1. CASE e \in Elems(q)
    <3>1. Filled(q, answers)
      BY DEF Represents
    <3>2. e.mutationKey \in 1 .. n
      BY <1>2, <2>1, <3>1, KeysAreRequests DEF Extends
    <3> QED BY <1>1, <2>1, <3>2 DEF SpotsFit
  <2>2. CASE \E i \in 1 .. k : e = MutationEntry(n + i, strategies[i])
    <3>1. PICK i \in 1 .. k : e = MutationEntry(n + i, strategies[i])
      BY <2>2
    <3>2. n + i \in Nat /\ strategies[i] \in Strategies
      BY <1>1, <1>2
    <3>3. e.mutationKey = n + i /\ e.strategy = strategies[i]
      BY <3>1, <3>2, NewEntry
    <3> QED BY <1>1, <3>3
  <2> QED BY <1>4, <2>1, <2>2
<1> QED BY <1>1, <1>4, <1>5, <1>6 DEF n, SpotsFitAfter

\* The other variables when requests are made
Around ==
    /\ known' \in SUBSET Accounts /\ sent' \in SUBSET (Accounts \X Accounts)
    /\ UNCHANGED <<forced, transfers, failures>>

\* Requests other than polls
Plain(new) ==
    /\ \A i \in DOMAIN new : new[i].kind # "poll" /\ \E s \in Strategies : new[i].call = Sent(s)
    /\ (\A i \in DOMAIN new : new[i].kind = "load") \/ (\A i \in DOMAIN new : new[i].kind # "load")

\* A call as it is sent with each strategy: what it waits for and what the service still listens
\* to.
LEMMA SentFields ==
    ASSUME NEW s \in Strategies
    PROVE  /\ Sent(s) \in Requests /\ Sent(s).strategy = s /\ Heard(Sent(s))
           /\ s = "query" => TRUE \notin Sent(s).waiting
           /\ s # "query_and_update" => Sent(s).waiting # BOOLEAN
BY DEF Sent, Requests, Heard, CallsOf, Strategies

\* Making requests and reserving their spots in both stores keeps the invariant.
LEMMA IssueKeeps ==
    ASSUME IInv, NEW new, Made(new), Plain(new), Issue(new), Around, UNCHANGED polling
    PROVE  IInv' /\ UNCHANGED balances.exposed
<1> DEFINE n == Len(requests)
           strategies == [i \in DOMAIN new |-> new[i].call.strategy]
<1>1. /\ requests' \in Seq(RequestRecords) /\ DOMAIN requests = 1 .. n
      /\ \A r \in DOMAIN requests : r \in DOMAIN requests' /\ requests'[r] = requests[r]
      /\ \A i \in DOMAIN new : n + i \in DOMAIN requests' /\ requests'[n + i] = new[i]
      /\ \A r \in DOMAIN requests' : r \in DOMAIN requests \/ \E i \in DOMAIN new : r = n + i
      /\ AnswersFit' /\ SinceGrows' /\ CallsFit'
  BY MadeKeeps, Positions DEF IInv
<1>2. PICK g : g = Given' /\ Extends(g, Given, n, Len(new))
  BY MadeKeeps
<1>3. PICK d : d = DetailAnswers' /\ Extends(d, DetailAnswers, n, Len(new))
  BY MadeKeeps
<1>4. \A i \in DOMAIN new : /\ new[i].call.strategy \in Strategies
                            /\ new[i].call.strategy = "query" => TRUE \notin new[i].call.waiting
  BY ZenonT(60), SentFields DEF Plain
<1>5. /\ Chosen(strategies, Len(new))
      /\ \A i \in DOMAIN new : strategies[i] = "query" => TRUE \notin new[i].call.waiting
  <2>1. DOMAIN new = 1 .. Len(new)
    BY DEF Made
  <2> QED BY <1>4, <2>1 DEF Chosen
<1>6. /\ balances \in Stores(Accounts, Balances) /\ details \in Stores(Accounts, Shown)
      /\ Represents(balances, NoBalances, Given) /\ Represents(details, NoDetails, DetailAnswers)
      /\ SpotsFit(balances.mutationQueue, requests) /\ SpotsFit(details.mutationQueue, requests)
  BY DEF IInv, Types, BalancesFit, DetailsFit, SpotsKept
<1>7. PICK b : b = balances' /\ b = WithSpots(balances, n, strategies)
  BY DEF Issue, Reserved, WithSpots, Spots
<1> HIDE DEF n, strategies
<1>8. /\ b \in Stores(Accounts, Balances) /\ b.exposed = balances.exposed
      /\ Represents(b, NoBalances, g) /\ SpotsFit(b.mutationQueue, requests')
      /\ Keys(balances.mutationQueue) \subseteq Keys(b.mutationQueue)
      /\ \A i \in DOMAIN new : n + i \in Keys(b.mutationQueue)
  <2>1. SpotsFitAfter(Accounts, Balances, NoBalances, balances, new, g, b)
    BY <1>2, <1>5, <1>6, <1>7, ReservedFits DEF n
  <2> QED BY <2>1 DEF SpotsFitAfter, n
<1>9. /\ details' \in Stores(Accounts, Shown) /\ DetailsFit'
      /\ SpotsFit(details'.mutationQueue, requests')
      /\ Keys(details.mutationQueue) \subseteq Keys(details'.mutationQueue)
      /\ \A i \in DOMAIN new : new[i].kind # "load" => n + i \in Keys(details'.mutationQueue)
  <2>1. CASE \E i \in DOMAIN new : new[i].kind = "load"
    <3>1. details' = details
      BY <2>1 DEF Issue
    <3>2. \A i \in DOMAIN new : new[i].kind = "load"
      BY <2>1 DEF Plain
    <3>3. n \in Nat /\ Len(new) \in Nat
      BY MadeKeeps, Positions DEF IInv, n
    <3>4. Represents(details, NoDetails, d)
      BY <1>3, <1>6, <3>3, NotReservedKeeps
    <3>5. SpotsFit(details.mutationQueue, requests')
      <4> SUFFICES ASSUME NEW e \in Elems(details.mutationQueue), e.strategy = "query"
                   PROVE  TRUE \notin requests'[e.mutationKey].call.waiting
        BY DEF SpotsFit
      <4>1. Filled(details.mutationQueue, DetailAnswers)
        BY <1>6 DEF Represents
      <4>2. e.mutationKey \in DOMAIN requests
        BY <4>1, KeysAreRequests, GivenTypes DEF IInv
      <4> QED BY <1>1, <1>6, <4>2 DEF SpotsFit
    <3>6. DetailsFit'
      BY <1>3, <3>1, <3>4 DEF DetailsFit, NoDetails
    <3> QED BY <1>6, <3>1, <3>2, <3>5, <3>6
  <2>2. CASE ~\E i \in DOMAIN new : new[i].kind = "load"
    <3>1. PICK c : c = details' /\ c = WithSpots(details, n, strategies)
      BY <2>2 DEF Issue, Reserved, WithSpots, Spots, strategies, n
    <3>2. /\ c \in Stores(Accounts, Shown)
          /\ Represents(c, NoDetails, d) /\ SpotsFit(c.mutationQueue, requests')
          /\ Keys(details.mutationQueue) \subseteq Keys(c.mutationQueue)
          /\ \A i \in DOMAIN new : n + i \in Keys(c.mutationQueue)
      <4>1. SpotsFitAfter(Accounts, Shown, NoDetails, details, new, d, c)
        BY <1>3, <1>5, <1>6, <3>1, ReservedFits DEF n
      <4> QED BY <4>1 DEF SpotsFitAfter, n
    <3>3. DetailsFit'
      BY <1>3, <3>1, <3>2 DEF DetailsFit, NoDetails
    <3> QED BY <3>1, <3>2, <3>3
  <2> QED BY <2>1, <2>2
<1>10. BalancesFit'
  BY <1>2, <1>7, <1>8 DEF BalancesFit, NoBalances, NoBalance
<1>11. UNCHANGED ledger
  BY DEF Made
<1>12. Types' /\ LedgerBound'
  <2>1. polling' \in {0} \cup DOMAIN requests'
    BY <1>1 DEF IInv, Types
  <2>2. balances' \in Stores(Accounts, Balances)
    BY <1>7, <1>8
  <2>3. Types'
    BY <1>1, <1>9, <1>11, <2>1, <2>2 DEF IInv, Types, Around, Counts
  <2> QED BY <1>11, <2>3 DEF IInv, LedgerBound, Around
<1>13. PollsFit'
  <2>1. \A i \in DOMAIN new : new[i].kind # "poll"
    BY DEF Plain
  <2>2. polling # 0 => polling \in DOMAIN requests
    BY DEF IInv, Types
  <2> QED BY <1>1, <2>1, <2>2 DEF IInv, PollsFit
<1>14. SpotsKept'
  <2> SUFFICES ASSUME NEW r \in DOMAIN requests', Awaited(r)'
               PROVE  /\ r \in Keys(b.mutationQueue)
                      /\ requests'[r].kind # "load" => r \in Keys(details'.mutationQueue)
    BY <1>7, <1>8, <1>9 DEF SpotsKept
  <2>1. CASE r \in DOMAIN requests
    <3>1. Awaited(r) /\ requests'[r] = requests[r]
      BY <1>1, <2>1 DEF Awaited
    <3> QED BY <1>8, <1>9, <2>1, <3>1 DEF IInv, SpotsKept
  <2>2. CASE r \notin DOMAIN requests
    BY <1>1, <1>8, <1>9, <2>2
  <2> QED BY <2>1, <2>2
<1> QED BY <1>1, <1>7, <1>8, <1>9, <1>10, <1>12, <1>13, <1>14 DEF IInv

-----------------------------------------------------------------------------
(***************************************************************************)
(* A request changes: it is answered, fails, or is given up.               *)
(***************************************************************************)

\* A request after an answer came, and one that was given up
Follows(next, request) ==
    /\ next \in RequestRecords /\ next.kind = request.kind /\ next.since = request.since
    /\ next.call.waiting \subseteq request.call.waiting
    /\ next.call.waiting # {} /\ Heard(next.call) => Heard(request.call)

\* A call that was given up waits for nothing.
LEMMA DoneFields ==
    /\ Done \in Requests /\ Done.waiting = {} /\ Heard(Done)
BY DEF Done, Sent, Requests, Heard, CallsOf, Strategies

\* A request that is given up keeps its answers and awaits none.
LEMMA GivenUp ==
    ASSUME NEW request \in RequestRecords,
           NEW next, next = [request EXCEPT !.call = Done, !.had = {}]
    PROVE  /\ Follows(next, request) /\ next.answer = request.answer
           /\ next.call.waiting = {} /\ Heard(next.call)
<1>1. /\ next \in RequestRecords /\ next.kind = request.kind /\ next.since = request.since
      /\ next.answer = request.answer /\ next.call = Done
  BY DoneFields DEF RequestRecords
<1> QED BY <1>1, DoneFields DEF Follows

\* After an answer the call waits for one less; a certified one ends it.
LEMMA AnsweredFields ==
    ASSUME NEW call \in Requests, NEW certified \in call.waiting
    PROVE  LET next == Answered(call, certified) IN
           /\ next \in Requests /\ next.waiting = call.waiting \ {certified}
           /\ Heard(next) => Heard(call) /\ ~certified
           /\ certified \in BOOLEAN
<1>1. certified \in BOOLEAN /\ call.certifiedDone \in BOOLEAN
  BY DEF Requests
<1>2. CASE certified = TRUE
  BY <1>1, <1>2 DEF Requests, Answered, Heard
<1>3. CASE certified = FALSE
  BY <1>1, <1>3 DEF Requests, Answered, Heard
<1> QED BY <1>1, <1>2, <1>3

\* A request that was served keeps its answers and awaits one less.
LEMMA ServedFields ==
    ASSUME NEW request \in RequestRecords, NEW certified \in request.call.waiting,
           NEW next, next = Served(request, certified)
    PROVE  /\ Follows(next, request) /\ next.answer = request.answer
           /\ next.call.waiting = request.call.waiting \ {certified}
           /\ certified => next.call.waiting = {} \/ ~Heard(next.call)
           /\ next.call.waiting = {} => Heard(next.call)
<1> DEFINE call == Answered(request.call, certified)
<1>1. /\ call \in Requests /\ call.waiting = request.call.waiting \ {certified}
      /\ Heard(call) => Heard(request.call) /\ ~certified
  BY AnsweredFields, RequestFields
<1>2. next = IF call.waiting = {} THEN [request EXCEPT !.call = Done, !.had = {}]
             ELSE [request EXCEPT !.call = call]
  BY DEF Served
<1> HIDE DEF call
<1>3. CASE call.waiting = {}
  BY <1>1, <1>2, <1>3, GivenUp
<1>4. CASE call.waiting # {}
  <2>1. /\ next \in RequestRecords /\ next.kind = request.kind /\ next.since = request.since
        /\ next.answer = request.answer /\ next.call = call
    BY <1>1, <1>2, <1>4 DEF RequestRecords
  <2> QED BY <1>1, <1>4, <2>1 DEF Follows
<1> QED BY <1>3, <1>4

\* One of the requests becomes `next`.
Becomes(r, next) ==
    /\ r \in DOMAIN requests /\ Follows(next, requests[r])
    /\ requests' \in Seq(RequestRecords) /\ DOMAIN requests' = DOMAIN requests
    /\ requests'[r] = next /\ \A s \in DOMAIN requests \ {r} : requests'[s] = requests[s]
    /\ UNCHANGED ledger

\* Replacing one request by a later state of it changes nothing about the others.
LEMMA Replaced ==
    ASSUME Types, NEW r \in DOMAIN requests, NEW next, Follows(next, requests[r]),
           requests' = [requests EXCEPT ![r] = next], UNCHANGED ledger
    PROVE  Becomes(r, next)
<1>1. requests \in Seq(RequestRecords) /\ next \in RequestRecords
  BY DEF Types, Follows
<1>2. requests' \in Seq(RequestRecords)
  BY <1>1
<1> QED BY <1>1, <1>2 DEF Becomes

\* The facts about spots survive that one request moves on, and no request becomes awaited again.
LEMMA BecomesKeeps ==
    ASSUME IInv, NEW r, NEW next, Becomes(r, next)
    PROVE  /\ SinceGrows'
           /\ SpotsFit(balances.mutationQueue, requests') /\ SpotsFit(details.mutationQueue, requests')
           /\ \A s \in DOMAIN requests : Awaited(s)' => Awaited(s)
<1>1. /\ r \in DOMAIN requests /\ DOMAIN requests' = DOMAIN requests /\ Follows(next, requests[r])
      /\ requests'[r] = next /\ \A s \in DOMAIN requests \ {r} : requests'[s] = requests[s]
      /\ UNCHANGED ledger
  BY DEF Becomes
<1>2. \A s \in DOMAIN requests :
          /\ requests'[s].since = requests[s].since
          /\ requests'[s].call.waiting \subseteq requests[s].call.waiting
          /\ Awaited(s)' => Awaited(s)
  <2> SUFFICES ASSUME NEW s \in DOMAIN requests
               PROVE  /\ requests'[s].since = requests[s].since
                      /\ requests'[s].call.waiting \subseteq requests[s].call.waiting
                      /\ Awaited(s)' => Awaited(s)
    OBVIOUS
  <2>1. CASE s = r
    <3>1. /\ next.since = requests[r].since /\ next.call.waiting \subseteq requests[r].call.waiting
          /\ next.call.waiting # {} /\ Heard(next.call) => Heard(requests[r].call)
      BY <1>1 DEF Follows
    <3> QED BY <1>1, <2>1, <3>1 DEF Awaited
  <2>2. CASE s # r
    BY <1>1, <2>2 DEF Awaited
  <2> QED BY <2>1, <2>2
<1>3. SinceGrows'
  BY <1>1, <1>2 DEF IInv, SinceGrows
<1>4. ASSUME NEW answers, DOMAIN answers = DOMAIN requests, NEW queue, Filled(queue, answers),
             SpotsFit(queue, requests)
      PROVE  SpotsFit(queue, requests')
  <2> SUFFICES ASSUME NEW e \in Elems(queue), e.strategy = "query"
               PROVE  TRUE \notin requests'[e.mutationKey].call.waiting
    BY DEF SpotsFit
  <2>1. e.mutationKey \in DOMAIN requests
    BY <1>4, KeysAreRequests
  <2> QED BY <1>2, <1>4, <2>1 DEF SpotsFit
<1>5. /\ DOMAIN Given = DOMAIN requests /\ DOMAIN DetailAnswers = DOMAIN requests
      /\ Filled(balances.mutationQueue, Given) /\ Filled(details.mutationQueue, DetailAnswers)
      /\ SpotsFit(balances.mutationQueue, requests) /\ SpotsFit(details.mutationQueue, requests)
  BY GivenTypes DEF IInv, BalancesFit, DetailsFit, Represents, SpotsKept
<1> QED BY <1>2, <1>3, <1>4, <1>5

\* What the requests were answered changes with one answer only.
LEMMA SameAnswers ==
    ASSUME NEW r, NEW next, Becomes(r, next), next.answer = requests[r].answer
    PROVE  Given' = Given /\ DetailAnswers' = DetailAnswers
<1>1. /\ DOMAIN requests' = DOMAIN requests
      /\ \A s \in DOMAIN requests : requests'[s].answer = requests[s].answer /\ requests'[s].kind = requests[s].kind
  BY DEF Becomes, Follows
<1>2. Given' = Given
  BY <1>1 DEF Given
<1>3. DetailAnswers' = DetailAnswers
  BY <1>1 DEF DetailAnswers, DetailsIn
<1> QED BY <1>2, <1>3

\* The transactions of the ledger and the accounts of the backend change.
LEMMA QuietKeeps ==
    ASSUME IInv, Types', LedgerBound', \A a \in Accounts : ledger[a] <= ledger'[a],
           UNCHANGED <<requests, polling, balances, details>>
    PROVE  IInv'
<1>1. SinceGrows'
  <2> SUFFICES ASSUME NEW r \in DOMAIN requests, NEW a \in Accounts
               PROVE  requests[r].since[a] <= ledger'[a]
    BY DEF IInv, SinceGrows
  <2>1. requests[r].since[a] \in Int /\ ledger[a] \in Int /\ ledger'[a] \in Int
    <3>1. requests[r].since \in [Accounts -> Counts]
      BY Positions, RequestFields DEF IInv
    <3> QED BY <3>1 DEF IInv, Types, Counts
  <2>2. requests[r].since[a] <= ledger[a]
    BY DEF IInv, SinceGrows
  <2> QED BY <2>1, <2>2
<1>2. AnswersFit' /\ CallsFit' /\ PollsFit' /\ SpotsKept'
  <2>1. AnswersFit' /\ CallsFit' /\ PollsFit'
    BY DEF IInv, AnswersFit, CallsFit, PollsFit
  <2>2. SpotsKept'
    BY DEF IInv, SpotsKept, SpotsFit, Awaited
  <2> QED BY <2>1, <2>2
<1>3. Given' = Given /\ DetailAnswers' = DetailAnswers
  BY DEF Given, DetailAnswers, DetailsIn
<1>4. BalancesFit'
  <2>1. PICK g : g = Given' /\ Represents(balances, NoBalances, g)
    BY <1>3 DEF IInv, BalancesFit
  <2> QED BY <2>1 DEF BalancesFit, NoBalances, NoBalance
<1>5. DetailsFit'
  <2>1. PICK g : g = DetailAnswers' /\ Represents(details, NoDetails, g)
    BY <1>3 DEF IInv, DetailsFit
  <2> QED BY <2>1 DEF DetailsFit, NoDetails
<1> QED BY <1>1, <1>2, <1>4, <1>5 DEF IInv

\* The callbacks do not hear of an answer or of a failure.
LEMMA IgnoredKeeps ==
    ASSUME IInv, NEW r \in DOMAIN requests, requests[r].kind # "poll",
           NEW certified \in requests[r].call.waiting, Ignore(r, certified),
           known' = known, sent' = sent, forced' = forced, transfers' = transfers,
           failures' \in 0 .. MaxFailures, UNCHANGED <<ledger, polling>>
    PROVE  IInv' /\ Given' = Given /\ UNCHANGED balances
<1>1. PICK next : next = Served(requests[r], certified)
  OBVIOUS
<1>2. requests[r] \in RequestRecords
  BY Positions DEF IInv
<1>3. /\ Follows(next, requests[r]) /\ next.answer = requests[r].answer
      /\ next.call.waiting = requests[r].call.waiting \ {certified}
      /\ certified => next.call.waiting = {} \/ ~Heard(next.call)
  BY <1>1, <1>2, ServedFields
<1>4. Becomes(r, next)
  <2>1. requests' = [requests EXCEPT ![r] = next]
    BY <1>1 DEF Ignore
  <2> QED BY <1>3, <2>1, Replaced DEF IInv
<1>5. /\ DOMAIN requests' = DOMAIN requests /\ requests' \in Seq(RequestRecords)
      /\ requests'[r] = next /\ \A s \in DOMAIN requests \ {r} : requests'[s] = requests[s]
      /\ next.kind = requests[r].kind /\ next.since = requests[r].since
  BY <1>4 DEF Becomes, Follows
<1>6. UNCHANGED <<balances, details, ledger, polling>>
  BY DEF Ignore
<1>7. Given' = Given /\ DetailAnswers' = DetailAnswers
  BY <1>3, <1>4, SameAnswers
<1>8. /\ SinceGrows'
      /\ SpotsFit(balances.mutationQueue, requests') /\ SpotsFit(details.mutationQueue, requests')
      /\ \A s \in DOMAIN requests : Awaited(s)' => Awaited(s)
  BY <1>4, BecomesKeeps
<1>9. AnswersFit'
  <2>1. \A s \in DOMAIN requests : /\ requests'[s].answer = requests[s].answer
                                   /\ requests'[s].kind = requests[s].kind
                                   /\ requests'[s].since = requests[s].since
    BY <1>3, <1>5
  <2> QED BY <1>5, <2>1 DEF IInv, AnswersFit
<1>10. CallsFit'
  <2> SUFFICES ASSUME NEW s \in DOMAIN requests, NEW x \in requests'[s].answer
               PROVE  IF x.certified THEN requests'[s].call.waiting = {} \/ ~Heard(requests'[s].call)
                      ELSE FALSE \notin requests'[s].call.waiting
    BY <1>5 DEF CallsFit
  <2>1. CASE s # r
    BY <1>5, <2>1 DEF IInv, CallsFit
  <2>2. CASE s = r
    <3>1. x \in requests[r].answer /\ requests'[r].call = next.call
      BY <1>3, <1>5, <2>2
    <3>2. IF x.certified THEN requests[r].call.waiting = {} \/ ~Heard(requests[r].call)
          ELSE FALSE \notin requests[r].call.waiting
      BY <3>1 DEF IInv, CallsFit
    <3> QED BY <1>3, <2>2, <3>1, <3>2 DEF Follows
  <2> QED BY <2>1, <2>2
<1>11. PollsFit'
  <2>1. polling # 0 => polling # r
    BY DEF IInv, PollsFit
  <2>2. polling # 0 => polling \in DOMAIN requests
    BY DEF IInv, Types
  <2> QED BY <1>5, <1>6, <2>1, <2>2 DEF IInv, PollsFit
<1>12. SpotsKept'
  <2> SUFFICES ASSUME NEW s \in DOMAIN requests, Awaited(s)'
               PROVE  /\ s \in Keys(balances.mutationQueue)
                      /\ requests'[s].kind # "load" => s \in Keys(details.mutationQueue)
    BY <1>5, <1>6, <1>8 DEF SpotsKept
  <2>1. requests'[s].kind = requests[s].kind /\ Awaited(s)
    BY <1>5, <1>8
  <2> QED BY <2>1 DEF IInv, SpotsKept
<1>13. BalancesFit'
  <2>1. PICK g : g = Given' /\ Represents(balances, NoBalances, g)
    BY <1>7 DEF IInv, BalancesFit
  <2> QED BY <1>6, <2>1 DEF BalancesFit, NoBalances, NoBalance
<1>14. DetailsFit'
  <2>1. PICK g : g = DetailAnswers' /\ Represents(details, NoDetails, g)
    BY <1>7 DEF IInv, DetailsFit
  <2> QED BY <1>6, <2>1 DEF DetailsFit, NoDetails
<1>15. Types' /\ LedgerBound'
  BY <1>5, <1>6 DEF IInv, Types, LedgerBound, Counts
<1> QED BY <1>6, <1>7, <1>8, <1>9, <1>10, <1>11, <1>12, <1>13, <1>14, <1>15 DEF IInv

\* A poll is given up.
LEMMA PollEnds ==
    ASSUME IInv, NEW r \in DOMAIN requests, polling = r,
           requests' = [requests EXCEPT ![r].call = Done, ![r].had = {}],
           balances' = Cancel(balances, r), polling' = 0,
           known' = known, sent' = sent, forced' = forced, transfers' = transfers,
           failures' \in 0 .. MaxFailures, UNCHANGED <<ledger, details>>
    PROVE  IInv' /\ Given' = Given /\ UNCHANGED balances.exposed
<1>1. PICK next : next = [requests[r] EXCEPT !.call = Done, !.had = {}]
  OBVIOUS
<1>2. /\ requests[r] \in RequestRecords /\ requests \in Seq(RequestRecords) /\ r # 0
      /\ requests[r].kind = "poll" /\ requests[r].answer = {} /\ requests[r].call.waiting # {}
      /\ Heard(requests[r].call)
  BY Positions DEF IInv, Types, PollsFit
<1>3. /\ Follows(next, requests[r]) /\ next.answer = requests[r].answer
      /\ next.call.waiting = {} /\ Heard(next.call)
  BY <1>1, <1>2, GivenUp
<1>4. Becomes(r, next)
  <2>1. requests' = [requests EXCEPT ![r] = next]
    BY <1>1, <1>2
  <2> QED BY <1>3, <2>1, Replaced DEF IInv
<1>5. /\ DOMAIN requests' = DOMAIN requests /\ requests' \in Seq(RequestRecords)
      /\ requests'[r] = next /\ \A s \in DOMAIN requests \ {r} : requests'[s] = requests[s]
      /\ next.kind = requests[r].kind /\ next.since = requests[r].since
  BY <1>4 DEF Becomes, Follows
<1>6. Given' = Given /\ DetailAnswers' = DetailAnswers
  BY <1>3, <1>4, SameAnswers
<1>7. /\ SinceGrows'
      /\ SpotsFit(balances.mutationQueue, requests') /\ SpotsFit(details.mutationQueue, requests')
      /\ \A s \in DOMAIN requests : Awaited(s)' => Awaited(s)
  BY <1>4, BecomesKeeps
<1>8. AnswersFit'
  <2>1. \A s \in DOMAIN requests : /\ requests'[s].answer = requests[s].answer
                                   /\ requests'[s].kind = requests[s].kind
                                   /\ requests'[s].since = requests[s].since
    BY <1>3, <1>5
  <2> QED BY <1>5, <2>1 DEF IInv, AnswersFit
<1>9. CallsFit'
  <2> SUFFICES ASSUME NEW s \in DOMAIN requests, NEW x \in requests'[s].answer
               PROVE  IF x.certified THEN requests'[s].call.waiting = {} \/ ~Heard(requests'[s].call)
                      ELSE FALSE \notin requests'[s].call.waiting
    BY <1>5 DEF CallsFit
  <2>1. s # r
    BY <1>2, <1>3, <1>5
  <2> QED BY <1>5, <2>1 DEF IInv, CallsFit
<1>10. PollsFit'
  <2> SUFFICES ASSUME NEW s \in DOMAIN requests, requests'[s].kind = "poll"
               PROVE  /\ Heard(requests'[s].call) /\ requests'[s].call.waiting # BOOLEAN
                      /\ requests'[s].call.waiting = {}
    BY <1>5 DEF PollsFit
  <2>1. CASE s = r
    BY <1>3, <1>5, <2>1
  <2>2. CASE s # r
    BY <1>5, <2>2 DEF IInv, PollsFit
  <2> QED BY <2>1, <2>2
<1>11. PICK b : b = balances' /\ SpotGivenBack(Accounts, Balances, NoBalances, balances, Given, r, b)
  <2>1. r \in Keys(balances.mutationQueue)
    BY <1>2 DEF IInv, SpotsKept, Awaited
  <2>2. Given[r] = {}
    BY <1>2 DEF Given
  <2>3. Represents(balances, NoBalances, Given) /\ balances \in Stores(Accounts, Balances)
    BY DEF IInv, BalancesFit, Types
  <2>4. PICK b : b = balances'
    OBVIOUS
  <2>5. SpotGivenBack(Accounts, Balances, NoBalances, balances, Given, r, b)
    BY <2>1, <2>2, <2>3, <2>4, CancelKeeps
  <2> QED BY <2>4, <2>5
<1>12. /\ balances' \in Stores(Accounts, Balances) /\ UNCHANGED balances.exposed
       /\ Represents(b, NoBalances, Given)
       /\ Keys(balances'.mutationQueue) = Keys(balances.mutationQueue) \ {r}
       /\ Elems(balances'.mutationQueue) \subseteq Elems(balances.mutationQueue)
  BY <1>11 DEF SpotGivenBack
<1>13. SpotsKept'
  <2>1. SpotsFit(balances'.mutationQueue, requests') /\ SpotsFit(details'.mutationQueue, requests')
    BY <1>7, <1>12 DEF SpotsFit
  <2> SUFFICES ASSUME NEW s \in DOMAIN requests, Awaited(s)'
               PROVE  /\ s \in Keys(balances'.mutationQueue)
                      /\ requests'[s].kind # "load" => s \in Keys(details'.mutationQueue)
    BY <1>5, <2>1 DEF SpotsKept
  <2>2. s # r /\ requests'[s].kind = requests[s].kind /\ Awaited(s)
    <3>1. s # r
      BY <1>3, <1>5 DEF Awaited
    <3> QED BY <1>5, <1>7, <3>1
  <2> QED BY <1>12, <2>2 DEF IInv, SpotsKept
<1>14. BalancesFit'
  <2>1. PICK g : g = Given' /\ Represents(b, NoBalances, g)
    BY <1>6, <1>12
  <2> QED BY <1>11, <2>1 DEF BalancesFit, NoBalances, NoBalance
<1>15. DetailsFit'
  <2>1. PICK g : g = DetailAnswers' /\ Represents(details, NoDetails, g)
    BY <1>6 DEF IInv, DetailsFit
  <2> QED BY <2>1 DEF DetailsFit, NoDetails
<1>16. Types' /\ LedgerBound'
  BY <1>5, <1>12 DEF IInv, Types, LedgerBound, Counts
<1> QED BY <1>6, <1>7, <1>8, <1>9, <1>10, <1>12, <1>13, <1>14, <1>15, <1>16 DEF IInv

-----------------------------------------------------------------------------
(***************************************************************************)
(* An answer is applied to the stores.                                     *)
(***************************************************************************)
AnswerOf(certified, items) == [certified |-> certified, items |-> items]

\* What the request r may be answered
MayAnswer(r, certified, mutation) ==
    /\ mutation \in Parts(Accounts, Balances)
    /\ requests[r].kind # "load" => DOMAIN mutation = Accounts
    /\ requests[r].kind = "load" => \A a \in DOMAIN mutation : mutation[a].present
    /\ certified => \A a \in DOMAIN mutation :
          mutation[a].present => requests[r].since[a] <= mutation[a].count

\* Both stores get the answer; the details do not get that of a balance.
BothShow(r, certified, mutation) ==
    IF requests[r].kind = "load" THEN details' = details
    ELSE details' = AddMutation(details, r, certified, DetailsIn(AnswerOf(certified, mutation)))

\* The answer x makes `next` of the request r.
Replies(r, certified, x, next) ==
    /\ Becomes(r, next) /\ next.answer = {x} /\ x.certified = certified
    /\ x \in [certified : BOOLEAN, items : Parts(Accounts, Balances)]
    /\ MayAnswer(r, certified, x.items)
    /\ certified \in requests[r].call.waiting /\ Heard(requests[r].call)
    /\ next.call.waiting = requests[r].call.waiting \ {certified}
    /\ certified => next.call.waiting = {} \/ ~Heard(next.call)
    /\ next.call.waiting = {} => Heard(next.call)

\* Applying an answer to both stores keeps the invariant and adds exactly this answer to the
\* histories.
LEMMA ApplyReplies ==
    ASSUME IInv, NEW r \in DOMAIN requests, NEW certified \in requests[r].call.waiting,
           Heard(requests[r].call), NEW mutation, MayAnswer(r, certified, mutation),
           Apply(r, certified, mutation), UNCHANGED ledger
    PROVE  \E next : Replies(r, certified, AnswerOf(certified, mutation), next)
<1>1. PICK s : s = Served(requests[r], certified)
  OBVIOUS
<1>2. PICK x : x = AnswerOf(certified, mutation)
  OBVIOUS
<1>3. PICK next : next = [s EXCEPT !.answer = {x}]
  OBVIOUS
<1>4. requests[r] \in RequestRecords /\ certified \in BOOLEAN /\ requests \in Seq(RequestRecords)
  BY Positions, RequestFields DEF IInv, Types
<1>5. /\ Follows(s, requests[r]) /\ s.call.waiting = requests[r].call.waiting \ {certified}
      /\ certified => s.call.waiting = {} \/ ~Heard(s.call)
      /\ s.call.waiting = {} => Heard(s.call)
  BY <1>1, <1>4, ServedFields
<1>6. /\ x.certified = certified /\ x.items = mutation
      /\ x \in [certified : BOOLEAN, items : Parts(Accounts, Balances)]
      /\ {x} \in AnswerSets(Accounts, Balances)
  <2>1. x.certified = certified /\ x.items = mutation
        /\ x \in [certified : BOOLEAN, items : Parts(Accounts, Balances)]
    BY <1>2, <1>4 DEF AnswerOf, MayAnswer
  <2> QED BY <2>1 DEF AnswerSets
<1>7. /\ next \in RequestRecords /\ next.answer = {x} /\ next.kind = s.kind /\ next.since = s.since
      /\ next.call = s.call
  <2>1. s \in RequestRecords
    BY <1>5 DEF Follows
  <2> QED BY <1>3, <1>6, <2>1 DEF RequestRecords
<1>8. Follows(next, requests[r])
  BY <1>5, <1>7 DEF Follows
<1>9. requests' = [requests EXCEPT ![r] = next]
  <2>1. requests' = [requests EXCEPT ![r] = [Served(requests[r], certified) EXCEPT !.answer = {x}]]
    BY <1>2, <1>4 DEF Apply, AnswerOf
  <2> QED BY <1>1, <1>3, <2>1
<1>10. Becomes(r, next)
  BY <1>8, <1>9, Replaced DEF IInv
<1>11. Replies(r, certified, x, next)
  BY <1>5, <1>6, <1>7, <1>10 DEF Replies
<1> QED BY <1>2, <1>11

\* The answers of the other requests stay.
LEMMA AnswersCome ==
    ASSUME IInv, NEW r \in DOMAIN requests, NEW certified, NEW x, NEW next, Replies(r, certified, x, next)
    PROVE  /\ certified \in BOOLEAN /\ x.items \in Parts(Accounts, Balances)
           /\ Comes(Given, Given', r, certified, x.items)
           /\ requests[r].kind = "load" => DetailAnswers' = DetailAnswers
           /\ requests[r].kind # "load" => Comes(DetailAnswers, DetailAnswers', r, certified, DetailsIn(x))
<1>1. /\ r \in DOMAIN requests /\ DOMAIN requests' = DOMAIN requests
      /\ requests'[r] = next /\ \A s \in DOMAIN requests \ {r} : requests'[s] = requests[s]
      /\ next.kind = requests[r].kind /\ next.answer = {x} /\ x.certified = certified
      /\ x \in [certified : BOOLEAN, items : Parts(Accounts, Balances)]
  BY DEF Replies, Becomes, Follows
<1>2. certified \in BOOLEAN /\ x.items \in Parts(Accounts, Balances)
      /\ x = [certified |-> certified, items |-> x.items]
  BY <1>1
<1>3. \A y \in requests[r].answer : certified /\ ~y.certified
  <2> SUFFICES ASSUME NEW y \in requests[r].answer PROVE certified /\ ~y.certified
    OBVIOUS
  <2>1. certified \in requests[r].call.waiting /\ Heard(requests[r].call)
    BY DEF Replies
  <2>2. IF y.certified THEN requests[r].call.waiting = {} \/ ~Heard(requests[r].call)
        ELSE FALSE \notin requests[r].call.waiting
    BY DEF IInv, CallsFit
  <2>3. ~y.certified /\ FALSE \notin requests[r].call.waiting
    BY <2>1, <2>2
  <2>4. CASE certified = FALSE
    BY <2>1, <2>3, <2>4
  <2>5. CASE certified = TRUE
    BY <2>3, <2>5
  <2> QED BY <1>2, <2>4, <2>5
<1>4. Comes(Given, Given', r, certified, x.items)
  <2>1. /\ DOMAIN Given' = DOMAIN Given /\ DOMAIN Given = DOMAIN requests
        /\ \A s \in DOMAIN requests : s # r => Given'[s] = Given[s]
        /\ Given'[r] = {x} /\ Given[r] = requests[r].answer
    BY <1>1 DEF Given
  <2> HIDE DEF Given
  <2> QED BY <1>2, <1>3, <2>1 DEF Comes
<1>5. CASE requests[r].kind = "load"
  <2>1. \A s \in DOMAIN requests : DetailAnswers'[s] = DetailAnswers[s]
    BY <1>1, <1>5 DEF DetailAnswers, DetailsIn
  <2>2. DetailAnswers' = DetailAnswers
    BY <1>1, <1>5 DEF DetailAnswers, DetailsIn
  <2> QED BY <1>2, <1>4, <1>5, <2>2
<1>6. CASE requests[r].kind # "load"
  <2>1. /\ DOMAIN DetailAnswers' = DOMAIN DetailAnswers /\ DOMAIN DetailAnswers = DOMAIN requests
        /\ \A s \in DOMAIN requests : s # r => DetailAnswers'[s] = DetailAnswers[s]
    BY <1>1 DEF DetailAnswers, DetailsIn
  <2>2. DetailAnswers'[r] = {[certified |-> y.certified, items |-> DetailsIn(y)] : y \in {x}}
    BY <1>1, <1>6 DEF DetailAnswers, DetailsIn
  <2>3. DetailAnswers'[r] = {[certified |-> certified, items |-> DetailsIn(x)]}
    BY <1>1, <2>2
  <2>4. DetailAnswers[r] = {[certified |-> y.certified, items |-> DetailsIn(y)] : y \in requests[r].answer}
    BY <1>6 DEF DetailAnswers
  <2>5. \A d \in DetailAnswers[r] : certified /\ ~d.certified
    BY <1>3, <2>4
  <2>6. Comes(DetailAnswers, DetailAnswers', r, certified, DetailsIn(x))
    BY <2>1, <2>3, <2>5 DEF Comes
  <2> QED BY <1>2, <1>4, <1>6, <2>6
<1> QED BY <1>5, <1>6

\* A spot that can still be heard of stays in the queue.
LEMMA SpotsStay ==
    ASSUME CallsFit', requests' \in Seq(RequestRecords),
           NEW Values, NEW initial, NEW store, NEW answers, NEW given, NEW result,
           AnswerShown(Accounts, Values, initial, store, given, result),
           Filled(store.mutationQueue, answers), DOMAIN answers = DOMAIN requests',
           DOMAIN given = DOMAIN requests',
           \A s \in DOMAIN given : \A y \in given[s] : \E z \in requests'[s].answer : z.certified = y.certified,
           SpotsFit(store.mutationQueue, requests')
    PROVE  /\ SpotsFit(result.mutationQueue, requests')
           /\ \A s \in Keys(store.mutationQueue) : Awaited(s)' => s \in Keys(result.mutationQueue)
<1>1. SpotsFit(result.mutationQueue, requests')
  <2> SUFFICES ASSUME NEW e \in Elems(result.mutationQueue), e.strategy = "query"
               PROVE  TRUE \notin requests'[e.mutationKey].call.waiting
    BY DEF SpotsFit
  <2>1. PICK d \in Elems(store.mutationQueue) : e.mutationKey = d.mutationKey /\ e.strategy = d.strategy
    BY DEF AnswerShown
  <2> QED BY <2>1 DEF SpotsFit
<1>2. ASSUME NEW s \in Keys(store.mutationQueue), Awaited(s)' PROVE s \in Keys(result.mutationQueue)
  <2>1. PICK d \in Elems(store.mutationQueue) : s = d.mutationKey
    BY DEF Keys, Elems
  <2>2. s \in DOMAIN given
    BY <2>1, KeysAreRequests
  <2>3. /\ requests'[s].call.waiting # {} /\ Heard(requests'[s].call)
        /\ requests'[s].call.waiting \in SUBSET BOOLEAN
    <3>1. requests'[s] \in RequestRecords
      BY <2>2
    <3> QED BY <1>2, <3>1, RequestFields DEF Awaited
  <2>4. ASSUME NEW y \in given[s]
        PROVE  ~y.certified /\ FALSE \notin requests'[s].call.waiting
    <3>1. PICK z \in requests'[s].answer : z.certified = y.certified
      BY <2>2
    <3>2. IF z.certified THEN requests'[s].call.waiting = {} \/ ~Heard(requests'[s].call)
          ELSE FALSE \notin requests'[s].call.waiting
      BY <2>2, <3>1 DEF CallsFit
    <3> QED BY <2>3, <3>1, <3>2
  <2>5. CASE d.strategy = "query" /\ given[s] # {}
    <3>1. FALSE \notin requests'[s].call.waiting
      BY <2>4, <2>5
    <3>2. TRUE \notin requests'[s].call.waiting
      BY <2>1, <2>5 DEF SpotsFit
    <3> QED BY <2>3, <3>1, <3>2, <2>5
  <2> QED BY <2>1, <2>4, <2>5 DEF AnswerShown
<1> QED BY <1>1, <1>2

\* An answer is heard, and both stores show it.
LEMMA AppliedKeeps ==
    ASSUME IInv, NEW r \in DOMAIN requests, NEW certified \in requests[r].call.waiting,
           Heard(requests[r].call), NEW mutation, MayAnswer(r, certified, mutation),
           Apply(r, certified, mutation), BothShow(r, certified, mutation),
           polling' = IF polling = r THEN 0 ELSE polling,
           known' = known, sent' = sent, forced' = forced, transfers' = transfers,
           failures' \in 0 .. MaxFailures, UNCHANGED ledger
    PROVE  IInv' /\ Comes(Given, Given', r, certified, mutation)
<1>1. PICK x : x = AnswerOf(certified, mutation)
  OBVIOUS
<1>2. PICK next : Replies(r, certified, x, next)
  BY <1>1, ApplyReplies
<1>3. x.items = mutation
  BY <1>1 DEF AnswerOf
<1>4. /\ DOMAIN requests' = DOMAIN requests /\ requests' \in Seq(RequestRecords)
      /\ requests'[r] = next /\ \A s \in DOMAIN requests \ {r} : requests'[s] = requests[s]
      /\ next.kind = requests[r].kind /\ next.since = requests[r].since
      /\ next.answer = {x} /\ x.certified = certified /\ Becomes(r, next)
      /\ next.call.waiting = requests[r].call.waiting \ {certified}
      /\ certified => next.call.waiting = {} \/ ~Heard(next.call)
      /\ next.call.waiting = {} => Heard(next.call)
  BY <1>2 DEF Replies, Becomes, Follows
<1>5. /\ certified \in BOOLEAN /\ mutation \in Parts(Accounts, Balances)
      /\ Comes(Given, Given', r, certified, mutation)
      /\ requests[r].kind = "load" => DetailAnswers' = DetailAnswers
      /\ requests[r].kind # "load" => Comes(DetailAnswers, DetailAnswers', r, certified, DetailsIn(x))
  BY <1>2, <1>3, AnswersCome
<1>6. /\ SinceGrows'
      /\ SpotsFit(balances.mutationQueue, requests') /\ SpotsFit(details.mutationQueue, requests')
      /\ \A s \in DOMAIN requests : Awaited(s)' => Awaited(s)
  BY <1>4, BecomesKeeps
<1>7. AnswersFit'
  <2> SUFFICES ASSUME NEW s \in DOMAIN requests, NEW y \in requests'[s].answer
               PROVE  /\ requests'[s].kind # "load" => DOMAIN y.items = Accounts
                      /\ requests'[s].kind = "load" => \A a \in DOMAIN y.items : y.items[a].present
                      /\ y.certified => \A a \in DOMAIN y.items :
                            y.items[a].present => requests'[s].since[a] <= y.items[a].count
    BY <1>4 DEF AnswersFit
  <2>1. CASE s # r
    BY <1>4, <2>1 DEF IInv, AnswersFit
  <2>2. CASE s = r
    BY <1>3, <1>4, <2>2 DEF MayAnswer
  <2> QED BY <2>1, <2>2
<1>8. CallsFit'
  <2> SUFFICES ASSUME NEW s \in DOMAIN requests, NEW y \in requests'[s].answer
               PROVE  IF y.certified THEN requests'[s].call.waiting = {} \/ ~Heard(requests'[s].call)
                      ELSE FALSE \notin requests'[s].call.waiting
    BY <1>4 DEF CallsFit
  <2>1. CASE s # r
    BY <1>4, <2>1 DEF IInv, CallsFit
  <2>2. CASE s = r /\ certified = TRUE
    BY <1>4, <2>2
  <2>3. CASE s = r /\ certified = FALSE
    BY <1>4, <2>3
  <2> QED BY <1>5, <2>1, <2>2, <2>3
<1>9. PollsFit'
  <2>1. CASE requests[r].kind = "poll"
    <3>1. requests[r].call.waiting # BOOLEAN /\ polling = r /\ requests[r].call.waiting \in SUBSET BOOLEAN
      BY <2>1, Positions, RequestFields DEF IInv, PollsFit
    <3>2. next.call.waiting = {} /\ Heard(next.call)
      <4>1. CASE certified = TRUE
        BY <1>4, <3>1, <4>1
      <4>2. CASE certified = FALSE
        BY <1>4, <3>1, <4>2
      <4> QED BY <1>4, <1>5, <4>1, <4>2
    <3>3. polling' = 0
      BY <3>1
    <3> SUFFICES ASSUME NEW s \in DOMAIN requests, requests'[s].kind = "poll"
                 PROVE  /\ Heard(requests'[s].call) /\ requests'[s].call.waiting # BOOLEAN
                        /\ requests'[s].call.waiting = {}
      BY <1>4, <3>3 DEF PollsFit
    <3>4. CASE s = r
      BY <1>4, <3>2, <3>4
    <3>5. CASE s # r
      BY <1>4, <3>1, <3>5 DEF IInv, PollsFit
    <3> QED BY <3>4, <3>5
  <2>2. CASE requests[r].kind # "poll"
    <3>1. polling # 0 => polling # r
      BY <2>2 DEF IInv, PollsFit
    <3>2. polling' = polling
      BY <3>1
    <3>3. polling # 0 => polling \in DOMAIN requests
      BY DEF IInv, Types
    <3> QED BY <1>4, <2>2, <3>1, <3>2, <3>3 DEF IInv, PollsFit
  <2> QED BY <2>1, <2>2
<1>10. /\ AllAnswers(Accounts, Balances, Given) /\ AllAnswers(Accounts, Shown, DetailAnswers)
       /\ DOMAIN Given = DOMAIN requests /\ DOMAIN DetailAnswers = DOMAIN requests
  BY GivenTypes, Positions DEF AllAnswers, IInv
<1>11. /\ balances \in Stores(Accounts, Balances) /\ details \in Stores(Accounts, Shown)
       /\ Represents(balances, NoBalances, Given) /\ Represents(details, NoDetails, DetailAnswers)
       /\ Filled(balances.mutationQueue, Given) /\ Filled(details.mutationQueue, DetailAnswers)
  BY DEF IInv, Types, BalancesFit, DetailsFit, Represents
<1>12. Awaited(r)
  BY DEF Awaited
<1>13. /\ balances' \in Stores(Accounts, Balances) /\ BalancesFit'
       /\ SpotsFit(balances'.mutationQueue, requests')
       /\ \A s \in Keys(balances.mutationQueue) : Awaited(s)' => s \in Keys(balances'.mutationQueue)
  <2>1. NoBalances \in [Accounts -> Balances]
    BY AccountsAssumption DEF NoBalances, NoBalance, Balances, Counts
  <2>2. r \in Keys(balances.mutationQueue)
    BY <1>12 DEF IInv, SpotsKept
  <2>3. PICK b : b = balances' /\ b = AddMutation(balances, r, certified, mutation)
    BY DEF Apply
  <2>4. PICK g : g = Given' /\ Comes(Given, g, r, certified, mutation)
    BY <1>5
  <2>5. AnswerShown(Accounts, Balances, NoBalances, balances, g, b)
    BY <1>5, <1>10, <1>11, <2>1, <2>2, <2>3, <2>4, AddMutationKeeps
  <2>6. /\ DOMAIN g = DOMAIN requests'
        /\ \A s \in DOMAIN g : \A y \in g[s] : \E z \in requests'[s].answer : z.certified = y.certified
    BY <2>4 DEF Given
  <2>7. /\ SpotsFit(b.mutationQueue, requests')
        /\ \A s \in Keys(balances.mutationQueue) : Awaited(s)' => s \in Keys(b.mutationQueue)
    BY <1>4, <1>6, <1>8, <1>10, <1>11, <2>5, <2>6, SpotsStay
  <2>8. b \in Stores(Accounts, Balances) /\ Represents(b, NoBalances, g)
    BY <2>5 DEF AnswerShown
  <2>9. BalancesFit'
    BY <2>3, <2>4, <2>8 DEF BalancesFit, NoBalances, NoBalance
  <2> QED BY <2>3, <2>7, <2>8, <2>9
<1>14. /\ details' \in Stores(Accounts, Shown) /\ DetailsFit'
       /\ SpotsFit(details'.mutationQueue, requests')
       /\ \A s \in Keys(details.mutationQueue) : Awaited(s)' => s \in Keys(details'.mutationQueue)
  <2>1. CASE requests[r].kind = "load"
    <3>1. details' = details
      BY <2>1 DEF BothShow
    <3>2. PICK g : g = DetailAnswers' /\ Represents(details, NoDetails, g)
      BY <1>5, <1>11, <2>1
    <3> QED BY <1>6, <1>11, <3>1, <3>2 DEF DetailsFit, NoDetails
  <2>2. CASE requests[r].kind # "load"
    <3>1. NoDetails \in [Accounts -> Shown]
      BY DEF NoDetails, Shown
    <3>2. r \in Keys(details.mutationQueue)
      BY <1>12, <2>2 DEF IInv, SpotsKept
    <3>3. PICK m : m = DetailsIn(x)
      OBVIOUS
    <3>4. PICK d : d = details' /\ d = AddMutation(details, r, certified, m)
      BY <1>1, <2>2, <3>3 DEF BothShow
    <3>5. PICK g : g = DetailAnswers' /\ Comes(DetailAnswers, g, r, certified, m)
      BY <1>5, <2>2, <3>3
    <3>6. m \in Parts(Accounts, Shown)
      <4>1. m \in [Accounts -> Shown]
        BY <3>3 DEF DetailsIn, Shown
      <4> QED BY <4>1 DEF Parts
    <3>7. AnswerShown(Accounts, Shown, NoDetails, details, g, d)
      BY <1>5, <1>10, <1>11, <3>1, <3>2, <3>4, <3>5, <3>6, AddMutationKeeps
    <3>8. /\ DOMAIN g = DOMAIN requests'
          /\ \A s \in DOMAIN g : \A y \in g[s] : \E z \in requests'[s].answer : z.certified = y.certified
      BY <3>5 DEF DetailAnswers
    <3>9. /\ SpotsFit(d.mutationQueue, requests')
          /\ \A s \in Keys(details.mutationQueue) : Awaited(s)' => s \in Keys(d.mutationQueue)
      BY <1>4, <1>6, <1>8, <1>10, <1>11, <3>7, <3>8, SpotsStay
    <3>10. d \in Stores(Accounts, Shown) /\ Represents(d, NoDetails, g)
      BY <3>7 DEF AnswerShown
    <3>11. DetailsFit'
      BY <3>4, <3>5, <3>10 DEF DetailsFit, NoDetails
    <3> QED BY <3>4, <3>9, <3>10, <3>11
  <2> QED BY <2>1, <2>2
<1>15. SpotsKept'
  <2> SUFFICES ASSUME NEW s \in DOMAIN requests, Awaited(s)'
               PROVE  /\ s \in Keys(balances'.mutationQueue)
                      /\ requests'[s].kind # "load" => s \in Keys(details'.mutationQueue)
    BY <1>4, <1>13, <1>14 DEF SpotsKept
  <2>1. requests'[s].kind = requests[s].kind /\ Awaited(s)
    BY <1>4, <1>6
  <2> QED BY <1>13, <1>14, <2>1 DEF IInv, SpotsKept
<1>16. Types' /\ LedgerBound'
  BY <1>4, <1>13, <1>14 DEF IInv, Types, LedgerBound, Counts
<1> QED BY <1>5, <1>6, <1>7, <1>8, <1>9, <1>13, <1>14, <1>15, <1>16 DEF IInv

-----------------------------------------------------------------------------
(***************************************************************************)
(* The actions that make requests.                                         *)
(***************************************************************************)
LEMMA MadeRequest ==
    ASSUME Types, NEW kind \in RequestKinds, NEW accounts \in SUBSET Accounts, NEW s \in Strategies,
           NEW request, request = Request(kind, accounts, s)
    PROVE  /\ request \in RequestRecords /\ request.answer = {} /\ request.since = ledger
           /\ request.kind = kind /\ request.call = Sent(s)
           /\ \A had \in SUBSET Accounts : [request EXCEPT !.had = had] \in RequestRecords
<1>1. Sent(s) \in Requests /\ {} \in AnswerSets(Accounts, Balances)
  BY SentFields DEF AnswerSets
<1>2. ledger \in [Accounts -> Counts] /\ known \in SUBSET Accounts
  BY DEF Types
<1> QED BY <1>1, <1>2 DEF Request, RequestRecords

\* The strategy that FORCE_CALL_STRATEGY sets is one of queryAndUpdate.
LEMMA ForcedStrategy == ForceCallStrategy \in Strategies
BY DEF ForceCallStrategy, Strategies

\* A request that is not a poll
Fresh(request) ==
    /\ request \in RequestRecords /\ request.answer = {} /\ request.since = ledger
    /\ request.kind # "poll" /\ \E s \in Strategies : request.call = Sent(s)

\* A request as it is made has no answer and waits for what its strategy sends.
LEMMA FreshRequest ==
    ASSUME Types, NEW kind \in RequestKinds \ {"poll"}, NEW accounts \in SUBSET Accounts,
           NEW request, request = Request(kind, accounts, ForceCallStrategy)
    PROVE  /\ Fresh(request) /\ request.kind = kind
           /\ \A had \in SUBSET Accounts : Fresh([request EXCEPT !.had = had])
<1>1. /\ request \in RequestRecords /\ request.answer = {} /\ request.since = ledger
      /\ request.kind = kind /\ request.call = Sent(ForceCallStrategy)
      /\ \A had \in SUBSET Accounts : [request EXCEPT !.had = had] \in RequestRecords
  BY MadeRequest, ForcedStrategy
<1>2. Fresh(request)
  BY <1>1, ForcedStrategy DEF Fresh
<1>3. ASSUME NEW had \in SUBSET Accounts PROVE Fresh([request EXCEPT !.had = had])
  <2> DEFINE other == [request EXCEPT !.had = had]
  <2>1. /\ other.answer = request.answer /\ other.since = request.since
        /\ other.kind = request.kind /\ other.call = request.call
    BY <1>1 DEF RequestRecords
  <2>2. other \in RequestRecords
    BY <1>1
  <2> HIDE DEF other
  <2>3. Fresh(other)
    BY <1>1, <2>1, <2>2, ForcedStrategy DEF Fresh
  <2> QED BY <2>3 DEF other
<1> QED BY <1>1, <1>2, <1>3

\* One new request keeps the invariant and adds one request without answers to the history.
LEMMA OneIssued ==
    ASSUME IInv, NEW request, Fresh(request), Issue(<<request>>), Around, UNCHANGED <<ledger, polling>>
    PROVE  IInv' /\ UNCHANGED balances.exposed /\ Extends(Given', Given, Len(requests), 1)
<1>1. PICK new : new = <<request>>
  OBVIOUS
<1>2. new \in Seq(RequestRecords) /\ DOMAIN new = {1} /\ new[1] = request /\ Len(new) = 1
  BY <1>1 DEF Fresh
<1>3. Issue(new)
  BY <1>1
<1>4. Made(new)
  BY <1>2, <1>3 DEF Made, Issue, Fresh
<1>5. Plain(new)
  BY <1>2 DEF Plain, Fresh
<1>6. Extends(Given', Given, Len(requests), 1)
  BY <1>2, <1>4, MadeKeeps
<1> QED BY <1>3, <1>4, <1>5, <1>6, IssueKeeps

\* What a sequence of one element is.
LEMMA Single ==
    ASSUME NEW S, NEW x \in S, NEW f, f = <<x>>
    PROVE  f \in Seq(S) /\ DOMAIN f = {1} /\ Len(f) = 1 /\ f[1] = x
OBVIOUS

\* Two new requests, one per account of a transfer, keep the invariant.
LEMMA TwoIssued ==
    ASSUME IInv, NEW one, NEW two, Fresh(one), Fresh(two), one.kind = "load", two.kind = "load",
           Issue(<<one>> \o <<two>>), Around, UNCHANGED <<ledger, polling>>
    PROVE  IInv' /\ UNCHANGED balances.exposed /\ Extends(Given', Given, Len(requests), 2)
<1>1. PICK new : new = <<one>> \o <<two>>
  OBVIOUS
<1>2. PICK f, g : /\ f = <<one>> /\ g = <<two>>
                  /\ f \in Seq(RequestRecords) /\ Len(f) = 1 /\ f[1] = one
                  /\ g \in Seq(RequestRecords) /\ Len(g) = 1 /\ g[1] = two
  <2>1. one \in RequestRecords /\ two \in RequestRecords
    BY DEF Fresh
  <2>2. PICK f : f = <<one>>
    OBVIOUS
  <2>3. PICK g : g = <<two>>
    OBVIOUS
  <2>4. f \in Seq(RequestRecords) /\ Len(f) = 1 /\ f[1] = one
    BY <2>1, <2>2, Single
  <2>5. g \in Seq(RequestRecords) /\ Len(g) = 1 /\ g[1] = two
    BY <2>1, <2>3, Single
  <2> QED BY <2>2, <2>3, <2>4, <2>5
<1>3. new \in Seq(RequestRecords) /\ DOMAIN new = {1, 2} /\ new[1] = one /\ new[2] = two /\ Len(new) = 2
  <2>1. new = f \o g
    BY <1>1, <1>2
  <2>2. new \in Seq(RequestRecords) /\ Len(new) = 2 /\ new[1] = f[1] /\ new[2] = g[1]
    BY <1>2, <2>1
  <2> QED BY <1>2, <2>2
<1>4. Issue(new)
  BY <1>1
<1>5. Made(new)
  BY <1>3, <1>4 DEF Made, Issue, Fresh
<1>6. Plain(new)
  BY <1>3 DEF Plain, Fresh
<1>7. Extends(Given', Given, Len(requests), 2)
  BY <1>3, <1>5, MadeKeeps
<1> QED BY <1>4, <1>5, <1>6, <1>7, IssueKeeps

\* What a step does to the answers and to what is shown
Asked == /\ \E k \in 1 .. 2 : Extends(Given', Given, Len(requests), k)
         /\ UNCHANGED balances.exposed

\* Loading the accounts when the application starts keeps the invariant and only asks.
LEMMA InitAccountsKeeps == IInv /\ InitAccounts => IInv' /\ Asked
<1> SUFFICES ASSUME IInv, InitAccounts PROVE IInv' /\ Asked
  OBVIOUS
<1>1. PICK request : request = Request("init", Accounts, ForceCallStrategy)
  OBVIOUS
<1>2. Fresh(request)
  BY <1>1, FreshRequest DEF IInv, RequestKinds
<1>3. Issue(<<request>>) /\ Around /\ UNCHANGED <<ledger, polling>>
  BY <1>1 DEF InitAccounts, Around, IInv, Types
<1> QED BY <1>2, <1>3, OneIssued DEF Asked

\* Adding a sub-account keeps the invariant and only asks.
LEMMA AddSubAccountKeeps ==
    ASSUME IInv, NEW a \in Accounts, AddSubAccount(a) PROVE IInv' /\ Asked
<1>1. known' \in SUBSET Accounts
  BY DEF AddSubAccount, IInv, Types
<1>2. PICK sync : sync = SyncRequest
  OBVIOUS
<1>3. PICK request : request = [sync EXCEPT !.had = known']
  OBVIOUS
<1>4. Fresh(request)
  BY <1>1, <1>2, <1>3, FreshRequest DEF IInv, RequestKinds, SyncRequest
<1>5. Issue(<<request>>)
  BY <1>2, <1>3 DEF AddSubAccount
<1>6. Around /\ UNCHANGED <<ledger, polling>>
  BY <1>1 DEF AddSubAccount, Around, IInv, Types
<1> QED BY <1>4, <1>5, <1>6, OneIssued DEF Asked

\* Renaming a sub-account keeps the invariant and only asks.
LEMMA RenameSubAccountKeeps ==
    ASSUME IInv, NEW a \in Accounts, RenameSubAccount(a) PROVE IInv' /\ Asked
<1>1. PICK request : request = SyncRequest
  OBVIOUS
<1>2. Fresh(request)
  BY <1>1, FreshRequest DEF IInv, RequestKinds, SyncRequest
<1>3. Issue(<<request>>) /\ Around /\ UNCHANGED <<ledger, polling>>
  BY <1>1 DEF RenameSubAccount, Around, IInv, Types
<1> QED BY <1>2, <1>3, OneIssued DEF Asked

\* Loading one balance keeps the invariant and only asks.
LEMMA LoadBalanceKeeps ==
    ASSUME IInv, NEW a \in Accounts, LoadBalance(a) PROVE IInv' /\ Asked
<1>1. PICK request : request = LoadRequest(a)
  OBVIOUS
<1>2. Fresh(request)
  BY <1>1, FreshRequest DEF IInv, RequestKinds, LoadRequest
<1>3. Issue(<<request>>) /\ Around /\ UNCHANGED <<ledger, polling>>
  BY <1>1 DEF LoadBalance, Around, IInv, Types
<1> QED BY <1>2, <1>3, OneIssued DEF Asked

\* The end of a transfer, which loads the balances of both accounts, keeps the invariant and only
\* asks.
LEMMA TransferDoneKeeps ==
    ASSUME IInv, NEW from \in Accounts, NEW to \in Accounts, TransferDone(from, to)
    PROVE  IInv' /\ Asked
<1>1. PICK one : one = LoadRequest(from)
  OBVIOUS
<1>2. PICK two : two = LoadRequest(to)
  OBVIOUS
<1>3. Fresh(one) /\ Fresh(two) /\ one.kind = "load" /\ two.kind = "load"
  BY <1>1, <1>2, FreshRequest DEF IInv, RequestKinds, LoadRequest
<1>4. Around /\ UNCHANGED <<ledger, polling>>
  BY DEF TransferDone, Around, IInv, Types
<1>5. CASE to \in AccountsList
  <2>1. Issue(<<one>> \o <<two>>)
    BY <1>1, <1>2, <1>5 DEF TransferDone
  <2> QED BY <1>3, <1>4, <2>1, TwoIssued DEF Asked
<1>6. CASE to \notin AccountsList
  <2>1. Issue(<<one>> \o <<>>)
    BY <1>1, <1>6 DEF TransferDone
  <2>2. <<one>> \o <<>> = <<one>>
    OBVIOUS
  <2>3. Issue(<<one>>)
    BY <2>1, <2>2
  <2> QED BY <1>3, <1>4, <2>3, OneIssued DEF Asked
<1> QED BY <1>5, <1>6

\* A store that keeps its spots when requests are made
LEMMA UnreservedFits ==
    ASSUME IInv, NEW new, Made(new), NEW initial, NEW store, NEW answers, NEW ext,
           Represents(store, initial, answers), Extends(ext, answers, Len(requests), Len(new)),
           SpotsFit(store.mutationQueue, requests)
    PROVE  Represents(store, initial, ext) /\ SpotsFit(store.mutationQueue, requests')
<1>1. /\ Len(requests) \in Nat /\ Len(new) \in Nat /\ DOMAIN requests = 1 .. Len(requests)
      /\ \A r \in DOMAIN requests : requests'[r] = requests[r]
  BY MadeKeeps, Positions DEF IInv
<1>2. Represents(store, initial, ext)
  BY <1>1, NotReservedKeeps
<1>3. SpotsFit(store.mutationQueue, requests')
  <2> SUFFICES ASSUME NEW e \in Elems(store.mutationQueue), e.strategy = "query"
               PROVE  TRUE \notin requests'[e.mutationKey].call.waiting
    BY DEF SpotsFit
  <2>1. Filled(store.mutationQueue, answers)
    BY DEF Represents
  <2>2. e.mutationKey \in DOMAIN requests
    BY <1>1, <2>1, KeysAreRequests DEF Extends
  <2> QED BY <1>1, <2>2 DEF SpotsFit
<1> QED BY <1>2, <1>3

\* One spot is reserved.
LEMMA OneSpot ==
    ASSUME NEW Items, NEW Values, NEW store \in Stores(Items, Values), NEW n \in Nat,
           NEW s \in Strategies
    PROVE  /\ GetSingleMutationStore(store, n + 1, s) = WithSpots(store, n, <<s>>)
           /\ Chosen(<<s>>, 1)
<1>1. PICK q : q = store.mutationQueue /\ q \in Seq(Entries(Items, Values))
  BY StoreFields
<1>2. PICK f : f = <<s>> /\ DOMAIN f = {1} /\ f[1] = s
  <2>1. PICK f : f = <<s>>
    OBVIOUS
  <2> QED BY <2>1, Single
<1>3. PICK e : e = MutationEntry(n + 1, s) /\ e \in Entries(Items, Values)
  BY NewEntry
<1>4. Spots(n, f) = <<e>>
  BY <1>2, <1>3 DEF Spots
<1>5. q \o <<e>> = Append(q, e)
  BY <1>1, <1>3
<1>6. GetSingleMutationStore(store, n + 1, s) = WithSpots(store, n, f)
  BY <1>1, <1>3, <1>4, <1>5 DEF GetSingleMutationStore, WithSpots
<1>7. Chosen(<<s>>, 1)
  BY DEF Chosen
<1> QED BY <1>2, <1>6, <1>7

\* One attempt of pollAccounts keeps the invariant and only asks.
LEMMA PollAccountsKeeps ==
    ASSUME IInv, NEW certified \in BOOLEAN, PollAccounts(certified)
    PROVE  IInv' /\ Asked
<1> DEFINE n == Len(requests)
<1>1. PICK s \in {"query", "update"} : s = IF certified /\ ~forced THEN "update" ELSE "query"
  OBVIOUS
<1>2. /\ s \in Strategies /\ n \in Nat /\ requests \in Seq(RequestRecords) /\ DOMAIN requests = 1 .. n
      /\ Sent(s) \in Requests /\ Heard(Sent(s)) /\ Sent(s).waiting # BOOLEAN /\ Sent(s).waiting # {}
      /\ s = "query" => TRUE \notin Sent(s).waiting
  <2>1. s \in Strategies /\ s # "query_and_update"
    BY DEF Strategies
  <2>2. Sent(s).waiting # {}
    BY <2>1 DEF Sent, CallsOf, Strategies
  <2> QED BY <2>1, <2>2, SentFields, Positions DEF IInv, Types
<1>3. PICK poll : /\ poll = Request("poll", Accounts, s)
                  /\ poll \in RequestRecords /\ poll.answer = {} /\ poll.since = ledger
                  /\ poll.kind = "poll" /\ poll.call = Sent(s)
  BY SMTT(60), <1>2, MadeRequest DEF IInv, RequestKinds
<1>4. /\ balances \in Stores(Accounts, Balances) /\ details \in Stores(Accounts, Shown)
      /\ Represents(balances, NoBalances, Given) /\ Represents(details, NoDetails, DetailAnswers)
      /\ SpotsFit(balances.mutationQueue, requests) /\ SpotsFit(details.mutationQueue, requests)
  BY DEF IInv, Types, BalancesFit, DetailsFit, SpotsKept
<1>5. UNCHANGED <<ledger, known, sent, forced, transfers, failures>>
  BY DEF PollAccounts
<1>6. details' = GetSingleMutationStore(details, n + 1, s)
  BY <1>1 DEF PollAccounts
<1>7. \/ /\ polling = 0 /\ polling' = n + 1 /\ requests' = Append(requests, poll)
         /\ balances' = GetSingleMutationStore(balances, n + 1, s)
      \/ /\ polling # 0 /\ polling' = polling /\ balances' = balances
         /\ requests' = Append(requests, [poll EXCEPT !.call = Done, !.had = {}])
  BY <1>1, <1>3 DEF PollAccounts
<1> HIDE DEF n
<1>8. PICK request : /\ request \in RequestRecords /\ request.answer = {} /\ request.since = ledger
                     /\ request.kind = "poll" /\ Heard(request.call) /\ request.call.waiting # BOOLEAN
                     /\ s = "query" => TRUE \notin request.call.waiting
                     /\ requests' = Append(requests, request)
                     /\ \/ /\ polling = 0 /\ polling' = n + 1 /\ request.call.waiting # {}
                           /\ balances' = GetSingleMutationStore(balances, n + 1, s)
                        \/ /\ polling # 0 /\ polling' = polling /\ request.call.waiting = {}
                           /\ balances' = balances
  <2>1. CASE polling = 0
    <3>1. /\ polling' = n + 1 /\ requests' = Append(requests, poll)
          /\ balances' = GetSingleMutationStore(balances, n + 1, s)
      BY <1>7, <2>1
    <3> QED BY <1>2, <1>3, <2>1, <3>1
  <2>2. CASE polling # 0
    <3>1. PICK other : other = [poll EXCEPT !.call = Done, !.had = {}]
      OBVIOUS
    <3>2. /\ other \in RequestRecords /\ other.answer = {} /\ other.since = ledger
          /\ other.kind = "poll" /\ Heard(other.call) /\ other.call.waiting = {}
      <4>1. /\ Follows(other, poll) /\ other.answer = poll.answer
            /\ other.call.waiting = {} /\ Heard(other.call)
        BY <1>3, <3>1, GivenUp
      <4> QED BY <1>3, <4>1 DEF Follows
    <3>3. requests' = Append(requests, other) /\ polling' = polling /\ balances' = balances
      BY <1>7, <2>2, <3>1
    <3> QED BY <2>2, <3>2, <3>3
  <2> QED BY <2>1, <2>2
<1>9. PICK new : /\ new = <<request>> /\ new \in Seq(RequestRecords) /\ DOMAIN new = {1}
                 /\ new[1] = request /\ Len(new) = 1
  <2>1. PICK new : new = <<request>>
    OBVIOUS
  <2> QED BY <1>8, <2>1, Single
<1>10. Made(new)
  <2>1. requests' = requests \o new
    BY <1>2, <1>8, <1>9
  <2> QED BY <1>5, <1>8, <1>9, <2>1 DEF Made
<1>11. /\ requests' \in Seq(RequestRecords)
       /\ \A r \in DOMAIN requests : r \in DOMAIN requests' /\ requests'[r] = requests[r]
       /\ n + 1 \in DOMAIN requests' /\ requests'[n + 1] = request
       /\ \A r \in DOMAIN requests' : r \in DOMAIN requests \/ r = n + 1
       /\ n + 1 \notin DOMAIN requests /\ n + 1 # 0
       /\ AnswersFit' /\ SinceGrows' /\ CallsFit'
  <2>1. /\ requests' \in Seq(RequestRecords)
        /\ \A r \in DOMAIN requests : r \in DOMAIN requests' /\ requests'[r] = requests[r]
        /\ \A i \in DOMAIN new : n + i \in DOMAIN requests' /\ requests'[n + i] = new[i]
        /\ \A r \in DOMAIN requests' : r \in DOMAIN requests \/ \E i \in DOMAIN new : r = n + i
        /\ AnswersFit' /\ SinceGrows' /\ CallsFit'
    BY <1>10, MadeKeeps DEF n
  <2>2. n + 1 \notin DOMAIN requests /\ n + 1 # 0
    BY <1>2
  <2> QED BY <1>9, <2>1, <2>2
<1>12. PICK g : g = Given' /\ Extends(g, Given, n, 1)
  BY <1>9, <1>10, MadeKeeps DEF n
<1>13. PICK d : d = DetailAnswers' /\ Extends(d, DetailAnswers, n, 1)
  BY <1>9, <1>10, MadeKeeps DEF n
<1>14. PICK f : f = <<s>> /\ Chosen(f, 1) /\ f[1] = s
  <2>1. PICK f : f = <<s>>
    OBVIOUS
  <2> QED BY <1>2, <2>1, Single DEF Chosen
<1>15. \A i \in DOMAIN new : f[i] = "query" => TRUE \notin new[i].call.waiting
  BY <1>8, <1>9, <1>14
<1>16. /\ details' \in Stores(Accounts, Shown) /\ DetailsFit'
       /\ SpotsFit(details'.mutationQueue, requests')
       /\ Keys(details.mutationQueue) \subseteq Keys(details'.mutationQueue)
       /\ n + 1 \in Keys(details'.mutationQueue)
  <2>1. PICK c : c = details' /\ c = WithSpots(details, n, f)
    BY <1>2, <1>4, <1>6, <1>14, OneSpot
  <2>2. SpotsFitAfter(Accounts, Shown, NoDetails, details, new, d, c)
    BY <1>4, <1>9, <1>10, <1>13, <1>14, <1>15, <2>1, ReservedFits DEF n
  <2>3. DetailsFit'
    BY <1>13, <2>1, <2>2 DEF DetailsFit, NoDetails, SpotsFitAfter
  <2> QED BY <1>9, <2>1, <2>2, <2>3 DEF SpotsFitAfter, n
<1>17. /\ balances' \in Stores(Accounts, Balances) /\ BalancesFit' /\ UNCHANGED balances.exposed
       /\ SpotsFit(balances'.mutationQueue, requests')
       /\ Keys(balances.mutationQueue) \subseteq Keys(balances'.mutationQueue)
       /\ request.call.waiting # {} => n + 1 \in Keys(balances'.mutationQueue)
  <2>1. CASE polling = 0
    <3>1. PICK c : c = balances' /\ c = WithSpots(balances, n, f)
      BY <1>2, <1>4, <1>8, <1>14, <2>1, OneSpot
    <3>2. SpotsFitAfter(Accounts, Balances, NoBalances, balances, new, g, c)
      BY <1>4, <1>9, <1>10, <1>12, <1>14, <1>15, <3>1, ReservedFits DEF n
    <3>3. BalancesFit'
      BY <1>12, <3>1, <3>2 DEF BalancesFit, NoBalances, NoBalance, SpotsFitAfter
    <3> QED BY <1>9, <3>1, <3>2, <3>3 DEF SpotsFitAfter, n
  <2>2. CASE polling # 0
    <3>1. balances' = balances /\ request.call.waiting = {}
      BY <1>8, <2>2
    <3>2. Represents(balances, NoBalances, g) /\ SpotsFit(balances.mutationQueue, requests')
      BY <1>4, <1>9, <1>10, <1>12, UnreservedFits DEF n
    <3>3. BalancesFit'
      BY <1>12, <3>1, <3>2 DEF BalancesFit, NoBalances, NoBalance
    <3> QED BY <1>4, <3>1, <3>2, <3>3
  <2> QED BY <2>1, <2>2
<1>18. Types' /\ LedgerBound'
  <2>1. polling' \in {0} \cup DOMAIN requests'
    BY <1>8, <1>11 DEF IInv, Types
  <2> QED BY <1>5, <1>11, <1>16, <1>17, <2>1 DEF IInv, Types, LedgerBound, Counts
<1>19. PollsFit'
  <2>1. CASE polling = 0
    <3>1. \A r \in DOMAIN requests : requests[r].kind = "poll" =>
              Heard(requests[r].call) /\ requests[r].call.waiting = {} /\ requests[r].call.waiting # BOOLEAN
      BY <1>2, <2>1 DEF IInv, PollsFit
    <3> QED BY <1>8, <1>11, <2>1, <3>1 DEF PollsFit
  <2>2. CASE polling # 0
    <3>1. polling \in DOMAIN requests
      BY <2>2 DEF IInv, Types
    <3> QED BY <1>8, <1>11, <2>2, <3>1 DEF IInv, PollsFit
  <2> QED BY <2>1, <2>2
<1>20. SpotsKept'
  <2> SUFFICES ASSUME NEW r \in DOMAIN requests', Awaited(r)'
               PROVE  /\ r \in Keys(balances'.mutationQueue)
                      /\ requests'[r].kind # "load" => r \in Keys(details'.mutationQueue)
    BY <1>16, <1>17 DEF SpotsKept
  <2>1. CASE r \in DOMAIN requests
    <3>1. Awaited(r) /\ requests'[r] = requests[r]
      BY <1>11, <2>1 DEF Awaited
    <3> QED BY <1>16, <1>17, <2>1, <3>1 DEF IInv, SpotsKept
  <2>2. CASE r = n + 1
    <3>1. request.call.waiting # {}
      BY <1>11, <2>2 DEF Awaited
    <3> QED BY <1>16, <1>17, <2>2, <3>1
  <2> QED BY <1>11, <2>1, <2>2
<1>21. Asked
  <2>1. 1 \in 1 .. 2 /\ Extends(Given', Given, Len(requests), 1)
    BY <1>12 DEF n
  <2> QED BY <1>17, <2>1 DEF Asked
<1> QED BY <1>11, <1>16, <1>17, <1>18, <1>19, <1>20, <1>21 DEF IInv

-----------------------------------------------------------------------------
(***************************************************************************)
(* The actions that answer requests.                                       *)
(***************************************************************************)
Same == Given' = Given /\ UNCHANGED balances.exposed

Came ==
    \E r \in DOMAIN requests : \E certified, mutation : Comes(Given, Given', r, certified, mutation)

\* A balance that a request may read is one that the account had, and a certified one is not older
\* than the request.
LEMMA ReadCounts ==
    ASSUME Types, NEW r \in DOMAIN requests, NEW certified \in BOOLEAN, NEW a \in Accounts,
           NEW n \in Reads(r, certified, a)
    PROVE  n \in Counts /\ (certified => requests[r].since[a] <= n)
<1>1. ledger[a] \in Counts /\ requests[r].since[a] \in Counts
  BY Positions, RequestFields DEF Types
<1>2. CASE certified = TRUE
  BY <1>1, <1>2, AccountsAssumption DEF Reads, Counts
<1>3. CASE certified = FALSE
  BY <1>1, <1>3, AccountsAssumption DEF Reads, Counts
<1> QED BY <1>2, <1>3

\* The answer of a load of one balance keeps the invariant; the store of balances gets it or
\* nothing.
LEMMA BalanceLoadedKeeps ==
    ASSUME IInv, NEW r \in DOMAIN requests, NEW certified \in BOOLEAN, BalanceLoaded(r, certified)
    PROVE  IInv' /\ (Same \/ Came)
<1>1. /\ requests[r].kind = "load" /\ certified \in requests[r].call.waiting
      /\ UNCHANGED <<ledger, known, sent, polling, forced, transfers, failures>>
      /\ failures' \in 0 .. MaxFailures
  BY DEF BalanceLoaded, IInv, Types
<1>2. CASE Heard(requests[r].call)
  <2>1. PICK a \in requests[r].accounts : \E n \in Reads(r, certified, a) :
            Apply(r, certified, [x \in {a} |-> BalanceOf(n, certified)]) /\ UNCHANGED details
    BY <1>2 DEF BalanceLoaded
  <2>2. PICK n \in Reads(r, certified, a) :
            Apply(r, certified, [x \in {a} |-> BalanceOf(n, certified)]) /\ UNCHANGED details
    BY <2>1
  <2>3. a \in Accounts
    BY Positions, RequestFields DEF IInv
  <2>4. n \in Counts /\ (certified => requests[r].since[a] <= n)
    BY <2>3, ReadCounts DEF IInv
  <2>5. PICK m : m = [x \in {a} |-> BalanceOf(n, certified)]
    OBVIOUS
  <2>6. DOMAIN m = {a} /\ m[a].present /\ m[a].count = n /\ m \in Parts(Accounts, Balances)
    <3>1. BalanceOf(n, certified) \in Balances
      BY <2>4 DEF BalanceOf, Balances
    <3>2. m \in [{a} -> Balances] /\ {a} \in SUBSET Accounts
      BY <2>3, <2>5, <3>1
    <3>3. m \in Parts(Accounts, Balances)
      BY <3>2 DEF Parts
    <3> QED BY <2>5, <3>3 DEF BalanceOf
  <2>7. MayAnswer(r, certified, m)
    BY <1>1, <2>4, <2>6 DEF MayAnswer
  <2>8. Apply(r, certified, m) /\ BothShow(r, certified, m)
    BY <1>1, <2>2, <2>5 DEF BothShow
  <2>9. polling' = IF polling = r THEN 0 ELSE polling
    <3>1. polling # 0 => polling # r
      BY <1>1 DEF IInv, PollsFit
    <3> QED BY <1>1, <3>1
  <2>10. IInv' /\ Comes(Given, Given', r, certified, m)
    BY <1>1, <1>2, <2>7, <2>8, <2>9, AppliedKeeps
  <2> QED BY <2>10 DEF Came
<1>3. CASE ~Heard(requests[r].call)
  <2>1. Ignore(r, certified)
    BY <1>3 DEF BalanceLoaded
  <2>2. IInv' /\ Given' = Given /\ UNCHANGED balances
    BY <1>1, <2>1, IgnoredKeeps
  <2> QED BY <2>2 DEF Same
<1> QED BY <1>2, <1>3

\* The answer of a load of all accounts keeps the invariant; both stores get it or nothing.
LEMMA AccountsLoadedKeeps ==
    ASSUME IInv, NEW r \in DOMAIN requests, NEW certified \in BOOLEAN, AccountsLoaded(r, certified)
    PROVE  IInv' /\ (Same \/ Came)
<1>1. /\ requests[r].kind # "load" /\ certified \in requests[r].call.waiting
      /\ polling' = IF polling = r THEN 0 ELSE polling
      /\ UNCHANGED <<ledger, known, sent, forced, transfers, failures>>
      /\ failures' \in 0 .. MaxFailures
  BY DEF AccountsLoaded, IInv, Types
<1>2. CASE Heard(requests[r].call)
  <2>1. PICK data \in LoadAccountsStoresData(r, certified) :
            /\ SetDetails(r, certified, data.accounts)
            /\ Apply(r, certified, [a \in Accounts |->
                    IF a \in data.accounts THEN BalanceOf(data.count[a], certified) ELSE NoBalance])
    BY <1>2 DEF AccountsLoaded
  <2>2. PICK accounts \in SUBSET known : \E count \in [accounts -> 0 .. MaxTransfers] :
            /\ data = [accounts |-> accounts, count |-> count]
            /\ \A a \in accounts : count[a] \in Reads(r, certified, a)
    BY DEF LoadAccountsStoresData
  <2>3. PICK count \in [accounts -> 0 .. MaxTransfers] :
            /\ data = [accounts |-> accounts, count |-> count]
            /\ \A a \in accounts : count[a] \in Reads(r, certified, a)
    BY <2>2
  <2>4. accounts \in SUBSET Accounts
    BY DEF IInv, Types
  <2>5. \A a \in accounts : count[a] \in Counts /\ (certified => requests[r].since[a] <= count[a])
    BY <2>3, <2>4, ReadCounts DEF IInv
  <2>6. PICK m : m = [a \in Accounts |->
                        IF a \in accounts THEN BalanceOf(count[a], certified) ELSE NoBalance]
    OBVIOUS
  <2>7. m \in [Accounts -> Balances]
    <3>1. \A a \in Accounts : a \in accounts => BalanceOf(count[a], certified) \in Balances
      BY <2>5 DEF BalanceOf, Balances
    <3>2. NoBalance \in Balances
      BY AccountsAssumption DEF NoBalance, Balances, Counts
    <3> QED BY <2>6, <3>1, <3>2
  <2>8. /\ \A a \in Accounts : m[a].present <=> a \in accounts
        /\ \A a \in accounts : m[a].count = count[a]
    BY <2>4, <2>6 DEF BalanceOf, NoBalance
  <2>9. MayAnswer(r, certified, m)
    <3>1. m \in Parts(Accounts, Balances)
      BY <2>7 DEF Parts
    <3>2. certified => \A a \in Accounts : m[a].present => requests[r].since[a] <= m[a].count
      BY <2>4, <2>5, <2>8
    <3> QED BY <1>1, <2>7, <3>1, <3>2 DEF MayAnswer
  <2>10. Apply(r, certified, m)
    BY <2>1, <2>3, <2>6
  <2>11. BothShow(r, certified, m)
    <3>1. DetailsIn(AnswerOf(certified, m)) =
            [a \in Accounts |-> IF a \notin accounts THEN "absent"
                                ELSE IF certified THEN "certified" ELSE "uncertified"]
      BY <2>8 DEF DetailsIn, AnswerOf
    <3>2. details' = AddMutation(details, r, certified,
            [a \in Accounts |-> IF a \notin accounts THEN "absent"
                                ELSE IF certified THEN "certified" ELSE "uncertified"])
      BY <2>1, <2>3 DEF SetDetails
    <3> QED BY <1>1, <3>1, <3>2 DEF BothShow
  <2>12. IInv' /\ Comes(Given, Given', r, certified, m)
    BY <1>1, <1>2, <2>9, <2>10, <2>11, AppliedKeeps
  <2> QED BY <2>12 DEF Came
<1>3. CASE ~Heard(requests[r].call)
  <2>1. Ignore(r, certified)
    BY <1>3 DEF AccountsLoaded
  <2>2. requests[r].kind # "poll"
    BY <1>3 DEF IInv, PollsFit
  <2>3. UNCHANGED polling
    <3>1. polling # 0 => polling # r
      BY <2>2 DEF IInv, PollsFit
    <3> QED BY <1>1, <3>1
  <2>4. IInv' /\ Given' = Given /\ UNCHANGED balances
    BY <1>1, <2>1, <2>2, <2>3, IgnoredKeeps
  <2> QED BY <2>4 DEF Same
<1> QED BY <1>2, <1>3

\* A call that fails keeps the invariant: its spots are cancelled, or both stores are reset by a
\* certified failure.
LEMMA CallFailsKeeps ==
    ASSUME IInv, NEW r \in DOMAIN requests, NEW certified \in BOOLEAN, CallFails(r, certified)
    PROVE  IInv' /\ (Same \/ Came)
<1>1. /\ requests[r].kind # "poll" /\ certified \in requests[r].call.waiting
      /\ UNCHANGED <<ledger, known, sent, polling, forced, transfers>>
  BY DEF CallFails
<1>2. failures' \in 0 .. MaxFailures
  BY AccountsAssumption DEF CallFails, IInv, Types
<1>3. CASE Heard(requests[r].call) /\ certified /\ requests[r].kind = "sync"
  <2>1. DefaultErrorHandlerAccounts(r, certified)
    BY <1>3 DEF CallFails
  <2>2. PICK m : m = [a \in Accounts |-> NoBalance]
    OBVIOUS
  <2>3. m \in [Accounts -> Balances] /\ \A a \in Accounts : ~m[a].present
    BY <2>2, AccountsAssumption DEF NoBalance, Balances, Counts
  <2>4. MayAnswer(r, certified, m)
    <3>1. m \in Parts(Accounts, Balances)
      BY <2>3 DEF Parts
    <3> QED BY <1>3, <2>3, <3>1 DEF MayAnswer
  <2>5. Apply(r, certified, m)
    BY <2>1, <2>2 DEF DefaultErrorHandlerAccounts
  <2>6. BothShow(r, certified, m)
    <3>1. DetailsIn(AnswerOf(certified, m)) =
            [a \in Accounts |-> IF a \notin {} THEN "absent"
                                ELSE IF certified THEN "certified" ELSE "uncertified"]
      BY <2>3 DEF DetailsIn, AnswerOf
    <3> QED BY <1>3, <2>1, <3>1 DEF BothShow, DefaultErrorHandlerAccounts, SetDetails
  <2>7. polling' = IF polling = r THEN 0 ELSE polling
    <3>1. polling # 0 => polling # r
      BY <1>1 DEF IInv, PollsFit
    <3> QED BY <1>1, <3>1
  <2>8. IInv' /\ Comes(Given, Given', r, certified, m)
    BY <1>1, <1>2, <1>3, <2>4, <2>5, <2>6, <2>7, AppliedKeeps
  <2> QED BY <2>8 DEF Came
<1>4. CASE ~(Heard(requests[r].call) /\ certified /\ requests[r].kind = "sync")
  <2>1. Ignore(r, certified)
    BY <1>4 DEF CallFails
  <2>2. IInv' /\ Given' = Given /\ UNCHANGED balances
    BY <1>1, <1>2, <2>1, IgnoredKeeps
  <2> QED BY <2>2 DEF Same
<1> QED BY <1>3, <1>4

\* Steps that change neither the requests nor the stores
LEMMA QuietSteps ==
    ASSUME IInv, known' \in SUBSET Accounts, sent' \in SUBSET (Accounts \X Accounts),
           ledger' \in [Accounts -> Counts], transfers' \in Counts, failures' \in 0 .. MaxFailures,
           \A a \in Accounts : ledger[a] <= ledger'[a] /\ ledger'[a] <= transfers',
           UNCHANGED <<requests, polling, balances, details, forced>>
    PROVE  IInv' /\ Same
<1>1. Types' /\ LedgerBound'
  BY DEF IInv, Types, LedgerBound, Counts
<1>2. IInv'
  BY <1>1, QuietKeeps
<1>3. Given' = Given
  BY DEF Given
<1> QED BY <1>2, <1>3 DEF Same

\* A balance that changes on the ledger keeps the invariant.
LEMMA LedgerSteps ==
    ASSUME IInv, NEW a \in Accounts, LedgerMoves(a)
    PROVE  IInv' /\ Same
<1>1. /\ ledger \in [Accounts -> Counts] /\ transfers \in Counts /\ transfers < MaxTransfers
      /\ MaxTransfers \in Nat /\ \A b \in Accounts : ledger[b] <= transfers
      /\ ledger' = [ledger EXCEPT ![a] = @ + 1] /\ transfers' = transfers + 1
  BY AccountsAssumption DEF IInv, Types, LedgerBound, LedgerMoves
<1>2. \A b \in Accounts : ledger[b] \in Nat /\ ledger'[b] \in {ledger[b], ledger[b] + 1}
  BY <1>1 DEF Counts
<1>3. \A b \in Accounts : ledger[b] <= ledger'[b] /\ ledger'[b] <= transfers' /\ ledger'[b] \in Counts
  BY <1>1, <1>2 DEF Counts
<1>4. ledger' \in [Accounts -> Counts] /\ transfers' \in Counts
  BY <1>1, <1>3 DEF Counts
<1> QED BY <1>3, <1>4, QuietSteps DEF IInv, Types, LedgerMoves

\* A transfer on the ledger, or its failure, keeps the invariant.
LEMMA TransferSteps ==
    ASSUME IInv, NEW from \in Accounts, NEW to \in Accounts,
           TransferICP(from, to) \/ TransferFails(from, to)
    PROVE  IInv' /\ Same
<1>1. CASE TransferICP(from, to)
  <2>1. /\ ledger \in [Accounts -> Counts] /\ transfers \in Counts /\ transfers < MaxTransfers
        /\ MaxTransfers \in Nat /\ \A b \in Accounts : ledger[b] <= transfers /\ from # to
        /\ ledger' = [ledger EXCEPT ![from] = @ + 1, ![to] = @ + 1] /\ transfers' = transfers + 1
    BY <1>1, AccountsAssumption DEF IInv, Types, LedgerBound, TransferICP
  <2>2. \A b \in Accounts : ledger[b] \in Nat /\ ledger'[b] \in {ledger[b], ledger[b] + 1}
    BY <2>1 DEF Counts
  <2>3. \A b \in Accounts : ledger[b] <= ledger'[b] /\ ledger'[b] <= transfers' /\ ledger'[b] \in Counts
    BY <2>1, <2>2 DEF Counts
  <2>4. ledger' \in [Accounts -> Counts] /\ transfers' \in Counts
    BY <2>1, <2>3 DEF Counts
  <2>5. sent' \in SUBSET (Accounts \X Accounts)
    BY <1>1 DEF IInv, Types, TransferICP
  <2> QED BY <1>1, <2>3, <2>4, <2>5, QuietSteps DEF IInv, Types, TransferICP
<1>2. CASE TransferFails(from, to)
  <2>1. /\ ledger' \in [Accounts -> Counts] /\ UNCHANGED <<ledger, transfers>> /\ transfers' \in Counts
        /\ \A b \in Accounts : ledger[b] <= transfers /\ ledger[b] \in Counts
    BY <1>2 DEF IInv, Types, LedgerBound, TransferFails
  <2>2. \A b \in Accounts : ledger[b] <= ledger'[b] /\ ledger'[b] <= transfers'
    BY <2>1 DEF Counts
  <2>3. failures' \in 0 .. MaxFailures
    BY <1>2, AccountsAssumption DEF IInv, Types, TransferFails
  <2> QED BY <1>2, <2>1, <2>2, <2>3, QuietSteps DEF IInv, Types, TransferFails
<1> QED BY <1>1, <1>2

\* The creation of the user's account in the backend between two attempts keeps the invariant.
LEMMA GetOrCreateAccountKeeps ==
    ASSUME IInv, NEW r, NEW certified, GetOrCreateAccount(r, certified)
    PROVE  IInv' /\ Same
<1>1. /\ ledger' \in [Accounts -> Counts] /\ UNCHANGED <<ledger, transfers>> /\ transfers' \in Counts
      /\ \A b \in Accounts : ledger[b] <= transfers /\ ledger[b] \in Counts
  BY DEF IInv, Types, LedgerBound, GetOrCreateAccount
<1>2. \A b \in Accounts : ledger[b] <= ledger'[b] /\ ledger'[b] <= transfers'
  BY <1>1 DEF Counts
<1>3. known' \in SUBSET Accounts
  BY AccountsAssumption DEF GetOrCreateAccount
<1> QED BY <1>1, <1>2, <1>3, QuietSteps DEF IInv, Types, GetOrCreateAccount

\* Cancelling the polling keeps the invariant.
LEMMA CancelPollKeeps == IInv /\ CancelPollAccounts => IInv' /\ Same
<1> SUFFICES ASSUME IInv, CancelPollAccounts PROVE IInv' /\ Same
  OBVIOUS
<1>1. PICK r : r = polling
  OBVIOUS
<1>2. r \in DOMAIN requests
  BY <1>1 DEF CancelPollAccounts, IInv, Types
<1>3. IInv' /\ Given' = Given /\ UNCHANGED balances.exposed
  BY <1>1, <1>2, PollEnds DEF CancelPollAccounts, IInv, Types
<1> QED BY <1>3 DEF Same

\* A polling attempt that fails keeps the invariant.
LEMMA PollFailsKeeps ==
    ASSUME IInv, NEW r \in DOMAIN requests, NEW certified \in BOOLEAN, PollFails(r, certified)
    PROVE  IInv' /\ Same
<1>1. /\ requests[r].kind = "poll" /\ certified \in requests[r].call.waiting
      /\ UNCHANGED <<ledger, known, sent, details, forced, transfers>>
  BY DEF PollFails
<1>2. failures' \in 0 .. MaxFailures
  BY AccountsAssumption DEF PollFails, IInv, Types
<1>3. polling = r
  BY <1>1 DEF IInv, PollsFit
<1>4. CASE UNCHANGED <<requests, balances, polling>>
  <2>1. /\ ledger' \in [Accounts -> Counts] /\ transfers' \in Counts
        /\ \A b \in Accounts : ledger[b] <= transfers /\ ledger[b] \in Counts
    BY <1>1 DEF IInv, Types, LedgerBound
  <2>2. \A b \in Accounts : ledger[b] <= ledger'[b] /\ ledger'[b] <= transfers'
    BY <1>1, <2>1 DEF Counts
  <2> QED BY <1>1, <1>2, <1>4, <2>1, <2>2, QuietSteps DEF IInv, Types
<1>5. CASE /\ requests' = [requests EXCEPT ![r].call = Done, ![r].had = {}]
           /\ balances' = Cancel(balances, r) /\ polling' = 0
  <2>1. IInv' /\ Given' = Given /\ UNCHANGED balances.exposed
    BY <1>1, <1>2, <1>3, <1>5, PollEnds
  <2> QED BY <2>1 DEF Same
<1> QED BY <1>4, <1>5 DEF PollFails

-----------------------------------------------------------------------------
(***************************************************************************)
(* The invariant of the specification.                                     *)
(***************************************************************************)
LEMMA EmptyStore ==
    ASSUME NEW Items, NEW Values, NEW initial \in [Items -> Values],
           NEW store, store = QueuedStoreOf(initial), NEW answers, DOMAIN answers = {}
    PROVE  store \in Stores(Items, Values) /\ Represents(store, initial, answers)
<1>1. store.certifiedData = initial /\ store.exposed = initial /\ store.mutationQueue = <<>>
  BY DEF QueuedStoreOf
<1>2. store \in Stores(Items, Values)
  <2>1. <<>> \in Seq(Entries(Items, Values))
    OBVIOUS
  <2> QED BY <2>1 DEF QueuedStoreOf, Stores
<1>3. Keys(<<>>) = {} /\ Elems(<<>>) = {}
  BY DEF Keys, Elems
<1>4. Filled(<<>>, answers) /\ Before({}, <<>>, answers)
  BY DEF Filled, Before
<1>5. Shows(initial, initial, answers, {})
  BY DEF Shows, ShowsItem
<1> QED BY <1>1, <1>2, <1>3, <1>4, <1>5 DEF Represents

\* The invariant holds with empty stores and no request.
LEMMA Initially == Init => IInv
<1> SUFFICES ASSUME Init PROVE IInv
  OBVIOUS
<1>1. /\ requests = <<>> /\ DOMAIN requests = {} /\ polling = 0 /\ sent = {} /\ transfers = 0
      /\ failures = 0 /\ forced \in BOOLEAN /\ known \in {{}, {Main}}
      /\ ledger = [a \in Accounts |-> 0] /\ balances = QueuedStoreOf(NoBalances)
      /\ details = QueuedStoreOf(NoDetails)
  BY DEF Init, NoBalances, NoDetails
<1>2. NoBalances \in [Accounts -> Balances] /\ NoDetails \in [Accounts -> Shown]
  BY AccountsAssumption DEF NoBalances, NoDetails, NoBalance, Balances, Counts, Shown
<1>3. DOMAIN Given = {} /\ DOMAIN DetailAnswers = {}
  BY <1>1 DEF Given, DetailAnswers
<1>4. balances \in Stores(Accounts, Balances) /\ BalancesFit
  <2>1. PICK g : g = Given
    OBVIOUS
  <2>2. balances \in Stores(Accounts, Balances) /\ Represents(balances, NoBalances, g)
    BY <1>1, <1>2, <1>3, <2>1, EmptyStore
  <2> QED BY <2>1, <2>2 DEF BalancesFit
<1>5. details \in Stores(Accounts, Shown) /\ DetailsFit
  <2>1. PICK g : g = DetailAnswers
    OBVIOUS
  <2>2. details \in Stores(Accounts, Shown) /\ Represents(details, NoDetails, g)
    BY <1>1, <1>2, <1>3, <2>1, EmptyStore
  <2> QED BY <2>1, <2>2 DEF DetailsFit
<1>6. Types /\ LedgerBound
  BY <1>1, <1>4, <1>5, AccountsAssumption DEF Types, LedgerBound, Counts
<1>7. AnswersFit /\ SinceGrows /\ CallsFit /\ PollsFit
  BY <1>1 DEF AnswersFit, SinceGrows, CallsFit, PollsFit
<1>8. SpotsKept
  <2>1. balances.mutationQueue = <<>> /\ details.mutationQueue = <<>>
    BY <1>1 DEF QueuedStoreOf
  <2>2. SpotsFit(<<>>, requests)
    BY DEF SpotsFit, Elems
  <2> QED BY <1>1, <2>1, <2>2 DEF SpotsKept
<1> QED BY <1>4, <1>5, <1>6, <1>7, <1>8 DEF IInv

\* Every step keeps the invariant and asks, changes nothing that FreshestAnswer sees, or brings one
\* answer.
LEMMA Inductive == IInv /\ [Next]_vars => IInv' /\ (Asked \/ Same \/ Came)
<1> SUFFICES ASSUME IInv, [Next]_vars PROVE IInv' /\ (Asked \/ Same \/ Came)
  OBVIOUS
<1>1. CASE UNCHANGED vars
  <2>1. /\ UNCHANGED <<requests, polling, balances, details, forced, ledger, transfers, failures, known, sent>>
    BY <1>1 DEF vars
  <2>2. /\ ledger' \in [Accounts -> Counts] /\ transfers' \in Counts
        /\ \A b \in Accounts : ledger[b] <= transfers /\ ledger[b] \in Counts
    BY <2>1 DEF IInv, Types, LedgerBound
  <2>3. \A b \in Accounts : ledger[b] <= ledger'[b] /\ ledger'[b] <= transfers'
    BY <2>1, <2>2 DEF Counts
  <2> QED BY <2>1, <2>2, <2>3, QuietSteps DEF IInv, Types
<1>2. ASSUME NEW a \in Accounts,
             LedgerMoves(a) \/ AddSubAccount(a) \/ RenameSubAccount(a) \/ LoadBalance(a)
      PROVE  IInv' /\ (Asked \/ Same \/ Came)
  BY <1>2, LedgerSteps, AddSubAccountKeeps, RenameSubAccountKeeps, LoadBalanceKeeps
<1>3. ASSUME NEW from \in Accounts, NEW to \in Accounts,
             TransferICP(from, to) \/ TransferDone(from, to) \/ TransferFails(from, to)
      PROVE  IInv' /\ (Asked \/ Same \/ Came)
  BY <1>3, TransferSteps, TransferDoneKeeps
<1>4. CASE InitAccounts
  BY <1>4, InitAccountsKeeps
<1>5. CASE CancelPollAccounts
  BY <1>5, CancelPollKeeps
<1>6. ASSUME NEW certified \in BOOLEAN, PollAccounts(certified)
      PROVE  IInv' /\ (Asked \/ Same \/ Came)
  BY <1>6, PollAccountsKeeps
<1>7. ASSUME NEW r \in DOMAIN requests, NEW certified \in BOOLEAN, Answers(r, certified)
      PROVE  IInv' /\ (Asked \/ Same \/ Came)
  <2>1. CASE BalanceLoaded(r, certified)
    BY <2>1, BalanceLoadedKeeps
  <2>2. CASE GetOrCreateAccount(r, certified)
    BY <2>2, GetOrCreateAccountKeeps
  <2>3. CASE AccountsLoaded(r, certified)
    BY <2>3, AccountsLoadedKeeps
  <2>4. CASE CallFails(r, certified)
    BY <2>4, CallFailsKeeps
  <2>5. CASE PollFails(r, certified)
    BY <2>5, PollFailsKeeps
  <2> QED BY <1>7, <2>1, <2>2, <2>3, <2>4, <2>5 DEF Answers
<1> QED BY <1>1, <1>2, <1>3, <1>4, <1>5, <1>6, <1>7 DEF Next

\* The queues, the requests and their answers fit together, always.
THEOREM InvariantHolds == Spec => []IInv
<1>1. IInv /\ [Next]_vars => IInv'
  BY Inductive
<1> QED BY <1>1, Initially, PTL DEF Spec
-----------------------------------------------------------------------------
(***************************************************************************)
(* What follows from the invariant.                                        *)
(***************************************************************************)

\* What is shown of an item is the last answer about it.
LastOf(answers, data, i) ==
    \E r \in DOMAIN answers : \E x \in answers[r] :
        /\ answers[r] = {x} /\ i \in DOMAIN x.items /\ data[i] = x.items[i]
        /\ \A s \in DOMAIN answers : Says(answers[s], i) => s <= r

NoneOf(answers, i) == \A r \in DOMAIN answers : ~Says(answers[r], i)

\* A store that represents a history shows of each item the last answer of the latest request that
\* had one about it.
LEMMA LastAnswer ==
    ASSUME NEW Items, NEW Values, NEW initial \in [Items -> Values], NEW store \in Stores(Items, Values),
           NEW answers, AllAnswers(Items, Values, answers), Represents(store, initial, answers),
           NEW i \in Items
    PROVE  \/ store.exposed[i] = initial[i] /\ NoneOf(answers, i)
           \/ LastOf(answers, store.exposed, i)
<1>1. ShowsItem(store.exposed, initial, answers, DOMAIN answers, i)
  BY DEF Represents, Shows
<1>2. ASSUME NEW r \in DOMAIN answers, Says(answers[r], i),
             store.exposed[i] = ItemOf(answers[r], i)
      PROVE  \E x \in answers[r] : /\ answers[r] = {x} /\ i \in DOMAIN x.items
                                   /\ store.exposed[i] = x.items[i]
  <2>1. answers[r] \in AnswerSets(Items, Values)
    BY DEF AllAnswers
  <2>2. PICK x : answers[r] = {x}
    BY <1>2, <2>1 DEF AnswerSets, Says
  <2> QED BY <1>2, <2>2 DEF Says, ItemOf
<1> QED BY <1>1, <1>2 DEF ShowsItem, LastOf, NoneOf

\* The invariant gives what LastAnswer needs for both stores.
LEMMA GivenFits ==
    ASSUME IInv
    PROVE  /\ AllAnswers(Accounts, Balances, Given) /\ AllAnswers(Accounts, Shown, DetailAnswers)
           /\ DOMAIN Given = DOMAIN requests /\ DOMAIN DetailAnswers = DOMAIN requests
           /\ NoBalances \in [Accounts -> Balances] /\ NoDetails \in [Accounts -> Shown]
           /\ balances \in Stores(Accounts, Balances) /\ details \in Stores(Accounts, Shown)
           /\ Represents(balances, NoBalances, Given) /\ Represents(details, NoDetails, DetailAnswers)
           /\ DOMAIN requests \in SUBSET Nat
<1>1. NoBalances \in [Accounts -> Balances] /\ NoDetails \in [Accounts -> Shown]
  BY AccountsAssumption DEF NoBalances, NoDetails, NoBalance, Balances, Counts, Shown
<1> QED BY <1>1, GivenTypes, Positions DEF IInv, Types, AllAnswers, BalancesFit, DetailsFit

\* An account is listed by the last answer about all accounts, which has its
\* balance; later answers about the balance have it as well.
LEMMA ListedHaveBalance == IInv => ListedAccountsHaveBalance
<1> SUFFICES ASSUME IInv, NEW a \in Accounts, Listed(a) PROVE balances.exposed[a].present
  BY DEF ListedAccountsHaveBalance
<1>1. NoDetails[a] = "absent"
  BY DEF NoDetails
<1>2. PICK r \in DOMAIN DetailAnswers : \E d \in DetailAnswers[r] :
          /\ DetailAnswers[r] = {d} /\ a \in DOMAIN d.items /\ details.exposed[a] = d.items[a]
          /\ \A s \in DOMAIN DetailAnswers : Says(DetailAnswers[s], a) => s <= r
  <2>1. details.exposed[a] # NoDetails[a]
    BY <1>1 DEF Listed
  <2>2. LastOf(DetailAnswers, details.exposed, a)
    BY <2>1, GivenFits, LastAnswer
  <2> QED BY <2>2 DEF LastOf
<1>3. PICK d \in DetailAnswers[r] : details.exposed[a] = d.items[a]
  BY <1>2
<1>4. r \in DOMAIN requests /\ DOMAIN Given = DOMAIN requests /\ DOMAIN requests \in SUBSET Nat
      /\ \A s \in DOMAIN requests : Given[s] = requests[s].answer
  BY GivenFits, GivenTypes DEF IInv
<1>5. PICK x \in requests[r].answer :
          requests[r].kind # "load" /\ d = [certified |-> x.certified, items |-> DetailsIn(x)]
  <2>1. requests[r].kind # "load"
    BY <1>3, <1>4 DEF DetailAnswers
  <2> QED BY <1>3, <1>4, <2>1 DEF DetailAnswers
<1>6. x.items[a].present /\ DOMAIN x.items = Accounts
  BY <1>3, <1>4, <1>5 DEF Listed, DetailsIn, IInv, AnswersFit
<1>7. Says(Given[r], a)
  BY <1>4, <1>5, <1>6 DEF Says
<1>8. PICK s \in DOMAIN Given : \E y \in Given[s] :
          /\ Given[s] = {y} /\ a \in DOMAIN y.items /\ balances.exposed[a] = y.items[a]
          /\ \A q \in DOMAIN Given : Says(Given[q], a) => q <= s
  <2>1. ~NoneOf(Given, a)
    BY <1>4, <1>7 DEF NoneOf
  <2>2. LastOf(Given, balances.exposed, a)
    BY <2>1, GivenFits, LastAnswer
  <2> QED BY <2>2 DEF LastOf
<1>9. PICK y \in Given[s] : Given[s] = {y} /\ a \in DOMAIN y.items /\ balances.exposed[a] = y.items[a]
  BY <1>8
<1>10. CASE requests[s].kind = "load"
  BY <1>4, <1>9, <1>10 DEF IInv, AnswersFit
<1>11. CASE requests[s].kind # "load"
  <2>1. Says(DetailAnswers[s], a)
    <3>1. DetailAnswers[s] = {[certified |-> z.certified, items |-> DetailsIn(z)] : z \in requests[s].answer}
      BY <1>4, <1>11 DEF DetailAnswers
    <3>2. a \in DOMAIN DetailsIn(y)
      BY DEF DetailsIn
    <3>3. PICK e : e = [certified |-> y.certified, items |-> DetailsIn(y)] /\ e \in DetailAnswers[s]
      BY <1>4, <1>9, <3>1
    <3> QED BY <3>2, <3>3 DEF Says
  <2>2. s <= r /\ r <= s /\ s \in Nat /\ r \in Nat
    BY <1>2, <1>4, <1>7, <1>8, <2>1, GivenFits
  <2>3. s = r
    BY <2>2
  <2> QED BY <1>4, <1>5, <1>6, <1>9, <2>3
<1> QED BY <1>10, <1>11

\* A spot whose request can still be heard of takes its answer.
LEMMA MayStillAdd ==
    ASSUME NEW store, NEW answers, Filled(store.mutationQueue, answers),
           NEW r \in Keys(store.mutationQueue), NEW certified \in BOOLEAN,
           \A y \in answers[r] : certified /\ ~y.certified
    PROVE  MayAdd(store, r, certified) /\ (answers[r] = {} => MayCancel(store, r))
<1>1. PICK i \in DOMAIN store.mutationQueue : store.mutationQueue[i].mutationKey = r
  BY DEF Keys
<1>2. i \in EntryOf(store, r)
  BY <1>1 DEF EntryOf
<1> DEFINE e == store.mutationQueue[i]
<1>3. Matches(e, answers[r])
  BY <1>1 DEF Filled
<1> HIDE DEF e
<1>4. e.certifiedMutation = {}
  BY <1>3 DEF Matches
<1>5. (IF certified THEN e.certifiedMutation ELSE e.nonCertifiedMutation) = {}
  <2>1. CASE certified = TRUE
    BY <1>4, <2>1
  <2>2. CASE certified = FALSE
    <3>1. Mutation(e) = {}
      BY <1>3, <2>2 DEF Matches
    <3> QED BY <1>4, <2>2, <3>1 DEF Mutation
  <2> QED BY <2>1, <2>2
<1>6. answers[r] = {} => Mutation(e) = {}
  BY <1>3 DEF Matches
<1> QED BY <1>2, <1>5, <1>6 DEF MayAdd, MayCancel, e

\* The invariant implies that no awaited request lost its spot.
LEMMA SpotsFollow == IInv => SpotsAreKept
<1> SUFFICES ASSUME IInv, NEW r \in DOMAIN requests
             PROVE  /\ \A certified \in requests[r].call.waiting :
                        Heard(requests[r].call) =>
                            /\ MayAdd(balances, r, certified)
                            /\ requests[r].kind # "load" => MayAdd(details, r, certified)
                    /\ polling = r => MayCancel(balances, r)
  BY DEF SpotsAreKept
<1>1. /\ Filled(balances.mutationQueue, Given) /\ Filled(details.mutationQueue, DetailAnswers)
      /\ Given[r] = requests[r].answer
      /\ \A d \in DetailAnswers[r] : \E x \in requests[r].answer : x.certified = d.certified
  <2>1. Filled(balances.mutationQueue, Given) /\ Filled(details.mutationQueue, DetailAnswers)
    BY GivenFits DEF Represents
  <2>2. Given[r] = requests[r].answer
    BY DEF Given
  <2>3. \A d \in DetailAnswers[r] : \E x \in requests[r].answer : x.certified = d.certified
    BY DEF DetailAnswers
  <2> QED BY <2>1, <2>2, <2>3
<1>2. ASSUME NEW certified \in requests[r].call.waiting, Heard(requests[r].call)
      PROVE  /\ certified \in BOOLEAN /\ \A x \in requests[r].answer : certified /\ ~x.certified
             /\ r \in Keys(balances.mutationQueue)
             /\ requests[r].kind # "load" => r \in Keys(details.mutationQueue)
  <2>1. certified \in BOOLEAN
    BY Positions, RequestFields DEF IInv
  <2>2. ASSUME NEW x \in requests[r].answer PROVE certified /\ ~x.certified
    <3>1. ~x.certified /\ FALSE \notin requests[r].call.waiting
      BY <1>2 DEF IInv, CallsFit
    <3>2. CASE certified = FALSE
      BY <3>1, <3>2
    <3>3. CASE certified = TRUE
      BY <3>1, <3>3
    <3> QED BY <2>1, <3>2, <3>3
  <2>3. Awaited(r)
    BY <1>2 DEF Awaited
  <2> QED BY <2>1, <2>2, <2>3 DEF IInv, SpotsKept
<1>3. ASSUME NEW certified \in requests[r].call.waiting, Heard(requests[r].call)
      PROVE  /\ MayAdd(balances, r, certified)
             /\ requests[r].kind # "load" => MayAdd(details, r, certified)
             /\ requests[r].answer = {} => MayCancel(balances, r)
  <2>1. /\ certified \in BOOLEAN /\ \A x \in requests[r].answer : certified /\ ~x.certified
        /\ r \in Keys(balances.mutationQueue)
        /\ requests[r].kind # "load" => r \in Keys(details.mutationQueue)
    BY <1>2, <1>3
  <2>2. MayAdd(balances, r, certified) /\ (requests[r].answer = {} => MayCancel(balances, r))
    BY <1>1, <2>1, MayStillAdd
  <2>3. CASE requests[r].kind # "load"
    <3>1. \A d \in DetailAnswers[r] : certified /\ ~d.certified
      BY <1>1, <2>1
    <3>2. MayAdd(details, r, certified)
      BY <1>1, <2>1, <2>3, <3>1, MayStillAdd
    <3> QED BY <2>2, <3>2
  <2> QED BY <2>2, <2>3
<1>4. ASSUME polling = r PROVE MayCancel(balances, r)
  <2>1. /\ requests[r].answer = {} /\ requests[r].call.waiting # {} /\ Heard(requests[r].call)
    <3>1. r # 0
      BY Positions DEF IInv
    <3>2. requests[r].kind = "poll" /\ requests[r].answer = {} /\ requests[r].call.waiting # {}
      BY <1>4, <3>1 DEF IInv, PollsFit
    <3> QED BY <3>2 DEF IInv, PollsFit
  <2> QED BY <1>3, <2>1
<1> QED BY <1>3, <1>4

\* The invariant implies the type invariant.
LEMMA TypesFollow == IInv => TypeOK
<1> SUFFICES ASSUME IInv PROVE TypeOK
  OBVIOUS
<1>1. \A r \in DOMAIN requests :
          requests[r].kind \in {"sync", "init", "load", "poll"} /\ requests[r].call \in Requests
  BY Positions, RequestFields DEF IInv, RequestKinds
<1>2. polling \in 0 .. Len(requests)
  BY Positions DEF IInv, Types
<1>3. ASSUME NEW a \in Accounts
      PROVE  /\ balances.exposed[a].count \in Counts
             /\ details.exposed[a] \in {"absent", "uncertified", "certified"}
  <2>1. balances.exposed \in [Accounts -> Balances] /\ details.exposed \in [Accounts -> Shown]
    BY StoreFields DEF IInv, Types
  <2>2. balances.exposed[a] \in Balances
    BY <2>1
  <2>3. balances.exposed[a].count \in Counts
    BY <2>2 DEF Balances
  <2> QED BY <2>1, <2>3 DEF Shown
<1> QED BY <1>1, <1>2, <1>3 DEF IInv, Types, TypeOK

\* An account that is listed has a balance, although the details and the
\* balances are two stores which requests fill and give back one after the
\* other; and addMutation and cancel find the spot of every request that can
\* still be answered.
THEOREM StoresSound == Spec => []StoresAreSound
<1>1. IInv => StoresAreSound
  BY ListedHaveBalance, SpotsFollow, TypesFollow DEF StoresAreSound
<1> QED BY <1>1, InvariantHolds, PTL

\* A certified answer is not undone by the requests before it.
THEOREM OwnWritesAreRead == Spec => []ReadsOwnWrites
<1>1. IInv => ReadsOwnWrites
  <2> SUFFICES ASSUME IInv, NEW r \in DOMAIN requests, NEW a \in Accounts,
                      NEW ans \in requests[r].answer, ans.certified, a \in DOMAIN ans.items,
                      ans.items[a].present,
                      \A s \in DOMAIN requests : s > r => \A x \in requests[s].answer :
                          a \in DOMAIN x.items => x.certified /\ x.items[a].present
               PROVE  balances.exposed[a].count >= requests[r].since[a]
    BY DEF ReadsOwnWrites
  <2>1. DOMAIN Given = DOMAIN requests /\ \A s \in DOMAIN requests : Given[s] = requests[s].answer
    BY GivenTypes DEF IInv
  <2>2. Says(Given[r], a)
    BY <2>1 DEF Says
  <2>3. PICK s \in DOMAIN Given : \E y \in Given[s] :
            /\ Given[s] = {y} /\ a \in DOMAIN y.items /\ balances.exposed[a] = y.items[a]
            /\ \A q \in DOMAIN Given : Says(Given[q], a) => q <= s
    <3>1. ~NoneOf(Given, a)
      BY <2>1, <2>2 DEF NoneOf
    <3>2. LastOf(Given, balances.exposed, a)
      BY <3>1, GivenFits, LastAnswer
    <3> QED BY <3>2 DEF LastOf
  <2>4. PICK y \in Given[s] : Given[s] = {y} /\ a \in DOMAIN y.items /\ balances.exposed[a] = y.items[a]
    BY <2>3
  <2>5. r <= s /\ r \in Nat /\ s \in Nat
    BY <2>1, <2>2, <2>3, GivenFits
  <2>6. y.certified /\ y.items[a].present
    <3>1. CASE s = r
      BY <2>1, <2>4, <3>1
    <3>2. CASE s # r
      <4>1. s > r
        BY <2>5, <3>2
      <4> QED BY <2>1, <2>4, <4>1
    <3> QED BY <3>1, <3>2
  <2>7. requests[s].since[a] <= y.items[a].count
    BY <2>1, <2>4, <2>6 DEF IInv, AnswersFit
  <2>8. requests[r].since[a] <= requests[s].since[a]
    <3>1. requests[r].since[a] \in Counts
      BY Positions, RequestFields DEF IInv
    <3>2. CASE s = r
      BY <3>1, <3>2 DEF Counts
    <3>3. CASE s # r
      BY <2>1, <2>5, <3>3 DEF IInv, SinceGrows
    <3> QED BY <3>2, <3>3
  <2>9. requests[r].since[a] \in Nat /\ requests[s].since[a] \in Nat /\ balances.exposed[a].count \in Nat
    <3>1. requests[r].since[a] \in Counts /\ requests[s].since[a] \in Counts
      BY <2>1, Positions, RequestFields DEF IInv
    <3>2. balances.exposed[a].count \in Counts
      BY TypesFollow DEF TypeOK
    <3> QED BY <3>1, <3>2 DEF Counts
  <2> QED BY <2>4, <2>7, <2>8, <2>9
<1> QED BY <1>1, InvariantHolds, PTL

-----------------------------------------------------------------------------
(***************************************************************************)
(* The queued store shows the freshest answer.                             *)
(***************************************************************************)

\* What is shown is what FreshestAnswer says.
LEMMA ShownIsView == IInv => balances.exposed = Freshest!View(Given)
<1> SUFFICES ASSUME IInv PROVE balances.exposed = Freshest!View(Given)
  OBVIOUS
<1>1. balances.exposed \in [Accounts -> Balances]
  BY StoreFields DEF IInv, Types
<1> DEFINE H(a) == Freshest!Having(Given, a)
<1>2. \A a : H(a) = {r \in DOMAIN Given : Says(Given[r], a)}
  BY DEF Freshest!Having, Says
<1>3. ASSUME NEW a \in Accounts PROVE balances.exposed[a] = Freshest!View(Given)[a]
  <2>1. (balances.exposed[a] = NoBalances[a] /\ NoneOf(Given, a)) \/ LastOf(Given, balances.exposed, a)
    BY GivenFits, LastAnswer
  <2>2. CASE balances.exposed[a] = NoBalances[a] /\ NoneOf(Given, a)
    <3>1. H(a) = {}
      BY <1>2, <2>2 DEF NoneOf
    <3> QED BY <2>2, <3>1 DEF Freshest!View, NoBalances
  <2>3. CASE LastOf(Given, balances.exposed, a)
    <3>1. PICK r \in DOMAIN Given : \E x \in Given[r] :
              /\ Given[r] = {x} /\ a \in DOMAIN x.items /\ balances.exposed[a] = x.items[a]
              /\ \A s \in DOMAIN Given : Says(Given[s], a) => s <= r
      BY <2>3 DEF LastOf
    <3>2. PICK x \in Given[r] :
              Given[r] = {x} /\ a \in DOMAIN x.items /\ balances.exposed[a] = x.items[a]
      BY <3>1
    <3>3. r \in H(a) /\ \A s \in H(a) : s <= r /\ s \in Nat
      BY <1>2, <3>1, <3>2, GivenFits DEF Says
    <3> DEFINE last == CHOOSE q \in H(a) : \A s \in H(a) : s <= q
    <3>4. last = r
      <4>1. last \in H(a) /\ \A s \in H(a) : s <= last
        BY <3>3
      <4> HIDE DEF last, H
      <4>2. r <= last /\ last <= r /\ last \in Nat /\ r \in Nat
        BY <3>3, <4>1
      <4> QED BY <4>2
    <3>5. Freshest!View(Given)[a] = (CHOOSE y \in Given[last] : TRUE).items[a]
      <4>1. H(a) # {}
        BY <3>3
      <4> QED BY <4>1 DEF Freshest!View
    <3>6. (CHOOSE y \in Given[r] : TRUE) = x
      BY <3>2
    <3> HIDE DEF last
    <3> QED BY <3>2, <3>4, <3>5, <3>6
  <2> QED BY <2>1, <2>2, <2>3
<1>4. Freshest!View(Given) = [a \in Accounts |-> Freshest!View(Given)[a]]
  BY DEF Freshest!View
<1>5. PICK v : v = Freshest!View(Given)
  OBVIOUS
<1> QED BY <1>1, <1>3, <1>4, <1>5

\* A function on 1 .. m is a sequence of length m.
LEMMA IsSequence ==
    ASSUME NEW S, NEW m \in Nat, NEW f, DOMAIN f = 1 .. m, f = [j \in DOMAIN f |-> f[j]],
           \A j \in 1 .. m : f[j] \in S
    PROVE  f \in Seq(S) /\ Len(f) = m
OBVIOUS

\* A history that k requests without answers were added to is the concatenation that FreshestAnswer
\* asks for.
LEMMA AskStep ==
    ASSUME NEW answers, NEW n \in Nat, DOMAIN answers = 1 .. n, answers = [r \in 1 .. n |-> answers[r]],
           NEW k \in 1 .. 2, NEW ext, Extends(ext, answers, n, k),
           ext = [r \in 1 .. (n + k) |-> ext[r]]
    PROVE  ext = answers \o [j \in 1 .. k |-> {}]
<1> DEFINE S == {answers[r] : r \in 1 .. n} \cup {{}}
           added == [j \in 1 .. k |-> {}]
<1>1. answers \in Seq(S) /\ Len(answers) = n
  <2>1. \A r \in 1 .. n : answers[r] \in S
    OBVIOUS
  <2> HIDE DEF S
  <2> QED BY <2>1
<1>0. k \in Nat
  OBVIOUS
<1>2. added \in Seq(S) /\ Len(added) = k /\ \A j \in 1 .. k : added[j] = {}
  <2>1. {} \in S
    OBVIOUS
  <2> HIDE DEF S
  <2>2. added = [j \in 1 .. k |-> added[j]] /\ \A j \in 1 .. k : added[j] = {}
    OBVIOUS
  <2> HIDE DEF added
  <2>3. added \in Seq(S) /\ Len(added) = k
    <3>1. PICK m \in Nat : m = k
      BY <1>0
    <3>2. PICK f : f = added
      OBVIOUS
    <3>3. DOMAIN f = 1 .. m /\ f = [j \in DOMAIN f |-> f[j]] /\ \A j \in 1 .. m : f[j] \in S
      BY <2>1, <2>2, <3>1, <3>2
    <3>4. f \in Seq(S) /\ Len(f) = m
      BY <3>3, IsSequence
    <3> QED BY <3>1, <3>2, <3>4
  <2> QED BY <2>2, <2>3
<1> HIDE DEF S, added
<1> DEFINE both == answers \o added
<1>3. both \in Seq(S) /\ DOMAIN both = 1 .. (n + k)
  BY <1>1, <1>2
<1>4. ASSUME NEW r \in 1 .. (n + k) PROVE both[r] = ext[r]
  <2>1. CASE r \in 1 .. n
    <3>1. both[r] = answers[r]
      BY <1>0, <1>1, <1>2, <2>1
    <3>2. ext[r] = answers[r]
      BY <2>1 DEF Extends
    <3> HIDE DEF both
    <3> QED BY <3>1, <3>2
  <2>2. CASE r \in (n + 1) .. (n + k)
    <3>1. r - n \in 1 .. k
      BY <1>0, <2>2
    <3>2. both[r] = added[r - n]
      BY <1>0, <1>1, <1>2, <2>2, <3>1
    <3>3. ext[r] = {}
      BY <2>2 DEF Extends
    <3> HIDE DEF both
    <3> QED BY <1>2, <3>1, <3>2, <3>3
  <2>3. r \in 1 .. n \/ r \in (n + 1) .. (n + k)
    BY <1>0
  <2> QED BY <2>1, <2>2, <2>3
<1> HIDE DEF both
<1>5. both = ext
  BY <1>3, <1>4
<1> QED BY <1>5 DEF both, added

\* Every step that keeps the invariant is a step of FreshestAnswer or leaves its variables alone.
LEMMA Refines == IInv /\ IInv' /\ (Asked \/ Same \/ Came) => [Freshest!Next]_(Freshest!avars)
<1> SUFFICES ASSUME IInv, IInv', Asked \/ Same \/ Came PROVE [Freshest!Next]_(Freshest!avars)
  OBVIOUS
<1>1. balances.exposed = Freshest!View(Given)
  BY ShownIsView
<1>2. (balances.exposed = Freshest!View(Given))'
  BY ShownIsView, PTL
<1>3. CASE Same
  BY <1>3 DEF Same, Given, Freshest!avars
<1>4. CASE Asked
  <2>1. PICK k \in 1 .. 2 : Extends(Given', Given, Len(requests), k)
    BY <1>4 DEF Asked
  <2>2. Given' = Given \o [j \in 1 .. k |-> {}]
    <3>1. PICK g : g = Given
      OBVIOUS
    <3>2. PICK h : h = Given' /\ Extends(h, g, Len(requests), k)
      BY <2>1, <3>1
    <3>3. Len(requests) \in Nat /\ DOMAIN requests = 1 .. Len(requests)
      BY Positions DEF IInv
    <3>4. g = [r \in 1 .. Len(requests) |-> g[r]] /\ DOMAIN g = 1 .. Len(requests)
      BY <3>1, <3>3 DEF Given
    <3>5. h = [r \in DOMAIN h |-> h[r]]
      BY <3>2 DEF Given
    <3>6. DOMAIN h = 1 .. (Len(requests) + k)
      BY <3>2 DEF Extends
    <3>7. h = g \o [j \in 1 .. k |-> {}]
      BY <3>2, <3>3, <3>4, <3>5, <3>6, AskStep
    <3> QED BY <3>1, <3>2, <3>7
  <2>3. UNCHANGED balances.exposed
    BY <1>4 DEF Asked
  <2> QED BY <2>2, <2>3 DEF Freshest!Next, Freshest!Ask, Given
<1>5. CASE Came
  <2>1. PICK r \in DOMAIN requests : \E certified, mutation : Comes(Given, Given', r, certified, mutation)
    BY <1>5 DEF Came
  <2>2. PICK certified, mutation : Comes(Given, Given', r, certified, mutation)
    BY <2>1
  <2>3. /\ r \in DOMAIN Given /\ \A a \in Given[r] : ~a.certified
        /\ DOMAIN Given' = DOMAIN Given
        /\ \A s \in DOMAIN Given \ {r} : Given'[s] = Given[s]
        /\ Given'[r] # {}
    <3>1. r \in DOMAIN Given
      BY DEF Given
    <3>2. PICK h : h = Given' /\ Comes(Given, h, r, certified, mutation)
      BY <2>2
    <3>3. /\ \A a \in Given[r] : ~a.certified
          /\ DOMAIN h = DOMAIN Given
          /\ \A s \in DOMAIN Given \ {r} : h[s] = Given[s]
          /\ h[r] # {}
      BY <3>2 DEF Comes
    <3> QED BY <3>1, <3>2, <3>3
  <2> QED BY <1>2, <2>3 DEF Freshest!Next, Freshest!Answer, Given
<1> QED BY <1>3, <1>4, <1>5

\* The empty store of balances is an initial state of FreshestAnswer.
LEMMA RefinesInit == Init => Freshest!Init
<1> SUFFICES ASSUME Init PROVE Freshest!Init
  OBVIOUS
<1>1. requests = <<>> /\ balances = QueuedStoreOf(NoBalances)
  BY DEF Init, NoBalances
<1>2. Given = <<>>
  BY <1>1 DEF Given
<1>3. balances.exposed = NoBalances
  BY <1>1 DEF QueuedStoreOf
<1>4. Freshest!View(<<>>) = NoBalances
  <2>1. \A a : Freshest!Having(<<>>, a) = {}
    BY DEF Freshest!Having
  <2> QED BY <2>1 DEF Freshest!View, NoBalances
<1> QED BY <1>2, <1>3, <1>4 DEF Freshest!Init, Given

\* The balances store implements FreshestAnswer: whatever the order of the
\* answers, however long the queue and whichever spots stay in it after a
\* failure, what is shown is the last answer in the order of the requests.
THEOREM FreshestIsShown == Spec => ShowsFreshestAnswer
<1>1. IInv /\ IInv' /\ [Next]_vars => [Freshest!Next]_(Freshest!avars)
  BY Inductive, Refines
<1> QED BY <1>1, RefinesInit, InvariantHolds, PTL DEF Spec, ShowsFreshestAnswer, Freshest!Spec

----------------------------------------------------------------------------
(***************************************************************************)
(* Operations with hardware wallets (HardwareWallet).                      *)
(***************************************************************************)
Plugs == {{}} \cup {{w} : w \in Wallets}
Signatures == [key : Plugs, content : Contents, stakeTransfer : BOOLEAN]
KeptSignatures == [body : Contents, signature : Signatures]
Operations ==
    [step : {"idle", "create", "show", "ready", "version", "sign", "called"}, kind : Kinds,
     account : Plugs, key : Plugs, flag : BOOLEAN, todo : Seq({"plain", "stake"}),
     request : SUBSET Contents, cache : SUBSET KeptSignatures]

\* An operation on an account has the key of the wallet of that account.
OfItsAccount(op) ==
    /\ op.step = "idle" \/ (op.account # {} <=> op.kind \in OfAccount)
    /\ op.step \in {"idle", "create"} \/ op.account \in {{}, op.key}

\* The wallet is to be told of a stake transfer when that is the next call.
StakeIsFirst(op) ==
    /\ \A i \in 2 .. Len(op.todo) : op.todo[i] # "stake"
    /\ op.step = "create" => op.todo = Script(op.kind)
    /\ op.step = "ready" => (op.flag <=> op.todo # <<>> /\ op.todo[1] = "stake")
    /\ op.step \in {"version", "sign", "called"} => op.todo # <<>>
    /\ op.step = "called" => ~op.flag

VersionWasRead(op) == op.step \in {"sign", "called"} => ~(op.key \subseteq OldApps)

\* Signatures that are kept are of the wallet, and of what is kept with them; a call that is
\* polled has one.
KeptFor(key, e) ==
    e.signature.key = key /\ e.signature.content = e.body /\ e.body.type = "read_state"
SignaturesAreKept(op) ==
    /\ op.step = "create" => op.cache = {}
    /\ \A e \in op.cache : KeptFor(op.key, e)
    /\ op.step = "called" =>
           \E c \in Contents, e \in op.cache : op.request = {c} /\ e.body = ReadStateOf(c)

OperationIsSound(op) ==
    /\ op \in Operations
    /\ OfItsAccount(op) /\ StakeIsFirst(op) /\ VersionWasRead(op) /\ SignaturesAreKept(op)

\* A call that is about to be signed was not confirmed before.
ToSign == {"version", "sign"}
IsNew(op, n, confirmed) ==
    op.step \in ToSign =>
        \E c \in Contents :
            /\ op.request = {c} /\ c.type = "call" /\ c.call <= n
            /\ confirmed[c.call] = 0
            /\ op.flag <=> c.purpose = "stake"

\* What the tabs and the wallet keep.
WalletInv ==
    /\ plugged \in Plugs /\ inUse \subseteq Tabs /\ attached \subseteq Wallets
    /\ calls \in 0 .. MaxCalls /\ confirmations \in [1 .. MaxCalls -> {0, 1}]
    /\ \A n \in 1 .. MaxCalls : n > calls => confirmations[n] = 0
    /\ operations = [t \in Tabs |-> operations[t]]
    /\ \A t \in Tabs : OperationIsSound(operations[t])
    /\ \A t \in Tabs : IsNew(operations[t], calls, confirmations)
    /\ \A t, u \in Tabs : \A c \in operations[t].request, d \in operations[u].request :
           t # u /\ operations[t].step \in ToSign /\ operations[u].step \in ToSign =>
               c.call # d.call
    /\ SignedByItsWallet /\ StakesAreFlagged /\ TransportIsFreed

-----------------------------------------------------------------------------
\* Nothing is being done.
LEMMA NoOperationIsSound == OperationIsSound(NoOperation) /\ NoOperation.step = "idle"
<1>1. NoOperation \in Operations /\ NoOperation.step = "idle" /\ NoOperation.cache = {}
      /\ NoOperation.todo = <<>> /\ NoOperation.key = {}
  <2>1. "show" \in Kinds /\ {} \in Plugs /\ <<>> \in Seq({"plain", "stake"})
    BY DEF Kinds, Plugs
  <2> QED BY <2>1 DEF NoOperation, Operations
<1> HIDE DEF NoOperation
<1> QED BY <1>1
        DEF OperationIsSound, OfItsAccount, StakeIsFirst, VersionWasRead, SignaturesAreKept

\* The calls of an operation: a stake transfer comes first, if there is one.
LEMMA ScriptOfKind ==
    ASSUME NEW kind \in Kinds
    PROVE  /\ Script(kind) \in Seq({"plain", "stake"})
           /\ \A i \in 2 .. Len(Script(kind)) : Script(kind)[i] # "stake"
<1>1. Script(kind) \in {<<>>, <<"plain">>, <<"stake">>, <<"stake", "plain">>}
  BY DEF Script
<1>2. ASSUME NEW s \in {<<>>, <<"plain">>, <<"stake">>, <<"stake", "plain">>}
      PROVE  s \in Seq({"plain", "stake"}) /\ \A i \in 2 .. Len(s) : s[i] # "stake"
  <2>1. CASE s = <<>>
    BY <2>1
  <2>2. CASE s = <<"plain">>
    BY <2>2
  <2>3. CASE s = <<"stake">>
    BY <2>3
  <2>4. CASE s = <<"stake", "plain">>
    BY <2>4
  <2> QED BY <2>1, <2>2, <2>3, <2>4
<1> QED BY <1>1, <1>2

LEMMA StakeOfKind ==
    ASSUME NEW kind \in Kinds
    PROVE  kind \in {"stake", "stake public"} <=> Script(kind) # <<>> /\ Script(kind)[1] = "stake"
<1>1. CASE kind \in {"list", "transfer"}
  <2>1. Script(kind) = <<"plain">>
    BY <1>1 DEF Script
  <2>2. Script(kind)[1] = "plain"
    BY <2>1
  <2>3. kind \notin {"stake", "stake public"}
    BY <1>1
  <2> QED BY <2>2, <2>3
<1>2. CASE kind \in {"stake", "stake public"}
  <2>1. Script(kind) = <<"stake">> \/ Script(kind) = <<"stake", "plain">>
    BY <1>2 DEF Script
  <2>2. Script(kind)[1] = "stake" /\ Script(kind) # <<>>
    BY <2>1
  <2> QED BY <1>2, <2>2
<1>3. CASE kind \in {"show", "register"}
  <2>1. Script(kind) = <<>>
    BY <1>3 DEF Script
  <2>2. kind \notin {"stake", "stake public"}
    BY <1>3
  <2> QED BY <2>1, <2>2
<1> QED BY <1>1, <1>2, <1>3 DEF Kinds, OfAccount

\* An operation goes on, and is not about to sign another call than before.
LEMMA OneOperation ==
    ASSUME WalletInv, NEW t \in Tabs, NEW op, OperationIsSound(op),
           operations' = [operations EXCEPT ![t] = op],
           op.step \in ToSign =>
               /\ operations[t].step \in ToSign
               /\ op.request = operations[t].request
               /\ op.flag <=> operations[t].flag,
           inUse' = {} \/ (inUse' = inUse /\ t \notin inUse),
           plugged' = plugged, attached' \subseteq Wallets,
           UNCHANGED <<calls, confirmations, submitted>>
    PROVE  WalletInv'
<1>1. operations'[t] = op /\ (\A u \in Tabs \ {t} : operations'[u] = operations[u])
      /\ operations' = [u \in Tabs |-> operations'[u]]
  BY DEF WalletInv
<1>2. \A u \in Tabs : OperationIsSound(operations'[u])
  BY <1>1 DEF WalletInv
<1>3. \A u \in Tabs : IsNew(operations'[u], calls, confirmations)
  <2>1. \A u \in Tabs : IsNew(operations[u], calls, confirmations)
    BY DEF WalletInv
  <2>2. IsNew(op, calls, confirmations)
    BY <2>1 DEF IsNew
  <2> QED BY <1>1, <2>1, <2>2
<1>4. \A u, v \in Tabs : \A c \in operations'[u].request, d \in operations'[v].request :
          u # v /\ operations'[u].step \in ToSign /\ operations'[v].step \in ToSign =>
              c.call # d.call
  <2> SUFFICES ASSUME NEW u \in Tabs, NEW v \in Tabs, NEW c \in operations'[u].request,
                      NEW d \in operations'[v].request, u # v,
                      operations'[u].step \in ToSign, operations'[v].step \in ToSign
               PROVE  c.call # d.call
    OBVIOUS
  <2>1. c \in operations[u].request /\ operations[u].step \in ToSign
    BY <1>1
  <2>2. d \in operations[v].request /\ operations[v].step \in ToSign
    BY <1>1
  <2> QED BY <2>1, <2>2 DEF WalletInv
<1>5. SignedByItsWallet' /\ StakesAreFlagged'
  BY DEF WalletInv, SignedByItsWallet, StakesAreFlagged
<1>6. TransportIsFreed' /\ inUse' \subseteq Tabs
  BY <1>1 DEF WalletInv, TransportIsFreed
<1>7. calls' = calls /\ confirmations' = confirmations /\ plugged' = plugged
  OBVIOUS
<1>8. /\ plugged \in Plugs
      /\ calls \in 0 .. MaxCalls /\ confirmations \in [1 .. MaxCalls -> {0, 1}]
      /\ \A n \in 1 .. MaxCalls : n > calls => confirmations[n] = 0
  BY DEF WalletInv
<1> QED BY <1>1, <1>2, <1>3, <1>4, <1>5, <1>6, <1>7, <1>8 DEF WalletInv

\* An operation ends, and has closed the transport.
LEMMA OperationEnds ==
    ASSUME WalletInv, NEW t \in Tabs, Ends(t),
           inUse' = {} \/ (inUse' = inUse /\ t \notin inUse),
           plugged' = plugged, attached' \subseteq Wallets,
           UNCHANGED <<calls, confirmations, submitted>>
    PROVE  WalletInv'
<1>1. operations' = [operations EXCEPT ![t] = NoOperation]
  BY DEF Ends
<1>2. OperationIsSound(NoOperation) /\ ~(NoOperation.step \in ToSign)
  BY NoOperationIsSound DEF ToSign
<1> QED BY <1>1, <1>2, OneOperation

LEMMA WalletInitInv == InitWallets => WalletInv
<1> SUFFICES ASSUME InitWallets PROVE WalletInv
  OBVIOUS
<1>1. \A t \in Tabs : operations[t] = NoOperation
  BY DEF InitWallets
<1>2. \A t \in Tabs : OperationIsSound(operations[t]) /\ operations[t].step = "idle"
  BY <1>1, NoOperationIsSound
<1>3. \A t \in Tabs : ~(operations[t].step \in ToSign)
  BY <1>2 DEF ToSign
<1>4. \A t \in Tabs : IsNew(operations[t], calls, confirmations)
  BY <1>3 DEF IsNew
<1>5. plugged \in Plugs /\ inUse \subseteq Tabs /\ attached \subseteq Wallets
  BY DEF InitWallets, Plugs
<1>6. /\ calls \in 0 .. MaxCalls /\ confirmations \in [1 .. MaxCalls -> {0, 1}]
      /\ \A n \in 1 .. MaxCalls : n > calls => confirmations[n] = 0
  BY HardwareWalletAssumption DEF InitWallets
<1>7. SignedByItsWallet /\ StakesAreFlagged /\ TransportIsFreed
  BY DEF InitWallets, SignedByItsWallet, StakesAreFlagged, TransportIsFreed
<1>8. operations = [t \in Tabs |-> operations[t]]
  BY DEF InitWallets
<1> QED BY <1>2, <1>3, <1>4, <1>5, <1>6, <1>7, <1>8 DEF WalletInv

-----------------------------------------------------------------------------
\* What is known of an operation.
LEMMA OperationAt ==
    ASSUME WalletInv, NEW t \in Tabs
    PROVE  /\ operations[t] \in Operations
           /\ OfItsAccount(operations[t]) /\ StakeIsFirst(operations[t])
           /\ VersionWasRead(operations[t]) /\ SignaturesAreKept(operations[t])
           /\ IsNew(operations[t], calls, confirmations)
           /\ t \in inUse => operations[t].step \in SessionSteps
BY DEF WalletInv, OperationIsSound, TransportIsFreed

LEMMA StartKeepsInv ==
    ASSUME WalletInv, NEW t \in Tabs, NEW kind \in Kinds,
           NEW account \in {{}} \cup {{w} : w \in Wallets}, StartOperation(t, kind, account)
    PROVE  WalletInv'
<1> DEFINE op == [NoOperation EXCEPT !.step = "create", !.kind = kind, !.account = account,
                                     !.todo = Script(kind)]
<1>1. /\ op.step = "create" /\ op.kind = kind /\ op.account = account /\ op.key = {}
      /\ op.todo = Script(kind) /\ op.cache = {}
  BY DEF NoOperation
<1>2. op \in Operations
  <2>1. Script(kind) \in Seq({"plain", "stake"}) /\ account \in Plugs /\ {} \in Plugs
    BY ScriptOfKind DEF Plugs
  <2> QED BY <2>1 DEF NoOperation, Operations
<1>3. account # {} <=> kind \in OfAccount
  BY DEF StartOperation
<1>4. operations' = [operations EXCEPT ![t] = op]
  BY DEF StartOperation
<1>5. t \notin inUse
  BY OperationAt DEF StartOperation, SessionSteps
<1> HIDE DEF op
<1>6. OperationIsSound(op)
  <2>1. OfItsAccount(op)
    BY <1>1, <1>3 DEF OfItsAccount
  <2>2. StakeIsFirst(op)
    <3>1. \A i \in 2 .. Len(op.todo) : op.todo[i] # "stake"
      BY <1>1, ScriptOfKind
    <3> QED BY <1>1, <3>1 DEF StakeIsFirst
  <2>3. VersionWasRead(op) /\ SignaturesAreKept(op)
    BY <1>1 DEF VersionWasRead, SignaturesAreKept
  <2> QED BY <1>2, <2>1, <2>2, <2>3 DEF OperationIsSound
<1>7. ~(op.step \in ToSign)
  BY <1>1 DEF ToSign
<1>8. attached' \subseteq Wallets
  BY DEF StartOperation, WalletInv
<1> QED BY <1>4, <1>5, <1>6, <1>7, <1>8, OneOperation DEF StartOperation

LEMMA CreateKeepsInv ==
    ASSUME WalletInv, NEW t \in Tabs, CreateIdentity(t)
    PROVE  WalletInv'
<1> DEFINE o == operations[t]
           op == [o EXCEPT !.step = IF o.kind = "show" THEN "show" ELSE "ready",
                           !.key = plugged, !.flag = o.kind \in {"stake", "stake public"}]
<1>1. /\ inUse' = {} /\ plugged' = plugged /\ attached' \subseteq Wallets
      /\ UNCHANGED <<calls, confirmations, submitted>> /\ o.step = "create"
  BY DEF CreateIdentity, WalletInv
<1>2. CASE Ends(t)
  BY <1>1, <1>2, OperationEnds
<1>3. CASE ~(o.kind \in OfAccount /\ o.account # plugged)
  <2>1. operations' = [operations EXCEPT ![t] = op]
    BY <1>3 DEF CreateIdentity
  <2>2. /\ o \in Operations /\ OfItsAccount(o) /\ StakeIsFirst(o) /\ SignaturesAreKept(o)
        /\ plugged \in Plugs
    BY OperationAt DEF WalletInv
  <2> HIDE DEF o
  <2>3. /\ op.step = (IF o.kind = "show" THEN "show" ELSE "ready") /\ op.kind = o.kind
        /\ op.key = plugged /\ op.account = o.account /\ op.todo = o.todo
        /\ op.cache = o.cache /\ op.request = o.request
    BY <2>2 DEF Operations
  <2>4. op.flag <=> o.kind \in {"stake", "stake public"}
    BY <2>2 DEF Operations
  <2>5. op \in Operations
    <3>1. (o.kind \in {"stake", "stake public"}) \in BOOLEAN
      OBVIOUS
    <3>2. (IF o.kind = "show" THEN "show" ELSE "ready") \in {"show", "ready"}
      OBVIOUS
    <3>3. ASSUME NEW step \in {"show", "ready"}, NEW flag \in BOOLEAN
          PROVE  [o EXCEPT !.step = step, !.key = plugged, !.flag = flag] \in Operations
      BY <2>2 DEF Operations
    <3> QED BY <3>1, <3>2, <3>3
  <2> HIDE DEF op
  <2>6. op.step \in {"show", "ready"}
    BY <2>3
  <2>7. OfItsAccount(op)
    BY <1>1, <1>3, <2>2, <2>3 DEF OfItsAccount
  <2>8. StakeIsFirst(op)
    <3>1. o.kind \in Kinds /\ o.todo = Script(o.kind)
      BY <1>1, <2>2 DEF Operations, StakeIsFirst
    <3>2. op.flag <=> op.todo # <<>> /\ op.todo[1] = "stake"
      <4>1. o.kind \in {"stake", "stake public"} <=>
                Script(o.kind) # <<>> /\ Script(o.kind)[1] = "stake"
        BY <3>1, StakeOfKind
      <4>2. op.todo = Script(o.kind)
        BY <2>3, <3>1
      <4> QED BY <2>4, <4>1, <4>2
    <3>3. \A i \in 2 .. Len(op.todo) : op.todo[i] # "stake"
      <4>1. \A i \in 2 .. Len(Script(o.kind)) : Script(o.kind)[i] # "stake"
        BY <3>1, ScriptOfKind
      <4>2. op.todo = Script(o.kind)
        BY <2>3, <3>1
      <4> QED BY <4>1, <4>2
    <3> QED BY <2>6, <3>2, <3>3 DEF StakeIsFirst
  <2>9. VersionWasRead(op)
    BY <2>6 DEF VersionWasRead
  <2>10. SignaturesAreKept(op)
    BY <1>1, <2>2, <2>3, <2>6 DEF SignaturesAreKept
  <2>11. OperationIsSound(op)
    BY <2>5, <2>7, <2>8, <2>9, <2>10 DEF OperationIsSound
  <2>12. ~(op.step \in ToSign)
    BY <2>6 DEF ToSign
  <2> QED BY <1>1, <2>1, <2>11, <2>12, OneOperation
<1> QED BY <1>2, <1>3 DEF CreateIdentity

LEMMA VersionKeepsInv ==
    ASSUME WalletInv, NEW t \in Tabs, CheckVersion(t)
    PROVE  WalletInv'
<1> DEFINE o == operations[t]
           op == [o EXCEPT !.step = "sign"]
<1>1. /\ inUse' = {} /\ plugged' = plugged /\ attached' \subseteq Wallets
      /\ UNCHANGED <<calls, confirmations, submitted>>
      /\ o.step = "version" /\ o.key = plugged
  BY DEF CheckVersion, WithApp, WalletInv
<1>2. CASE Ends(t)
  BY <1>1, <1>2, OperationEnds
<1>3. CASE ~(plugged \subseteq OldApps)
  <2>1. operations' = [operations EXCEPT ![t] = op]
    BY <1>3 DEF CheckVersion
  <2>2. o \in Operations /\ OfItsAccount(o) /\ StakeIsFirst(o) /\ SignaturesAreKept(o)
    BY OperationAt
  <2> HIDE DEF o
  <2>3. /\ op.step = "sign" /\ op.kind = o.kind /\ op.key = o.key /\ op.account = o.account
        /\ op.todo = o.todo /\ op.cache = o.cache /\ op.request = o.request
    BY <2>2 DEF Operations
  <2>4. op.flag <=> o.flag
    BY <2>2 DEF Operations
  <2>5. op \in Operations
    BY <2>2 DEF Operations
  <2> HIDE DEF op
  <2>6. OfItsAccount(op) /\ StakeIsFirst(op)
    BY <1>1, <2>2, <2>3 DEF OfItsAccount, StakeIsFirst
  <2>7. VersionWasRead(op)
    BY <1>1, <1>3, <2>3 DEF VersionWasRead
  <2>8. SignaturesAreKept(op)
    BY <2>2, <2>3 DEF SignaturesAreKept
  <2>9. OperationIsSound(op)
    BY <2>5, <2>6, <2>7, <2>8 DEF OperationIsSound
  <2>10. o.step \in ToSign
    BY <1>1 DEF ToSign
  <2> QED BY <1>1, <2>1, <2>3, <2>4, <2>9, <2>10, OneOperation DEF o
<1> QED BY <1>2, <1>3 DEF CheckVersion

\* What a call that is about to be signed shows: no other tab has its number.
LEMMA NumberIsOwn ==
    ASSUME WalletInv, NEW t \in Tabs, NEW c \in operations[t].request,
           operations[t].step \in ToSign
    PROVE  \A u \in Tabs \ {t} : \A d \in operations[u].request :
               operations[u].step \in ToSign => c.call # d.call
BY DEF WalletInv

LEMMA MakeCallKeepsInv ==
    ASSUME WalletInv, NEW t \in Tabs, MakeCall(t)
    PROVE  WalletInv'
<1> DEFINE o == operations[t]
           n == calls + 1
           c == Content("call", n, Head(o.todo), 0)
           op == [o EXCEPT !.step = "version", !.request = {c}]
<1>1. /\ UNCHANGED <<plugged, inUse, attached, confirmations, submitted>>
      /\ calls' = n /\ calls < MaxCalls /\ o.step = "ready" /\ o.todo # <<>>
      /\ operations' = [operations EXCEPT ![t] = op]
  BY DEF MakeCall
<1>2. o \in Operations /\ OfItsAccount(o) /\ StakeIsFirst(o) /\ SignaturesAreKept(o)
  BY OperationAt
<1>3. calls \in 0 .. MaxCalls /\ MaxCalls \in Nat /\ confirmations \in [1 .. MaxCalls -> {0, 1}]
      /\ \A i \in 1 .. MaxCalls : i > calls => confirmations[i] = 0
  BY HardwareWalletAssumption DEF WalletInv
<1>4. n \in 1 .. MaxCalls /\ confirmations[n] = 0
  BY <1>1, <1>3
<1>5. o.todo \in Seq({"plain", "stake"}) /\ Head(o.todo) = o.todo[1]
      /\ o.todo[1] \in {"plain", "stake"}
  BY <1>1, <1>2 DEF Operations
<1> HIDE DEF o, n
<1>6. c \in Contents /\ c.type = "call" /\ c.call = n /\ c.purpose = o.todo[1]
  BY <1>4, <1>5 DEF Content, Contents
<1> HIDE DEF c
<1>7. /\ op.step = "version" /\ op.kind = o.kind /\ op.key = o.key /\ op.account = o.account
      /\ op.todo = o.todo /\ op.cache = o.cache /\ op.request = {c}
  BY <1>2 DEF Operations
<1>8. op.flag <=> o.flag
  BY <1>2 DEF Operations
<1>9. op \in Operations
  BY <1>2, <1>6 DEF Operations
<1> HIDE DEF op
<1>10. OperationIsSound(op)
  <2>1. OfItsAccount(op) /\ StakeIsFirst(op)
    BY <1>1, <1>2, <1>7 DEF OfItsAccount, StakeIsFirst
  <2>2. VersionWasRead(op) /\ SignaturesAreKept(op)
    BY <1>2, <1>7 DEF VersionWasRead, SignaturesAreKept
  <2> QED BY <1>9, <2>1, <2>2 DEF OperationIsSound
<1>11. o.flag <=> o.todo[1] = "stake"
  BY <1>1, <1>2 DEF StakeIsFirst
<1>12. IsNew(op, n, confirmations)
  <2>1. op.flag <=> c.purpose = "stake"
    BY <1>6, <1>8, <1>11
  <2>2. c.call <= n /\ confirmations[c.call] = 0
    BY <1>3, <1>4, <1>6
  <2> QED BY <1>6, <1>7, <2>1, <2>2 DEF IsNew
<1>13. /\ operations'[t] = op /\ \A u \in Tabs \ {t} : operations'[u] = operations[u]
       /\ operations' = [u \in Tabs |-> operations'[u]]
  BY <1>1 DEF WalletInv
<1>14. ASSUME NEW u \in Tabs \ {t}, NEW d \in operations[u].request, operations[u].step \in ToSign
       PROVE  d.call \in Nat /\ d.call < n
  <2>1. IsNew(operations[u], calls, confirmations) /\ operations[u] \in Operations
    BY OperationAt
  <2>2. PICK e \in Contents : operations[u].request = {e} /\ e.call <= calls
    BY <1>14, <2>1 DEF IsNew
  <2>3. d = e /\ d.call \in 1 .. MaxCalls
    BY <1>14, <2>2 DEF Contents
  <2> QED BY <1>3, <2>2, <2>3 DEF n
<1>15. \A u \in Tabs : OperationIsSound(operations'[u])
  BY <1>10, <1>13 DEF WalletInv
<1>16. \A u \in Tabs : IsNew(operations'[u], n, confirmations)
  <2> SUFFICES ASSUME NEW u \in Tabs PROVE IsNew(operations'[u], n, confirmations)
    OBVIOUS
  <2>1. CASE u = t
    BY <1>12, <1>13, <2>1
  <2>2. CASE u # t /\ operations[u].step \in ToSign
    <3>1. IsNew(operations[u], calls, confirmations)
      BY OperationAt
    <3>2. PICK e \in Contents :
              /\ operations[u].request = {e} /\ e.type = "call" /\ e.call <= calls
              /\ confirmations[e.call] = 0
              /\ operations[u].flag <=> e.purpose = "stake"
      BY <2>2, <3>1 DEF IsNew
    <3>3. e.call <= n
      <4>1. e.call \in 1 .. MaxCalls
        BY DEF Contents
      <4> QED BY <1>3, <3>2, <4>1 DEF n
    <3>4. IsNew(operations[u], n, confirmations)
      BY <3>2, <3>3 DEF IsNew
    <3> QED BY <1>13, <2>2, <3>4
  <2>3. CASE u # t /\ operations[u].step \notin ToSign
    BY <1>13, <2>3 DEF IsNew
  <2> QED BY <2>1, <2>2, <2>3
<1>17. \A u, v \in Tabs : \A x \in operations'[u].request, y \in operations'[v].request :
           u # v /\ operations'[u].step \in ToSign /\ operations'[v].step \in ToSign =>
               x.call # y.call
  <2> SUFFICES ASSUME NEW u \in Tabs, NEW v \in Tabs, NEW x \in operations'[u].request,
                      NEW y \in operations'[v].request, u # v,
                      operations'[u].step \in ToSign, operations'[v].step \in ToSign
               PROVE  x.call # y.call
    OBVIOUS
  <2>1. CASE u = t
    <3>1. x.call = n
      BY <1>6, <1>7, <1>13, <2>1
    <3>2. y.call \in Nat /\ y.call < n
      BY <1>13, <1>14, <2>1
    <3> QED BY <3>1, <3>2
  <2>2. CASE v = t
    <3>1. y.call = n
      BY <1>6, <1>7, <1>13, <2>2
    <3>2. x.call \in Nat /\ x.call < n
      BY <1>13, <1>14, <2>2
    <3> QED BY <3>1, <3>2
  <2>3. CASE u # t /\ v # t
    BY <1>13, <2>3 DEF WalletInv
  <2> QED BY <2>1, <2>2, <2>3
<1>18. SignedByItsWallet' /\ StakesAreFlagged'
  BY <1>1 DEF WalletInv, SignedByItsWallet, StakesAreFlagged
<1>19. TransportIsFreed'
  <2>1. t \notin inUse
    BY <1>1, OperationAt DEF SessionSteps, o
  <2> QED BY <1>1, <1>13, <2>1 DEF WalletInv, TransportIsFreed
<1>20. \A i \in 1 .. MaxCalls : i > n => confirmations[i] = 0
  BY <1>3 DEF n
<1>21. plugged' \in Plugs /\ inUse' \subseteq Tabs /\ attached' \subseteq Wallets
       /\ calls' \in 0 .. MaxCalls /\ confirmations' \in [1 .. MaxCalls -> {0, 1}]
  BY <1>1, <1>3, <1>4 DEF WalletInv
<1> QED BY <1>1, <1>13, <1>15, <1>16, <1>17, <1>18, <1>19, <1>20, <1>21 DEF WalletInv

\* The request that reads the state of a call.
LEMMA ReadStateIsContent ==
    ASSUME NEW c \in Contents, NEW expiry \in {0, 1}
    PROVE  /\ ReadStateOf(c) \in Contents /\ ReadStateOf(c).type = "read_state"
           /\ ReadStateOf(c).call = c.call
           /\ [[ReadStateOf(c) EXCEPT !.expiry = expiry] EXCEPT !.expiry = ReadStateOf(c).expiry]
                  = ReadStateOf(c)
           /\ [ReadStateOf(c) EXCEPT !.expiry = expiry].call = c.call
BY DEF ReadStateOf, Contents

LEMMA SignKeepsInv ==
    ASSUME WalletInv, NEW t \in Tabs, Sign(t)
    PROVE  WalletInv'
<1> DEFINE o == operations[t]
<1>1. /\ inUse' = {} /\ UNCHANGED <<plugged, attached, calls>>
      /\ o.step = "sign" /\ o.key = plugged
  BY DEF Sign, WithApp
<1>2. /\ o \in Operations /\ OfItsAccount(o) /\ StakeIsFirst(o) /\ VersionWasRead(o)
      /\ SignaturesAreKept(o) /\ IsNew(o, calls, confirmations)
  BY OperationAt
<1>3. PICK c \in Contents :
          /\ o.request = {c} /\ c.type = "call" /\ c.call <= calls
          /\ confirmations[c.call] = 0
          /\ o.flag <=> c.purpose = "stake"
  <2> HIDE DEF o
  <2> QED BY <1>1, <1>2 DEF IsNew, ToSign
<1> DEFINE rec == [account |-> o.account, sender |-> o.key, content |-> c,
                   signature |-> Signature(plugged, c, o.flag)]
           entry == [body |-> ReadStateOf(c),
                     signature |-> Signature(plugged, ReadStateOf(c), o.flag)]
           kept == {x \in o.cache : x.body.call # c.call} \cup {entry}
           op == [o EXCEPT !.step = "called", !.flag = FALSE, !.cache = kept]
<1>4. /\ submitted' = submitted \cup {rec}
      /\ confirmations' = [confirmations EXCEPT ![c.call] = confirmations[c.call] + 1]
      /\ operations' = [operations EXCEPT ![t] = op]
  <2>1. PICK content \in o.request :
            /\ Submit(o, content, Signature(plugged, content, o.flag))
            /\ confirmations' = [confirmations EXCEPT ![content.call] = @ + 1]
            /\ operations' = [operations EXCEPT
                   ![t].step = "called", ![t].flag = FALSE,
                   ![t].cache = IF content.type # "call" THEN @
                       ELSE {x \in @ : x.body.call # content.call} \cup
                            {[body |-> ReadStateOf(content),
                              signature |-> Signature(plugged, ReadStateOf(content), o.flag)]}]
    BY DEF Sign
  <2>2. content = c /\ content.type = "call"
    BY <1>3
  <2> QED BY <2>1, <2>2 DEF Submit
<1>5. calls \in 0 .. MaxCalls /\ MaxCalls \in Nat /\ confirmations \in [1 .. MaxCalls -> {0, 1}]
      /\ (\A i \in 1 .. MaxCalls : i > calls => confirmations[i] = 0)
      /\ plugged \in Plugs
  BY HardwareWalletAssumption DEF WalletInv
<1>6. c.call \in 1 .. MaxCalls
  BY DEF Contents
<1>7. entry \in KeptSignatures /\ KeptFor(plugged, entry) /\ entry.body = ReadStateOf(c)
  <2>1. o.flag \in BOOLEAN
    BY <1>2 DEF Operations
  <2>2. ReadStateOf(c) \in Contents /\ ReadStateOf(c).type = "read_state"
    BY ReadStateIsContent
  <2> HIDE DEF o
  <2>3. Signature(plugged, ReadStateOf(c), o.flag) \in Signatures
    BY <1>5, <2>1, <2>2 DEF Signature, Signatures
  <2>4. /\ Signature(plugged, ReadStateOf(c), o.flag).key = plugged
        /\ Signature(plugged, ReadStateOf(c), o.flag).content = ReadStateOf(c)
    BY DEF Signature
  <2> QED BY <2>2, <2>3, <2>4 DEF KeptSignatures, KeptFor
<1>8. /\ rec.account = o.account /\ rec.sender = plugged /\ rec.content = c
      /\ rec.signature.key = plugged /\ rec.signature.content = c
      /\ rec.signature.stakeTransfer <=> o.flag
  BY <1>1 DEF Signature
<1> HIDE DEF o, rec, entry
<1>9. kept \subseteq KeptSignatures /\ \A e \in kept : KeptFor(plugged, e)
  <2>1. o.cache \subseteq KeptSignatures /\ \A e \in o.cache : KeptFor(plugged, e)
    BY <1>1, <1>2 DEF Operations, SignaturesAreKept
  <2> QED BY <1>7, <2>1
<1>10. entry \in kept
  OBVIOUS
<1> HIDE DEF kept
<1>11. /\ op.step = "called" /\ op.kind = o.kind /\ op.key = o.key /\ op.account = o.account
       /\ op.todo = o.todo /\ op.cache = kept /\ op.request = o.request
  BY <1>2 DEF Operations
<1>12. ~op.flag
  BY <1>2 DEF Operations
<1>13. op \in Operations
  BY <1>2, <1>9 DEF Operations
<1> HIDE DEF op
<1>14. OperationIsSound(op)
  <2>1. OfItsAccount(op) /\ VersionWasRead(op)
    BY <1>1, <1>2, <1>11 DEF OfItsAccount, VersionWasRead
  <2>2. StakeIsFirst(op)
    BY <1>1, <1>2, <1>11, <1>12 DEF StakeIsFirst
  <2>3. SignaturesAreKept(op)
    BY <1>1, <1>3, <1>7, <1>9, <1>10, <1>11 DEF SignaturesAreKept
  <2> QED BY <1>13, <2>1, <2>2, <2>3 DEF OperationIsSound
<1>15. /\ operations'[t] = op /\ \A u \in Tabs \ {t} : operations'[u] = operations[u]
       /\ operations' = [u \in Tabs |-> operations'[u]]
  BY <1>4 DEF WalletInv
<1>16. \A u \in Tabs : OperationIsSound(operations'[u])
  BY <1>14, <1>15 DEF WalletInv
<1>17. /\ confirmations' \in [1 .. MaxCalls -> {0, 1}]
       /\ \A i \in 1 .. MaxCalls : i # c.call => confirmations'[i] = confirmations[i]
  <2>1. confirmations[c.call] + 1 = 1
    BY <1>3
  <2> QED BY <1>4, <1>5, <1>6, <2>1
<1>18. \A i \in 1 .. MaxCalls : i > calls => confirmations'[i] = 0
  BY <1>3, <1>5, <1>6, <1>17
<1>19. o.step \in ToSign /\ op.step \notin ToSign
  BY <1>1, <1>11 DEF ToSign
<1>20. \A u \in Tabs : IsNew(operations'[u], calls, confirmations')
  <2> SUFFICES ASSUME NEW u \in Tabs PROVE IsNew(operations'[u], calls, confirmations')
    OBVIOUS
  <2>1. CASE u = t
    BY <1>15, <1>19, <2>1 DEF IsNew
  <2>2. CASE u # t /\ operations[u].step \in ToSign
    <3>1. IsNew(operations[u], calls, confirmations)
      BY OperationAt
    <3>2. PICK e \in Contents :
              /\ operations[u].request = {e} /\ e.type = "call" /\ e.call <= calls
              /\ confirmations[e.call] = 0
              /\ operations[u].flag <=> e.purpose = "stake"
      BY <2>2, <3>1 DEF IsNew
    <3>3. c.call # e.call
      <4>1. c \in operations[t].request /\ operations[t].step \in ToSign
        BY <1>3, <1>19 DEF o
      <4> QED BY <2>2, <3>2, <4>1, NumberIsOwn
    <3>4. confirmations'[e.call] = 0
      <4>1. e.call \in 1 .. MaxCalls
        BY DEF Contents
      <4> QED BY <1>17, <3>2, <3>3, <4>1
    <3>5. IsNew(operations[u], calls, confirmations')
      BY <3>2, <3>4 DEF IsNew
    <3> QED BY <1>15, <2>2, <3>5
  <2>3. CASE u # t /\ operations[u].step \notin ToSign
    BY <1>15, <2>3 DEF IsNew
  <2> QED BY <2>1, <2>2, <2>3
<1>21. \A u, v \in Tabs : \A x \in operations'[u].request, y \in operations'[v].request :
           u # v /\ operations'[u].step \in ToSign /\ operations'[v].step \in ToSign =>
               x.call # y.call
  <2> SUFFICES ASSUME NEW u \in Tabs, NEW v \in Tabs, NEW x \in operations'[u].request,
                      NEW y \in operations'[v].request, u # v,
                      operations'[u].step \in ToSign, operations'[v].step \in ToSign
               PROVE  x.call # y.call
    OBVIOUS
  <2>1. u # t /\ v # t
    BY <1>15, <1>19
  <2> QED BY <1>15, <2>1 DEF WalletInv
<1>22. SignedByItsWallet'
  <2>1. o.account \in {{}, plugged} /\ ~(plugged \subseteq OldApps)
    BY <1>1, <1>2 DEF OfItsAccount, VersionWasRead
  <2>2. /\ rec.signature.key = rec.sender /\ rec.signature.content = rec.content
        /\ rec.account \in {{}, rec.sender} /\ ~(rec.sender \subseteq OldApps)
    BY <1>8, <2>1
  <2> QED BY <1>4, <2>2 DEF WalletInv, SignedByItsWallet
<1>23. StakesAreFlagged'
  <2>1. rec.signature.stakeTransfer <=> rec.content.purpose = "stake"
    BY <1>3, <1>8
  <2> QED BY <1>4, <2>1 DEF WalletInv, StakesAreFlagged
<1>24. TransportIsFreed' /\ inUse' \subseteq Tabs /\ attached' \subseteq Wallets
  BY <1>1 DEF WalletInv, TransportIsFreed
<1> QED BY <1>1, <1>5, <1>15, <1>16, <1>17, <1>18, <1>20, <1>21, <1>22, <1>23, <1>24 DEF WalletInv

\* A call that is polled has its signature, which is for what is sent.
LEMMA PollKeepsInv ==
    ASSUME WalletInv, NEW t \in Tabs, NEW expiry \in {0, 1}, Poll(t, expiry)
    PROVE  WalletInv'
<1> DEFINE o == operations[t]
<1>1. UNCHANGED <<plugged, inUse, attached, calls, confirmations>> /\ o.step = "called"
  BY DEF Poll
<1>2. /\ o \in Operations /\ OfItsAccount(o) /\ VersionWasRead(o) /\ SignaturesAreKept(o)
  BY OperationAt
<1>3. PICK c \in Contents, e \in o.cache : o.request = {c} /\ e.body = ReadStateOf(c)
  <2> HIDE DEF o
  <2> QED BY <1>1, <1>2 DEF SignaturesAreKept
<1> DEFINE content == [ReadStateOf(c) EXCEPT !.expiry = expiry]
<1>4. e \in Cached(o, content)
  <2>1. e.body.call = content.call /\ [content EXCEPT !.expiry = e.body.expiry] = e.body
    BY <1>3, ReadStateIsContent
  <2> HIDE DEF content, o
  <2> QED BY <2>1 DEF Cached
<1>5. operations' = operations /\ \E x \in Cached(o, content) : Submit(o, x.body, x.signature)
  <2>1. PICK request \in o.request :
            LET asked == [ReadStateOf(request) EXCEPT !.expiry = expiry]
                cached == Cached(o, asked)
            IN  IF cached # {}
                THEN /\ \E x \in cached : Submit(o, x.body, x.signature)
                     /\ UNCHANGED operations
                ELSE /\ operations' = [operations EXCEPT ![t].step = "version", ![t].request = {asked}]
                     /\ UNCHANGED submitted
    BY DEF Poll
  <2>2. request = c
    BY <1>3
  <2> QED BY <1>4, <2>1, <2>2
<1> HIDE DEF o, content
<1>6. PICK x \in Cached(o, content) : Submit(o, x.body, x.signature)
  BY <1>5
<1>7. x \in o.cache /\ KeptFor(o.key, x)
  BY <1>2, <1>6 DEF Cached, SignaturesAreKept
<1> DEFINE rec == [account |-> o.account, sender |-> o.key, content |-> x.body,
                   signature |-> x.signature]
<1>8. submitted' = submitted \cup {rec}
  BY <1>6 DEF Submit
<1>9. /\ rec.signature.key = rec.sender /\ rec.signature.content = rec.content
      /\ rec.account \in {{}, rec.sender} /\ ~(rec.sender \subseteq OldApps)
      /\ rec.content.type # "call"
  <2>1. o.account \in {{}, o.key} /\ ~(o.key \subseteq OldApps)
    BY <1>1, <1>2 DEF OfItsAccount, VersionWasRead
  <2>2. x.signature.key = o.key /\ x.signature.content = x.body /\ x.body.type = "read_state"
    BY <1>7 DEF KeptFor
  <2> QED BY <2>1, <2>2
<1> HIDE DEF rec
<1>10. SignedByItsWallet'
  BY <1>8, <1>9 DEF WalletInv, SignedByItsWallet
<1>11. StakesAreFlagged'
  BY <1>8, <1>9 DEF WalletInv, StakesAreFlagged
<1>12. operations' = operations
  BY <1>5
<1> QED BY <1>1, <1>10, <1>11, <1>12 DEF WalletInv, TransportIsFreed

LEMMA AnswerKeepsInv ==
    ASSUME WalletInv, NEW t \in Tabs, CallAnswered(t)
    PROVE  WalletInv'
<1> DEFINE o == operations[t]
           op == [o EXCEPT !.step = "ready", !.todo = Tail(o.todo)]
<1>1. /\ UNCHANGED <<plugged, inUse, attached, calls, confirmations, submitted>>
      /\ o.step = "called"
  BY DEF CallAnswered
<1>2. o \in Operations /\ OfItsAccount(o) /\ StakeIsFirst(o) /\ SignaturesAreKept(o)
  BY OperationAt
<1>3. t \notin inUse
  BY <1>1, OperationAt DEF SessionSteps
<1>4. attached' \subseteq Wallets
  BY <1>1 DEF WalletInv
<1>5. CASE Ends(t)
  BY <1>1, <1>3, <1>4, <1>5, OperationEnds
<1>6. CASE Len(o.todo) # 1 /\ operations' = [operations EXCEPT ![t] = op]
  <2>1. o.todo \in Seq({"plain", "stake"}) /\ o.todo # <<>> /\ ~o.flag
        /\ \A i \in 2 .. Len(o.todo) : o.todo[i] # "stake"
    BY <1>1, <1>2 DEF Operations, StakeIsFirst
  <2> HIDE DEF o
  <2>2. /\ Tail(o.todo) \in Seq({"plain", "stake"}) /\ Len(Tail(o.todo)) = Len(o.todo) - 1
        /\ \A i \in 1 .. Len(Tail(o.todo)) : Tail(o.todo)[i] = o.todo[i + 1]
    BY <2>1
  <2>3. \A i \in 1 .. Len(Tail(o.todo)) : Tail(o.todo)[i] # "stake"
    BY <2>1, <2>2
  <2>4. Len(Tail(o.todo)) >= 1
    <3>1. Len(o.todo) \in Nat /\ Len(o.todo) # 0
      BY <2>1
    <3>2. Len(o.todo) # 1
      BY <1>6 DEF o
    <3>3. Len(o.todo) - 1 >= 1
      <4>1. \A n \in Nat : n # 0 /\ n # 1 => n - 1 >= 1
        OBVIOUS
      <4> QED BY <3>1, <3>2, <4>1, Zenon
    <3>4. Len(Tail(o.todo)) = Len(o.todo) - 1
      BY <2>2
    <3> QED BY <3>3, <3>4
  <2>5. /\ op.step = "ready" /\ op.kind = o.kind /\ op.key = o.key /\ op.account = o.account
        /\ op.todo = Tail(o.todo) /\ op.cache = o.cache /\ op.request = o.request
    BY <1>2 DEF Operations
  <2>6. ~op.flag
    BY <1>2, <2>1 DEF Operations
  <2>7. op \in Operations
    BY <1>2, <2>2 DEF Operations
  <2> HIDE DEF op
  <2>8. OfItsAccount(op) /\ VersionWasRead(op) /\ SignaturesAreKept(op)
    BY <1>1, <1>2, <2>5 DEF OfItsAccount, VersionWasRead, SignaturesAreKept
  <2>9. StakeIsFirst(op)
    <3>1. op.todo[1] # "stake"
      BY <2>3, <2>4, <2>5
    <3>2. \A i \in 2 .. Len(op.todo) : op.todo[i] # "stake"
      BY <2>3, <2>5
    <3> QED BY <2>5, <2>6, <3>1, <3>2 DEF StakeIsFirst
  <2>10. OperationIsSound(op) /\ ~(op.step \in ToSign)
    BY <2>5, <2>7, <2>8, <2>9 DEF OperationIsSound, ToSign
  <2>11. operations' = [operations EXCEPT ![t] = op]
    BY <1>6
  <2> QED BY <1>1, <1>3, <1>4, <2>10, <2>11, OneOperation
<1> QED BY <1>5, <1>6 DEF CallAnswered

\* The wallet is disconnected: an operation whose session was open ends.
LEMMA UnplugKeepsInv ==
    ASSUME WalletInv, Unplug
    PROVE  WalletInv'
<1>1. /\ plugged' = {} /\ inUse' = {}
      /\ operations' = [t \in Tabs |-> IF t \in inUse THEN NoOperation ELSE operations[t]]
      /\ UNCHANGED <<attached, calls, confirmations, submitted>>
  BY DEF Unplug
<1>2. \A t \in Tabs : operations'[t] = operations[t]
                      \/ (OperationIsSound(operations'[t]) /\ operations'[t].step \notin ToSign)
  <2>1. OperationIsSound(NoOperation) /\ NoOperation.step \notin ToSign
    BY NoOperationIsSound DEF ToSign
  <2> HIDE DEF NoOperation
  <2> QED BY <1>1, <2>1
<1>3. \A t \in Tabs : OperationIsSound(operations'[t])
  BY <1>2 DEF WalletInv
<1>4. \A t \in Tabs : IsNew(operations'[t], calls, confirmations)
  BY <1>2 DEF WalletInv, IsNew
<1>5. \A u, v \in Tabs : \A x \in operations'[u].request, y \in operations'[v].request :
           u # v /\ operations'[u].step \in ToSign /\ operations'[v].step \in ToSign =>
               x.call # y.call
  <2> SUFFICES ASSUME NEW u \in Tabs, NEW v \in Tabs, NEW x \in operations'[u].request,
                      NEW y \in operations'[v].request, u # v,
                      operations'[u].step \in ToSign, operations'[v].step \in ToSign
               PROVE  x.call # y.call
    OBVIOUS
  <2>1. operations'[u] = operations[u] /\ operations'[v] = operations[v]
    BY <1>2
  <2> QED BY <2>1 DEF WalletInv
<1>6. SignedByItsWallet' /\ StakesAreFlagged' /\ TransportIsFreed'
  BY <1>1 DEF WalletInv, SignedByItsWallet, StakesAreFlagged, TransportIsFreed
<1>7. operations' = [t \in Tabs |-> operations'[t]]
  BY <1>1
<1>8. plugged' \in Plugs /\ inUse' \subseteq Tabs /\ attached' \subseteq Wallets
  BY <1>1 DEF WalletInv, Plugs
<1>9. /\ calls \in 0 .. MaxCalls /\ confirmations \in [1 .. MaxCalls -> {0, 1}]
      /\ \A n \in 1 .. MaxCalls : n > calls => confirmations[n] = 0
  BY DEF WalletInv
<1> QED BY <1>1, <1>3, <1>4, <1>5, <1>6, <1>7, <1>8, <1>9 DEF WalletInv

LEMMA WalletNextInv == WalletInv /\ [NextWallets]_walletVars => WalletInv'
<1> SUFFICES ASSUME WalletInv, [NextWallets]_walletVars PROVE WalletInv'
  OBVIOUS
<1>1. CASE Unplug
  BY <1>1, UnplugKeepsInv
<1>2. ASSUME NEW w \in Wallets, Plug(w) PROVE WalletInv'
  <2>1. plugged' \in Plugs
    BY <1>2 DEF Plug, Plugs
  <2> QED BY <1>2, <2>1
          DEF Plug, WalletInv, SignedByItsWallet, StakesAreFlagged, TransportIsFreed
<1>3. ASSUME NEW t \in Tabs, NEW kind \in Kinds,
             NEW account \in {{}} \cup {{w} : w \in Wallets}, StartOperation(t, kind, account)
      PROVE  WalletInv'
  BY <1>3, StartKeepsInv
<1>4. ASSUME NEW t \in Tabs, Connect(t) PROVE WalletInv'
  <2>1. inUse' = {t} /\ operations[t].step \in SessionSteps
    BY <1>4 DEF Connect
  <2>2. TransportIsFreed' /\ inUse' \subseteq Tabs
    BY <1>4, <2>1 DEF Connect, TransportIsFreed
  <2> QED BY <1>4, <2>2 DEF Connect, WalletInv, SignedByItsWallet, StakesAreFlagged
<1>5. ASSUME NEW t \in Tabs, ConnectFails(t) PROVE WalletInv'
  <2>1. attached' \subseteq Wallets
    BY <1>5 DEF ConnectFails, WalletInv
  <2> QED BY <1>5, <2>1, OperationEnds DEF ConnectFails
<1>6. ASSUME NEW t \in Tabs, SessionFails(t) PROVE WalletInv'
  <2>1. attached' \subseteq Wallets
    BY <1>6 DEF SessionFails, WalletInv
  <2> QED BY <1>6, <2>1, OperationEnds DEF SessionFails
<1>7. ASSUME NEW t \in Tabs, UnexpectedWallet(t) PROVE WalletInv'
  <2>1. attached' \subseteq Wallets
    BY <1>7 DEF UnexpectedWallet, WalletInv
  <2> QED BY <1>7, <2>1, OperationEnds DEF UnexpectedWallet
<1>8. ASSUME NEW t \in Tabs, CreateIdentity(t) PROVE WalletInv'
  BY <1>8, CreateKeepsInv
<1>9. ASSUME NEW t \in Tabs, ShowAddress(t) PROVE WalletInv'
  <2>1. attached' \subseteq Wallets
    BY <1>9 DEF ShowAddress, WalletInv
  <2> QED BY <1>9, <2>1, OperationEnds DEF ShowAddress, WithApp
<1>10. ASSUME NEW t \in Tabs, RegisterHardwareWallet(t) PROVE WalletInv'
  <2>1. operations[t].key \in Plugs
    BY OperationAt DEF Operations
  <2>2. attached' \subseteq Wallets
    BY <1>10, <2>1 DEF RegisterHardwareWallet, WalletInv, Plugs
  <2>3. t \notin inUse
    BY <1>10, OperationAt DEF RegisterHardwareWallet, SessionSteps
  <2> QED BY <1>10, <2>2, <2>3, OperationEnds DEF RegisterHardwareWallet
<1>11. ASSUME NEW t \in Tabs, MakeCall(t) PROVE WalletInv'
  BY <1>11, MakeCallKeepsInv
<1>12. ASSUME NEW t \in Tabs, CheckVersion(t) PROVE WalletInv'
  BY <1>12, VersionKeepsInv
<1>13. ASSUME NEW t \in Tabs, Sign(t) PROVE WalletInv'
  BY <1>13, SignKeepsInv
<1>14. ASSUME NEW t \in Tabs, CallAnswered(t) PROVE WalletInv'
  BY <1>14, AnswerKeepsInv
<1>15. ASSUME NEW t \in Tabs, CallIsLost(t) PROVE WalletInv'
  <2>1. attached' \subseteq Wallets
    BY <1>15 DEF CallIsLost, WalletInv
  <2>2. t \notin inUse
    BY <1>15, OperationAt DEF CallIsLost, SessionSteps
  <2> QED BY <1>15, <2>1, <2>2, OperationEnds DEF CallIsLost
<1>16. ASSUME NEW t \in Tabs, NEW expiry \in {0, 1}, Poll(t, expiry) PROVE WalletInv'
  BY <1>16, PollKeepsInv
<1>17. CASE UNCHANGED walletVars
  BY <1>17 DEF walletVars, WalletInv, SignedByItsWallet, StakesAreFlagged, TransportIsFreed
<1> QED BY <1>1, <1>2, <1>3, <1>4, <1>5, <1>6, <1>7, <1>8, <1>9, <1>10, <1>11, <1>12, <1>13,
           <1>14, <1>15, <1>16, <1>17 DEF NextWallets

LEMMA WalletInvGivesSound == WalletInv => SigningIsSound
BY DEF WalletInv, SigningIsSound, ConfirmedOnce

\* Whichever wallets are connected while operations run in any number of tabs: each request is
\* signed by the wallet of its account, stake transfers are announced to it, the user confirms
\* a call once, and the transport is closed (LedgerIdentity).
THEOREM SigningSound == SpecWallets => []SigningIsSound
<1>1. SpecWallets => []WalletInv
  BY WalletInitInv, WalletNextInv, PTL DEF SpecWallets
<1> QED BY <1>1, WalletInvGivesSound, PTL
=============================================================================
