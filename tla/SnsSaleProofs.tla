--------------------------- MODULE SnsSaleProofs ---------------------------
(***************************************************************************)
(* Theorems about SnsSale for any number of tickets and of participations  *)
(* that run at the same time: the user pays a ticket once, a payment that  *)
(* the swap has not accepted belongs to its open ticket, and who took up a *)
(* ticket leaves none behind.                                              *)
(***************************************************************************)
EXTENDS SnsSale, FiniteSetTheorems, WellFoundedInduction, TLAPS

-----------------------------------------------------------------------------
(***************************************************************************)
(* The sum of the payments.  As no ticket is paid twice it is the number   *)
(* of the tickets that are paid.                                           *)
(***************************************************************************)

\* A nonempty set of numbers has a least element.
LEMMA LeastNumber ==
    ASSUME NEW T \in SUBSET Nat, T # {}
    PROVE  \E x \in T : \A y \in T : x <= y
<1> DEFINE R == OpToRel(<, Nat)
<1>1. IsWellFoundedOn(R, Nat)
  BY NatLessThanWellFounded
<1>2. R = {p \in Nat \X Nat : p[1] < p[2]}
  BY DEF OpToRel
<1>3. PICK x \in T : \A y \in T : ~(<<y, x>> \in R)
  <2> HIDE DEF R
  <2> QED BY <1>1, WFMin
<1>4. ASSUME NEW y \in T PROVE x <= y
  <2> HIDE DEF R
  <2>1. x \in Nat /\ y \in Nat
    OBVIOUS
  <2>2. ~(y < x)
    BY <1>2, <1>3, <2>1
  <2> QED BY <2>1, <2>2
<1> QED BY <1>4

Paid(p, s) == {t \in s : p[t] = 1}

\* Payments adds up the function of the payments as it counts them.
LEMMA SumIsCount ==
    ASSUME NEW D, IsFiniteSet(D), NEW p \in [D -> {0, 1}]
    PROVE  FoldFunction(+, 0, p) = Cardinality(Paid(p, D))
<1> DEFINE c(s) == CHOOSE x \in s : TRUE
           Step(g, s) == IF s = {} THEN 0 ELSE p[c(s)] + g[s \ {c(s)}]
           Sums(g) == g = [s \in SUBSET D |-> Step(g, s)]
           count == [s \in SUBSET D |-> Cardinality(Paid(p, s))]
           sum == CHOOSE g : Sums(g)
<1>1. \A s \in SUBSET D : s # {} => c(s) \in s /\ s \ {c(s)} \in SUBSET D
  OBVIOUS
<1>2. ASSUME NEW s \in SUBSET D, s # {}
      PROVE  count[s] = p[c(s)] + count[s \ {c(s)}] /\ count[s] \in Nat /\ count[s \ {c(s)}] \in Nat
  <2> DEFINE x == c(s)
  <2>1. x \in s /\ x \in D /\ s \ {x} \in SUBSET D
    BY <1>1, <1>2
  <2> HIDE DEF x, c
  <2>2. count[s] = Cardinality(Paid(p, s)) /\ count[s \ {x}] = Cardinality(Paid(p, s \ {x}))
    BY <2>1
  <2>3. IsFiniteSet(Paid(p, s)) /\ IsFiniteSet(Paid(p, s \ {x}))
    BY <2>1, FS_Subset DEF Paid
  <2>4. Cardinality(Paid(p, s)) \in Nat /\ Cardinality(Paid(p, s \ {x})) \in Nat
    BY <2>3, FS_CardinalityType
  <2>5. CASE p[x] = 1
    <3>1. Paid(p, s \ {x}) = Paid(p, s) \ {x} /\ x \in Paid(p, s)
      BY <2>1, <2>5 DEF Paid
    <3>2. Cardinality(Paid(p, s \ {x})) = Cardinality(Paid(p, s)) - 1
      BY ZenonT(60), <2>3, <3>1, FS_RemoveElement
    <3> HIDE DEF count
    <3> QED BY <2>2, <2>4, <2>5, <3>2 DEF x
  <2>6. CASE p[x] = 0
    <3>1. Paid(p, s \ {x}) = Paid(p, s)
      BY <2>1, <2>6 DEF Paid
    <3> HIDE DEF count
    <3> QED BY <2>2, <2>4, <2>6, <3>1 DEF x
  <2>7. p[x] \in {0, 1}
    BY <2>1
  <2> QED BY <2>5, <2>6, <2>7
<1>3. count[{}] = 0
  BY FS_EmptySet DEF Paid
<1>4. Sums(count)
  <2>1. \A s \in SUBSET D : count[s] = Step(count, s)
    BY <1>2, <1>3
  <2> QED BY <2>1
<1>5. Sums(sum)
  <2> HIDE DEF Sums, count
  <2> QED BY <1>4
<1>6. \A s \in SUBSET D : sum[s] = Step(sum, s)
  BY <1>5
<1>7. \A s \in SUBSET D : sum[s] = count[s]
  <2> DEFINE Differs == {n \in Nat : \E s \in SUBSET D : Cardinality(s) = n /\ sum[s] # count[s]}
  <2> HIDE DEF sum, count, c
  <2>1. SUFFICES ASSUME NEW s0 \in SUBSET D, sum[s0] # count[s0] PROVE FALSE
    OBVIOUS
  <2>2. Cardinality(s0) \in Differs
    BY <2>1, FS_Subset, FS_CardinalityType
  <2>3. PICK n \in Differs : \A m \in Differs : n <= m
    <3> HIDE DEF Differs
    <3>1. Differs \in SUBSET Nat
      BY DEF Differs
    <3> QED BY <2>2, <3>1, LeastNumber
  <2>4. PICK s \in SUBSET D : Cardinality(s) = n /\ sum[s] # count[s]
    BY <2>3
  <2>5. s # {}
    BY <1>3, <1>6, <2>4
  <2>6. Cardinality(s \ {c(s)}) = n - 1 /\ n \in Nat /\ n - 1 \in Nat
    <3>1. IsFiniteSet(s) /\ c(s) \in s
      BY <1>1, <2>5, FS_Subset
    <3>2. IsFiniteSet(s \ {c(s)}) /\ Cardinality(s \ {c(s)}) = Cardinality(s) - 1
      BY <3>1, FS_RemoveElement, FS_Subset
    <3>3. Cardinality(s) \in Nat /\ Cardinality(s \ {c(s)}) \in Nat
      BY <3>1, <3>2, FS_CardinalityType
    <3> QED BY <3>2, <3>3, <2>4
  <2>7. sum[s \ {c(s)}] = count[s \ {c(s)}]
    BY <1>1, <2>3, <2>5, <2>6
  <2>8. sum[s] = p[c(s)] + sum[s \ {c(s)}]
    BY <1>6, <2>5
  <2> QED BY <1>2, <2>4, <2>5, <2>7, <2>8
<1>8. FoldFunction(+, 0, p) = sum[D]
  BY DOMAIN p = D DEF FoldFunction, FoldFunctionOnSet, MapThenFoldSet
<1> QED BY <1>7, <1>8

-----------------------------------------------------------------------------
(***************************************************************************)
(* The inductive invariant.                                                *)
(***************************************************************************)

Tickets == 1 .. MaxTickets
WithTicket == {"transfer", "notify", "remove", "reload"}
FlowType ==
    [kind : {"none", "restore", "initiate"}, phase : {"none", "load", "new"} \cup WithTicket,
     ticket : 0 .. made, tooOld : BOOLEAN, here : BOOLEAN]

PageType == [open : BOOLEAN, restored : BOOLEAN]
StoreType == {<<>>} \cup {<<t>> : t \in 0 .. made}

\* PaidOnce is a part of it: a ticket is paid or not.
Types ==
    /\ open \in BOOLEAN /\ made \in 0 .. MaxTickets /\ ticket \in 0 .. made
    /\ paid \in [Tickets -> {0, 1}] /\ accepted \in 0 .. Payments
    /\ funds \in 0 .. 2 /\ old \subseteq 1 .. made
    /\ page \in PageType /\ store \in StoreType
    /\ flows \in [Flows -> FlowType]
    /\ stray \in BOOLEAN /\ lost \in 0 .. MaxLost /\ failures \in 0 .. MaxFailures

\* Only tickets that were made are paid.
LaterUnpaid == \A t \in Tickets : t > made => paid[t] = 0

\* What a participation knows of its ticket in each phase.
FlowOK(f) ==
    LET t == flows[f].ticket IN
    /\ (flows[f].phase \in WithTicket) = (t # 0)
    /\ In(f, "notify") => IF flows[f].tooOld THEN t \in old ELSE paid[t] = 1
    /\ In(f, "remove") => IF flows[f].tooOld THEN t \in old ELSE funds = 0 /\ paid[t] = 0
    /\ In(f, "reload") => t # ticket
FlowsOK == \A f \in Flows : FlowOK(f)

\* The payment of the open ticket is not accepted: else the ticket were gone.
OpenIsDue == open /\ ticket # 0 /\ paid[ticket] = 1 => Payments > accepted

\* As long as no ticket was removed in the place of another one: a ticket that is
\* not open is not paid any more, and a ticket too old is not removed if it is due.
Settled(f) ==
    LET t == flows[f].ticket IN
    /\ In(f, "transfer") /\ t # ticket => paid[t] = 1 \/ t \in old \/ funds = 0
    /\ In(f, "remove") /\ flows[f].tooOld /\ t = ticket => Payments = accepted
NothingStray == open /\ ~stray => PaymentIsKnown /\ \A f \in Flows : Settled(f)

IInv == Types /\ LaterUnpaid /\ FlowsOK /\ OpenIsDue /\ NothingStray

-----------------------------------------------------------------------------

\* The payments are as many as the paid tickets.
LEMMA PaymentsCount ==
    ASSUME paid \in [Tickets -> {0, 1}]
    PROVE  /\ IsFiniteSet(Paid(paid, Tickets)) /\ Payments = Cardinality(Paid(paid, Tickets))
           /\ Payments \in Nat
<1>1. IsFiniteSet(Tickets)
  BY SaleAssumption, FS_Interval DEF Tickets
<1>2. Payments = Cardinality(Paid(paid, Tickets))
  BY <1>1, SumIsCount DEF Payments
<1>3. IsFiniteSet(Paid(paid, Tickets))
  BY <1>1, FS_Subset DEF Paid
<1> QED BY <1>2, <1>3, FS_CardinalityType

\* The same of the next state.
LEMMA NextPaymentsCount ==
    ASSUME paid' \in [Tickets -> {0, 1}]
    PROVE  Payments' = Cardinality(Paid(paid', Tickets))
<1>1. IsFiniteSet(Tickets)
  BY SaleAssumption, FS_Interval DEF Tickets
<1> QED BY <1>1, SumIsCount DEF Payments, FoldFunction, FoldFunctionOnSet, MapThenFoldSet

\* The number of payments stays if no ticket is paid.
LEMMA SamePayments ==
    ASSUME Types, paid' = paid
    PROVE  Payments' = Payments /\ Payments \in Nat
BY PaymentsCount, NextPaymentsCount DEF Types

\* Paying an unpaid ticket makes one more payment.
LEMMA OneMorePayment ==
    ASSUME Types, NEW t \in Tickets, paid[t] = 0, paid' = [paid EXCEPT ![t] = 1]
    PROVE  Payments' = Payments + 1
<1>1. paid \in [Tickets -> {0, 1}] /\ paid' \in [Tickets -> {0, 1}]
  BY DEF Types
<1>2. Paid(paid', Tickets) = Paid(paid, Tickets) \cup {t} /\ t \notin Paid(paid, Tickets)
  BY <1>1 DEF Paid
<1> QED BY <1>1, <1>2, PaymentsCount, NextPaymentsCount, FS_AddElement

\* The invariant holds before the first ticket.
LEMMA InitIInv == Init => IInv
<1> SUFFICES ASSUME Init PROVE IInv
  OBVIOUS
<1>1. Types
  <2>1. NoFlow \in FlowType
    BY SaleAssumption DEF Init, FlowType, NoFlow, WithTicket
  <2>2. page \in PageType /\ store \in StoreType
    BY DEF Init, PageType, StoreType
  <2>3. paid \in [Tickets -> {0, 1}] /\ flows \in [Flows -> FlowType]
    BY <2>1 DEF Init, Tickets
  <2>4. 0 \in 0 .. MaxTickets /\ 0 \in 0 .. MaxLost /\ 0 \in 0 .. MaxFailures
    BY SaleAssumption
  <2>5. accepted \in 0 .. Payments
    BY <2>3, PaymentsCount DEF Init
  <2>6. funds \in 0 .. 2 /\ ticket \in 0 .. made /\ old \subseteq 1 .. made
    BY DEF Init
  <2> QED BY <2>2, <2>3, <2>4, <2>5, <2>6 DEF Init, Types
<1>2. Payments = 0
  <2>1. Paid(paid, Tickets) = {}
    BY DEF Init, Paid, Tickets
  <2> QED BY <1>1, <2>1, PaymentsCount, FS_EmptySet DEF Types
<1>3. LaterUnpaid /\ FlowsOK /\ OpenIsDue
  BY DEF Init, LaterUnpaid, Tickets, FlowsOK, FlowOK, In, NoFlow, WithTicket, OpenIsDue
<1>4. NothingStray
  BY <1>2 DEF Init, NothingStray, PaymentIsKnown, Settled, In, NoFlow
<1> QED BY <1>1, <1>3, <1>4 DEF IInv

-----------------------------------------------------------------------------
(***************************************************************************)
(* What no step takes back, and what therefore stays true of a             *)
(* participation that does not move.                                       *)
(***************************************************************************)

Onward ==
    /\ old \subseteq old' /\ \A t \in Tickets : paid[t] = 1 => paid'[t] = 1
    /\ funds = 0 => funds' = 0 /\ paid' = paid
    /\ ticket' \in {ticket, 0} \/ ticket' > made

Stays(f) ==
    \/ flows'[f].phase \notin WithTicket /\ flows'[f].ticket = 0
    \/ /\ flows'[f].phase = flows[f].phase /\ flows'[f].ticket = flows[f].ticket
       /\ flows'[f].tooOld = flows[f].tooOld

\* A step onward of one flow, or of the swap, leaves the others where they may be.
LEMMA FlowStays ==
    ASSUME Types, Types', Onward, NEW f \in Flows, FlowOK(f), Stays(f)
    PROVE  FlowOK(f)'
<1>1. flows[f] \in FlowType /\ flows[f].ticket \in 0 .. made /\ ticket \in 0 .. made /\ made \in 0 .. MaxTickets
  BY DEF Types, FlowType
<1>2. flows[f].ticket # 0 => flows[f].ticket \in Tickets
  BY <1>1, SaleAssumption DEF Tickets
<1>3. CASE flows'[f].phase \notin WithTicket /\ flows'[f].ticket = 0
  BY <1>3 DEF FlowOK, In, WithTicket
<1>4. CASE /\ flows'[f].phase = flows[f].phase /\ flows'[f].ticket = flows[f].ticket
           /\ flows'[f].tooOld = flows[f].tooOld
  <2>1. flows[f].ticket # 0 /\ flows[f].ticket # ticket => flows[f].ticket # ticket'
    BY <1>1 DEF Onward
  <2> QED BY <1>1, <1>2, <1>4, <2>1 DEF FlowOK, In, WithTicket, Onward
<1> QED BY <1>3, <1>4 DEF Stays

\* A transfer is made or not; if it is, for the first time.
LEMMA TransferMade ==
    ASSUME IInv, NEW t \in 1 .. made, Transferred(t)
    PROVE  \/ /\ Transfer(t) = "ok" /\ t \notin old /\ paid[t] = 0 /\ funds \in 1 .. 2
              /\ paid' = [paid EXCEPT ![t] = 1] /\ funds' = funds - 1 /\ old' = old
              /\ Payments' = Payments + 1
           \/ /\ Transfer(t) # "ok" /\ paid' = paid /\ funds' = funds /\ old' = old
              /\ Payments' = Payments
<1>1. t \in Tickets /\ paid \in [Tickets -> {0, 1}] /\ funds \in 0 .. 2
  BY SaleAssumption DEF IInv, Types, Tickets
<1>2. CASE Transfer(t) = "ok"
  <2>1. t \notin old /\ paid[t] = 0 /\ funds \in 1 .. 2
    BY <1>1, <1>2 DEF Transfer
  <2>2. paid' = [paid EXCEPT ![t] = 1] /\ funds' = funds - 1 /\ old' = old
    BY <1>1, <1>2, <2>1 DEF Transferred, SendICP
  <2>3. Payments' = Payments + 1
    BY <1>1, <2>1, <2>2, OneMorePayment DEF IInv
  <2> QED BY <1>2, <2>1, <2>2, <2>3
<1>3. CASE Transfer(t) # "ok"
  BY <1>3, SamePayments DEF Transferred, ledger, IInv, SendICP
<1> QED BY <1>2, <1>3

\* If no ticket was removed in the place of another one, a transfer is made for
\* the open ticket only, and then everything else was accepted.
LEMMA TransferIsForOpenTicket ==
    ASSUME IInv, NEW f \in Flows, In(f, "transfer"), Transfer(flows[f].ticket) = "ok", open, ~stray
    PROVE  flows[f].ticket = ticket
<1>1. flows[f].ticket \notin old /\ funds # 0 /\ ~(paid[flows[f].ticket] > 0)
  BY DEF Transfer
<1>2. Settled(f)
  BY DEF IInv, NothingStray
<1> QED BY <1>1, <1>2 DEF Settled, In

\* A step keeps what it neither takes back nor moves.
LEMMA Kept ==
    ASSUME IInv, Types', Onward, LaterUnpaid', OpenIsDue', NothingStray',
           \A f \in Flows : Stays(f) \/ FlowOK(f)'
    PROVE  IInv'
<1>1. \A f \in Flows : FlowOK(f)'
  <2> TAKE f \in Flows
  <2>1. CASE Stays(f)
    BY <2>1, FlowStays DEF IInv, FlowsOK
  <2> QED BY <2>1
<1> QED BY <1>1 DEF IInv, FlowsOK

\* A participation that goes on does so with the open ticket.
GoesOn(f) ==
    /\ FlowOK(f)' /\ flows'[f].phase # "remove"
    /\ flows'[f].phase = "transfer" => flows'[f].ticket = ticket

\* Steps of the page, and of participations that touch neither the swap nor the
\* ledger.
LEMMA QuietStep ==
    ASSUME IInv, UNCHANGED <<swap, ledger, stray>>,
           page' \in PageType, store' \in StoreType,
           flows' \in [Flows -> FlowType],
           lost' \in 0 .. MaxLost, failures' \in 0 .. MaxFailures,
           \A f \in Flows : Stays(f) \/ GoesOn(f)
    PROVE  IInv'
<1>1. Payments' = Payments /\ UNCHANGED <<open, ticket, made, accepted, paid, old, funds>>
  BY SamePayments DEF swap, ledger, IInv
<1>2. Types'
  <2>1. FlowType' = FlowType /\ StoreType' = StoreType
    BY <1>1 DEF FlowType, StoreType
  <2> QED BY <1>1, <2>1 DEF IInv, Types, PageType
<1>3. Onward
  BY <1>1 DEF Onward
<1>4. LaterUnpaid' /\ OpenIsDue'
  BY <1>1 DEF IInv, LaterUnpaid, OpenIsDue
<1>5. NothingStray'
  <2> SUFFICES ASSUME open, ~stray PROVE PaymentIsKnown' /\ \A f \in Flows : Settled(f)'
    BY <1>1 DEF NothingStray
  <2>1. PaymentIsKnown /\ \A f \in Flows : Settled(f)
    BY DEF IInv, NothingStray
  <2>2. PaymentIsKnown'
    BY <1>1, <2>1 DEF PaymentIsKnown
  <2>3. ASSUME NEW f \in Flows PROVE Settled(f)'
    <3>1. CASE Stays(f)
      BY <1>1, <2>1, <3>1 DEF Stays, Settled, In, WithTicket
    <3>2. CASE GoesOn(f)
      BY <1>1, <3>2 DEF Settled, In, GoesOn
    <3> QED BY <3>1, <3>2
  <2> QED BY <2>2, <2>3
<1>6. \A f \in Flows : Stays(f) \/ FlowOK(f)'
  BY DEF GoesOn
<1> QED BY <1>2, <1>3, <1>4, <1>5, <1>6, Kept

\* A participation ends, and the others stay as they are.
LEMMA EndStays ==
    ASSUME Types, NEW f \in Flows, End(f)
    PROVE  flows' \in [Flows -> FlowType] /\ \A g \in Flows : Stays(g)
<1>1. NoFlow \in FlowType
  BY SaleAssumption DEF NoFlow, FlowType, WithTicket, Types
<1>2. flows' \in [Flows -> FlowType]
  BY <1>1 DEF Types, End
<1>3. ASSUME NEW g \in Flows PROVE Stays(g)
  BY DEF Types, End, Stays, NoFlow, WithTicket
<1> QED BY <1>2, <1>3

\* The types that the steps of the page and of the participations change.
LEMMA PageAndStore ==
    ASSUME IInv
    PROVE  /\ Types /\ page \in PageType /\ store \in StoreType /\ flows \in [Flows -> FlowType]
           /\ lost \in 0 .. MaxLost /\ failures \in 0 .. MaxFailures /\ NoFlow \in FlowType
           /\ [open |-> TRUE, restored |-> FALSE] \in PageType /\ [open |-> FALSE, restored |-> FALSE] \in PageType
           /\ <<>> \in StoreType /\ <<0>> \in StoreType /\ ticket \in 0 .. made /\ made \in 0 .. MaxTickets
<1>1. Types
  BY DEF IInv
<1>2. made \in 0 .. MaxTickets /\ 0 \in 0 .. made
  BY <1>1, SaleAssumption DEF Types
<1>3. NoFlow \in FlowType
  BY <1>2 DEF FlowType, NoFlow, WithTicket
<1>4. /\ [open |-> TRUE, restored |-> FALSE] \in PageType /\ [open |-> FALSE, restored |-> FALSE] \in PageType
  BY DEF PageType
<1>5. <<>> \in StoreType /\ <<0>> \in StoreType
  BY <1>2 DEF StoreType
<1> QED BY <1>1, <1>2, <1>3, <1>4, <1>5 DEF Types

\* A participation starts in an idle place.
LEMMA StartStays ==
    ASSUME IInv, NEW f \in Idle, NEW kind \in {"restore", "initiate"}, NEW phase \in {"load", "new"},
           flows' = [flows EXCEPT ![f] = [NoFlow EXCEPT !.kind = kind, !.phase = phase, !.here = TRUE]]
    PROVE  flows' \in [Flows -> FlowType] /\ \A g \in Flows : Stays(g)
<1> DEFINE r == [NoFlow EXCEPT !.kind = kind, !.phase = phase, !.here = TRUE]
<1>1. r \in FlowType /\ r.phase \notin WithTicket /\ r.ticket = 0
  BY PageAndStore DEF FlowType, NoFlow, WithTicket
<1>2. flows' = [flows EXCEPT ![f] = r]
  OBVIOUS
<1> HIDE DEF r
<1>3. f \in Flows
  BY DEF Idle
<1>4. flows' \in [Flows -> FlowType]
  BY <1>1, <1>2, PageAndStore
<1>5. ASSUME NEW g \in Flows PROVE Stays(g)
  BY <1>1, <1>2, <1>3, PageAndStore DEF Stays
<1> QED BY <1>4, <1>5

\* Opening, leaving and reloading the page, and starting flows, keep the invariant.
LEMMA PageSteps ==
    ASSUME IInv, OpenPage \/ LeavePage \/ Reload \/ \E f \in Idle : Restore(f) \/ Initiate(f)
    PROVE  IInv'
<1>1. CASE OpenPage
  <2>1. \A f \in Flows : Stays(f)
    BY <1>1 DEF OpenPage, Stays
  <2> QED BY <1>1, <2>1, QuietStep, PageAndStore DEF OpenPage
<1>2. CASE LeavePage
  <2>1. \A f \in Flows : flows'[f] = [flows[f] EXCEPT !.here = FALSE] /\ flows[f] \in FlowType
    BY <1>2, PageAndStore DEF LeavePage
  <2>2. \A f \in Flows : flows'[f] \in FlowType /\ Stays(f)
    BY ZenonT(60), <2>1 DEF FlowType, Stays
  <2>3. flows' \in [Flows -> FlowType]
    BY <1>2, <2>2 DEF LeavePage
  <2> QED BY <1>2, <2>2, <2>3, QuietStep, PageAndStore DEF LeavePage
<1>3. CASE Reload
  <2>1. flows' \in [Flows -> FlowType]
    BY <1>3, PageAndStore DEF Reload
  <2>2. \A f \in Flows : Stays(f)
    BY <1>3 DEF Reload, Stays, NoFlow, WithTicket
  <2> QED BY <1>3, <2>1, <2>2, QuietStep, PageAndStore DEF Reload
<1>4. ASSUME NEW f \in Idle, Restore(f) PROVE IInv'
  <2>1. page' \in PageType
    BY <1>4, PageAndStore DEF Restore, PageType
  <2>2. flows' \in [Flows -> FlowType] /\ \A g \in Flows : Stays(g)
    <3>1. CASE UNCHANGED flows
      BY <3>1, PageAndStore DEF Stays
    <3>2. CASE ~UNCHANGED flows
      BY <1>4, <3>2, StartStays DEF Restore
    <3> QED BY <3>1, <3>2
  <2> QED BY <1>4, <2>1, <2>2, QuietStep, PageAndStore DEF Restore
<1>5. ASSUME NEW f \in Idle, Initiate(f) PROVE IInv'
  <2>1. flows' \in [Flows -> FlowType] /\ \A g \in Flows : Stays(g)
    BY <1>5, StartStays DEF Initiate
  <2> QED BY <1>5, <2>1, QuietStep, PageAndStore DEF Initiate
<1> QED BY <1>1, <1>2, <1>3, <1>4, <1>5

\* Loading the open ticket, reloading the balance and giving up keep the invariant.
LEMMA QuietFlowSteps ==
    ASSUME IInv, NEW f \in Flows, LoadOpenTicket(f) \/ ReloadBalance(f) \/ GivesUp(f)
    PROVE  IInv'
<1>1. CASE LoadOpenTicket(f) /\ open /\ ticket # 0
  <2>1. flows' = [flows EXCEPT ![f].phase = "transfer", ![f].ticket = ticket] /\ store' = <<ticket>>
    BY <1>1 DEF LoadOpenTicket, Participate, SetTicket, GetOpenTicket
  <2>2. flows' \in [Flows -> FlowType]
    <3>1. [flows[f] EXCEPT !.phase = "transfer", !.ticket = ticket] \in FlowType
      BY PageAndStore DEF FlowType, WithTicket
    <3> QED BY <2>1, <3>1, PageAndStore
  <2>3. \A g \in Flows : g # f => Stays(g)
    BY <2>1, PageAndStore DEF Stays
  <2>4. flows'[f].phase = "transfer" /\ flows'[f].ticket = ticket
    BY <2>1, PageAndStore DEF FlowType
  <2>5. GoesOn(f)
    BY <1>1, <2>4 DEF FlowOK, In, WithTicket, GoesOn
  <2>6. store' \in StoreType
    BY <2>1, PageAndStore DEF StoreType
  <2> QED BY <1>1, <2>2, <2>3, <2>4, <2>5, <2>6, QuietStep, PageAndStore DEF LoadOpenTicket, GetOpenTicket
<1>2. CASE LoadOpenTicket(f) /\ ~(open /\ ticket # 0)
  BY <1>2, EndStays, QuietStep, PageAndStore DEF LoadOpenTicket, SetNoTicket, GetOpenTicket
<1>3. CASE ReloadBalance(f)
  BY <1>3, EndStays, QuietStep, PageAndStore DEF ReloadBalance, SetNoTicket
<1>4. CASE GivesUp(f)
  <2>1. store' \in StoreType
    BY <1>4, PageAndStore DEF GivesUp, SetNoTicket
  <2>2. failures' \in 0 .. MaxFailures
    BY <1>4, PageAndStore, SaleAssumption DEF GivesUp
  <2> QED BY <1>4, <2>1, <2>2, EndStays, QuietStep, PageAndStore DEF GivesUp
<1> QED BY <1>1, <1>2, <1>3, <1>4

\* The end of the sale keeps the invariant.
LEMMA SwapClosesStep == ASSUME IInv, SwapCloses PROVE IInv'
<1>1. Types /\ Payments' = Payments /\ ~open'
  BY SamePayments DEF IInv, SwapCloses, ledger
<1>2. Types' /\ Onward /\ LaterUnpaid' /\ OpenIsDue' /\ NothingStray'
  BY <1>1 DEF SwapCloses, ledger, IInv, Types, FlowType, PageType, StoreType, Onward, LaterUnpaid, OpenIsDue, NothingStray
<1>3. \A f \in Flows : Stays(f)
  BY DEF SwapCloses, Stays
<1> QED BY <1>2, <1>3, Kept

\* A ticket that gets too old for the ledger keeps the invariant.
LEMMA TicketAgesStep == ASSUME IInv, TicketAges PROVE IInv'
<1>1. Types /\ Payments' = Payments /\ UNCHANGED <<open, ticket, made, accepted, paid, funds, flows, stray>>
  BY SamePayments DEF IInv, TicketAges, swap
<1>2. Types'
  <2>1. old' \subseteq 1 .. made
    BY <1>1, SaleAssumption DEF TicketAges, Types
  <2> QED BY <1>1, <2>1 DEF TicketAges, Types, FlowType, PageType, StoreType
<1>3. Onward /\ LaterUnpaid' /\ OpenIsDue'
  BY <1>1 DEF TicketAges, IInv, Onward, LaterUnpaid, OpenIsDue
<1>4. NothingStray'
  BY <1>1 DEF TicketAges, IInv, NothingStray, PaymentIsKnown, Settled, In
<1>5. \A f \in Flows : Stays(f)
  BY <1>1 DEF Stays
<1> QED BY <1>2, <1>3, <1>4, <1>5, Kept

\* A ticket is made only if there is none, and then it is not paid yet.
LEMMA NewTicketMade ==
    ASSUME IInv, NEW t, t = (IF ticket # 0 THEN ticket ELSE made + 1), t <= MaxTickets,
           ticket' = t, made' \in {made, t}, made <= made', t <= made',
           UNCHANGED <<open, accepted, ledger, page, stray>>
    PROVE  /\ Onward /\ LaterUnpaid' /\ OpenIsDue' /\ Payments' = Payments
           /\ made' \in made .. MaxTickets /\ t \in 1 .. made' /\ PaymentIsKnown' = PaymentIsKnown
<1>1. /\ made \in 0 .. MaxTickets /\ ticket \in 0 .. made /\ MaxTickets \in Nat
      /\ UNCHANGED <<open, accepted, paid, old, funds, stray>> /\ Payments' = Payments
  BY SaleAssumption, SamePayments DEF IInv, Types, ledger
<1>2. t \in Tickets /\ made' \in made .. MaxTickets /\ t \in 1 .. made'
  <2>1. t \in Nat /\ t # 0 /\ (made' = made \/ made' = t)
    BY <1>1
  <2> QED BY <1>1, <2>1 DEF Tickets
<1>3. Onward
  BY <1>1 DEF Onward
<1>4. LaterUnpaid'
  BY <1>1, <1>2 DEF IInv, LaterUnpaid, Tickets
<1>5. ticket # t => ticket = 0 /\ paid[t] = 0
  BY <1>1, <1>2 DEF IInv, LaterUnpaid
<1>6. OpenIsDue' /\ PaymentIsKnown' = PaymentIsKnown
  <2>1. CASE ticket = t
    BY <1>1, <2>1 DEF IInv, OpenIsDue, PaymentIsKnown
  <2>2. CASE ticket # t
    BY <1>1, <1>2, <1>5, <2>2 DEF OpenIsDue, PaymentIsKnown
  <2> QED BY <2>1, <2>2
<1> QED BY <1>1, <1>2, <1>3, <1>4, <1>6

\* A new ticket, or the refusal of one, keeps the invariant.
LEMMA LoadNewSaleTicketStep == ASSUME IInv, NEW f \in Flows, LoadNewSaleTicket(f) PROVE IInv'
<1> DEFINE t == IF ticket # 0 THEN ticket ELSE made + 1
<1>1. Types /\ flows \in [Flows -> FlowType] /\ ticket \in 0 .. made /\ made \in 0 .. MaxTickets /\ MaxTickets \in Nat
  BY SaleAssumption DEF IInv, Types
<1>2. CASE open /\ t <= MaxTickets
  <2>1. ticket' = t /\ made' = Max({made, t}) /\ store' = <<t>> /\ Participate(f, t)
    BY <1>2 DEF LoadNewSaleTicket, SetTicket, NewSaleTicket
  <2>2. made' \in {made, t} /\ made <= made' /\ t <= made'
    <3>1. made \in Int /\ t \in Int
      BY <1>1
    <3> HIDE DEF t
    <3>2. Max({made, t}) = IF made >= t THEN made ELSE t
      BY <3>1 DEF Max
    <3> QED BY <2>1, <3>1, <3>2
  <2>3. UNCHANGED <<open, accepted, paid, old, funds, page, stray, lost, failures>>
    BY DEF LoadNewSaleTicket, ledger, NewSaleTicket
  <2> HIDE DEF t
  <2>4. /\ Onward /\ LaterUnpaid' /\ OpenIsDue' /\ Payments' = Payments
        /\ made' \in made .. MaxTickets /\ t \in 1 .. made' /\ PaymentIsKnown' = PaymentIsKnown
    BY <1>2, <2>1, <2>2, <2>3, NewTicketMade DEF t, ledger
  <2>5. flows' \in [Flows -> FlowType'] /\ flows'[f].phase = "transfer" /\ flows'[f].ticket = t
    <3>1. FlowType' = [kind : {"none", "restore", "initiate"}, phase : {"none", "load", "new"} \cup WithTicket,
                       ticket : 0 .. made', tooOld : BOOLEAN, here : BOOLEAN]
      BY DEF FlowType, WithTicket
    <3>2. t \in 0 .. made' /\ 0 .. made \subseteq 0 .. made'
      BY <1>1, <2>4
    <3>3. \A r \in FlowType : [r EXCEPT !.phase = "transfer", !.ticket = t] \in FlowType' /\ r \in FlowType'
      BY <3>1, <3>2 DEF FlowType, WithTicket
    <3> QED BY ZenonT(60), <1>1, <2>1, <3>3 DEF Participate, FlowType
  <2>6. \A g \in Flows : g # f => flows'[g] = flows[g]
    BY <1>1, <2>1 DEF Participate
  <2>7. Types'
    <3>1. old' \subseteq 1 .. made'
      BY <1>1, <2>3, <2>4 DEF Types
    <3>2. page' \in PageType' /\ store' \in StoreType'
      BY <2>1, <2>3, <2>4, PageAndStore DEF PageType, StoreType
    <3> QED BY <1>1, <2>1, <2>3, <2>4, <2>5, <3>1, <3>2 DEF Types
  <2>8. FlowOK(f)' /\ \A g \in Flows : g # f => Stays(g)
    BY <2>4, <2>5, <2>6, <1>1 DEF FlowOK, In, WithTicket, Stays
  <2>9. NothingStray'
    <3> SUFFICES ASSUME open, ~stray PROVE PaymentIsKnown' /\ \A g \in Flows : Settled(g)'
      BY <2>3 DEF NothingStray
    <3>1. PaymentIsKnown' /\ \A g \in Flows : Settled(g)
      BY <2>4 DEF IInv, NothingStray
    <3>2. Settled(f)'
      BY <2>1, <2>5 DEF Settled, In
    <3>3. ASSUME NEW g \in Flows, g # f PROVE Settled(g)'
      <4>1. flows[g].ticket \in 0 .. made
        BY <1>1 DEF FlowType
      <4>2. Settled(g) /\ FlowOK(g) /\ flows'[g] = flows[g]
        BY <3>1, <3>3, <2>6 DEF IInv, FlowsOK
      <4>3. ticket' = ticket \/ (ticket = 0 /\ ticket' = made + 1)
        BY <2>1, <1>1 DEF t
      <4>4. flows[g].phase \in WithTicket => flows[g].ticket # 0
        BY <4>2 DEF FlowOK
      <4>5. flows[g].phase \in WithTicket => (flows[g].ticket = ticket' <=> flows[g].ticket = ticket /\ ticket' = ticket)
        BY <1>1, <4>1, <4>3, <4>4
      <4>6. Payments = accepted => Payments' = accepted'
        BY <2>3, <2>4
      <4> HIDE DEF t
      <4> QED BY <2>3, <4>2, <4>3, <4>4, <4>5, <4>6, <1>1, <4>1 DEF Settled, In, WithTicket
    <3> QED BY <3>1, <3>2, <3>3
  <2> QED BY <2>4, <2>7, <2>8, <2>9, Kept
<1>3. CASE ~(open /\ t <= MaxTickets)
  BY <1>3, EndStays, QuietStep, PageAndStore DEF LoadNewSaleTicket, SetNoTicket, swap, NewSaleTicket
<1> QED BY <1>2, <1>3

\* A new ticket whose answer gets lost keeps the invariant: the swap has it, no flow does.
LEMMA NewTicketLostStep == ASSUME IInv, NEW f \in Flows, NewTicketLost(f) PROVE IInv'
<1>1. Types /\ flows \in [Flows -> FlowType] /\ ticket \in 0 .. made /\ made \in 0 .. MaxTickets /\ MaxTickets \in Nat
  BY SaleAssumption DEF IInv, Types
<1>2. /\ Onward /\ LaterUnpaid' /\ OpenIsDue' /\ Payments' = Payments
      /\ made' \in made .. MaxTickets /\ PaymentIsKnown' = PaymentIsKnown
  BY <1>1, NewTicketMade DEF NewTicketLost
<1>3. UNCHANGED <<open, accepted, paid, old, funds, page, store, flows, stray, failures>>
  BY DEF NewTicketLost, ledger
<1>4. Types'
  <2>1. flows' \in [Flows -> FlowType']
    BY <1>1, <1>2, <1>3 DEF FlowType
  <2>2. old' \subseteq 1 .. made' /\ store' \in StoreType' /\ ticket' \in 0 .. made' /\ page' \in PageType'
    BY <1>1, <1>2, <1>3 DEF Types, NewTicketLost, StoreType, PageType
  <2>3. lost' \in 0 .. MaxLost
    BY <1>1, SaleAssumption DEF Types, NewTicketLost
  <2> QED BY <1>1, <1>2, <1>3, <2>1, <2>2, <2>3 DEF Types
<1>5. \A g \in Flows : Stays(g)
  BY <1>3 DEF Stays
<1>6. NothingStray'
  <2> SUFFICES ASSUME open, ~stray PROVE PaymentIsKnown' /\ \A g \in Flows : Settled(g)'
    BY <1>3 DEF NothingStray
  <2>1. PaymentIsKnown' /\ \A g \in Flows : Settled(g)
    BY <1>2 DEF IInv, NothingStray
  <2>2. ASSUME NEW g \in Flows PROVE Settled(g)'
    <3>1. flows[g].ticket \in 0 .. made /\ Settled(g) /\ FlowOK(g)
      BY <1>1, <2>1 DEF FlowType, IInv, FlowsOK
    <3>2. flows[g].phase \in WithTicket => flows[g].ticket # 0
      BY <3>1 DEF FlowOK
    <3>3. ticket = 0 /\ ticket' = made + 1
      BY DEF NewTicketLost
    <3> QED BY <1>1, <1>3, <3>1, <3>2, <3>3 DEF Settled, In, WithTicket
  <2> QED BY <2>1, <2>2
<1> QED BY <1>2, <1>4, <1>5, <1>6, Kept

\* What a transfer tells the participation that asked for it.
AfterTransfer(f) ==
    LET outcome == Transfer(flows[f].ticket) IN
    /\ flows'[f].ticket = flows[f].ticket
    /\ flows'[f].phase = IF outcome = "insufficient" THEN "remove" ELSE "notify"
    /\ flows'[f].tooOld = (outcome = "too old")

\* Whatever the flow learns of it, a transfer with the ticket's memo and creation time keeps the
\* invariant.
LEMMA TransferStep ==
    ASSUME IInv, NEW f \in Flows, In(f, "transfer"), Transferred(flows[f].ticket),
           UNCHANGED <<swap, page, store, stray>>, lost' \in 0 .. MaxLost, failures' \in 0 .. MaxFailures,
           flows' \in [Flows -> FlowType], \A g \in Flows : g # f => Stays(g), Stays(f) \/ AfterTransfer(f)
    PROVE  IInv'
<1> DEFINE t == flows[f].ticket
<1>1. /\ Types /\ ticket \in 0 .. made /\ made \in 0 .. MaxTickets /\ MaxTickets \in Nat
      /\ UNCHANGED <<open, ticket, made, accepted, page, store, stray>>
      /\ paid \in [Tickets -> {0, 1}] /\ funds \in 0 .. 2 /\ accepted \in 0 .. Payments
  BY SaleAssumption DEF IInv, Types, swap
<1>2. \A g \in Flows : flows[g] \in FlowType /\ flows[g].ticket \in 0 .. made /\ FlowOK(g)
  BY DEF IInv, Types, FlowType, FlowsOK
<1>3. t \in 1 .. made /\ t \in Tickets
  BY <1>1, <1>2 DEF FlowOK, In, WithTicket, Tickets
<1>4. \/ /\ Transfer(t) = "ok" /\ t \notin old /\ paid[t] = 0 /\ funds \in 1 .. 2
         /\ paid' = [paid EXCEPT ![t] = 1] /\ funds' = funds - 1 /\ old' = old
         /\ Payments' = Payments + 1
      \/ /\ Transfer(t) # "ok" /\ paid' = paid /\ funds' = funds /\ old' = old
         /\ Payments' = Payments
  BY <1>3, TransferMade
<1>5. Payments \in Nat /\ Payments' \in Nat
  BY <1>1, <1>4, PaymentsCount
<1>6. Types'
  <2>1. FlowType' = FlowType /\ StoreType' = StoreType /\ PageType' = PageType
    BY <1>1 DEF FlowType, StoreType, PageType
  <2>2. paid' \in [Tickets -> {0, 1}] /\ funds' \in 0 .. 2
    BY <1>1, <1>3, <1>4
  <2>3. accepted' \in 0 .. Payments'
    BY <1>1, <1>4, <1>5
  <2> QED BY <1>1, <1>4, <2>1, <2>2, <2>3 DEF Types
<1>7. Onward
  <2>1. funds = 0 => funds' = 0 /\ paid' = paid
    BY <1>4
  <2>2. \A u \in Tickets : paid[u] = 1 => paid'[u] = 1
    BY <1>1, <1>3, <1>4
  <2> QED BY <1>1, <1>4, <2>1, <2>2 DEF Onward
<1>8. LaterUnpaid'
  <2>1. \A u \in Tickets : u > made' => paid'[u] = paid[u]
    BY <1>1, <1>3, <1>4 DEF Tickets
  <2> QED BY <1>1, <2>1 DEF IInv, LaterUnpaid
<1>9. OpenIsDue'
  <2> SUFFICES ASSUME open, ticket # 0, paid'[ticket] = 1 PROVE Payments' > accepted
    BY <1>1 DEF OpenIsDue
  <2>1. CASE Transfer(t) = "ok"
    BY <1>1, <1>4, <1>5, <2>1
  <2>2. CASE Transfer(t) # "ok"
    BY <1>1, <1>4, <2>2 DEF IInv, OpenIsDue
  <2> QED BY <2>1, <2>2
<1>10. FlowOK(f)' \/ Stays(f)
  <2> SUFFICES ASSUME AfterTransfer(f) PROVE FlowOK(f)'
    OBVIOUS
  <2>1. Transfer(t) = "insufficient" => funds' = 0 /\ paid'[t] = 0
    BY <1>1, <1>3, <1>4 DEF Transfer
  <2>2. Transfer(t) = "too old" => t \in old'
    BY <1>4 DEF Transfer
  <2>3. Transfer(t) \notin {"insufficient", "too old"} => paid'[t] = 1
    BY <1>1, <1>3, <1>4 DEF Transfer
  <2>4. flows'[f].ticket = t /\ flows'[f].tooOld = (Transfer(t) = "too old")
    BY DEF AfterTransfer
  <2>5. t # 0
    BY <1>1, <1>3
  <2>6. flows'[f].phase = IF Transfer(t) = "insufficient" THEN "remove" ELSE "notify"
    BY DEF AfterTransfer
  <2> HIDE DEF t
  <2> QED BY <2>1, <2>2, <2>3, <2>4, <2>5, <2>6 DEF FlowOK, In, WithTicket
<1>11. NothingStray'
  <2> SUFFICES ASSUME open, ~stray PROVE PaymentIsKnown' /\ \A g \in Flows : Settled(g)'
    BY <1>1 DEF NothingStray
  <2>1. PaymentIsKnown /\ \A g \in Flows : Settled(g)
    BY DEF IInv, NothingStray
  <2>2. Transfer(t) = "ok" => t = ticket
    BY TransferIsForOpenTicket
  <2>3. PaymentIsKnown'
    BY <1>1, <1>3, <1>4, <2>1, <2>2 DEF PaymentIsKnown
  <2>4. ASSUME NEW g \in Flows PROVE Settled(g)'
    <3>1. CASE Stays(g)
      <4>1. In(g, "transfer")' /\ flows'[g].ticket # ticket => In(g, "transfer") /\ flows[g].ticket # ticket
        BY <3>1 DEF Stays, In, WithTicket
      <4>2. In(g, "transfer") => flows[g].ticket \in Tickets
        BY <1>1, <1>2 DEF FlowOK, In, WithTicket, Tickets
      <4>3. In(g, "transfer")' /\ flows'[g].ticket # ticket' =>
              paid'[flows'[g].ticket] = 1 \/ flows'[g].ticket \in old' \/ funds' = 0
        <5> SUFFICES ASSUME In(g, "transfer")', flows'[g].ticket # ticket'
                     PROVE  paid'[flows[g].ticket] = 1 \/ flows[g].ticket \in old' \/ funds' = 0
          BY <3>1 DEF Stays, In, WithTicket
        <5>1. paid[flows[g].ticket] = 1 \/ flows[g].ticket \in old \/ funds = 0
          BY <1>1, <2>1, <4>1 DEF Settled
        <5> QED BY <1>1, <1>7, <4>1, <4>2, <5>1 DEF Onward
      <4>4. In(g, "remove")' /\ flows'[g].tooOld /\ flows'[g].ticket = ticket' => Payments' = accepted'
        <5> SUFFICES ASSUME In(g, "remove")', flows'[g].tooOld, flows'[g].ticket = ticket' PROVE Payments' = accepted'
          OBVIOUS
        <5>1. In(g, "remove") /\ flows[g].tooOld /\ flows[g].ticket = ticket
          BY <1>1, <3>1 DEF Stays, In, WithTicket
        <5>2. Payments = accepted /\ ticket \in old
          BY <1>2, <2>1, <5>1 DEF Settled, FlowOK
        <5> QED BY <1>1, <1>4, <2>2, <5>2
      <4> QED BY <4>3, <4>4 DEF Settled
    <3>2. CASE g = f /\ AfterTransfer(f)
      BY <3>2 DEF AfterTransfer, Settled, In
    <3> QED BY <3>1, <3>2
  <2> QED BY <2>3, <2>4
<1>12. \A g \in Flows : Stays(g) \/ FlowOK(g)'
  BY <1>10
<1> QED BY <1>6, <1>7, <1>8, <1>9, <1>11, <1>12, Kept

\* Both outcomes of a transfer, answered or lost, keep the invariant.
LEMMA TransferSteps ==
    ASSUME IInv, NEW f \in Flows, PollTransfer(f) \/ TransferLost(f)
    PROVE  IInv'
<1>1. CASE PollTransfer(f)
  <2> DEFINE outcome == Transfer(flows[f].ticket)
  <2>1. flows' = [flows EXCEPT ![f].phase = IF outcome = "insufficient" THEN "remove" ELSE "notify",
                               ![f].tooOld = (outcome = "too old")]
    BY <1>1 DEF PollTransfer, SendICP
  <2> HIDE DEF outcome
  <2>2. flows' \in [Flows -> FlowType]
    <3>1. \A r \in FlowType, b \in BOOLEAN, p \in {"remove", "notify"} : [r EXCEPT !.phase = p, !.tooOld = b] \in FlowType
      BY DEF FlowType, WithTicket
    <3>2. flows[f] \in FlowType
      BY PageAndStore
    <3>3. [flows[f] EXCEPT !.phase = IF outcome = "insufficient" THEN "remove" ELSE "notify",
                           !.tooOld = (outcome = "too old")] \in FlowType
      BY <3>1, <3>2
    <3> QED BY <2>1, <3>3, PageAndStore
  <2>3. \A g \in Flows : g # f => Stays(g)
    BY <2>1, PageAndStore DEF Stays
  <2>4. AfterTransfer(f)
    BY <2>1, PageAndStore DEF AfterTransfer, FlowType, outcome
  <2> QED BY <1>1, <2>2, <2>3, <2>4, TransferStep, PageAndStore DEF PollTransfer, SendICP
<1>2. CASE TransferLost(f)
  <2>1. lost' \in 0 .. MaxLost
    BY <1>2, PageAndStore, SaleAssumption DEF TransferLost, SendICP
  <2>2. \A g \in Flows : Stays(g)
    BY <1>2 DEF TransferLost, Stays, SendICP
  <2> QED BY <1>2, <2>1, <2>2, TransferStep, PageAndStore DEF TransferLost, SendICP
<1> QED BY <1>1, <1>2

-----------------------------------------------------------------------------
\* When the swap accepts a payment, or has nothing to accept.
LEMMA NotifyStep ==
    ASSUME IInv, NEW f \in Flows, In(f, "notify"), NotifyParticipation,
           UNCHANGED <<ledger, page, stray>>, store' = store,
           lost' \in 0 .. MaxLost, failures' \in 0 .. MaxFailures,
           flows' \in [Flows -> FlowType], \A g \in Flows : g # f => Stays(g),
           \/ Stays(f)
           \/ /\ flows'[f].ticket = flows[f].ticket /\ flows'[f].tooOld = flows[f].tooOld
              /\ flows'[f].phase = IF Refresh = "ok" THEN "reload" ELSE "remove"
              /\ Refresh = "ok" \/ flows[f].tooOld
    PROVE  IInv'
<1>1. /\ Types /\ ticket \in 0 .. made /\ made \in 0 .. MaxTickets /\ MaxTickets \in Nat
      /\ UNCHANGED <<open, made, paid, old, funds, page, store, stray>> /\ Payments' = Payments
      /\ accepted \in 0 .. Payments /\ Payments \in Nat
  BY SaleAssumption, SamePayments DEF IInv, Types, ledger, Refreshed, swap, NotifyParticipation
<1>2. \A g \in Flows : flows[g] \in FlowType /\ flows[g].ticket \in 0 .. made /\ FlowOK(g)
  BY DEF IInv, Types, FlowType, FlowsOK
<1>3. \/ Refresh = "ok" /\ open /\ Payments > accepted /\ accepted' = Payments /\ ticket' = 0
      \/ Refresh = "internal" /\ ~(open /\ Payments > accepted) /\ accepted' = accepted /\ ticket' = ticket
  BY DEF Refreshed, Refresh, swap, NotifyParticipation
<1>4. Types'
  <2>1. FlowType' = FlowType /\ StoreType' = StoreType /\ PageType' = PageType
    BY <1>1 DEF FlowType, StoreType, PageType
  <2>2. accepted' \in 0 .. Payments' /\ ticket' \in 0 .. made
    BY <1>1, <1>3
  <2> QED BY <1>1, <2>1, <2>2 DEF Types
<1>5. Onward /\ LaterUnpaid'
  BY <1>1, <1>3 DEF Onward, IInv, LaterUnpaid
<1>6. OpenIsDue'
  BY <1>1, <1>3 DEF IInv, OpenIsDue
<1>7. Stays(f) \/ FlowOK(f)'
  <2> SUFFICES ASSUME flows'[f].ticket = flows[f].ticket, flows'[f].tooOld = flows[f].tooOld,
                      flows'[f].phase = (IF Refresh = "ok" THEN "reload" ELSE "remove"),
                      Refresh = "ok" \/ flows[f].tooOld
               PROVE  FlowOK(f)'
    OBVIOUS
  <2>1. flows[f].ticket # 0 /\ (flows[f].tooOld => flows[f].ticket \in old)
    BY <1>2 DEF FlowOK, In, WithTicket
  <2>2. CASE Refresh = "ok"
    BY <1>3, <2>1, <2>2 DEF FlowOK, In, WithTicket
  <2>3. CASE Refresh # "ok"
    BY <1>1, <2>1, <2>3 DEF FlowOK, In, WithTicket
  <2> QED BY <2>2, <2>3
<1>8. NothingStray'
  <2> SUFFICES ASSUME open, ~stray PROVE PaymentIsKnown' /\ \A g \in Flows : Settled(g)'
    BY <1>1 DEF NothingStray
  <2>1. PaymentIsKnown /\ \A g \in Flows : Settled(g)
    BY DEF IInv, NothingStray
  <2>2. PaymentIsKnown'
    BY <1>1, <1>3, <2>1 DEF PaymentIsKnown
  <2>3. Refresh = "ok" => paid[ticket] = 1
    BY <1>3, <2>1 DEF PaymentIsKnown
  <2>4. ASSUME NEW g \in Flows PROVE Settled(g)'
    <3>1. CASE Stays(g)
      <4>1. In(g, "transfer")' /\ flows'[g].ticket # ticket' =>
              paid[flows[g].ticket] = 1 \/ flows[g].ticket \in old \/ funds = 0
        <5> SUFFICES ASSUME In(g, "transfer")', flows'[g].ticket # ticket'
                     PROVE  paid[flows[g].ticket] = 1 \/ flows[g].ticket \in old \/ funds = 0
          OBVIOUS
        <5>1. In(g, "transfer") /\ flows'[g].ticket = flows[g].ticket
          BY <3>1 DEF Stays, In, WithTicket
        <5>2. CASE flows[g].ticket = ticket
          BY <1>3, <2>3, <5>1, <5>2
        <5>3. CASE flows[g].ticket # ticket
          BY <2>1, <5>1, <5>3 DEF Settled
        <5> QED BY <5>2, <5>3
      <4>2. In(g, "remove")' /\ flows'[g].tooOld /\ flows'[g].ticket = ticket' => Payments = accepted'
        <5> SUFFICES ASSUME In(g, "remove")', flows'[g].tooOld, flows'[g].ticket = ticket' PROVE Payments = accepted'
          OBVIOUS
        <5>1. In(g, "remove") /\ flows[g].tooOld /\ flows[g].ticket = ticket'
          BY <3>1 DEF Stays, In, WithTicket
        <5> QED BY <1>3, <2>1, <5>1 DEF Settled
      <4>3. (In(g, "transfer")' => flows'[g].ticket = flows[g].ticket)
        BY <3>1 DEF Stays, In, WithTicket
      <4> QED BY <1>1, <4>1, <4>2, <4>3 DEF Settled
    <3>2. CASE g = f /\ flows'[f].phase = (IF Refresh = "ok" THEN "reload" ELSE "remove")
      <4>1. Refresh = "internal" => Payments = accepted'
        BY <1>1, <1>3
      <4> QED BY <1>1, <1>3, <3>2, <4>1 DEF Settled, In
    <3> QED BY <3>1, <3>2
  <2> QED BY <2>2, <2>4
<1>9. \A g \in Flows : Stays(g) \/ FlowOK(g)'
  BY <1>7
<1> QED BY <1>4, <1>5, <1>6, <1>8, <1>9, Kept

\* Notifying the swap, answered or lost, keeps the invariant.
LEMMA NotifySteps ==
    ASSUME IInv, NEW f \in Flows, Notify(f) \/ NotifyLost(f)
    PROVE  IInv'
<1>1. CASE Notify(f) /\ (Refresh = "ok" \/ flows[f].tooOld)
  <2> DEFINE p == IF Refresh = "ok" THEN "reload" ELSE "remove"
  <2>1. flows' = [flows EXCEPT ![f].phase = p]
    BY <1>1 DEF Notify, Goto, NotifyParticipation
  <2>2. p \in {"reload", "remove"}
    OBVIOUS
  <2> HIDE DEF p
  <2>3. flows' \in [Flows -> FlowType]
    <3>1. [flows[f] EXCEPT !.phase = p] \in FlowType
      BY <2>2, PageAndStore DEF FlowType, WithTicket
    <3> QED BY <2>1, <3>1, PageAndStore
  <2>4. \A g \in Flows : g # f => Stays(g)
    BY <2>1, PageAndStore DEF Stays
  <2>5. flows'[f].ticket = flows[f].ticket /\ flows'[f].tooOld = flows[f].tooOld /\ flows'[f].phase = p
    BY <2>1, PageAndStore DEF FlowType
  <2> QED BY <1>1, <2>3, <2>4, <2>5, NotifyStep, PageAndStore DEF Notify, p, NotifyParticipation
<1>2. CASE Notify(f) /\ ~(Refresh = "ok" \/ flows[f].tooOld)
  BY <1>2, EndStays, NotifyStep, PageAndStore DEF Notify, NotifyParticipation
<1>3. CASE NotifyLost(f)
  <2>1. lost' \in 0 .. MaxLost
    BY <1>3, PageAndStore, SaleAssumption DEF NotifyLost, NotifyParticipation
  <2>2. \A g \in Flows : Stays(g)
    BY <1>3 DEF NotifyLost, Stays, NotifyParticipation
  <2> QED BY <1>3, <2>1, <2>2, NotifyStep, PageAndStore DEF NotifyLost, NotifyParticipation
<1> QED BY <1>1, <1>2, <1>3

-----------------------------------------------------------------------------
\* Whose ticket is removed has no payment that waits for it.
LEMMA RemoveStep ==
    ASSUME IInv, NEW f \in Flows, RemoveOpenTicket(f)
    PROVE  IInv'
<1> DEFINE t == flows[f].ticket
<1>1. /\ Types /\ ticket \in 0 .. made /\ made \in 0 .. MaxTickets /\ MaxTickets \in Nat
      /\ UNCHANGED <<open, made, accepted, paid, old, funds, page, lost>> /\ Payments' = Payments
      /\ accepted \in 0 .. Payments /\ Payments \in Nat /\ End(f) /\ In(f, "remove")
  BY SaleAssumption, SamePayments DEF IInv, Types, ledger, RemoveOpenTicket, NotifyPaymentFailure
<1>2. \A g \in Flows : flows[g] \in FlowType /\ FlowOK(g)
  BY DEF IInv, Types, FlowsOK
<1>3. \/ ticket' = 0 /\ stray' = (stray \/ ticket \notin {0, t})
      \/ ticket' = ticket /\ stray' = stray
  BY DEF RemoveOpenTicket, NotifyPaymentFailure
<1>4. flows' \in [Flows -> FlowType] /\ \A g \in Flows : Stays(g)
  BY <1>1, EndStays
<1>5. Types'
  <2>1. FlowType' = FlowType /\ StoreType' = StoreType /\ PageType' = PageType
    BY <1>1 DEF FlowType, StoreType, PageType
  <2>2. ticket' \in 0 .. made
    BY <1>1, <1>3
  <2>3. stray' \in BOOLEAN
    BY <1>1, <1>3, Zenon DEF Types
  <2>4. failures' \in 0 .. MaxFailures
    BY <1>1, SaleAssumption DEF Types, RemoveOpenTicket, NotifyPaymentFailure
  <2>5. store' \in StoreType
    BY PageAndStore DEF RemoveOpenTicket, SetNoTicket, NotifyPaymentFailure
  <2> QED BY <1>1, <1>4, <2>1, <2>2, <2>3, <2>4, <2>5 DEF Types
<1>6. Onward /\ LaterUnpaid' /\ OpenIsDue'
  BY <1>1, <1>3 DEF Onward, IInv, LaterUnpaid, OpenIsDue
<1>7. NothingStray'
  <2> SUFFICES ASSUME open, ~stray' PROVE PaymentIsKnown' /\ \A g \in Flows : Settled(g)'
    BY <1>1 DEF NothingStray
  <2>1. ~stray
    BY <1>3, Zenon
  <2>2. PaymentIsKnown /\ \A g \in Flows : Settled(g)
    BY <1>1, <2>1 DEF IInv, NothingStray
  <2>3. CASE ticket' = ticket
    <3>1. PaymentIsKnown'
      BY <1>1, <2>1, <2>2, <2>3 DEF PaymentIsKnown
    <3>2. \A g \in Flows : Settled(g)'
      BY <1>1, <1>4, <2>2, <2>3 DEF Stays, Settled, In, WithTicket
    <3> QED BY <3>1, <3>2
  <2>4. CASE ticket' # ticket
    <3>1. ~(ticket \notin {0, t}) /\ ticket' = 0
      BY <1>3, <2>4, Zenon
    <3>2. ticket # 0 /\ ticket = t /\ ticket' = 0
      BY <2>4, <3>1
    <3>3. Payments = accepted
      <4>1. CASE flows[f].tooOld
        BY <1>1, <2>2, <3>2, <4>1 DEF Settled
      <4>2. CASE ~flows[f].tooOld
        <5>1. paid[ticket] = 0
          BY <1>1, <1>2, <3>2, <4>2 DEF FlowOK
        <5> QED BY <1>1, <2>1, <2>2, <5>1 DEF PaymentIsKnown
      <4> QED BY <4>1, <4>2
    <3>4. ticket \in old \/ funds = 0
      BY <1>1, <1>2, <3>2 DEF FlowOK
    <3>5. PaymentIsKnown'
      BY <1>1, <3>3 DEF PaymentIsKnown
    <3>6. ASSUME NEW g \in Flows PROVE Settled(g)'
      <4>1. In(g, "transfer")' => paid[flows'[g].ticket] = 1 \/ flows'[g].ticket \in old \/ funds = 0
        <5> SUFFICES ASSUME In(g, "transfer")'
                     PROVE  paid[flows'[g].ticket] = 1 \/ flows'[g].ticket \in old \/ funds = 0
          OBVIOUS
        <5>1. In(g, "transfer") /\ flows'[g].ticket = flows[g].ticket
          BY <1>4 DEF Stays, In, WithTicket
        <5> QED BY <2>2, <3>4, <5>1 DEF Settled
      <4> QED BY <1>1, <3>3, <4>1 DEF Settled
    <3> QED BY <3>5, <3>6
  <2> QED BY <2>3, <2>4
<1> QED BY <1>4, <1>5, <1>6, <1>7, Kept

\* A step of nothing keeps the invariant.
LEMMA StutterStep == ASSUME IInv, UNCHANGED vars PROVE IInv'
<1>1. UNCHANGED <<swap, ledger, page, store, flows, stray, lost, failures>>
  BY DEF vars, swap, ledger
<1>2. \A f \in Flows : Stays(f)
  BY <1>1 DEF Stays
<1> QED BY <1>1, <1>2, QuietStep, PageAndStore

\* Every step keeps the invariant, one action at a time.
LEMMA NextIInv == IInv /\ [Next]_vars => IInv'
<1> SUFFICES ASSUME IInv, [Next]_vars PROVE IInv'
  OBVIOUS
<1>1. CASE SwapCloses
  BY <1>1, SwapClosesStep
<1>2. CASE TicketAges
  BY <1>2, TicketAgesStep
<1>3. CASE OpenPage \/ LeavePage \/ Reload \/ \E f \in Idle : Restore(f) \/ Initiate(f)
  BY <1>3, PageSteps
<1>4. ASSUME NEW f \in Flows, LoadOpenTicket(f) \/ ReloadBalance(f) \/ GivesUp(f) PROVE IInv'
  BY <1>4, QuietFlowSteps
<1>5. ASSUME NEW f \in Flows, LoadNewSaleTicket(f) PROVE IInv'
  BY <1>5, LoadNewSaleTicketStep
<1>6. ASSUME NEW f \in Flows, NewTicketLost(f) PROVE IInv'
  BY <1>6, NewTicketLostStep
<1>7. ASSUME NEW f \in Flows, PollTransfer(f) \/ TransferLost(f) PROVE IInv'
  BY <1>7, TransferSteps
<1>8. ASSUME NEW f \in Flows, Notify(f) \/ NotifyLost(f) PROVE IInv'
  BY <1>8, NotifySteps
<1>9. ASSUME NEW f \in Flows, RemoveOpenTicket(f) PROVE IInv'
  BY <1>9, RemoveStep
<1>10. CASE UNCHANGED vars
  BY <1>10, StutterStep
<1> QED BY <1>1, <1>2, <1>3, <1>4, <1>5, <1>6, <1>7, <1>8, <1>9, <1>10 DEF Next

\* The invariant holds in every state.
LEMMA Invariance == Spec => []IInv
BY InitIInv, NextIInv, PTL DEF Spec

-----------------------------------------------------------------------------
\* The user pays a ticket once, and the swap can learn of the payment, however
\* many participations run, are lost or are interrupted (sns-sale.services.ts).
THEOREM PaymentsSafe == Spec => []PaymentsAreSafe
<1>1. IInv => PaymentsAreSafe
  <2> SUFFICES ASSUME IInv PROVE PaidOnce /\ PaymentIsKnown
    BY DEF PaymentsAreSafe
  <2>1. PaidOnce
    BY DEF IInv, Types, PaidOnce, Tickets
  <2>2. PaymentIsKnown
    BY DEF IInv, NothingStray, PaymentIsKnown
  <2> QED BY <2>1, <2>2
<1> QED BY <1>1, Invariance, PTL

\* A step that ends a participation leaves its ticket open only with an error.
LEMMA EndsSettled ==
    ASSUME IInv, [Next]_vars, NEW f \in Flows, flows[f].ticket # 0, flows'[f] = NoFlow,
           failures' = failures, ~Reload, open'
    PROVE  ticket' # flows[f].ticket
<1>1. /\ flows \in [Flows -> FlowType] /\ FlowOK(f) /\ failures \in Nat /\ OpenIsDue
  BY SaleAssumption DEF IInv, Types, FlowsOK
<1>2. flows[f].phase \in WithTicket /\ flows[f] # NoFlow
  BY <1>1 DEF FlowOK, NoFlow
<1>3. flows' # flows
  BY <1>2
<1>4. \A g \in Flows : \A r : flows' = [flows EXCEPT ![g] = r] => g = f
  BY <1>1, <1>2
<1>5. ASSUME NEW g \in Flows, End(g) PROVE g = f
  BY <1>1, <1>2, <1>5 DEF End
<1>6. CASE SwapCloses \/ TicketAges \/ OpenPage \/ UNCHANGED vars
  BY <1>3, <1>6 DEF SwapCloses, TicketAges, OpenPage, vars
<1>7. CASE LeavePage
  BY <1>1, <1>7 DEF LeavePage, NoFlow, FlowType
<1>8. ASSUME NEW g \in Idle, Restore(g) \/ Initiate(g) PROVE FALSE
  <2>1. PICK kind \in {"restore", "initiate"}, phase \in {"load", "new"} :
          flows' = [flows EXCEPT ![g] = [NoFlow EXCEPT !.kind = kind, !.phase = phase, !.here = TRUE]]
    BY <1>3, <1>8 DEF Restore, Initiate
  <2>2. [NoFlow EXCEPT !.kind = kind, !.phase = phase, !.here = TRUE] # NoFlow
    BY DEF NoFlow
  <2> QED BY <1>1, <1>2, <2>1, <2>2
<1>9. ASSUME NEW g \in Flows, LoadOpenTicket(g) \/ LoadNewSaleTicket(g) PROVE FALSE
  <2>1. ~In(f, "load") /\ ~In(f, "new")
    BY <1>2 DEF In, WithTicket
  <2>2. g # f
    BY <1>9, <2>1 DEF LoadOpenTicket, LoadNewSaleTicket, GetOpenTicket, NewSaleTicket
  <2>3. flows'[f] = flows[f]
    BY <1>1, <1>9, <2>2 DEF LoadOpenTicket, LoadNewSaleTicket, Participate, End, GetOpenTicket, NewSaleTicket
  <2> QED BY <1>2, <2>3
<1>10. ASSUME NEW g \in Flows, NewTicketLost(g) \/ TransferLost(g) \/ NotifyLost(g) PROVE FALSE
  BY <1>3, <1>10 DEF NewTicketLost, TransferLost, NotifyLost, SendICP, NotifyParticipation
<1>11. ASSUME NEW g \in Flows, PollTransfer(g) PROVE FALSE
  BY <1>1, <1>2, <1>11 DEF PollTransfer, NoFlow, FlowType, SendICP
<1>12. ASSUME NEW g \in Flows, GivesUp(g) PROVE FALSE
  BY <1>1, <1>12 DEF GivesUp
<1>13. ASSUME NEW g \in Flows, ReloadBalance(g) PROVE ticket' # flows[f].ticket
  BY <1>1, <1>5, <1>13 DEF ReloadBalance, FlowOK, swap
<1>14. ASSUME NEW g \in Flows, RemoveOpenTicket(g) PROVE ticket' # flows[f].ticket
  BY <1>1, <1>14 DEF RemoveOpenTicket, NotifyPaymentFailure
<1>15. ASSUME NEW g \in Flows, Notify(g) PROVE ticket' # flows[f].ticket
  <2>1. CASE Refresh = "ok"
    BY <1>15, <2>1 DEF Notify, Refreshed, NotifyParticipation
  <2>2. CASE Refresh # "ok" /\ flows[g].tooOld
    BY <1>1, <1>2, <1>15, <2>2 DEF Notify, Goto, NoFlow, FlowType, NotifyParticipation
  <2>3. CASE Refresh # "ok" /\ ~flows[g].tooOld
    <3>1. g = f /\ In(f, "notify") /\ ticket' = ticket /\ open
      BY <1>5, <1>15, <2>3 DEF Notify, Refreshed, swap, NotifyParticipation
    <3>2. paid[flows[f].ticket] = 1
      BY <1>1, <2>3, <3>1 DEF FlowOK
    <3> QED BY <1>1, <2>3, <3>1, <3>2 DEF OpenIsDue, Refresh
  <2> QED BY <2>1, <2>2, <2>3
<1> QED BY <1>6, <1>7, <1>8, <1>9, <1>10, <1>11, <1>12, <1>13, <1>14, <1>15 DEF Next

\* Who took up a ticket and met no error leaves no open ticket behind
\* (notifyParticipationAndRemoveTicket, handleTransferError).
THEOREM ParticipationsSettle == Spec => ParticipationSettles
<1>1. IInv /\ [Next]_vars => SettlesStep
  BY EndsSettled DEF SettlesStep
<1>2. IInv /\ [Next]_vars => [SettlesStep]_vars
  BY <1>1
<1> QED BY <1>2, Invariance, PTL DEF Spec, ParticipationSettles

\* The types of the swap, the ledger and the participations.
THEOREM TypeCorrect == Spec => []TypeOK
<1>1. IInv => TypeOK
  <2> SUFFICES ASSUME IInv PROVE TypeOK
    OBVIOUS
  <2>1. \A f \in Flows : /\ flows[f].phase \in {"none", "load", "new", "transfer", "notify", "remove", "reload"}
                         /\ flows[f].phase \in WithTicket => flows[f].ticket # 0
    BY DEF IInv, Types, FlowType, WithTicket, FlowsOK, FlowOK
  <2> QED BY <2>1 DEF IInv, Types, TypeOK, WithTicket, PageType, StoreType
<1> QED BY <1>1, Invariance, PTL
=============================================================================
