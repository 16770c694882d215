------------------------------- MODULE Wallet -------------------------------
(***************************************************************************)
(* The wallet page of one account: of ICP (pages/NnsWallet.svelte), of an  *)
(* ICRC token (pages/IcrcWallet.svelte) or of ckBTC (pages/                *)
(* CkBTCWallet.svelte).  Pages of transactions come from an index canister *)
(* and, for ICRC tokens, from a worker; the dialogs send tokens, convert   *)
(* ckBTC to BTC and make the minter look for BTC that arrived.             *)
(*                                                                         *)
(* Blocks are numbered by their place in the history of the account, and   *)
(* their timestamps are in the same order.  TimerWorkers models how a      *)
(* worker is started and stopped, IcpAccounts how balances are loaded.     *)
(***************************************************************************)
EXTENDS Integers, Sequences, FiniteSets, FiniteSetsExt

CONSTANTS
    Wallets,        \* the wallets to look at, of {"icp", "icrc", "ckbtc"}
    Histories,      \* what the account did before, sequences of blocks
    Fee,            \* the fee of the ledger
    MinAmount,      \* retrieve_btc_min_amount
    Amounts,        \* what the user sends
    MaxAttempts,    \* calls of update_balance for one update, 3 in the code
    PageSize,       \* DEFAULT_INDEX_TRANSACTION_PAGE_LIMIT
    MaxNew,         \* bound on blocks made while the wallet is used, per wallet
    MaxVisits,      \* bound on visits of the page
    MaxDialogs,     \* bound on dialogs confirmed
    MaxTroubles     \* bound on calls that fail and on payments made elsewhere

VARIABLES
    wallet,         \* which wallet it is
    ledger,         \* the blocks of the account
    started,        \* how many of them there were at the start
    allowance,      \* what the minter may take from the account
    utxos,          \* the BTC of the user: "pending" and "confirmed", not yet minted
    requests,       \* the burns that the minter has not settled
    balance,        \* icrcAccountsStore, icpAccountBalancesStore
    store,          \* icrcTransactionsStore, icpTransactionsStore
    pendingUtxos,   \* ckbtcPendingUtxosStore, as a number
    list,           \* the list of transactions on the page
    calls,          \* calls of the index canister that are not answered
    worker,         \* the most recent id that the worker knows, 0 for none
    dialog,         \* the dialog that works
    late,           \* history: a page asked for before a reset came after it
    outgrown,       \* history: a first page came when more blocks than a page were new
    troubles, dialogs

vars == <<wallet, ledger, started, allowance, utxos, requests, balance, store, pendingUtxos,
          list, calls, worker, dialog, late, outgrown, troubles, dialogs>>
chain == <<wallet, ledger, started, allowance, utxos, requests>>
page == <<store, list, calls, worker, late, outgrown>>

Block(kind, amount) == [kind |-> kind, amount |-> amount]
Ids == DOMAIN ledger

\* icrcAccountsStore has no account: the balance is not known.
NoAccount == -1
NoStore == [known |-> FALSE, ids |-> {}, completed |-> FALSE]
NoDialog == [kind |-> "none", phase |-> "none", amount |-> 0, attempts |-> 0, sure |-> FALSE]
-----------------------------------------------------------------------------
(* The ledger and the minter. *)

\* What a block does to the account.
Delta(b) ==
    CASE b.kind \in {"in", "mint", "reimburse"} -> b.amount
      [] b.kind = "out" -> -(b.amount + Fee)
      [] b.kind \in {"self", "approve"} -> -Fee
      [] b.kind = "burn" -> -b.amount

BalanceOf(l) == MapThenSumSet(LAMBDA i : Delta(l[i]), DOMAIN l)

MayGrow == Len(ledger) < started + MaxNew[wallet]
Appends(b) == MayGrow /\ BalanceOf(ledger) + Delta(b) >= 0 /\ ledger' = Append(ledger, b)

BitcoinArrives ==
    /\ wallet = "ckbtc" /\ utxos.pending + utxos.confirmed = 0 /\ MayGrow
    /\ utxos' = [utxos EXCEPT !.pending = 1]
    /\ UNCHANGED <<wallet, ledger, started, allowance, requests, balance, pendingUtxos, page,
                   dialog, troubles, dialogs>>

BitcoinConfirms ==
    /\ utxos.pending > 0
    /\ utxos' = [pending |-> 0, confirmed |-> 1]
    /\ UNCHANGED <<wallet, ledger, started, allowance, requests, balance, pendingUtxos, page,
                   dialog, troubles, dialogs>>

\* The minter sends the BTC, or gives the ckBTC back.
MinterSettles ==
    \E id \in requests :
        /\ requests' = requests \ {id}
        /\ ledger' = ledger \/ Appends(Block("reimburse", ledger[id].amount))
        /\ UNCHANGED <<wallet, started, allowance, utxos, balance, pendingUtxos, page, dialog,
                       troubles, dialogs>>

\* Somebody pays the user, or the user pays from another device.
Elsewhere ==
    /\ troubles < MaxTroubles /\ troubles' = troubles + 1
    /\ \E a \in Amounts : Appends(Block("in", a)) \/ Appends(Block("out", a))
    /\ UNCHANGED <<wallet, started, allowance, utxos, requests, balance, pendingUtxos, page,
                   dialog, dialogs>>
-----------------------------------------------------------------------------
(* The rows. *)

IsToSelf(b) == b.kind = "self"

\* mapToSelfTransactions: a transfer to oneself has two rows.
MapToSelfTransactions(ids) == (ids \X {FALSE}) \cup ({i \in ids : IsToSelf(ledger[i])} \X {TRUE})

\* getSortedTransactionsFromStore: newest first, and so the block of the row above
RowAbove(ids, i) == Min({j \in ids : j > i})

\* getTransactionInformation: who pays, how much, and the fee
GetTransactionInformation(b) ==
    [from |-> b.kind \in {"out", "self", "approve", "burn"},
     amount |-> IF b.kind = "approve" THEN 0 ELSE b.amount,
     fee |-> IF b.kind \in {"out", "self", "approve", "in"} THEN Fee ELSE 0]

IsReceive(b, toSelf) == toSelf \/ ~GetTransactionInformation(b).from
FeeApplied(b, toSelf) == IF IsReceive(b, toSelf) THEN 0 ELSE GetTransactionInformation(b).fee

\* mapIcrcTransaction and mapIcpTransactionToUi
MapIcrcTransaction(b, toSelf) ==
    [isIncoming |-> IsReceive(b, toSelf),
     tokenAmount |-> GetTransactionInformation(b).amount + FeeApplied(b, toSelf)]

MapIcpTransactionToUi(b, toSelf) == MapIcrcTransaction(b, toSelf)

\* An approval in the row below a burn is part of it.
IsMerged(ids, i) ==
    /\ wallet = "ckbtc" /\ ledger[i].kind = "approve"
    /\ \E j \in ids : j > i
    /\ ledger[RowAbove(ids, i)].kind = "burn"

\* Mutant of MapCkbtcTransactions: the fee of the approval is dropped.
MapCkbtcTransactionsNoFee(ids, i, toSelf) == MapIcrcTransaction(ledger[i], toSelf)

\* mapCkbtcTransactions: the row of a burn takes the fee of its approval.
MapCkbtcTransactions(ids, i, toSelf) ==
    LET row == MapIcrcTransaction(ledger[i], toSelf) IN
    IF \E k \in ids : k < i /\ IsMerged(ids, k) /\ RowAbove(ids, k) = i
    THEN [row EXCEPT !.tokenAmount = @ + Fee]
    ELSE row

MapTransaction(ids, i, toSelf) ==
    CASE wallet = "icp" -> MapIcpTransactionToUi(ledger[i], toSelf)
      [] wallet = "icrc" -> MapIcrcTransaction(ledger[i], toSelf)
      [] wallet = "ckbtc" -> MapCkbtcTransactions(ids, i, toSelf)

\* The cards of the list, and what one says the account gained
Cards(ids) == {r \in MapToSelfTransactions(ids) : ~IsMerged(ids, r[1])}

TransactionCard(row) == IF row.isIncoming THEN row.tokenAmount ELSE -row.tokenAmount
-----------------------------------------------------------------------------
(* Pages of transactions. *)

\* The index canister: the newest blocks before start, or of all
GetTransactions(start) ==
    LET older == {i \in Ids : start = 0 \/ i < start}
    IN  {i \in older : Cardinality({j \in older : j > i}) < PageSize}

\* getIcrcAccountTransactions of the worker: it asks for older pages until one reaches the
\* most recent block that it knows; when it knows none, the first page is enough.
GetIcrcAccountTransactions ==
    LET pages == IF worker = 0 THEN 1 ELSE (Len(ledger) + PageSize - worker) \div PageSize
    IN  {i \in Ids : i > Len(ledger) - pages * PageSize}

\* More blocks are new than the first page has, and some before them are in the store.
Outgrown(s) == s.ids # {} /\ Len(ledger) - Max(s.ids) > PageSize

\* loadIcrcAccountTransactions takes a short page for the last one,
\* loadIcpAccountTransactions one with the oldest transaction of the account.
IsIcrcCompleted(ids) == Cardinality(ids) < PageSize
IsIcpCompleted(ids) == Ids = {} \/ 1 \in ids
IsCompleted(ids) == IF wallet = "icp" THEN IsIcpCompleted(ids) ELSE IsIcrcCompleted(ids)

\* addTransactions
AddTransactions(ids, completed) ==
    [known |-> TRUE, ids |-> store.ids \cup ids, completed |-> completed]

\* getOldestTxIdFromStore, and the last of the sorted transactions
GetOldestTxIdFromStore(s) == IF s.ids = {} THEN 0 ELSE Min(s.ids)

Asks(by, start) ==
    calls' = calls \cup {[by |-> by, visit |-> list.visit, start |-> start, reset |-> FALSE]}

\* onMount(loadNextTransactions), or accountDidUpdate of NnsWallet.  An account that is not
\* in the store is loaded first (loadData).
OpenWallet ==
    /\ ~list.here /\ list.visit < MaxVisits
    /\ list' = [visit |-> list.visit + 1, here |-> TRUE,
                loading |-> wallet # "icp" \/ ~store.known]
    /\ calls' = calls \cup {[by |-> "list", visit |-> list.visit + 1, reset |-> FALSE,
                             start |-> IF wallet = "icp" THEN 0 ELSE GetOldestTxIdFromStore(store)]}
    /\ worker' = 0
    /\ balance' = IF balance = NoAccount THEN BalanceOf(ledger) ELSE balance
    /\ UNCHANGED <<chain, store, pendingUtxos, dialog, late, outgrown, troubles, dialogs>>

LeaveWallet ==
    /\ list.here /\ list.visit < MaxVisits
    /\ list' = [list EXCEPT !.here = FALSE, !.loading = FALSE]
    /\ UNCHANGED <<chain, balance, store, pendingUtxos, calls, worker, dialog, late, outgrown, troubles, dialogs>>

\* nnsIntersect: the InfiniteScroll is disabled while loading and when completed.
LoadNextTransactions ==
    /\ list.here /\ ~list.loading /\ store.ids # {} /\ ~store.completed
    /\ \A c \in calls : c.by # "list" \/ c.visit # list.visit
    /\ list' = [list EXCEPT !.loading = TRUE]
    /\ Asks("list", GetOldestTxIdFromStore(store))
    /\ UNCHANGED <<chain, balance, store, pendingUtxos, worker, dialog, late, outgrown, troubles, dialogs>>

FirstPage == [by |-> "list", visit |-> list.visit, start |-> 0, reset |-> FALSE]

\* The spinner is not shown if the transactions are already loaded.
ReloadIcpTransactions(cs) ==
    /\ calls' = cs \cup {FirstPage}
    /\ list' = [list EXCEPT !.loading = ~store.known]
    /\ UNCHANGED store

\* An ICRC list starts from scratch.
ReloadIcrcTransactions(cs) ==
    /\ store' = NoStore
    /\ list' = [list EXCEPT !.loading = TRUE]
    /\ calls' = {[c EXCEPT !.reset = TRUE] : c \in cs} \cup {FirstPage}

\* An ICRC list that is already loading is not loaded again.
ReloadTransactions(cs) ==
    CASE list.here /\ wallet = "icp" -> ReloadIcpTransactions(cs)
      [] list.here /\ wallet # "icp" /\ ~list.loading -> ReloadIcrcTransactions(cs)
      [] OTHER -> calls' = cs /\ UNCHANGED <<store, list>>

Answered(c) ==
    /\ calls' = calls \ {c}
    /\ list' = IF c.by = "list" /\ c.visit = list.visit THEN [list EXCEPT !.loading = FALSE] ELSE list

PageAnswers(c) ==
    /\ Answered(c)
    /\ LET ids == GetTransactions(c.start) IN store' = AddTransactions(ids, IsCompleted(ids))
    /\ late' = (late \/ (c.reset /\ c.start # 0))
    /\ outgrown' = (outgrown \/ (c.start = 0 /\ Outgrown(store)))
    /\ UNCHANGED <<chain, balance, pendingUtxos, worker, dialog, troubles, dialogs>>

PageFails(c) ==
    /\ troubles < MaxTroubles /\ troubles' = troubles + 1
    /\ Answered(c)
    /\ UNCHANGED <<chain, balance, store, pendingUtxos, worker, dialog, late, outgrown, dialogs>>

\* addObservedIcrcTransactionsToStore, when something is new to the worker.  The page
\* says whether the list is complete.
ObserverAdds ==
    /\ list.here /\ wallet # "icp" /\ worker < Len(ledger)
    /\ store' = AddTransactions(GetIcrcAccountTransactions, store.completed)
    /\ outgrown' = (outgrown \/ (worker = 0 /\ Outgrown(store)))
    /\ worker' = Len(ledger)
    /\ UNCHANGED <<chain, balance, pendingUtxos, list, calls, dialog, late, troubles, dialogs>>
-----------------------------------------------------------------------------
(* Dialogs. *)

\* TransactionForm: the amount and the fee
AssertEnoughAccountFunds(a) == a + Fee <= balance

\* assertCkBTCUserInputAmount
AssertCkBTCUserInputAmount(a) == a >= MinAmount /\ AssertEnoughAccountFunds(a)

Confirms(kind, a) ==
    /\ list.here /\ dialog = NoDialog /\ dialogs < MaxDialogs
    /\ dialogs' = dialogs + 1
    /\ dialog' = [kind |-> kind, phase |-> "first", amount |-> a, attempts |-> 0,
                  sure |-> balance = BalanceOf(ledger)]
    /\ UNCHANGED <<chain, balance, pendingUtxos, page, troubles>>

TransactionModal(kind, a) == AssertEnoughAccountFunds(a) /\ Confirms(kind, a)
CkBTCTransactionModal(a) == wallet = "ckbtc" /\ AssertCkBTCUserInputAmount(a) /\ Confirms("convert", a)
CkBTCUpdateBalanceButton == wallet = "ckbtc" /\ Confirms("update", 0)

\* The steps of transferTokens, convertCkBTCToBtcIcrc2 and updateBalance
At(kind, phase) == dialog.kind = kind /\ dialog.phase = phase
Goes(phase) == dialog' = [dialog EXCEPT !.phase = phase]

\* transferTokens and transferICP
TransferTokens ==
    /\ dialog.kind \in {"out", "self"} /\ dialog.phase = "first"
    /\ Appends(Block(dialog.kind, dialog.amount))
    /\ Goes("done")
    /\ UNCHANGED <<wallet, started, allowance, utxos, requests, balance, pendingUtxos, page,
                   troubles, dialogs>>

\* A new approval replaces the one before.
ApproveTransfer ==
    /\ At("convert", "first")
    /\ Appends(Block("approve", dialog.amount))
    /\ allowance' = dialog.amount
    /\ Goes("retrieve")
    /\ UNCHANGED <<wallet, started, utxos, requests, balance, pendingUtxos, page, troubles, dialogs>>

\* retrieve_btc_with_approval burns what was approved, without a fee.
RetrieveBtcWithApproval ==
    /\ At("convert", "retrieve") /\ allowance >= dialog.amount
    /\ Appends(Block("burn", dialog.amount))
    /\ requests' = requests \cup {Len(ledger) + 1}
    /\ allowance' = allowance - dialog.amount
    /\ Goes("done")
    /\ UNCHANGED <<wallet, started, utxos, balance, pendingUtxos, page, troubles, dialogs>>

\* The ledger or the minter refuses for lack of funds.
Refused ==
    /\ \/ dialog.kind \in {"out", "self"} /\ dialog.phase = "first"
          /\ BalanceOf(ledger) < IF dialog.kind = "self" THEN Fee ELSE dialog.amount + Fee
       \/ At("convert", "first") /\ BalanceOf(ledger) < Fee
       \/ At("convert", "retrieve") /\ BalanceOf(ledger) < dialog.amount
    /\ Goes("refused")
    /\ UNCHANGED <<chain, balance, pendingUtxos, page, troubles, dialogs>>

\* toastRetrieveBtcError, ledgerErrorToToastError
CallFails ==
    /\ dialog.phase \in {"first", "retrieve"} /\ troubles < MaxTroubles
    /\ troubles' = troubles + 1
    /\ Goes("failed")
    /\ UNCHANGED <<chain, balance, pendingUtxos, page, dialogs>>

\* The minter returns pending UTXOs only when it has none to mint, and so it is
\* called until then, at most 3 times.
GetPendingAndCompletedUtxos == dialog.attempts < MaxAttempts

\* MinterNoNewUtxosError
PendingUtxos == utxos.pending

\* update_balance mints ...
UpdateBalanceMints ==
    /\ At("update", "first") /\ utxos.confirmed > 0 /\ GetPendingAndCompletedUtxos
    /\ \E a \in Amounts : Appends(Block("mint", a))
    /\ utxos' = [utxos EXCEPT !.confirmed = 0]
    /\ dialog' = [dialog EXCEPT !.attempts = @ + 1]
    /\ UNCHANGED <<wallet, started, allowance, requests, balance, pendingUtxos, page, troubles, dialogs>>

\* ... or says what is pending.
NoNewUtxos ==
    /\ At("update", "first") /\ utxos.confirmed = 0 /\ GetPendingAndCompletedUtxos
    /\ pendingUtxos' = PendingUtxos
    /\ Goes("done")
    /\ UNCHANGED <<chain, balance, page, troubles, dialogs>>

EnoughAttempts ==
    /\ At("update", "first") /\ ~GetPendingAndCompletedUtxos
    /\ pendingUtxos' = 0
    /\ Goes("done")
    /\ UNCHANGED <<chain, balance, page, troubles, dialogs>>

\* Whatever happened, a conversion and an update load the account again; a
\* transfer does when it succeeded.
LoadsAccount == dialog.kind \in {"convert", "update"} \/ dialog.phase = "done"

\* reloadAccount after an update, reloadAccountFromStore after a success.  The ICP wallet
\* loads the transactions again when the balance that is shown changed (accountKey).
ReloadsList ==
    IF wallet = "icp" THEN LoadsAccount /\ balance # BalanceOf(ledger)
    ELSE dialog.kind = "update" \/ dialog.phase = "done"

\* The reload of convertCkBTCToBtcIcrc2 loads the first page as well.
ConvertReloads ==
    IF dialog.kind = "convert"
    THEN calls \cup {[by |-> "convert", visit |-> list.visit, start |-> 0, reset |-> FALSE]}
    ELSE calls

IsOver == dialog.phase \in {"done", "failed", "refused"}

DialogEnds ==
    /\ IsOver
    /\ balance' = IF LoadsAccount THEN BalanceOf(ledger) ELSE balance
    /\ IF ReloadsList THEN ReloadTransactions(ConvertReloads)
                      ELSE calls' = ConvertReloads /\ UNCHANGED <<store, list>>
    /\ dialog' = NoDialog
    /\ UNCHANGED <<chain, pendingUtxos, worker, late, outgrown, troubles, dialogs>>

\* loadAccounts fails: icrcAccountsStore and icrcTransactionsStore lose the account.  The
\* list goes with it where the page looks for the account again (setSelectedAccount).
LoadAccountsFails ==
    /\ IsOver /\ LoadsAccount /\ wallet # "icp"
    /\ troubles < MaxTroubles /\ troubles' = troubles + 1
    /\ balance' = NoAccount /\ store' = NoStore
    /\ list' = IF ReloadsList THEN [list EXCEPT !.here = FALSE, !.loading = FALSE] ELSE list
    /\ calls' = {[c EXCEPT !.reset = TRUE] : c \in ConvertReloads}
    /\ dialog' = NoDialog
    /\ UNCHANGED <<chain, pendingUtxos, worker, late, outgrown, dialogs>>
-----------------------------------------------------------------------------
Init ==
    /\ wallet \in Wallets
    /\ ledger \in Histories /\ started = Len(ledger)
    /\ wallet # "ckbtc" => \A i \in Ids : ledger[i].kind \notin {"mint", "burn", "reimburse"}
    /\ balance = BalanceOf(ledger)
    /\ allowance = 0 /\ utxos = [pending |-> 0, confirmed |-> 0] /\ requests = {}
    /\ store = NoStore /\ pendingUtxos = 0
    /\ list = [visit |-> 0, here |-> FALSE, loading |-> FALSE]
    /\ calls = {} /\ worker = 0 /\ dialog = NoDialog
    /\ late = FALSE /\ outgrown = FALSE /\ troubles = 0 /\ dialogs = 0

Next ==
    \/ BitcoinArrives \/ BitcoinConfirms \/ MinterSettles \/ Elsewhere
    \/ OpenWallet \/ LeaveWallet \/ LoadNextTransactions \/ ObserverAdds
    \/ \E c \in calls : PageAnswers(c) \/ PageFails(c)
    \/ \E a \in Amounts : \/ \E kind \in {"out", "self"} : TransactionModal(kind, a)
                          \/ CkBTCTransactionModal(a)
    \/ CkBTCUpdateBalanceButton
    \/ TransferTokens \/ ApproveTransfer \/ RetrieveBtcWithApproval \/ Refused \/ CallFails
    \/ UpdateBalanceMints \/ NoNewUtxos \/ EnoughAttempts \/ DialogEnds \/ LoadAccountsFails

Spec == Init /\ [][Next]_vars
-----------------------------------------------------------------------------
TypeOK ==
    /\ ledger \in Seq([kind : {"in", "out", "self", "approve", "burn", "mint", "reimburse"}, amount : Nat])
    /\ store.ids \subseteq Ids /\ store.completed \in BOOLEAN
    /\ requests \subseteq Ids
    /\ pendingUtxos \in 0..1 /\ balance \in Nat \cup {NoAccount} /\ allowance \in Nat
    /\ dialog.phase \in {"none", "first", "retrieve", "done", "failed", "refused"}
    /\ \A c \in calls : c.start \in Ids \cup {0}

\* The cards of the wallet add up to what the loaded blocks did to the balance:
\* a transfer to oneself costs its fee, and an approval that the card of a burn
\* absorbs is counted there, once (mapIcrcTransaction, mapCkbtcTransactions,
\* mapIcpTransactionToUi).
CardsExplainBalance ==
    MapThenSumSet(LAMBDA r : TransactionCard(MapTransaction(store.ids, r[1], r[2])), Cards(store.ids)) =
        MapThenSumSet(LAMBDA i : Delta(ledger[i]), store.ids)

\* A block that is missing between two that are shown
Gap(j) == j \in Ids \ store.ids /\ \E i, k \in store.ids : i < j /\ j < k

\* Pages, reloads and the worker leave no gap in the list, which nothing would ever fill:
\* the pages that follow go on from the oldest block.  There are two exceptions: a page
\* that was asked for before the list was reset comes after that (late), and a first page
\* comes when more blocks than a page are newer than the list (outgrown), to a list that
\* was not reset or from a worker that knows no block yet (loadIcrcAccountTransactions,
\* reloadTransactions, fetchMoreTransactions).
NoGap == late \/ outgrown \/ \A j \in Ids : ~Gap(j)

\* What the form accepted is not refused for lack of funds if the balance shown
\* was right and nothing else is spent: the fee of the approval is counted, and
\* the burn has none (TransactionForm, assertCkBTCUserInputAmount).
AcceptedIsCovered ==
    dialog.phase = "refused" /\ dialog.sure => troubles > 0

\* BTC that was credited is no longer shown as pending when the update of the
\* balance is over, unless one of its calls failed (updateBalance).
PendingIsNotCredited ==
    troubles > 0 \/ dialog # NoDialog \/ pendingUtxos <= utxos.pending + utxos.confirmed

\* isIcrcTransactionsCompleted "Returns whether all transactions of an SNS account have
\* been loaded": then at least none is missing between two that are shown, when nothing is
\* asked for, nothing is new to the worker and no page was late.
CompletedIsAll ==
    store.completed /\ calls = {} /\ worker = Len(ledger) /\ ~late => \A j \in Ids : ~Gap(j)
=============================================================================
