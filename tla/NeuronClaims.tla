---------------------------- MODULE NeuronClaims ----------------------------
(***************************************************************************)
(* Staking and topping up NNS neurons (services/neurons.services.ts).      *)
(* ICP is sent to the account of the neuron first, and governance is asked *)
(* to claim or refresh the neuron afterwards.  When the browser is closed  *)
(* or a call fails in between, the wallet page, which scans transactions,  *)
(* and the page of the neuron, which looks at its account, do the second   *)
(* step.  Each account is looked at once per session.                      *)
(*                                                                         *)
(* A neuron stands for its account and its memo, one stake or top-up is    *)
(* one unit, and NoMemo is a transaction that stakes nothing.              *)
(***************************************************************************)
EXTENDS Naturals, Sequences, SequencesExt, FiniteSets, FiniteSetsExt

CONSTANTS
    Neurons,      \* accounts of neurons
    NoMemo,       \* any other transaction
    PageLimit,    \* DEFAULT_INDEX_TRANSACTION_PAGE_LIMIT
    MaxTopUps,    \* bound on top-ups
    MaxFailures,  \* bound on failing calls
    MaxSessions   \* bound on sessions

VARIABLES
    txs,       \* transactions of the user's account, the oldest first (index)
    balance,   \* ICP in the accounts of the neurons (ledger)
    stake,     \* cached stake of the neurons, 0 if not claimed (governance)
    page,      \* "none", "wallet" or the neuron whose page is open
    listing,   \* calls of listNeurons that are not answered, "query", "update"
    store,     \* neuronsStore: the stake shown, 0 if the neuron is not there
    loaded,    \* icpTransactionsStore: positions in txs, in the store's order
    checked,   \* checkedNeuronSubaccountsStore
    scans,     \* claimNeuronsIfNeeded: loops that wait for a call
    refresh,   \* refreshNeuronIfNeeded: per neuron, the call waited for
    op,        \* stakeNeuron or topUpNeuron that runs
    looked,    \* history: accounts whose balance was asked or claim tried
    claims,    \* history: claims that loops sent in this session, per neuron
    faulty,    \* history: a call failed or a node lagged in this session
    detailed,  \* history: a neuron's page was opened in this session
    failures, sessions

ledgerVars == <<txs, balance, stake>>
history == <<looked, claims, faulty, detailed>>
vars == <<ledgerVars, page, listing, store, loaded, checked, scans, refresh, op,
          history, failures, sessions>>

NoOp == [kind |-> "none", neuron |-> NoMemo, phase |-> "none"]
Nothing == [n \in Neurons |-> 0]

NewSession ==
    /\ page' = "none" /\ listing' = {} /\ store' = Nothing /\ loaded' = <<>>
    /\ checked' = {} /\ scans' = {} /\ refresh' = [n \in Neurons |-> "none"]
    /\ op' = NoOp /\ looked' = {} /\ claims' = Nothing
    /\ faulty' = FALSE /\ detailed' = FALSE

Init ==
    /\ txs = <<>> /\ balance = Nothing /\ stake = Nothing
    /\ page = "none" /\ listing = {} /\ store = Nothing /\ loaded = <<>>
    /\ checked = {} /\ scans = {} /\ refresh = [n \in Neurons |-> "none"]
    /\ op = NoOp /\ looked = {} /\ claims = Nothing
    /\ faulty = FALSE /\ detailed = FALSE /\ failures = 0 /\ sessions = 1

\* The page is closed at any time, and opened again later.
Reload ==
    /\ sessions < MaxSessions
    /\ sessions' = sessions + 1
    /\ NewSession
    /\ UNCHANGED <<ledgerVars, failures>>

\* A call that fails.
Failing ==
    /\ failures < MaxFailures
    /\ failures' = failures + 1
    /\ faulty' = TRUE
-----------------------------------------------------------------------------
\* neuronAccountsStore: the accounts of the neurons in the store.
NeuronAccounts(neurons) == {n \in Neurons : neurons[n] > 0}

\* getMemosFromStakingTransactions, in the order of the transactions.
GetMemos(transactions) ==
    SelectSeq([i \in DOMAIN transactions |-> txs[transactions[i]]],
              LAMBDA t : t # NoMemo)

\* checkedNeuronSubaccountsStore.addSubaccount returned true.
AddSubaccount(n, seen) == n \notin seen

\* claimNeuronsIfNeeded up to its next call: it stops at the first account
\* that was looked at before, and claims the first one without a neuron.
Scan(memos, accounts, seen) ==
    LET stops(i)  == ~AddSubaccount(memos[i], seen) \/ memos[i] \notin accounts
        end       == Min({i \in DOMAIN memos : stops(i)} \cup {Len(memos) + 1})
        claiming  == end <= Len(memos) /\ AddSubaccount(memos[end], seen)
        marked    == SubSeq(memos, 1, IF claiming THEN end ELSE end - 1)
    IN  [checked |-> seen \cup ToSet(marked),
         next |-> IF claiming
                  THEN {[claiming |-> memos[end], phase |-> "claim", accounts |-> accounts,
                         todo |-> SubSeq(memos, end + 1, Len(memos))]}
                  ELSE {}]

\* The loops of the scans go on or start; others is what else waits.
Scans(results, others, seen) ==
    LET sent == UNION {r.next : r \in results} IN
    /\ scans' = others \cup sent
    /\ checked' = seen
    /\ looked' = looked \cup {s.claiming : s \in sent}
    /\ claims' = [n \in Neurons |-> claims[n] + Cardinality({s \in sent : s.claiming = n})]

\* tryClaimNeurons of the wallet page when one of the stores changes, and
\* refreshNeuronIfNeeded of the page of a neuron that is in the store.
StoresChange(neurons, transactions) ==
    /\ store' = neurons /\ loaded' = transactions
    /\ IF page = "wallet" /\ transactions # <<>>
       THEN LET r == Scan(GetMemos(transactions), NeuronAccounts(neurons), checked)
            IN  Scans({r}, scans, r.checked) /\ UNCHANGED refresh
       ELSE IF page \in NeuronAccounts(neurons) /\ AddSubaccount(page, checked)
       THEN /\ checked' = checked \cup {page}
            /\ looked' = looked \cup {page}
            /\ refresh' = [refresh EXCEPT ![page] = "balance"]
            /\ UNCHANGED <<scans, claims>>
       ELSE UNCHANGED <<checked, looked, refresh, scans, claims>>

SetNeurons(neurons) == StoresChange(neurons, loaded)
PushNeuron(n) == StoresChange([store EXCEPT ![n] = stake[n]], loaded)
-----------------------------------------------------------------------------
\* The wallet page, or the page of a neuron that the user sees, opens.
OpenPage(p) ==
    /\ op.kind = "none" /\ page # p
    /\ p = "wallet" \/ p \in NeuronAccounts(store)
    /\ page' = p
    /\ listing' = {"query", "update"}
    /\ detailed' = (detailed \/ p # "wallet")
    /\ IF p # "wallet" /\ AddSubaccount(p, checked)
       THEN /\ checked' = checked \cup {p} /\ looked' = looked \cup {p}
            /\ refresh' = [refresh EXCEPT ![p] = "balance"]
            /\ UNCHANGED <<scans, claims>>
       ELSE IF p = "wallet" /\ loaded # <<>>
       THEN LET r == Scan(GetMemos(loaded), NeuronAccounts(store), checked)
            IN  Scans({r}, scans, r.checked) /\ UNCHANGED refresh
       ELSE UNCHANGED <<checked, looked, refresh, scans, claims>>
    /\ UNCHANGED <<ledgerVars, store, loaded, op, faulty, failures, sessions>>

\* listNeurons is answered; the query may come from a node that lags.
ListNeurons(call) ==
    /\ call \in listing
    /\ listing' = IF call = "update" THEN {} ELSE listing \ {call}
    /\ \E seen \in [Neurons -> 0 .. MaxTopUps + 1] :
        /\ \A n \in Neurons : seen[n] <= stake[n] /\ (call = "update" => seen[n] = stake[n])
        /\ SetNeurons(seen)
    /\ UNCHANGED <<ledgerVars, page, op, faulty, detailed, failures, sessions>>

\* The update call of listNeurons fails: the list is emptied.
ListNeuronsFails ==
    /\ "update" \in listing
    /\ listing' = {}
    /\ Failing
    /\ SetNeurons(Nothing)
    /\ UNCHANGED <<ledgerVars, page, op, detailed, sessions>>

\* getTransactions of the index: a page that ends before start, the newest first.
GetTransactions(start) ==
    [i \in 1 .. (IF start - 1 < PageLimit THEN start - 1 ELSE PageLimit) |-> start - i]

\* addTransactions appends what is not in the store yet.
AddTransactions(transactions) ==
    loaded \o SelectSeq(transactions, LAMBDA t : t \notin ToSet(loaded))

\* loadIcpAccountTransactions when the wallet opens or the balance changes.
LoadTransactions ==
    /\ page = "wallet" /\ txs # <<>>
    /\ AddTransactions(GetTransactions(Len(txs) + 1)) # loaded
    /\ StoresChange(store, AddTransactions(GetTransactions(Len(txs) + 1)))
    /\ UNCHANGED <<ledgerVars, page, listing, op, faulty, detailed, failures, sessions>>

\* loadIcpAccountNextTransactions when the user scrolls to the end.
LoadNextTransactions ==
    /\ page = "wallet" /\ loaded # <<>> /\ Min(ToSet(loaded)) > 1
    /\ StoresChange(store, AddTransactions(GetTransactions(Min(ToSet(loaded)))))
    /\ UNCHANGED <<ledgerVars, page, listing, op, faulty, detailed, failures, sessions>>
-----------------------------------------------------------------------------
\* claimNeuron: governance claims the neuron of a loop.
ClaimNeuron(s) ==
    /\ s.phase = "claim"
    /\ stake' = [stake EXCEPT ![s.claiming] = balance[s.claiming]]
    /\ scans' = (scans \ {s}) \cup {[s EXCEPT !.phase = "load"]}
    /\ UNCHANGED <<txs, balance, page, listing, store, loaded, checked, refresh, op,
                   history, failures, sessions>>

\* The claimed neuron is loaded and pushed, then the loop goes on; the wallet
\* page, if it is open, scans again because the neurons changed.
ClaimedNeuronLoaded(s) ==
    LET neurons == [store EXCEPT ![s.claiming] = stake[s.claiming]]
        again == IF page = "wallet"
                 THEN Scan(GetMemos(loaded), NeuronAccounts(neurons), checked)
                 ELSE [checked |-> checked, next |-> {}]
        rest == Scan(s.todo, s.accounts, again.checked)
    IN  /\ s.phase = "load"
        /\ store' = neurons
        /\ Scans({again, rest}, scans \ {s}, rest.checked)
        /\ UNCHANGED <<ledgerVars, page, listing, loaded, refresh, op, faulty, detailed,
                       failures, sessions>>

\* The claim or the load fails: nobody is told, and the loop goes on.
ClaimFails(s) ==
    LET rest == Scan(s.todo, s.accounts, checked) IN
    /\ Failing
    /\ Scans({rest}, scans \ {s}, rest.checked)
    /\ UNCHANGED <<ledgerVars, page, listing, store, loaded, refresh, op, detailed, sessions>>

\* neuronNeedsRefresh: an uncertified balance is compared with the stake shown.
NeuronNeedsRefresh(n) ==
    /\ refresh[n] = "balance"
    /\ \E read \in 0 .. balance[n] :
        /\ faulty' = (faulty \/ read # balance[n])
        /\ refresh' = [refresh EXCEPT ![n] = IF read # store[n] THEN "claim" ELSE "none"]
    /\ UNCHANGED <<ledgerVars, page, listing, store, loaded, checked, scans, op, looked,
                   claims, detailed, failures, sessions>>

\* reloadNeuron: governance refreshes the stake,
RefreshNeuron(n) ==
    /\ refresh[n] = "claim"
    /\ stake' = [stake EXCEPT ![n] = balance[n]]
    /\ refresh' = [refresh EXCEPT ![n] = "load"]
    /\ UNCHANGED <<txs, balance, page, listing, store, loaded, checked, scans, op,
                   history, failures, sessions>>

\* and the neuron is loaded.
RefreshedNeuronLoaded(n) ==
    /\ refresh[n] = "load"
    /\ store' = [store EXCEPT ![n] = stake[n]]
    /\ refresh' = [refresh EXCEPT ![n] = "none"]
    /\ IF page = "wallet" /\ loaded # <<>>
       THEN LET r == Scan(GetMemos(loaded), NeuronAccounts(store'), checked)
            IN  Scans({r}, scans, r.checked)
       ELSE UNCHANGED <<checked, looked, scans, claims>>
    /\ UNCHANGED <<ledgerVars, page, listing, loaded, op, faulty, detailed, failures, sessions>>

RefreshFails(n) ==
    /\ refresh[n] # "none"
    /\ Failing
    /\ refresh' = [refresh EXCEPT ![n] = "none"]
    /\ UNCHANGED <<ledgerVars, page, listing, store, loaded, checked, scans, op, looked,
                   claims, detailed, sessions>>
-----------------------------------------------------------------------------
\* stakeNeuron: the ledger executes the transfer to a new account.
StakeNeuron(n) ==
    /\ op.kind = "none" /\ balance[n] = 0
    /\ balance' = [balance EXCEPT ![n] = 1]
    /\ txs' = Append(txs, n)
    /\ op' = [kind |-> "stake", neuron |-> n, phase |-> "claim"]
    /\ UNCHANGED <<stake, page, listing, store, loaded, checked, scans, refresh, history,
                   failures, sessions>>

\* topUpNeuron of a neuron that the user sees: transferICP.
TopUpNeuron(n) ==
    /\ op.kind = "none" /\ page = n /\ n \in NeuronAccounts(store)
    /\ Len(SelectSeq(txs, LAMBDA t : t = NoMemo)) < MaxTopUps
    /\ balance' = [balance EXCEPT ![n] = @ + 1]
    /\ txs' = Append(txs, NoMemo)
    /\ op' = [kind |-> "topup", neuron |-> n, phase |-> "claim"]
    /\ UNCHANGED <<stake, page, listing, store, loaded, checked, scans, refresh, history,
                   failures, sessions>>

\* Governance claims or refreshes the neuron.
OpClaims ==
    /\ op.phase = "claim"
    /\ stake' = [stake EXCEPT ![op.neuron] = balance[op.neuron]]
    /\ op' = [op EXCEPT !.phase = "load"]
    /\ UNCHANGED <<txs, balance, page, listing, store, loaded, checked, scans, refresh,
                   history, failures, sessions>>

\* getAndLoadNeuron: the neuron is loaded and pushed to the store.
OpLoads ==
    /\ op.phase = "load"
    /\ op' = NoOp
    /\ PushNeuron(op.neuron)
    /\ UNCHANGED <<ledgerVars, page, listing, faulty, detailed, failures, sessions>>

\* A call fails after the transfer.  Staking ends with a message; the promise
\* of reloadNeuron, which has no error handler for the claim, never settles.
OpFails ==
    /\ op.phase \in {"claim", "load"}
    /\ Failing
    /\ op' = IF op.kind = "topup" /\ op.phase = "claim"
             THEN [op EXCEPT !.phase = "stuck"] ELSE NoOp
    /\ UNCHANGED <<ledgerVars, page, listing, store, loaded, checked, scans, refresh,
                   looked, claims, detailed, sessions>>

Recovers == \/ \E s \in scans : ClaimNeuron(s) \/ ClaimedNeuronLoaded(s)
            \/ \E n \in Neurons : NeuronNeedsRefresh(n) \/ RefreshNeuron(n) \/ RefreshedNeuronLoaded(n)

Next ==
    \/ Reload \/ LoadTransactions \/ LoadNextTransactions \/ ListNeuronsFails
    \/ OpenPage("wallet") \/ \E n \in Neurons : OpenPage(n)
    \/ \E call \in {"query", "update"} : ListNeurons(call)
    \/ Recovers
    \/ \E s \in scans : ClaimFails(s)
    \/ \E n \in Neurons : RefreshFails(n) \/ StakeNeuron(n) \/ TopUpNeuron(n)
    \/ OpClaims \/ OpLoads \/ OpFails

Spec == Init /\ [][Next]_vars
-----------------------------------------------------------------------------
TypeOK ==
    /\ ToSet(txs) \subseteq Neurons \cup {NoMemo}
    /\ page \in Neurons \cup {"none", "wallet"}
    /\ listing \subseteq {"query", "update"}
    /\ ToSet(loaded) \subseteq DOMAIN txs
    /\ \A n \in Neurons :
        /\ refresh[n] \in {"none", "balance", "claim", "load"}
        /\ {store[n], stake[n]} \subseteq 0 .. balance[n]
    /\ op.phase \in {"none", "claim", "load", "stuck"}
    /\ checked \subseteq Neurons /\ failures \in 0 .. MaxFailures

\* However often the stores change while loops wait, the recovery asks
\* governance at most once per session to claim a neuron.
ClaimedOncePerSession == \A n \in Neurons : claims[n] <= 1

\* ICP that was sent to an account without a neuron: when the wallet page has
\* the newest transactions and its loops ended, every stake among them has its
\* neuron, although the session before was interrupted.  This holds if no call
\* failed in this session and no page of a neuron was visited, which makes the
\* scan stop early.
InterruptedStakesAreClaimed ==
    LET newest == ToSet(GetTransactions(Len(txs) + 1)) IN
    (/\ page = "wallet" /\ newest \subseteq ToSet(loaded)
     /\ scans = {} /\ op.kind = "none" /\ ~faulty /\ ~detailed)
    => \A t \in newest : txs[t] = NoMemo \/ stake[txs[t]] > 0

\* A top-up that was interrupted is finished once the page of the neuron, as
\* the first to look at its account, has compared balance and stake.
InterruptedTopUpsAreRefreshed ==
    \A n \in looked :
        (claims[n] = 0 /\ refresh[n] = "none" /\ op.kind = "none" /\ ~faulty)
        => stake[n] = balance[n]

\* The store of checked accounts "keeps track of the neurons that have already
\* been checked this session".
CheckedWasLookedAt == checked \subseteq looked
=============================================================================
