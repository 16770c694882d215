----------------------------- MODULE IcpAccounts -----------------------------
(***************************************************************************)
(* The ICP accounts of a user in the browser: the balances and the details *)
(* of the accounts are two queued stores (stores/icp-account-balances.-    *)
(* store.ts, stores/icp-account-details.store.ts), filled by the requests  *)
(* of services/icp-accounts.services.ts.  The balance of an account on the *)
(* ledger is abstracted to the number of transactions that changed it.     *)
(***************************************************************************)
EXTENDS QueuedStore, QueryAndUpdate, FiniteSets

CONSTANTS
    Accounts,      \* account identifiers of the user
    Main,          \* the main account
    MaxTransfers,  \* bound on the transactions of the ledger
    MaxRequests,   \* bound on the requests made in one session
    MaxFailures    \* bound on the calls that fail

ASSUME AccountsAssumption ==
    /\ Main \in Accounts /\ IsFiniteSet(Accounts)
    /\ MaxTransfers \in Nat /\ MaxRequests \in Nat /\ MaxFailures \in Nat

VARIABLES
    ledger,    \* per account, the number of its transactions (ICP ledger)
    known,     \* accounts that the backend holds for the user, {} before addAccount
    sent,      \* transfers whose answer did not arrive, <<from, to>>
    requests,  \* the requests made, in order
    polling,   \* currentPolls: the request that polls, 0 if none
    balances,  \* icpAccountBalancesStore
    details,   \* icpAccountDetailsStore
    forced,    \* isForceCallStrategy(): queries only, fixed for the session
    transfers, failures

vars == <<ledger, known, sent, requests, polling, balances, details, forced, transfers, failures>>

\* A balance in the store: none, or one with the ledger's count it shows.
NoBalance == [count |-> 0, certified |-> FALSE, present |-> FALSE]
BalanceOf(n, c) == [count |-> n, certified |-> c, present |-> TRUE]

Init ==
    /\ ledger = [a \in Accounts |-> 0]
    /\ known \in {{}, {Main}}
    /\ sent = {} /\ requests = <<>> /\ polling = 0
    /\ balances = QueuedStoreOf([a \in Accounts |-> NoBalance])
    /\ details = QueuedStoreOf([a \in Accounts |-> "absent"])
    /\ forced \in BOOLEAN
    /\ transfers = 0 /\ failures = 0

ForceCallStrategy == IF forced THEN "query" ELSE "query_and_update"

\* The details of the account are in the store.
Listed(a) == details.exposed[a] # "absent"

\* icpAccountsStore: accounts with details and a balance, none without the
\* main account; nnsAccountsListStore lists them.
AccountsList ==
    LET full == {a \in Accounts : Listed(a) /\ balances.exposed[a].present}
    IN  IF Main \in full THEN full ELSE {}

\* getAccountIdentifiers and accountsHaveBalance
AccountsHaveBalance ==
    \A a \in Accounts : Listed(a) =>
        balances.exposed[a].present /\ (balances.exposed[a].certified \/ forced)

\* pollAccounts has nothing to do.
Loaded ==
    /\ details.exposed[Main] = "certified" \/ (forced /\ Listed(Main))
    /\ AccountsHaveBalance

\* A call that nobody waits for any more.
Done == [Sent("query") EXCEPT !.waiting = {}]

\* A request with what it is about; what the ledger and the backend held when
\* it was made is kept for the properties.
Request(kind, accounts, strategy) ==
    [kind |-> kind, accounts |-> accounts, call |-> Sent(strategy),
     since |-> ledger, had |-> known, answer |-> {}]

\* Requests are made, which reserve their spots at the end of a queue.
Reserved(store, new) ==
    [store EXCEPT !.mutationQueue = @ \o
        [i \in DOMAIN new |-> MutationEntry(Len(requests) + i, new[i].call.strategy)]]

\* The requests that load one balance have no spot in the details; those made
\* together are all of this kind.
Issue(new) ==
    /\ Len(requests) + Len(new) <= MaxRequests
    /\ requests' = requests \o new
    /\ balances' = Reserved(balances, new)
    /\ details' = IF \E i \in DOMAIN new : new[i].kind = "load" THEN details
                  ELSE Reserved(details, new)

SyncRequest == Request("sync", Accounts, ForceCallStrategy)
LoadRequest(a) == Request("load", {a}, ForceCallStrategy)
-----------------------------------------------------------------------------
\* An account outside the browser's control receives ICP.
LedgerMoves(a) ==
    /\ transfers < MaxTransfers
    /\ transfers' = transfers + 1
    /\ ledger' = [ledger EXCEPT ![a] = @ + 1]
    /\ UNCHANGED <<known, sent, requests, polling, balances, details, forced, failures>>

\* transferICP: the ledger executes the transfer between two accounts.
TransferICP(from, to) ==
    /\ from \in AccountsList /\ from # to /\ <<from, to>> \notin sent
    /\ transfers < MaxTransfers
    /\ transfers' = transfers + 1
    /\ ledger' = [ledger EXCEPT ![from] = @ + 1, ![to] = @ + 1]
    /\ sent' = sent \cup {<<from, to>>}
    /\ UNCHANGED <<known, requests, polling, balances, details, forced, failures>>

\* The answer arrives: the balances of the user's accounts are loaded.
TransferDone(from, to) ==
    /\ <<from, to>> \in sent
    /\ sent' = sent \ {<<from, to>>}
    /\ Issue(<<LoadRequest(from)>> \o
             (IF to \in AccountsList THEN <<LoadRequest(to)>> ELSE <<>>))
    /\ UNCHANGED <<ledger, known, polling, forced, transfers, failures>>

\* The answer is lost: transferError, and nothing is loaded.
TransferFails(from, to) ==
    /\ <<from, to>> \in sent
    /\ failures < MaxFailures
    /\ failures' = failures + 1
    /\ sent' = sent \ {<<from, to>>}
    /\ UNCHANGED <<ledger, known, requests, polling, balances, details, forced, transfers>>

\* initAccounts when the application starts.
InitAccounts ==
    /\ requests = <<>>
    /\ Issue(<<Request("init", Accounts, ForceCallStrategy)>>)
    /\ UNCHANGED <<ledger, known, sent, polling, forced, transfers, failures>>

\* addSubAccount and registerHardwareWallet: the backend adds the account,
\* then all accounts are synced.
AddSubAccount(a) ==
    /\ known # {} /\ a \notin known
    /\ known' = known \cup {a}
    /\ Issue(<<[SyncRequest EXCEPT !.had = known']>>)
    /\ UNCHANGED <<ledger, sent, polling, forced, transfers, failures>>

\* renameSubAccount: the same without a new account.
RenameSubAccount(a) ==
    /\ a \in AccountsList \ {Main}
    /\ Issue(<<SyncRequest>>)
    /\ UNCHANGED <<ledger, known, sent, polling, forced, transfers, failures>>

\* A wallet page reloads the balance of its account.
LoadBalance(a) ==
    /\ a \in AccountsList
    /\ Issue(<<LoadRequest(a)>>)
    /\ UNCHANGED <<ledger, known, sent, polling, forced, transfers, failures>>

\* pollAccounts when a page or a modal opens and the accounts are not loaded.
\* A poll that finds another one running is cancelled at once.
PollAccounts(certified) ==
    LET strategy == IF certified /\ ~forced THEN "update" ELSE "query"
        key == Len(requests) + 1
        poll == Request("poll", Accounts, strategy)
    IN  /\ ~Loaded
        /\ Len(requests) < MaxRequests
        /\ details' = GetSingleMutationStore(details, key, strategy)
        /\ \/ /\ polling = 0
              /\ polling' = key
              /\ requests' = Append(requests, poll)
              /\ balances' = GetSingleMutationStore(balances, key, strategy)
           \/ /\ polling # 0
              /\ requests' = Append(requests, [poll EXCEPT !.call = Done, !.had = {}])
              /\ UNCHANGED <<polling, balances>>
        /\ UNCHANGED <<ledger, known, sent, forced, transfers, failures>>

\* cancelPollAccounts when the page closes: the spot in the balances is given
\* back (that in the details is not).
CancelPollAccounts ==
    /\ polling # 0
    /\ balances' = Cancel(balances, polling)
    /\ requests' = [requests EXCEPT ![polling].call = Done, ![polling].had = {}]
    /\ polling' = 0
    /\ UNCHANGED <<ledger, known, sent, details, forced, transfers, failures>>
-----------------------------------------------------------------------------
\* The counts that a call reads: each balance is read on its own between the
\* request and the answer, and a query may be answered by a node that lags.
Reads(r, certified, account) ==
    (IF certified THEN requests[r].since[account] ELSE 0) .. ledger[account]

\* The request after its query or its update came back; what the call read is
\* forgotten with the last of them.
Served(request, certified) ==
    LET call == Answered(request.call, certified)
    IN  IF call.waiting = {} THEN [request EXCEPT !.call = Done, !.had = {}]
        ELSE [request EXCEPT !.call = call]

\* An answer of a request is applied to the stores.
Apply(r, certified, mutation) ==
    /\ balances' = AddMutation(balances, r, certified, mutation)
    /\ requests' = [requests EXCEPT
            ![r] = [Served(@, certified) EXCEPT !.answer = {[certified |-> certified, items |-> mutation]}]]

\* The callbacks do not hear of the answer, or ignore it.
Ignore(r, certified) ==
    /\ requests' = [requests EXCEPT ![r] = Served(@, certified)]
    /\ UNCHANGED <<balances, details>>

\* loadBalance is answered.
BalanceLoaded(r, certified) ==
    /\ requests[r].kind = "load" /\ certified \in requests[r].call.waiting
    /\ IF Heard(requests[r].call)
       THEN /\ \E a \in requests[r].accounts : \E n \in Reads(r, certified, a) :
                Apply(r, certified, [x \in {a} |-> BalanceOf(n, certified)])
            /\ UNCHANGED details
       ELSE Ignore(r, certified)
    /\ UNCHANGED <<ledger, known, sent, polling, forced, transfers, failures>>

\* getOrCreateAccount finds no account and adds it; the call goes on.
GetOrCreateAccount(r, certified) ==
    /\ known = {}
    /\ requests[r].kind # "load" /\ certified \in requests[r].call.waiting
    /\ known' = {Main}
    /\ UNCHANGED <<ledger, sent, requests, polling, balances, details, forced, transfers, failures>>

\* loadAccountsStoresData: the details that the backend may answer with, and
\* the balances that are then read for them, one by one.
LoadAccountsStoresData(r, certified) ==
    UNION {{[accounts |-> accounts, count |-> count] :
            count \in {c \in [accounts -> 0 .. MaxTransfers] :
                        \A a \in accounts : c[a] \in Reads(r, certified, a)}} :
           accounts \in {s \in SUBSET known : Main \in s /\ requests[r].had \subseteq s}}

\* mutableAccountDetailsStore.set
SetDetails(r, certified, accounts) ==
    details' = AddMutation(details, r, certified,
                           [a \in Accounts |-> IF a \notin accounts THEN "absent"
                                               ELSE IF certified THEN "certified" ELSE "uncertified"])

\* onLoad of syncAccounts and the end of pollAccounts: both stores are set.
AccountsLoaded(r, certified) ==
    /\ requests[r].kind # "load" /\ certified \in requests[r].call.waiting
    /\ known # {}
    /\ polling' = IF polling = r THEN 0 ELSE polling
    /\ IF Heard(requests[r].call)
       THEN \E data \in LoadAccountsStoresData(r, certified) :
            /\ SetDetails(r, certified, data.accounts)
            /\ Apply(r, certified, [a \in Accounts |->
                        IF a \in data.accounts THEN BalanceOf(data.count[a], certified) ELSE NoBalance])
       ELSE Ignore(r, certified)
    /\ UNCHANGED <<ledger, known, sent, forced, transfers, failures>>

\* Mutant: only the balances are reset.
ResetBalancesOnly(r, certified) ==
    Apply(r, certified, [a \in Accounts |-> NoBalance]) /\ UNCHANGED details

\* defaultErrorHandlerAccounts for a certified call: both stores are reset.
DefaultErrorHandlerAccounts(r, certified) ==
    /\ SetDetails(r, certified, {})
    /\ Apply(r, certified, [a \in Accounts |-> NoBalance])

\* A call fails.  Only syncAccounts has a handler; initAccounts and loadBalance
\* leave the spot in the queue.
CallFails(r, certified) ==
    /\ requests[r].kind # "poll" /\ certified \in requests[r].call.waiting
    /\ failures < MaxFailures
    /\ failures' = failures + 1
    /\ IF Heard(requests[r].call) /\ certified /\ requests[r].kind = "sync"
       THEN DefaultErrorHandlerAccounts(r, certified)
       ELSE Ignore(r, certified)
    /\ UNCHANGED <<ledger, known, sent, polling, forced, transfers>>

\* poll: after a failure it tries again, unless this was the last attempt;
\* which one that is stays open here.  Then the spot in the balances is given
\* back.
PollFails(r, certified) ==
    /\ requests[r].kind = "poll" /\ certified \in requests[r].call.waiting
    /\ failures < MaxFailures
    /\ failures' = failures + 1
    /\ \/ UNCHANGED <<requests, balances, polling>>
       \/ /\ requests' = [requests EXCEPT ![r].call = Done, ![r].had = {}]
          /\ balances' = Cancel(balances, r)
          /\ polling' = 0
    /\ UNCHANGED <<ledger, known, sent, details, forced, transfers>>

Answers(r, certified) ==
    \/ BalanceLoaded(r, certified) \/ GetOrCreateAccount(r, certified)
    \/ AccountsLoaded(r, certified) \/ CallFails(r, certified) \/ PollFails(r, certified)

Next ==
    \/ \E a \in Accounts : LedgerMoves(a) \/ AddSubAccount(a) \/ RenameSubAccount(a) \/ LoadBalance(a)
    \/ \E from, to \in Accounts :
        TransferICP(from, to) \/ TransferDone(from, to) \/ TransferFails(from, to)
    \/ InitAccounts \/ CancelPollAccounts
    \/ \E certified \in BOOLEAN : PollAccounts(certified)
    \/ \E r \in DOMAIN requests, certified \in BOOLEAN : Answers(r, certified)

Spec == Init /\ [][Next]_vars
-----------------------------------------------------------------------------
Counts == 0 .. MaxTransfers

TypeOK ==
    /\ ledger \in [Accounts -> Counts]
    /\ known \subseteq Accounts
    /\ sent \subseteq Accounts \X Accounts
    /\ \A r \in DOMAIN requests :
        /\ requests[r].kind \in {"sync", "init", "load", "poll"} /\ requests[r].call \in Requests
    /\ polling \in 0 .. Len(requests)
    /\ \A a \in Accounts :
        /\ balances.exposed[a].count \in Counts
        /\ details.exposed[a] \in {"absent", "uncertified", "certified"}
    /\ forced \in BOOLEAN /\ transfers \in Counts /\ failures \in 0 .. MaxFailures

\* The queue of the balances store, with spots that stay after failures and
\* answers that overtake each other, shows the freshest answer of every account.
Freshest == INSTANCE FreshestAnswer WITH
    Items <- Accounts, Initial <- [a \in Accounts |-> NoBalance],
    answers <- [r \in DOMAIN requests |-> requests[r].answer], shown <- balances.exposed

ShowsFreshestAnswer == Freshest!Spec

\* The answer of a request, once certified, is never undone by requests made
\* before it: what is shown is at least what the ledger held at the request,
\* unless a later request was answered by an uncertified node only or failed.
ReadsOwnWrites ==
    \A r \in DOMAIN requests, a \in Accounts :
        (/\ a \in requests[r].accounts
         /\ \E ans \in requests[r].answer : ans.certified /\ a \in DOMAIN ans.items /\ ans.items[a].present
         /\ \A s \in DOMAIN requests : s > r => \A ans \in requests[s].answer :
                a \in DOMAIN ans.items => ans.certified /\ ans.items[a].present)
        => balances.exposed[a].count >= requests[r].since[a]

\* An account is never listed without its balance: the two stores, which
\* requests fill, reset and give back one after the other, agree.
ListedAccountsHaveBalance ==
    \A a \in Accounts : Listed(a) => balances.exposed[a].present

\* Neither addMutation nor cancel throws for an answer that is still to come.
SpotsAreKept ==
    \A r \in DOMAIN requests :
        /\ \A certified \in requests[r].call.waiting :
            Heard(requests[r].call) =>
                /\ MayAdd(balances, r, certified)
                /\ requests[r].kind # "load" => MayAdd(details, r, certified)
        /\ polling = r => MayCancel(balances, r)

\* The accounts that are listed have a balance, and the queues of the two stores
\* keep a spot for every request that is not answered.
StoresAreSound == TypeOK /\ ListedAccountsHaveBalance /\ SpotsAreKept
=============================================================================
