----------------------------- MODULE MC_Tokens ------------------------------
(***************************************************************************)
(* The imported tokens (ImportedTokens, which this module extends) and the *)
(* wallet of one account, for TLC. The two share no state: a behaviour is  *)
(* one of the imported tokens or one of the wallet; the variables of the   *)
(* imported tokens keep an initial value in the latter, and those of the   *)
(* wallet the value 0 in the former.                                       *)
(***************************************************************************)
EXTENDS ImportedTokens, TLC

CONSTANTS
    a, b, c,   \* three ledgers
    Wallets, Histories, Fee, MinAmount, Amounts, MaxAttempts, PageSize, MaxNew, MaxPayments

VARIABLES
    part,      \* the part that this behaviour is about
    wallet, ledger, started, allowance, utxos, requests, balance, transactions,
    pendingUtxos, rows, calls, worker, payment, late, outgrown, troubles, payments

\* The ledgers are interchangeable.
Symmetry == Permutations(Ledgers)

Block(kind, amount) == [kind |-> kind, amount |-> amount]
Received(amount) == Block("in", amount)

\* Histories shorter than a page, of one page, and of more
SomeHistories ==
    {<<>>, <<Received(4), Block("self", 1)>>, <<Received(4), Block("burn", 1), Block("approve", 1)>>,
     <<Received(3), Block("out", 1), Block("self", 1)>>}

\* More new blocks than a page where that is affordable
SomeNew == [w \in Wallets |-> IF w = "ckbtc" THEN 2 ELSE 3]

W == INSTANCE Wallet WITH
    store <- transactions, list <- rows, dialog <- payment, dialogs <- payments,
    MaxDialogs <- MaxPayments

allVars == <<part, vars, wallet, ledger, started, allowance, utxos, requests, balance,
             transactions, pendingUtxos, rows, calls, worker, payment, late, outgrown, troubles, payments>>
-----------------------------------------------------------------------------
ImportedRest == <<wallet, ledger, started, allowance, utxos, requests, balance, transactions,
                  pendingUtxos, rows, calls, worker, payment, late, outgrown, troubles, payments>>
ImportedInit ==
    /\ part = "imported" /\ Init
    /\ wallet = 0 /\ ledger = 0 /\ started = 0 /\ allowance = 0 /\ utxos = 0 /\ requests = 0 /\
       balance = 0 /\ transactions = 0 /\ pendingUtxos = 0 /\ rows = 0 /\ calls = 0 /\
       worker = 0 /\ payment = 0 /\ late = 0 /\ outgrown = 0 /\ troubles = 0 /\ payments = 0

ParkedTokens == Init /\ saved = NoTokens /\ forced = "query"

WalletInit == part = "wallet" /\ W!Init /\ ParkedTokens

AllInit == ImportedInit \/ WalletInit

AllNext ==
    \/ part = "imported" /\ Next /\ UNCHANGED <<part, ImportedRest>>
    \/ part = "wallet" /\ W!Next /\ UNCHANGED <<part, vars>>

AllSpec == AllInit /\ [][AllNext]_allVars
-----------------------------------------------------------------------------
\* The cards of the wallet add up to what the loaded blocks did to the balance; pages, reloads
\* and the worker leave no gap in the list of transactions, unless a page that was asked for
\* before a reset comes after it or more blocks than a first page has are new; what the form
\* accepted is covered by the balance shown, fees included; and BTC that was credited is no
\* longer shown as pending.
WalletIsSound ==
    part = "wallet" =>
        /\ W!TypeOK /\ W!CardsExplainBalance /\ W!NoGap
        /\ W!AcceptedIsCovered /\ W!PendingIsNotCredited

\* When the list of an ICRC token says that all is loaded, no block is missing in it.
AllIsLoaded == part = "wallet" => W!CompletedIsAll
=============================================================================
