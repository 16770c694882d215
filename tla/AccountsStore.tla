---------------------------- MODULE AccountsStore ----------------------------
(***************************************************************************)
(* The accounts store of the nns-dapp backend canister                     *)
(* (rs/backend/src/accounts_store.rs): the users' accounts, with their     *)
(* sub-accounts, hardware wallets, canisters and imported tokens; an index *)
(* from account identifiers to the accounts that use them; counters; and   *)
(* the classification of ledger transactions against all of these.         *)
(*                                                                         *)
(* Every operation is one message of the canister and so one atomic step.  *)
(* An operation that the code refuses changes nothing: the operators named *)
(* ...Response give the code's answer, and an action is enabled when that  *)
(* is Ok.  A failed assertion traps, which rolls the message back.         *)
(*                                                                         *)
(* An account identifier is a hash; here it is the pair that is hashed:    *)
(*   <<p, 0>>    the main account of the principal p, or p as a hardware   *)
(*               wallet                                                    *)
(*   <<p, i>>    sub-account i of p                                        *)
(*   <<Cmc, p>>  the account of the cycles minting canister for p          *)
(* CanisterList has names, and the operations on one list of canisters.    *)
(***************************************************************************)
EXTENDS CanisterList

CONSTANTS
    Principals,
    Cmc,            \* CYCLES_MINTING_CANISTER_ID, which has no account here
    MaxSub,         \* u8::MAX - 1: the ids of sub-accounts are 1 .. MaxSub
    MaxWallets,     \* u8::MAX: hardware wallets of an account
    MaxTokens,      \* MAX_IMPORTED_TOKENS
    AccountLimit,   \* ACCOUNT_LIMIT
    MaxHeight       \* bound: blocks that are processed

ASSUME AccountsStoreAssumption ==
    /\ IsFiniteSet(Principals) /\ Cmc \notin Principals
    /\ MaxSub \in Nat /\ MaxWallets \in Nat /\ MaxTokens \in Nat
    /\ AccountLimit \in Nat /\ MaxHeight \in Nat

NoName == -1        \* an id that is not a key of sub_accounts
NotSet == -1        \* imported_tokens is None

SubIds == 1 .. MaxSub
Wallet == [name : Names, principal : Principals]

VARIABLES
    \* accounts_db, one variable for each field of Account
    accounts,       \* the principals whose main account is a key
    known,          \* ... and those whose principal is stored
    subs,           \* sub_accounts: name by id
    wallets,        \* hardware_wallet_accounts
    canisters,      \* canisters
    tokens,         \* imported_tokens, by their number
    \* hardware_wallets_and_sub_accounts: the AccountWrapper
    subIndex,       \* SubAccount(<<p, 0>>, i) is stored for these <<p, i>>
    links,          \* HardwareWallet(links[q]) is stored for <<q, 0>>
    \* accounts_db_stats
    subCount, walletCount,
    \* ledger sync
    synced,         \* block_height_synced_up_to
    queue,          \* [height, controller] of CreateCanisterV2 transactions
    sender          \* history: the account that paid, for each payment queued

account == <<accounts, known, subs, wallets, canisters, tokens>>
index == <<subIndex, links, subCount, walletCount>>
sync == <<synced, queue, sender>>
vars == <<account, index, sync>>

NoSender == <<>>
Main(p) == <<p, 0>>
CmcAccount(p) == <<Cmc, p>>
UserAccounts == Principals \X (SubIds \cup {0})
Targets == UserAccounts \cup {CmcAccount(p) : p \in Principals}

TypeOK ==
    /\ accounts \subseteq Principals /\ known \subseteq accounts
    /\ Cardinality(accounts) <= AccountLimit
    /\ subs \in [Principals -> [SubIds -> Names \cup {NoName}]]
    /\ wallets \in [Principals -> Seq(Wallet)]
    /\ canisters \in [Principals -> Seq(NamedCanister)]
    /\ tokens \in [Principals -> 0 .. MaxTokens \cup {NotSet}]
    /\ subIndex \subseteq Principals \X SubIds
    /\ links \in [Principals -> Seq(Principals)]
    /\ subCount \in Nat /\ walletCount \in Nat
    /\ synced \in 0 .. MaxHeight
    /\ queue \in Seq([height : 1 .. MaxHeight, controller : Principals])
    /\ sender \in [1 .. MaxHeight -> UserAccounts \cup {NoSender}]

\* An empty store, or one with accounts of early users, whose principal was not
\* stored.
Init ==
    /\ accounts \in {a \in SUBSET Principals : Cardinality(a) <= AccountLimit}
    /\ known = {}
    /\ subs = [p \in Principals |-> [i \in SubIds |-> NoName]]
    /\ wallets = [p \in Principals |-> <<>>]
    /\ canisters = [p \in Principals |-> <<>>]
    /\ tokens = [p \in Principals |-> NotSet]
    /\ subIndex = {} /\ links = [p \in Principals |-> <<>>]
    /\ subCount = 0 /\ walletCount = 0
    /\ synced = 0 /\ queue = <<>>
    /\ sender = [h \in 1 .. MaxHeight |-> NoSender]

----------------------------------------------------------------------------
\* assert_account_limit
BelowAccountLimit == Cardinality(accounts) < AccountLimit

----------------------------------------------------------------------------
(***************************************************************************)
(* Accounts, sub-accounts and hardware wallets.                            *)
(***************************************************************************)

\* add_account creates the account, or stores the principal of an early user.
AddAccount(p) ==
    /\ BelowAccountLimit
    /\ accounts' = accounts \cup {p}
    /\ known' = known \cup {p}
    /\ UNCHANGED <<subs, wallets, canisters, tokens, index, sync>>

CreateSubAccountResponse(p, name) ==
    IF ~ValidName(name) THEN "NameTooLong"
    ELSE IF p \notin accounts THEN "AccountNotFound"
    ELSE IF \A i \in SubIds : subs[p][i] # NoName THEN "SubAccountLimitExceeded"
    ELSE "Ok"

\* create_sub_account takes the first id that is free.
IsFirstFree(p, i) == subs[p][i] = NoName /\ \A j \in SubIds : j < i => subs[p][j] # NoName

CreateSubAccount(p, name) ==
    /\ BelowAccountLimit
    /\ CreateSubAccountResponse(p, name) = "Ok"
    /\ \E i \in SubIds :
          /\ IsFirstFree(p, i)
          /\ subs' = [subs EXCEPT ![p][i] = name]
          /\ subIndex' = subIndex \cup {<<p, i>>}
    /\ subCount' = subCount + 1
    /\ UNCHANGED <<accounts, known, wallets, canisters, tokens, links, walletCount, sync>>

RenameSubAccountResponse(p, a, name) ==
    IF ~ValidName(name) THEN "NameTooLong"
    ELSE IF p \notin accounts THEN "AccountNotFound"
    ELSE IF ~\E i \in SubIds : subs[p][i] # NoName /\ a = <<p, i>> THEN "SubAccountNotFound"
    ELSE "Ok"

RenameSubAccount(p, a, name) ==
    /\ RenameSubAccountResponse(p, a, name) = "Ok"
    /\ subs' = [subs EXCEPT ![p][a[2]] = name]
    /\ UNCHANGED <<accounts, known, wallets, canisters, tokens, index, sync>>

\* Mutant: a hardware wallet may be registered twice.
RegisterHardwareWalletAgain(p, name, q) ==
    IF ~ValidName(name) THEN "NameTooLong"
    ELSE IF p \notin accounts THEN "AccountNotFound"
    ELSE IF Len(wallets[p]) = MaxWallets THEN "HardwareWalletLimitExceeded"
    ELSE "Ok"

RegisterHardwareWalletResponse(p, name, q) ==
    IF ~ValidName(name) THEN "NameTooLong"
    ELSE IF p \notin accounts THEN "AccountNotFound"
    ELSE IF Len(wallets[p]) = MaxWallets THEN "HardwareWalletLimitExceeded"
    ELSE IF \E w \in Elems(wallets[p]) : w.principal = q THEN "HardwareWalletAlreadyRegistered"
    ELSE "Ok"

WalletLE(v, w) == v.name <= w.name

\* register_hardware_wallet, with link_hardware_wallet_to_account
RegisterHardwareWallet(p, name, q) ==
    /\ RegisterHardwareWalletResponse(p, name, q) = "Ok"
    /\ \E s \in Sorted(Append(wallets[p], [name |-> name, principal |-> q]), WalletLE) :
          wallets' = [wallets EXCEPT ![p] = s]
    /\ walletCount' = walletCount + 1
    /\ links' = [links EXCEPT ![q] = Append(@, p)]
    /\ UNCHANGED <<accounts, known, subs, canisters, tokens, subIndex, subCount, sync>>

\* get_account: the accounts that a user is shown; nothing, so that the browser
\* calls add_account, while the principal is not stored.
GetAccount(caller) ==
    IF caller \notin known THEN {}
    ELSE {Main(caller)}
         \cup {<<caller, i>> : i \in {j \in SubIds : subs[caller][j] # NoName}}
         \cup {Main(w.principal) : w \in Elems(wallets[caller])}

----------------------------------------------------------------------------
(***************************************************************************)
(* Canisters and imported tokens.                                          *)
(***************************************************************************)

AttachCanister(p, name, id) ==
    /\ p \in accounts
    /\ AttachResponse(canisters[p], name, id) = "Ok"
    /\ \E s \in AfterAttach(canisters[p], name, id) : canisters' = [canisters EXCEPT ![p] = s]
    /\ UNCHANGED <<accounts, known, subs, wallets, tokens, index, sync>>

RenameCanister(p, name, id) ==
    /\ p \in accounts
    /\ RenameResponse(canisters[p], name, id) = "Ok"
    /\ \E s \in AfterRename(canisters[p], name, id) : canisters' = [canisters EXCEPT ![p] = s]
    /\ UNCHANGED <<accounts, known, subs, wallets, tokens, index, sync>>

DetachCanister(p, id) ==
    /\ p \in accounts
    /\ Has(canisters[p], id)
    /\ canisters' = [canisters EXCEPT ![p] = AfterDetach(canisters[p], id)]
    /\ UNCHANGED <<accounts, known, subs, wallets, tokens, index, sync>>

\* attach_newly_created_canister, called by the periodic task runner
AttachNewlyCreatedCanister(p, id) ==
    /\ p \in accounts
    /\ \E s \in AfterNewlyCreated(canisters[p], id) : canisters' = [canisters EXCEPT ![p] = s]
    /\ UNCHANGED <<accounts, known, subs, wallets, tokens, index, sync>>

\* set_imported_tokens replaces the whole list, here of n tokens.
SetImportedTokens(p, n) ==
    /\ n <= MaxTokens
    /\ p \in accounts
    /\ tokens' = [tokens EXCEPT ![p] = n]
    /\ UNCHANGED <<accounts, known, subs, wallets, canisters, index, sync>>

----------------------------------------------------------------------------
(***************************************************************************)
(* Transactions of the ledger.                                             *)
(***************************************************************************)

InIndex(a) == a \in subIndex \/ \E q \in Principals : a = Main(q) /\ links[q] # <<>>

StoreHasAccount(a) == (\E p \in accounts : a = Main(p)) \/ InIndex(a)

\* The accounts that list q as a hardware wallet, as try_get_principal looks
\* them up
Linked(q) == {p \in Elems(links[q]) :
                 p \in accounts /\ \E w \in Elems(wallets[p]) : w.principal = q}

\* Mutant of WalletPrincipal: the principal of the account that has the wallet
WalletOwner(a) == UNION {Linked(q) : q \in {r \in Principals : a = Main(r)}}

\* The principal of the hardware wallet itself
WalletPrincipal(a) == {q \in Principals : a = Main(q) /\ Linked(q) # {}}

\* try_get_principal: the principals that it may return for a (none or one).
\* The code panics with BROKEN STATE if a sub-account's owner has no account.
TryGetPrincipal(a) ==
    IF \E p \in accounts : a = Main(p)
    THEN {p \in known : a = Main(p)}
    ELSE IF a \in subIndex
    THEN {p \in known : p = a[1]}
    ELSE WalletPrincipal(a)

BrokenState(a) == ~(\E p \in accounts : a = Main(p)) /\ a \in subIndex /\ a[1] \notin accounts

\* get_transaction_type, for a transfer from one of p's accounts
IsCreateCanister(from, to, createMemo, p) ==
    /\ from # to
    /\ createMemo
    /\ to = CmcAccount(p)

\* maybe_process_transaction for the next block, a transfer; createMemo says
\* that its memo is MEMO_CREATE_CANISTER.
ProcessTransfer(from, to, createMemo) ==
    /\ synced < MaxHeight
    /\ synced' = synced + 1
    /\ LET relevant == ~StoreHasAccount(to) /\ StoreHasAccount(from)
           payer == {p \in TryGetPrincipal(from) : IsCreateCanister(from, to, createMemo, p)}
       IN  /\ relevant => ~BrokenState(from)
           /\ IF relevant /\ payer # {}
              THEN \E p \in payer :
                      /\ queue' = Append(queue, [height |-> synced + 1, controller |-> p])
                      /\ sender' = [sender EXCEPT ![synced + 1] = from]
              ELSE UNCHANGED <<queue, sender>>
    /\ UNCHANGED <<account, index>>

\* A burn, a mint or an approval
ProcessOther ==
    /\ synced < MaxHeight
    /\ synced' = synced + 1
    /\ UNCHANGED <<account, index, queue, sender>>

\* try_take_next_transaction_to_process
TakeNextTransaction ==
    /\ queue # <<>>
    /\ queue' = Tail(queue)
    /\ UNCHANGED <<account, index, synced, sender>>

\* encode and decode on an upgrade: the accounts stay in stable memory, the rest
\* is saved and restored, and links are made unique.
Deduplicated(s) ==
    LET firsts == {i \in DOMAIN s : \A j \in 1 .. i - 1 : s[j] # s[i]}
    IN  [n \in 1 .. Cardinality(firsts) |->
            s[CHOOSE i \in firsts : Cardinality({j \in firsts : j <= i}) = n]]

Upgrade ==
    /\ links' = [q \in Principals |-> Deduplicated(links[q])]
    /\ UNCHANGED <<account, subIndex, subCount, walletCount, sync>>

----------------------------------------------------------------------------
\* The update methods of main.rs act for their caller, whoever that is.
UserCall(caller) ==
    \/ AddAccount(caller)
    \/ \E n \in RequestNames :
          \/ CreateSubAccount(caller, n)
          \/ \E a \in UserAccounts : RenameSubAccount(caller, a, n)
          \/ \E q \in Principals : RegisterHardwareWallet(caller, n, q)
          \/ \E c \in CanisterIds : AttachCanister(caller, n, c) \/ RenameCanister(caller, n, c)
    \/ \E c \in CanisterIds : DetachCanister(caller, c)
    \/ \E n \in 0 .. MaxTokens + 1 : SetImportedTokens(caller, n)

Next ==
    \/ \E p \in Principals : UserCall(p)
    \/ \E p \in Principals, c \in CanisterIds : AttachNewlyCreatedCanister(p, c)
    \/ \E from \in UserAccounts, to \in Targets, m \in BOOLEAN : ProcessTransfer(from, to, m)
    \/ ProcessOther
    \/ TakeNextTransaction
    \/ Upgrade

Spec == Init /\ [][Next]_vars

----------------------------------------------------------------------------
(***************************************************************************)
(* Properties.                                                             *)
(***************************************************************************)

\* hardware_wallets_and_sub_accounts says the same as the accounts themselves: it
\* has an entry for exactly the sub-accounts that exist, each one of an account
\* that exists (so try_get_principal never meets BROKEN STATE), and links every
\* hardware wallet to exactly the accounts that list it, once each.
IndexConsistent ==
    /\ subIndex = {a \in Principals \X SubIds : a[1] \in accounts /\ subs[a[1]][a[2]] # NoName}
    /\ \A q \in Principals :
          /\ Elems(links[q]) = {p \in accounts : \E w \in Elems(wallets[p]) : w.principal = q}
          /\ Cardinality(Elems(links[q])) = Len(links[q])

\* The counters that are kept beside the accounts, and survive upgrades, are the
\* numbers of sub-accounts and of hardware wallets in all accounts.
CountersExact ==
    /\ subCount = Cardinality({a \in Principals \X SubIds : subs[a[1]][a[2]] # NoName})
    /\ walletCount = Cardinality({x \in Principals \X (1 .. MaxWallets) :
                                    x[2] <= Len(wallets[x[1]])})

\* The list of canisters of an account has no canister twice and no name twice,
\* however attaching by the user and by the periodic task runner, renaming and
\* detaching follow on each other, and it is sorted.
CanistersSound == \A p \in Principals : SoundList(canisters[p])

\* An account whose list of canisters is full only gets canisters that the
\* periodic task runner attaches, without a name.
FullListStep ==
    \A p \in Principals :
        Len(canisters[p]) >= MaxCanisters /\ Len(canisters'[p]) > Len(canisters[p]) =>
            \E id \in CanisterIds :
                Elems(canisters'[p]) = Elems(canisters[p]) \cup {[name |-> EmptyName, id |-> id]}
FullListGetsNoMore == [][FullListStep]_vars

\* The account that a transfer comes from is attributed to the principal that
\* controls it, if the store has the account at all, be it a main account, a
\* sub-account or a hardware wallet of others; the only exception are accounts of
\* early users, whose principal is not stored yet.
OwnerFound ==
    \A a \in UserAccounts : StoreHasAccount(a) =>
        TryGetPrincipal(a) = IF a[1] \in accounts \ known THEN {} ELSE {a[1]}

\* Every account that get_account shows a user, the wallets included, is one that
\* maybe_process_transaction knows when it pays; and if the user controls it, the
\* payment is attributed to the user.
ShownAreFound ==
    \A p \in Principals : \A a \in GetAccount(p) :
        StoreHasAccount(a) /\ (a[1] = p => TryGetPrincipal(a) = {p})

\* What is stored twice says the same: the index of sub-accounts and wallets, the
\* counters and the accounts; and every account that is shown or pays is found.
StoreIsConsistent ==
    TypeOK /\ IndexConsistent /\ CountersExact /\ OwnerFound /\ ShownAreFound

\* The runner asks the CMC for a canister only in the name of the principal that
\* controls the account that paid, once for each block.
PaymentsAreThePayers ==
    \A i \in DOMAIN queue :
        /\ queue[i].height <= synced
        /\ sender[queue[i].height] # NoSender
        /\ sender[queue[i].height][1] = queue[i].controller
        /\ \A j \in DOMAIN queue : i < j => queue[i].height < queue[j].height

=============================================================================
