# TLA+ models of the NNS dapp

The NNS dapp is a web application for the Internet Computer (IC). It consists of
a backend canister in Rust (`src/rs/backend`), a frontend in TypeScript and
Svelte (`src/frontend`), and the SNS aggregator, a second canister that caches
data about SNS projects (`src/rs/sns_aggregator`). This directory holds TLA+
models of the parts of it in which several actors work on the same state
without waiting for each other, configurations to check them with TLC, and
proofs checked by TLAPS.

## 1. The system

### Components

| Component | State it keeps | Operations | Modelled |
|---|---|---|---|
| Ledger sync and periodic tasks (`ledger_sync.rs`, `periodic_tasks_runner.rs`, `multi_part_transactions_processor.rs`) | the synced height, the queue of payments, suspended tasks | heartbeat, first sync, fetching and applying blocks, notifying the cycles minting canister (CMC) | `LedgerSync` |
| Accounts store (`accounts_store.rs`) | accounts with sub-accounts, hardware wallets, canisters, imported tokens; an index of account identifiers; counters | add, create, rename, register, attach, detach, process a transaction, save and restore | `AccountsStore`, `CanisterList` |
| Creating and topping up canisters (`canisters.api.ts`, `canisters.services.ts`) | where each call is; polling | transfer, notify, poll, attach; notify when a page is opened | `CreateCanister`, `TopUpCanister` |
| Pages of canisters (`Canisters.svelte`, `CanisterDetail.svelte`) | store of canisters, selected canister, dialog | load, link, rename, unlink, controllers, cycles | `CanisterPages` |
| Query and update calls, queued stores (`utils.services.ts`, `queued-store.ts`) | certified data, queue of mutations | query, update, set, remove, cancel | `QueryAndUpdate`, `QueuedStore`, `FreshestAnswer` |
| ICP accounts (`icp-accounts.services.ts`) | balances and details, both queued | sync, transfer, sub-accounts, polling | `IcpAccounts` |
| NNS neurons (`neurons.services.ts`, `governance.api-service.ts`) | store and cache of neurons | every operation on a neuron, alone and in bulk; recovery of interrupted stakes | `NnsNeurons`, `NeuronClaims` |
| SNS neurons (`sns-neurons.services.ts`, `sns-neurons-check-balances.services.ts`) | store of neurons, queued store of a page | every operation on a neuron; recovery | `SnsNeurons` |
| SNS sale (`sns-sale.services.ts`) | open ticket, flows | new ticket, transfer, notify, restore | `SnsSale` |
| Voting (`vote-registration.services.ts` and what the NNS and the SNS add) | selection, registrations, stored ballots | open, select, vote, reload, actionable proposals | `Voting`, `SnsDecision` |
| Lists of proposals (`proposals.services.ts`, `sns-proposals.services.ts`, `actionable-*.ts`) | list, filters | filter, scroll, scan | `ProposalLists` |
| Wallets (`NnsWallet`, `IcrcWallet`, `CkBTCWallet`) | transactions, dialogs | load pages, send, convert, receive BTC | `Wallet` |
| Imported tokens (`imported-tokens.services.ts`) | list of tokens, failed ledgers | import, index, remove, load | `ImportedTokens` |
| Workers with timers (`timer.worker-utils.ts`, `workers/`) | timer, status, jobs | start, stop, job | `TimerWorkers` |
| SNS aggregator (`fast_scheduler.rs`, `upstream.rs`, `state.rs`) | cache, list to visit, pages, schedule | slow and fast update, pause, start, upgrade | `SnsAggregator` |
| Entry points, upgrades, performance counters (`main.rs`, `perf.rs`) | log of exceptional transactions | heartbeat, upgrade | in `LedgerSync` |
| Accounts database (`accounts_store/schema/`) | the authoritative database, a migration to another one | insert, remove, step, complete, upgrade | `AccountsDb`, `AccountsMap` |
| Assets of the backend (`assets.rs`) | files, hashes of the paths at which they are served | install, upload, new arguments, upgrade, serve | `CertifiedAssets` |
| Total value locked, heap in stable memory (`tvl.rs`, `timer.rs`, `state/`) | last rate and locked amount; a partition of the memory | timers, calls, save, recover | `ValueLocked` |
| Hardware wallets (`ledger.identity.ts`, `icp-ledger.services.ts`) | identities with kept signatures, the transport | connect, register, show, sign, poll | `HardwareWallet` |
| Session (`auth.store.ts`, `auth.services.ts`, `auth.worker.ts`, `+layout.svelte`) | the delegation in the browser's database, an identity in each tab | sign in, watch, sign out, reload | `Session` |
| SNS projects and commitments (`sns.services.ts`, `ProjectDetail.svelte`, `projects.utils.ts`) | derived state, lifecycle, commitment | load, watch, participate, reload | `SwapCommitments` |
| Metrics, proposals tool, presentation | | | no, see section 8 |

### How the parts interact

- The IC runs a heartbeat of the backend about once a second. Each heartbeat
  spawns a task that reads the tip of the ledger, the index of its archives and
  the blocks (three awaits), gives the blocks to the accounts store, takes one
  payment from the queue, notifies the CMC of it (an await) and attaches the
  canister that the CMC created to an account. Heartbeats do not wait for the
  tasks of earlier ones.
- The accounts store is called by these tasks and by users' requests. Code
  between two awaits is atomic; everything else interleaves.
- The browser creates a canister by paying the CMC on the ledger, notifying the
  CMC and attaching the canister to the account. It does not talk to the runner:
  both act on the same payment, which the CMC makes idempotent, and on the same
  list of canisters. The runner is there for browsers that are gone. It tops up
  canisters in the same way; there it is the page of the canister that makes up
  for browsers that are gone.
- Most pages of the browser read twice: a query, which one node answers and which
  may be old, and an update, which is certified and slow. The answers of several
  requests come in any order, and the stores decide what is shown.
- Staking and participating in a sale are two calls to two canisters: tokens go
  to the ledger first, and governance or the swap is told afterwards. What is
  interrupted in between is found again when a page is opened.
- The browser does not always ask again: votes are shown before they are read
  back, lists are saved over lists that were read earlier, and a cache stands in
  front of the governance canister.
- The aggregator has two updaters over one cache. The browser reads what it
  serves page by page.
- The tabs of a browser share a database with the delegation of the user, and the
  transport of a hardware wallet. Each tab learns of a sign-out from its own worker,
  which polls; a hardware wallet may be exchanged between two steps of an operation.
- An upgrade of the backend saves the heap, forgets the suspended tasks and the bundled
  files, and finds a database of accounts that may be half migrated.

### What is hard

Tasks started by different heartbeats with stale heights; a payment that is in no
queue while its task is suspended; two notifications for one payment; a list of
canisters that the runner and the user change; principals that are users, hardware
wallets of several users, or both; answers of queries and updates that overtake each
other; reads that were sent before a write and arrive after it; loops over neurons
or accounts whose later steps fail; tickets and transfers that are taken up again
after a reload; votes that are in progress while ballots change elsewhere;
timers that are started while the first job still runs; an updater that stores
again what it read before another one stored; accounts that are written while they are
migrated; paths that are certified in one place and resolved in another; an identity that
outlives its session in another tab.

`PROJECT.json` lists these hazards with their lines and the properties that are
aimed at them.

## 2. The models

A definition has the name of the function that it models where that is possible;
`map` in `PROJECT.json` gives the lines of the source for each of them. Definitions
whose comment begins with "Mutant" are plausible bugs, used to show that the
properties notice them (section 7). They are not part of any specification.

Conventions that all modules share: code between two awaits is one action. A call is
answered in a step of its own, so that what was read before may be old by then; an
answer returns a value that was current between the call and the answer. What other
canisters do is modelled by what this code sees of it, and is marked external.
Counters, sessions, failures and changes made elsewhere have named bounds, which the
guards of the actions state.

### Backend

- **LedgerSync.** *State:* the fields of the backend (`synced`, `queue`, `attached`,
  `exceptional`, the principals with an account and those registered as hardware
  wallets), and for each task of the set `Tasks` the await at which it is suspended
  (`pc`), the answer under way (`reply`) and its local variables (`local`). `base`,
  `times`, `paid` and `settled` are history. *Actions:* one for each piece of code
  between two awaits (`Heartbeat`, `SyncCallFailed`, `FirstSync`, `NothingNew`,
  `AskIndex`, `AskBlocks`, `ApplyBlocks`, `NotifyDone`); `TakeNext` is the part of
  `run_periodic_tasks` that follows the sync in the same step. *The lock:*
  `sync_transactions` has a `LOCK`, but takes it in the condition of an `if`, where
  the guard is a temporary that is dropped before the branch runs. No task ever
  holds it at an await, and so the model has no lock. *Data:* a block is its kind
  and its payer, a canister the height of its payment.
- **CanisterList, AccountsStore.** All of `accounts_store.rs` that changes an
  account, the index (`hardware_wallets_and_sub_accounts`), the counters, the synced
  height or the queue. `CanisterList` has the operations on one list of canisters as
  operators, so that `CreateCanister` and `CanisterPages` use the same ones. One
  variable for each field of `Account`; an account identifier is the pair that the
  code hashes. `sort_unstable_by_key` may leave equal elements in any order, and so
  the sorted lists are a set.
- **CreateCanister, TopUpCanister.** The browser's `createCanister` and
  `topUpCanister` with `poll`, the runner, the CMC, the index that lags, and
  `notifyTopUpIfNeeded`. A browser may be gone at any time; what it sent may still
  be executed or be lost. `LedgerSync` shows that the runner gets every payment once.
- **SnsAggregator.** The slow updater pops a project from `sns_to_get` (or asks for
  the list), waits, schedules the fast one and stores; the fast updater picks the
  next project whose sale is open or near (`GlobalNext`), waits and stores, or pauses
  and sets a timer for the next sale. `InsertSns` keeps `max_index` and rewrites the
  page of the index out of a map that is ordered by root canisters. A failed call of
  the slow updater stores again what it read at the start. `Read` is the browser's
  loop over the pages. A project's data is the phase of its swap.
- **AccountsDb, AccountsMap.** The proxy in front of the accounts: an authoritative
  database and, during a migration, the one that accounts are copied to. Heartbeats ask
  for steps by calls of the canister to itself, so that a step that traps changes nothing
  and is asked for again with one account. Changes go to both databases. `AccountsMap` is
  what the trait promises: one map. The hook of this version starts no migration, so the
  first states are all those that an upgrade may find.
- **CertifiedAssets.** The hashes are inserted for all alternate paths of a file; what is
  served at a path is looked up the other way round. Bundled files are replaced by an
  upgrade, uploaded ones are kept, and new arguments change the index pages. A path is a
  root, a suffix and whether `.gz` follows.
- **ValueLocked.** Two timers with their calls, `get_tvl`, and the heap: a length and that
  many words, written over what an earlier upgrade left in a memory that only grows.

### Frontend

- **QueryAndUpdate** has the strategies of `queryAndUpdate` as operators: which calls
  are sent, and which answers are heard. **QueuedStore** is a queued store: a
  sequence of spots with the mutations of a query and an update. **FreshestAnswer**
  is what such a store promises, without any queue: for every item the answer of the
  last request that has one. **IcpAccounts** composes two queued stores with the
  services that fill them, and its balances implement `FreshestAnswer`
  (`ShowsFreshestAnswer`, a refinement under which the queue is hidden).
- **NnsNeurons.** Every operation that the neuron pages offer, in the order of the
  service: which identity signs it, which check refuses it, the call, the cleared
  cache, the reload. `forced` is the strategy of the session: nine of ten sessions have
  lists that are queries only, so that nothing is certified or cached, and a page that
  asks for neurons of its own accord may use any strategy. The first answer of a list
  ends the operation that awaits it (`Settles`); the update comes later, and fills the
  cache whatever was cleared meanwhile. An entry of the store says `from` where it comes.
  `NeuronClaims` and the recovery of **SnsNeurons** are the loops
  that look for neurons whose stake or top-up was interrupted. **SnsNeurons** also
  has the permissions from which the page derives what it offers. The calls for its list
  go on when the page is left, and their answers are set then; an update that was
  asked for before the last change is `"old"`.
- **SnsSale.** Flows of `initiateSnsSaleParticipation` and
  `restoreSnsSaleParticipation`, each suspended at one of its calls, over the ticket
  of the swap and the transfers of the ledger. A transfer is deduplicated for 24
  hours (`old` tickets are not).
- **Voting.** The page of a proposal, the selection of neurons, `processRegisterVote`
  with its errors, the reload of neurons and proposal, optimistic ballots, and the
  actionable proposals; `kind` says whether the universe is the NNS or an SNS. That a
  neuron has voted is modelled by the proposal's ballots; which vote the card shows may
  come from the recent ballots of the store of neurons (`getVote`) and is left out.
  **SnsDecision** is governance's tally with early decisions, extended deadlines and
  the distribution of rewards, and the status, the reward status and the card for votes
  that the frontend derives from the proposal alone.
- **ProposalLists.** Filters, pages and the scan for actionable proposals, over a
  queued list for the NNS and a set for the SNS.
- **Wallet.** The list of transactions of one account, fed by pages and by a worker,
  with the cards that are derived from it; sending, converting to BTC and looking
  for BTC. The worker asks for older pages until it reaches the newest block that it
  knows (`GetIcrcAccountTransactions`), and takes one page when it knows none. Accounts
  that fail to load take the list with them (`LoadAccountsFails`), and the ICP wallet loads
  its list again only when the balance that it shows changed (`ReloadsList`). `late` and
  `outgrown` are history: they mark the two ways in which a list gets a gap.
- **ImportedTokens.** The backend's list, the mirror in a store, the dialogs that
  save a new list over the old one, and the pages that load tokens from ledgers. A user
  without an account has an empty list, which is an answer like any other.
- **CanisterPages.** The list of canisters and the page of one, with the dialogs.
- **TimerWorkers.** A page's worker: `start` awaits the identity and the first job
  before it sets the timer, while messages go on arriving.
- **HardwareWallet.** Every operation that needs the wallet is a script of sessions. A
  session opens the transport, compares the key of the wallet with that of the identity,
  does one thing and closes the transport; each of these steps may fail. The user plugs
  another wallet between any two of them. A call is signed together with the request that
  reads its state, and the signature is kept for the polling. Two tabs share the wallet.
- **Session.** The tabs of a browser over one delegation: `syncAuth`, which the store and
  the start of the worker call, the worker's poll, the sign-out with its message in the
  URL, reloads, and an expiry.
- **SwapCommitments.** The page of a project: the wrapper that is loaded once, the derived
  state, the lifecycle and the commitment with the order of their answers, the watcher, whose
  queries run besides those of the reload, the checks of the form and of the button, and the
  reload after a participation. Leaving the page removes the ticket from the store; the
  participation goes on, and a page that is opened meanwhile offers the button again
  (`NoTicket`).

### Composition

`CreateCanister`, `CanisterPages` and `AccountsStore` share the operations of
`CanisterList`; `IcpAccounts`, `ProposalLists`, `ImportedTokens`, `CanisterPages`,
`SnsNeurons` and `Voting` share `QueryAndUpdate`, and the first two `QueuedStore`.
`AccountsStore` classifies the transfers that `LedgerSync` abstracts to a kind.

Several MC modules check independent parts in one run: the variable `part` says
which part a behaviour is about. The MC module extends the module of one part
(`MC_Recovery` extends `SnsSale`, `MC_Tokens` extends `ImportedTokens`, `MC_Payments`
extends `CreateCanister`, `MC_Live` extends `LedgerSync`) or of several
(`MC_AccountsStore` extends `AccountsStore`, `AccountsDb`, `CertifiedAssets` and
`ValueLocked`, `MC_Canisters` extends `AccountsStore` and `CanisterPages`,
`MC_IcpAccounts` extends `IcpAccounts` and
`HardwareWallet`, `MC_Proposals` extends `Voting` and `SnsDecision`), so that the run
checks the very property that the theorem states and TLC evaluates the assumptions of that
module; its variables keep an initial value, or one that makes its properties true, while a
behaviour is about another part. For that, the definitions of such modules have names of
their own (`SpecDb`, `SpecAssets`, `SpecWallets`, `SpecDecision`, `PagesSpec`). The other parts are
instances, whose variables keep the value 0 unless the behaviour is about them, and whose
properties say `part = "x" => ...`. This composes nothing: it saves setting up a run for
each part.

## 3. The runs

| Run | Parts | Bounds | Why they are enough |
|---|---|---|---|
| `sync_safety` | `LedgerSync` | 2 tasks, 1 principal, 3 blocks, 1 archive, batches of 2, log of 1, 1 failure | Two tasks are what it takes to race. Two blocks can be missing and come in one batch, in two after a short answer, or from an archive and the ledger. More is covered by the proofs. |
| `live` | `LedgerSync`, `TimerWorkers`, `Voting`, `CanisterPages`, `SnsAggregator`, `Session` | 2 tasks, 2 blocks; 2 jobs at a time, a chain of 5, pages of 2; 2 neurons, one following the other, 1 proposal; 2 canisters, 2 calls; 3 projects whose root canisters are in another order, one of them with a sale, pages of 2, one update of each kind at a time; 2 tabs, 1 sign-in, 1 reload; 1 failure, 1 upgrade | One thing to be missed by two actors, and one failure, is enough for each part. The third project is on a page of its own. |
| `payments` | `CreateCanister`, `TopUpCanister` | 2 payments, 1 name, limit of 1 canister, 2 polls, 1 rejected call; 2 top-ups | Both creations may ask for the same name, the second canister exceeds the limit, and a later transaction may hide an earlier one. |
| `store` | `AccountsStore`, `AccountsDb`, `CertifiedAssets`, `ValueLocked` | 2 principals, 2 sub-accounts and 2 wallets each, limit of 3 accounts, 1 block; 3 keys, steps of 2 accounts, 2 calls; 2 bundles, 2 uploads, 2 arguments; 2 rates, 1 call, 3 entries, pages of 2 words | Wallets that are shared, mutual or the user's own principal all occur. A migration takes two steps, with accounts before, between and behind them. A path gets another file by an upgrade, with the index of a directory among them. A heap may be shorter than the one before, and longer than the memory. |
| `canisters` | `AccountsStore`, `CanisterPages` | 3 canisters, limit of 2; 2 canisters, 2 calls at a time, 2 pages, 1 dialog, 1 trouble | The list gets full, and the runner makes it longer than its limit; an answer for one canister may come when the page shows another one. |
| `accounts` | `IcpAccounts`, `HardwareWallet` | 2 accounts, 3 requests, 1 transfer, 1 failure; 2 wallets, one with an old app, 2 tabs, 2 calls | Three requests can overtake each other with one in the middle that fails or is forgotten. A wallet is exchanged for another one, with another tab in between; staking takes two calls. |
| `neurons` | `NnsNeurons` | 2 neurons, 1 followee, 2 operations, 1 other list call, 1 trouble (a late answer or a failed call); the first states of `SomeInit`: sessions of queries have neurons of the user only, neurons of a device are locked, two neurons where they can or must not be merged | Two operations in a row, the second after a reload that may be late or while the update of the first reload is under way; merges and bulk operations need two neurons. |
| `recovery` | `NeuronClaims`, `SnsNeurons`, `SnsSale`, `SwapCommitments` | 2 neurons, 2 sessions, 1 top-up, pages of 2; 3 accounts, 1 operation, permissions that cannot be granted for one kind of neuron; 2 flows, 2 tickets, 2 lost answers, 2 failures; amounts of 1 and 3 with a minimum of 2 and maxima of 3 (of 1 for SNS neurons, the minimum stake), 2 pages opened and calls that fail together | What is interrupted in one session is recovered in the next; two tabs pay for one ticket; a second participation is possible, or one too many, also on a page that was left and opened again. |
| `proposals` | `Voting`, `ProposalLists`, `SnsDecision` | 2 neurons and 2 proposals, 1 vote, 1 change elsewhere; 5 proposals, pages of 2, 4 requests; totals up to 6 votes, all thresholds | A vote that is carried along by a followee's; an old page that comes after a new filter; the decision is proved for all numbers. |
| `tokens` | `Wallet`, `ImportedTokens` | up to 3 blocks, pages of 2, 3 new blocks (2 for ckBTC), 2 visits, 2 payments; 3 ledgers, 2 tokens allowed, 2 dialogs, 1 trouble | Three new blocks are more than a page; a gap needs a list and a page that does not reach it. With two tokens, a save has another one to lose, and the third ledger exceeds the limit. |
| `create_rejected` | `CreateCanister` | 1 payment, 1 rejected call | finding 1 |
| `worker_error` | `TimerWorkers` | 1 kind of worker, 1 failure | finding 2 |

Symmetry is used only where the properties are invariants or say something of single
steps: tasks, principals, neurons of the NNS, proposals, flows and ledgers are interchangeable
there. Canisters are not, because lists are sorted by their ids. Deadlock is checked in `sync_safety`
and `store`. The other parts stop when every bound is used up and no call is under
way, or when a browser is gone.

### What the properties say

- `ExactlyOnce`, `PaymentsConserved`, `AttachedWasPaid`, `AsksHolder`,
  `ProgressIsKept`: however many stale tasks run, every block is applied once, a
  queued payment is in exactly one place, only paid canisters are attached, the
  canister that is asked for blocks holds them, and nothing is taken back.
- `EverythingIsSettled`: the sync catches up and the queue is worked off, although
  payments may go through it several times.
- `EverythingIsShown`, `PartsAreSound`: what a worker observes is shown in the end;
  its page has no gap, never goes back, and runs one job at a time. A tab with an identity
  is watched, loads its private data once, and shows the message of a sign-out once.
- `PagesSettle`: a registration of votes ends, no dialog or loader of the pages of
  canisters stays, and no tab goes on showing a session that is over.
- `SnsListBecomesCurrent`: the list that the browser reads from the aggregator, page
  by page, becomes right (every project once, with its current phase) while open sales
  are followed by the fast updater, whatever stale answers were stored before.
- `SuccessIsListed`, `NeverForgotten`, `PaidIsListedOrRejected`: when `createCanister` reports
  success the canister is listed with its name; what was listed stays until the user
  detaches it; a payment ends as a listed canister, a refund, or with a rejected call
  of the runner, even without a browser. `LatestTopUpSettles`: the most recent top-up
  is settled if the page is opened often enough.
- `StoreIsConsistent`: index, counters and accounts say the same, the owner of every
  account that pays is found, and every account that is shown to its user is one that
  payments are attributed to. `PaymentsAreThePayers`: a queued payment is the
  payer's.
- `MigrationIsSound`, `ProxyIsOneMap`: while accounts are migrated, each is in the new
  database as it is in the old one or is still to come, and the checks at the end never
  cancel a migration; the database is one map that only inserting and removing change, a
  refinement of `AccountsMap`. `AssetsAreSound`: every path is certified with the hash of
  the file that is served there, and nothing of an older version or older arguments is
  left. `HeapIsKept`: an upgrade reads what was saved, and the rate that is shown is of
  one answer.
- `SigningIsSound`: what is sent for an account of a hardware wallet is signed by that
  wallet, with the right signature and flag, and is confirmed once; a transport is closed
  whatever fails.
- `CanistersSound`, `FullListGetsNoMore`: no canister and no name twice, sorted, and
  only the runner goes beyond the limit. `SettingsAreSound`: no canister gets
  controllers that were shown for another one (`ControllersWereConfirmed`).
  `SuccessIsShown`: what a dialog did is in the list that is shown, or on its way.
- `ShowsFreshestAnswer`, `ReadsOwnWrites`, `StoresAreSound`: the balances are those of
  the freshest answer, never older than a certified request, and no spot of a queue
  is lost or left behind.
- `ShownAsTheyAre`, `NoLostUpdates`, `OffersAreAccepted`: after an operation the
  neurons are shown as governance has them, operations that replace a value started
  from governance's value, and governance accepts what the pages offer.
- `PagesAreRight`: interrupted stakes and top-ups are claimed when a page is opened, at
  most once a session; the page of an SNS neuron reads its own writes; who may participate
  in a swap again sees the participations before, and what the form allows at most is
  accepted. `PaymentsAreSafe`, `ParticipationSettles`: a ticket is paid once,
  however often it is taken up again, and is not left behind without an error.
- `NoVoteLostSilently`, `VotingIsShown`: a vote is cast or its failure shown; what is
  shown as voted has voted (`ShownVotesAreCast`), the card lists every neuron and an
  eligible one once (`NeuronsAreListed`), on the NNS page a neuron that the user deselected
  stays so (`NnsSelectionIsKept`), and no proposal with a neuron that may vote is missing
  from the actionable ones (`VotableIsActionable`).
- `ListsAreComplete`: filters, pages and late answers leave no gap in a list, lose no
  answer, and the scan for actionable proposals finds all. `StatusIsGovernances`: the computed status is the decision that was taken, and the
  card for votes is there exactly while governance takes votes.
- `WalletIsSound`: the cards of a wallet add up to the change of the balance, no
  transaction between two shown ones is missing, what a form accepts is covered, and BTC
  that was credited is not shown as pending.
- `ImportedTokensAreKept`: saving a list of tokens over another one loses none.

Some of these have a premise in the model that names what the code does not promise:

| Property | Premise | What is not promised without it |
|---|---|---|
| `WalletIsSound` (`NoGap`) | no page that was asked for before the list was reset came after it (`late`), and no first page came while more than a page of blocks was newer than a list that was not empty (`outgrown`) | The list has a gap that is never filled (`AllIsLoaded`, section 6). |
| `ShownAsTheyAre` | the list did not fail, and is not one that was cached by a call that an operation overtook (`from`) | An empty list, or the neurons from before the operation (`CacheIsInvalidated`, section 6). |
| `NoLostUpdates` | no answer was late and no call failed | An older neuron may be in the store, and the followees that are sent are computed from it. |
| `PagesAreRight` (`ParticipationIsShown`) | no call failed, no earlier answer came late, and the page was not left while the participation runs | The form allows what the swap will not take. |
| `VotingIsShown` | the selection is the one of the NNS page | On an SNS page a late answer selects again. |
| `ListsAreComplete` | sessions whose lists are queries, and lists that were fetched for their filter | The mark of a complete list is that of another filter. |
| `ImportedTokensAreKept` | sessions whose lists are queries, without another tab | The whole list is replaced, with what another tab saved. |
| `SettingsAreSound` | none, but it is about the canister that is changed | The controllers that another tab set are undone. |

The hazards in `PROJECT.json` say which half of them a property leaves out.

### Fairness

All liveness is of the form `[]<> P`: counters are bounded, so that it means that `P`
comes back whenever nothing new happens.

- `LedgerSync`: weak fairness of the heartbeat, of answers and of their delivery. The
  IC calls the heartbeat again and again, answers or rejects every call and delivers
  every answer; the CMC completes what it started. Users, new blocks, archiving and
  upgrades are not fair. Calls fail finitely often.
- `TimerWorkers`: weak fairness of the jobs, of loading the identity and of `start`;
  strong fairness of the timer, which fires again after a job is over, and of an
  index that comes to agree with its ledger. The browser's timers and calls justify
  both. No user has to stay on the page.
- `Voting`: calls of the registration are answered or fail; the certified answer of
  the neurons arrives. `CanisterPages`: calls are answered or fail (`Browser`); no
  click is fair.
- `SnsAggregator`: both interval timers and the start timer fire, and calls are
  answered or fail. Upgrades, deployments, the phases of a sale and the time are not
  fair.
- `Session`: the timer of a tab's worker fires, its messages are delivered and a sign-out
  goes on (`Browser`), while the tab is open. Signing in, other tabs' users and the expiry
  are not fair.
- `CreateCanister`: the CMC, and the runner by the liveness of `LedgerSync`.
  `TopUpCanister`: the CMC, the index, and somebody who opens the page again.

## 4. The proofs

The theorems hold for every value of the constants that satisfies the named assumption
of the module; the runs check the same properties on small instances. There are 33
theorems that a reader should know of, in eight modules. Each follows from an invariant
that is inductive.

| Theorem | Property | Says |
|---|---|---|
| `LedgerSyncProofs!TypeCorrect` | | types, for any number of tasks |
| `LedgerSyncProofs!BlocksAppliedOnce` | `ExactlyOnce` | every block is applied once, in order, without gaps |
| `LedgerSyncProofs!NoPaymentLostOrDoubled` | `PaymentsConserved` | a queued payment is in exactly one place |
| `LedgerSyncProofs!OnlyPaidAttached` | `AttachedWasPaid` | only paid canisters are attached |
| `LedgerSyncProofs!ProgressKept` | `ProgressIsKept` | nothing is taken back by a stale task |
| `LedgerSyncProofs!HolderAsked` | `AsksHolder` | the canister that holds a block is asked for it |
| `AccountsStoreProofs!StoreConsistent` | `StoreIsConsistent` | index, counters and accounts agree |
| `AccountsStoreProofs!PaymentsOfThePayers` | `PaymentsAreThePayers` | payments are queued for the payer, once |
| `AccountsStoreProofs!CanisterListsSound` | `CanistersSound` | no canister and no name twice, sorted |
| `AccountsStoreProofs!FullListsGetNoMore` | `FullListGetsNoMore` | only the runner exceeds the limit |
| `AccountsStoreProofs!MigrationsAreSound` | `MigrationIsSound` | a migration copies every account and is completed |
| `AccountsStoreProofs!ProxyImplementsMap` | `ProxyIsOneMap` | the database implements `AccountsMap` |
| `AccountsStoreProofs!AssetsSound` | `AssetsAreSound` | what is certified is what is served |
| `AccountsStoreProofs!HeapKept` | `HeapIsKept` | an upgrade reads back what was saved |
| `AccountsStoreProofs!SettingsSafe` | `SettingsAreSound` | a canister has only controllers that were confirmed for it |
| `AccountsStoreProofs!DialogsShowSuccess` | `SuccessIsShown` | what a dialog reports is in the list or on its way |
| `ProposalsProofs!StatusCorrect` | `StatusIsGovernances` | status and card for votes are governance's |
| `ProposalsProofs!VotesNotLost` | `NoVoteLostSilently` | a vote is cast or its failure shown |
| `ProposalsProofs!VotingShown` | `VotingIsShown` | what is shown of voting is right |
| `CreateCanisterProofs!TypeCorrect` | | types |
| `CreateCanisterProofs!SuccessesAreListed` | `SuccessIsListed` | success means listed, with the given name |
| `CreateCanisterProofs!CanistersAreKept` | `NeverForgotten` | what was listed stays until it is detached |
| `SnsSaleProofs!TypeCorrect` | | types |
| `SnsSaleProofs!PaymentsSafe` | `PaymentsAreSafe` | a ticket is paid once, and no payment is out of the swap's sight |
| `SnsSaleProofs!ParticipationsSettle` | `ParticipationSettles` | who ends without an error leaves no ticket behind |
| `ImportedTokensProofs!TokensAreKept` | `ImportedTokensAreKept` | saving a list over another loses no token |
| `NnsNeuronsProofs!UpdatesAreKept` | `NoLostUpdates` | an operation starts from governance's value |
| `NnsNeuronsProofs!WritesAreSeen` | `ShownAsTheyAre` | after an operation, a certified list shows the neurons as they are, unless it failed or comes from the cache that an overtaken call filled |
| `NnsNeuronsProofs!OffersAccepted` | `OffersAreAccepted` | governance accepts what is offered |
| `IcpAccountsProofs!StoresSound` | `StoresAreSound` | both stores are well formed, no awaited spot is lost |
| `IcpAccountsProofs!OwnWritesAreRead` | `ReadsOwnWrites` | a certified balance is as new as its request |
| `IcpAccountsProofs!FreshestIsShown` | `ShowsFreshestAnswer` | the balances implement `FreshestAnswer` |
| `IcpAccountsProofs!SigningSound` | `SigningIsSound` | an account's wallet signs, once |

`InvariantHolds`, `Invariance`, `StoreInvariance` and `ArchivesInARow` are the theorems
that the inductive invariants hold.

### Assumptions

They are about constants only. Sets of actors and accounts are finite, because numbers
of elements and sums are taken over them; bounds are natural numbers; a batch, a chain
and a polling limit are not zero. `Cmc \notin Principals`: the minting canister is no
user. `CanisterIds \subseteq Nat`: canister ids are ordered. `Main \in Accounts`.
`Forced` holds strategies that exist, and a ledger is none of the names of
the other pages. For `SnsDecision`, the threshold of the votes
exercised is at least the one of the total, as it is in the
frontend's defaults (3 % of the total, 50 % of the exercised) and in governance, and
neither exceeds 100 %. For `AccountsDb`, keys are numbers, which gives them their order,
and a step takes at least two accounts before it is asked for again with one. For
`CertifiedAssets`, the files of a bundle are compressed, as `build-frontend.sh` leaves
them, no two files of a bundle or the list of uploads are served at the same path, and
uploads are neither compressed nor index pages. For `ValueLocked`, a page of the memory is
not empty. `OldApps \subseteq Wallets`, and votes are
yes or no. For `CanisterPages`, the user is one of the possible controllers and 0, which
stands for no canister, is no canister's id.

### Arguments

- **LedgerSync.** `IndInv` adds to the properties what a suspended task knows:
  `HeightsOK` (heights that a task read are real heights, perhaps old) and `TaskOK`
  (what it asked for fits the height that it started from). Two tasks that ask for the
  same blocks are both right; the one that comes second finds that its first block is
  not the next one and applies nothing. `ExactlyOnce` therefore needs no lock.
  `PaymentsConserved` counts payments through the queue, the tasks and the settled
  ones. `AsksHolder` needs `ArchivesInv` as well: archives hold consecutive ranges,
  which end where the ledger begins.
- **AccountsStore.** `IndInv` is the conjunction of type correctness,
  `IndexConsistent`, `CountersExact`, `PaymentsAreThePayers`, `NothingWithoutAccount`
  and `WalletsInLimit`. The index has exactly the accounts that exist; that the owner
  is found follows from it (`OwnerFound`), and so does that shown accounts are found
  (`ShownAreFound`). Counters are cardinalities, so that each operation changes them by
  as much as the set it changes. The lists of canisters have an invariant of their own,
  which rests on lemmas about `CanisterList`: inserting into a sorted list, dropping a
  position, and finding a name.
- **CreateCanister.** `OneRequest` (the browser asks once to attach a canister),
  `NamesGiven` (a name in the list comes from the request or from the user) and
  `AnsweredIsListed`. `createCanister` takes `CanisterAlreadyAttached` for success.
  `NamesGiven` shows that this never hides a name that is lost: the canister is then
  the runner's, without a name, and the request gives it one. That the runner removes
  the entry of a canister before it pushes a new one does not lose canisters, because
  the new one has the same id.
- **SnsSale.** `Types`, `LaterUnpaid` (a ticket that is not made is not paid),
  `FlowsOK` (a flow that is about to pay or notify has a ticket that the swap made),
  `OpenIsDue` (what is paid and not yet accepted belongs to the open ticket) and
  `NothingStray`. The sum of all payments is the number of paid tickets, since no
  ticket is paid twice: the sum is a fold, and `PaymentsCount` shows that
  this fold is the number of the tickets that are paid.
- **ImportedTokens.** `NoneLost` is about sessions in which certified data come from
  queries alone and no other tab saves a list: `SingleCalls` (one load at a time, and
  a dialog works on the list that was loaded last), `KeptEverywhere` (every list under
  way has every token that is to be kept) and `DialogKeeps` (the list that a dialog
  saves differs only in its own token). With another tab the property has this premise
  in the model too: the backend replaces the whole list. `AllAsked` is about the page:
  what it shows was asked for and came, is awaited, or failed.
- **NnsNeurons.** `Types`, `CallsFit` (calls that run together change different
  neurons), `AskedBefore`, `ListsFresh`, `CacheFresh`, `CacheLags` and `StoreLags`.
  `WritesAreSeen` rests on two of these: a list that was read when nothing was
  under way is what governance has (`ListsFresh`), and so is one that is cached once every
  operation has ended, unless it was asked for before the last one ended and read
  before it was executed (`CacheFresh`): the cache is cleared when an operation ends, and
  what fills it after that was asked for before or after it. Lists that are late in any
  other way are part of the argument. `CacheLags` and `StoreLags` are what makes
  `NoLostUpdates` inductive: where the cache or the store
  differs from governance, there is a call that was executed and has yet to clear or to
  reload. As long as it is there, nobody can start another operation on that neuron.
  `OffersAccepted` is not inductive; it is about every state whose pages show the
  neurons as they are: what the page checks and with which identity it signs
  implies what governance checks.
- **AccountsDb.** `DbInv` is type correctness and `MigrationIsFaithful`: an account is in
  the new database as in the old one, or comes behind the next key and is not there yet.
  That a migration is never cancelled follows: once all keys have been passed the two
  databases are equal, so their lengths and ends are. *Refinement:* the map is the
  authoritative database alone; inserting and removing implement the actions of
  `AccountsMap`, and every other step, also the one that makes the new database
  authoritative, stutters.
- **CertifiedAssets.** A file is served at exactly its alternate paths
  (`ServedIsAlternate`, `AlternateIsServed`), and files go to disjoint sets of paths, so
  that a set of files is certified by the union of their hashes (`Certifies`). Installing,
  uploading and upgrading put files over others (`OverCertifies`).
- **ValueLocked.** `SavedThenRecovered` is about any memory, also one that a longer heap was
  written to before: saving makes room in whole pages and writes the length in front of the
  bytes, and reading stops after that length, so what lies behind it does not matter.
  `HeapInv` adds that no call was asked in the future and that the rate and the time which
  are kept came in one answer, since an upgrade brings back both or neither.
- **CanisterPages.** `PagesInv` follows the controllers of a canister on their way: what
  the management canister has, what a call may still return (`ReadSound`), what the page
  holds (`DetailsSound`) and what a dialog is about to write (`DialogSound`) was confirmed
  for the canister whose id travels with it. The page may show the details of another
  canister than the one of its URL; because the dialogs take the id from the details
  (`SettingsOf`), that does no harm. For `SuccessIsShown`, `Waiting` adds that the dialog
  that works waits for one call at most (`OneAwaited`), and that this call, which was sent
  after the change, can only return lists that show it (`DoneIsListed`); the lists are those
  of the lemmas about `CanisterList`. Steps are `Quiet` or `Idle`: they add nothing that is
  waited for, or nothing is waited for after them.
- **HardwareWallet.** `WalletInv` says of each operation which wallet its identity is of
  (`OfItsAccount`), where in its script the transfer of a stake is (`StakeIsFirst`), that
  the version of the app was read before anything is signed (`VersionWasRead`), and that
  the signatures it keeps are of its wallet and of what is kept with them
  (`SignaturesAreKept`). No two operations are about to sign the same call.
- **SnsDecision.** `DecisionInv` is type correctness, `DecisionStands` and `VotingPeriod`. A
  decision that was taken early stands on a share of the total voting power, which more
  votes cannot take back; one that was taken at the deadline stands on a tally that
  does not change any more. The status is computed from the latest tally, and so this is
  what has to be shown. `VotingPeriod` says that an open decision is not over yet, and
  that a proposal with its rewards is.
- **Voting.** `VotingInv` rests on one order: ballots that were read are `Behind` those of
  governance, where an empty ballot may only have been cast since. What loads carry, what
  the page and the card show, what a scan read and what a registration started from is
  behind (`ReadsAreBehind`), and votes elsewhere only move governance forward. An
  optimistic ballot stays behind because the neuron's call was answered. `RegistrationsRun`
  says what a registration and its reload may be doing, `VotesArePending` where a vote that
  was asked for is, `CardOffersVotes` and `NnsChoice` what the selection has to do with the
  card. `VotableIsActionable` is inductive by itself, since the votable neurons only become
  fewer.
- **IcpAccounts.** The argument is about any queue and any history of answers.
  `Represents` says how they fit: the queue is in the order of the requests and each
  entry holds what its request was answered (`Filled`), what left the queue came before
  what is in it (`Before`), and the certified and the exposed data show, for each item,
  the answer of the last of those requests that had one (`Shows`). Each operation of
  `QueuedStore` keeps `Represents`; the fold over the queue is replaced by a closed form
  (`FoldIsLast`). These lemmas are used twice, for the balances and for the details. The
  rest of the invariant is about requests: `SinceGrows`, `AnswersFit`, `CallsFit`,
  `PollsFit` and `SpotsKept`. A spot that leaves the queue is one whose request cannot
  be heard any more, which is why no awaited spot is lost.
  *Refinement:* hidden in `FreshestAnswer` is the history alone. A step that starts a
  request implements `Ask`, an answer that is heard implements `Answer`, and every
  other step (transfers, cancellations, failures, answers that are dropped)
  stutters (`Asked`, `Came`, `Same`).

### What is not proved

Liveness and everything about `ENABLED`: `EverythingIsSettled`, `EverythingIsShown`,
`PagesSettle`, `SnsListBecomesCurrent`, `PaidIsListedOrRejected` and `LatestTopUpSettles`
stay with TLC. The prover does not do induction over data either: where a property needs a
sum or a fold, the closed form is proved from the definition of the fold, by well-founded
induction over sets of numbers, instead of by induction on a sequence.

Only model-checked: `PartsAreSound` (`TimerWorkers`, `Session` and others), `PagesAreRight`
(`NeuronClaims`, `SnsNeurons`, `SwapCommitments`), `ListsAreComplete` (`ProposalLists`) and
`WalletIsSound` (`Wallet`). They are conjunctions over several parts of a run, or about
sequences of pages whose invariants would need an induction over the pages.

## 5. Findings

1. **`create_rejected`: a payment is dropped when the CMC rejects the runner's call.**
   `handle_create_canister_v2` (`periodic_tasks_runner.rs:44`) takes a payment from the
   queue and does not put it back when the call to the CMC is rejected. If the browser
   is gone as well, nobody notifies the CMC. The comments in `canisters.api.ts` (lines
   226 and 255) say that the runner catches what the browser leaves.
   `PaidIsListedOrRejected` in the run `payments` is the strongest form that holds.
2. **`worker_error`: a job that failed is called again.** `TimerWorkerUtils.start`
   (`timer.worker-utils.ts:46`) runs the first job and then sets the timer, whatever
   became of that job; `stop`, which the job's error handler calls, finds no timer to
   clear and makes the status idle. The comment at line 67 says that the job is no
   longer called.
## 6. Other divergences

These definitions state what a comment or a name in the code says, and do not hold.
They are not checked by a run of their own. To see the counterexample, put the
definition into the configuration of a run of that module.

| Definition | Module | What the code does |
|---|---|---|
| `SyncRunsOnceAtATime` | `LedgerSync` | The guard of `LOCK` is a temporary that is dropped before the sync starts. |
| `CreatedCanisterIsStored` | `LedgerSync` | A hardware wallet need not have an account to attach the canister to. |
| `LongNameFailsFast` | `CreateCanister` | The browser measures names in UTF-16 units, the backend in bytes. |
| `PaidTopUpSettles` | `TopUpCanister` | The backend queues payments for new canisters only. |
| `SelectionIsKept` | `Voting` | On the card of an SNS, a later answer may select a neuron again that the user deselected. |
| `StoredVotesAreCast` | `Voting` | All neurons of a registration are stored as voted, also those whose call failed. |
| `PageShowsItsProposal` | `Voting` | A late answer for the proposal before may be what stays. |
| `CompletedIsAll` | `ProposalLists` | A short answer for one filter marks the list as complete for all of them. |
| `AllIsLoaded` | `MC_Tokens` | A first page that does not reach the older list leaves a gap, and the list is marked as completed. |
| `CacheIsInvalidated` | `NnsNeurons` | A list that an operation overtook fills the cache that the operation cleared. |
| `FilterIsFetched` | `ProposalLists` | The list of a page that is not loading may have been fetched for another filter. |
| `DetailsAreKept` | `CanisterPages` | The ids are compared in two different formats. |
| `FailedAreShown` | `ImportedTokens` | When the list comes again after a failure, its token may have neither a row nor a warning. |
| `CheckedWasLookedAt` | `NeuronClaims` | The loop over the memos marks accounts that have a neuron, without reading their balance. |
| `PagesHoldIndices` | `SnsAggregator` | Pages are cut out of a map that is ordered by root canisters, not by indices. |
| `FastIsForSales` | `SnsAggregator` | The fast updater also visits adopted projects whose sale is not near. |
| `FirstCycleIsComplete` | `SnsAggregator` | A page may be stored before the projects that come before it are known. |

*Gaps in a wallet.* The worker asks for more pages until it reaches the newest
transaction that it knows (`icrc-transactions.worker-services.ts:120`); one that was just
started knows none and takes one page of 20. If more than that came since the list in the
store was loaded, those between are in no page: older pages start from the oldest
transaction of the list. The last page marks the list as completed all the same, though
`isIcrcTransactionsCompleted` "Returns whether all transactions of an SNS account have been
loaded" (`icrc-transactions.utils.ts:448`). The ICP wallet, whose reload takes the first
page (`NnsWallet.svelte:201`) without a reset, gets such gaps as well, without a worker.
The configuration of `tokens` shows it within 12 steps; `AllIsLoaded` asks only that none is
missing between two transactions that are shown.

*The cache of neurons.* `queryNeurons` awaits its certified answer and then sets
`neuronsCache` (`governance.api-service.ts:143`), also when an operation cleared the cache
meanwhile. A list that is asked for after the operation is then answered from the cache,
with the neurons from before it, until the cache expires. The test "should invalidate the
cache" (`governance.api-service.spec.ts:517`) has no list under way. The configuration of
`neurons` shows it within 8 steps.

The description of the auth store says that it is synced on any change of the local storage
(`auth.store.ts`); nothing listens to it, only the worker of a tab (`Session`) polls the
database.

The worker looks at the database alone, so that the identity of a tab may outlive its own
delegation if another tab signed in again meanwhile, and a sign-out under way deletes the
newer delegation of another tab. In `SwapCommitments`, a reload that fails sets the
commitment of the page to not found, but the next change of a store brings the old one
back; and a wrapper whose promise was rejected stays rejected for the session.

Besides, the promise of `reloadProposal` is never settled when the proposal cannot be
read again (`PostFails` in `Voting`): the registration of an NNS vote then stays in its
list until the page is loaded anew. `PagesSettle` names this.

## 7. Mutants

Every property of a passing run has a mutant in `PROJECT.json`: one mapped definition and
an operator in front of it that changes it the way a plausible bug would, for instance a
guard that is dropped, a limit that is off by one, a cache that is not cleared, or a
reload that is forgotten. With the mutated definition TLC finds the property violated
under the configuration of the run. The mutants are the operators whose comments begin
with "Mutant".

## 8. Not modelled

- *Metrics, test data, headers and certificates* of the backend: formatting.
- *The encoding of the heap*, beyond its length, and the memory manager, beyond that its
  partitions do not overlap.
- *Proposals tool*: decoding of payloads.
- *Other assets of the aggregator* (latest, logos, one project): they are stored in
  the same step as the pages.
- *Presentation*: translations, layout, tables and sorting, toasts, tooltips.
- *Amounts*, where no property needs them: the checks of `validParticipation`, fees of
  a canister's creation, and the formulas of voting power. Names, memos and ids are
  reduced to what the code tells apart.

## 9. How to run

In this directory, `tlc -config X.cfg M` for the module and configuration of a run in
`PROJECT.json`, and `tlapm M.tla` for a module of proofs. The longest runs
(`payments`, `accounts`) take about three minutes with two workers.
