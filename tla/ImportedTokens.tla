--------------------------- MODULE ImportedTokens ---------------------------
(***************************************************************************)
(* The tokens that a user imports: the list that the backend keeps, the    *)
(* store that mirrors it (services/imported-tokens.services.ts), the       *)
(* dialogs that save a new list over the old one, and the pages that load  *)
(* each token from its ledger (services/icrc-accounts.services.ts).        *)
(***************************************************************************)
EXTENDS Integers, FiniteSets, QueryAndUpdate

CONSTANTS
    Ledgers,            \* ledgers of tokens that can be imported
    MaxImported,        \* MAX_IMPORTED_TOKENS
    Forced,             \* FORCE_CALL_STRATEGY, of {"query", "query_and_update"}
    MaxVisits,          \* bound on pages opened
    MaxDialogs,         \* bound on dialogs opened
    MaxTroubles         \* bound on calls that fail and on changes made in another tab

ASSUME TokensAssumption ==
    Forced \subseteq {"query", "query_and_update"} /\ Ledgers \cap {"", "none", "tokens"} = {}

VARIABLES
    saved,              \* the backend's list: ledger -> "none", "plain" or "indexed"
    forced,             \* the strategy of this session
    store,              \* importedTokensStore
    loads,              \* loadImportedTokens that are not answered
    failed,             \* failedImportedTokenLedgerIdsStore
    loaded,             \* ledgers in icrcAccountsStore and tokensStore
    fetches,            \* ledgers that were asked and did not answer
    page, requested,    \* where the user is; loadedIcrcAccountsBalancesRequested
    dialog,             \* the dialog that is open
    kept,               \* history: ledgers that were imported, as the user was told, and not removed
    forgotten,          \* history: the list came after a call failed, since Tokens was opened
    elsewhere, failures, visits, dialogs

vars == <<saved, forced, store, loads, failed, loaded, fetches, page, requested, dialog, kept,
          forgotten, elsewhere, failures, visits, dialogs>>
bounds == <<elsewhere, failures, visits, dialogs>>

NoTokens == [l \in Ledgers |-> "none"]
In(list) == {l \in Ledgers : list[l] # "none"}

\* Ledgers without one do not matter here, and so undefined is the empty list.
Undefined == [known |-> FALSE, list |-> NoTokens]
Known(list) == [known |-> TRUE, list |-> list]
NoDialog == [kind |-> "none", phase |-> "none", ledger |-> "", list |-> NoTokens]
-----------------------------------------------------------------------------
(* What the stores say of a token. *)

IsImportedToken(st, l) == st.known /\ l \in In(st.list)

\* failedExistentImportedTokenLedgerIdsStore, loadedImportedTokensStore and
\* icrcCanistersStore
FailedExistent(st, f) == f \cap In(st.list)
IcrcCanisters(st, f) == In(st.list) \ FailedExistent(st, f)

\* tokensListUserStore: a token with its data has a row, one that failed has a
\* row with a warning, and one without data has none.
HasRow(l) == l \in loaded \cap IcrcCanisters(store, failed)
HasWarning(l) == l \in FailedExistent(store, failed)

\* loadAccounts and loadIcrcToken do nothing for a token that failed.
MayFetch(st, f, ls) == ls \ FailedExistent(st, f)

\* getAndUpdateNotLoadedIds: the Tokens page asks once for each ledger.
NotLoadedIds(st, f, asked) == IcrcCanisters(st, f) \ asked

\* The Tokens page reacts to the stores.
LoadIcrcTokenAccounts(st, f, asked, out) ==
    LET new == NotLoadedIds(st, f, asked) IN
    /\ requested' = asked \cup new
    /\ fetches' = out \cup MayFetch(st, f, new)

React(st, f, out) ==
    IF page = "tokens" THEN LoadIcrcTokenAccounts(st, f, requested, out)
                       ELSE fetches' = out /\ UNCHANGED requested
-----------------------------------------------------------------------------
(* Pages. *)

Visits == visits < MaxVisits /\ visits' = visits + 1

OpenTokens ==
    /\ Visits /\ page # "tokens"
    /\ page' = "tokens"
    /\ LoadIcrcTokenAccounts(store, failed, {}, fetches)
    /\ forgotten' = FALSE
    /\ dialog' = IF dialog.phase = "review" THEN NoDialog ELSE dialog
    /\ UNCHANGED <<saved, forced, store, loads, failed, loaded, kept, elsewhere, failures, dialogs>>

\* IcrcWalletPage: a token that is not loaded is synced.
OpenIcrcWallet(l) ==
    /\ Visits /\ page # l /\ IsImportedToken(store, l)
    /\ page' = l
    /\ fetches' = fetches \cup MayFetch(store, failed, {l} \ loaded)
    /\ dialog' = IF dialog.phase = "review" THEN NoDialog ELSE dialog
    /\ UNCHANGED <<saved, forced, store, loads, failed, loaded, requested, kept, forgotten,
                   elsewhere, failures, dialogs>>

FetchAnswers(l) ==
    /\ l \in fetches
    /\ fetches' = fetches \ {l} /\ loaded' = loaded \cup {l}
    /\ UNCHANGED <<saved, forced, store, loads, failed, page, requested, dialog, kept, forgotten, bounds>>

Troubles == failures + elsewhere < MaxTroubles

\* failedImportedTokenLedgerIdsStore.add: tokens that are not imported get a toast.
FailedImportedTokens(st, l) == {x \in {l} : IsImportedToken(st, x)}

\* hide unproven data
FetchFails(l) ==
    /\ l \in fetches /\ Troubles /\ failures' = failures + 1
    /\ loaded' = loaded \ {l}
    /\ failed' = failed \cup FailedImportedTokens(store, l)
    /\ React(store, failed', fetches \ {l})
    /\ UNCHANGED <<saved, forced, store, loads, page, dialog, kept, forgotten, elsewhere, visits, dialogs>>
-----------------------------------------------------------------------------
(* loadImportedTokens. *)

GetImportedTokens(by, list) == [by |-> by, request |-> Sent(forced), seen |-> {list}]
IsLastCall(certified) == forced = "query" \/ certified

Remaining(x, certified) ==
    LET r == Answered(x.request, certified)
    IN  (loads \ {x}) \cup {y \in {[x EXCEPT !.request = r]} : r.waiting # {}}

\* addImportedToken and addIndexCanister await the first answer; ImportTokenModal
\* then goes to the wallet of the token.
IsAwaited(x) == dialog.phase = "load" /\ x.by = dialogs /\ x.request.waiting = CallsOf(forced)

AfterLoad(x, st, f) ==
    /\ store' = st /\ failed' = f
    /\ IF IsAwaited(x) THEN dialog' = NoDialog ELSE UNCHANGED dialog
    /\ IF IsAwaited(x) /\ dialog.kind = "add"
       THEN /\ page' = dialog.ledger
            /\ fetches' = fetches \cup MayFetch(st, f, {dialog.ledger} \ loaded)
            /\ UNCHANGED requested
       ELSE /\ UNCHANGED page
            /\ React(st, f, fetches)
    /\ forgotten' = (forgotten \/ failures > 0)
    /\ UNCHANGED <<saved, forced, loaded, kept, elsewhere, visits, dialogs>>

\* loadImportedTokens: the list of the backend, and no token is failed.  AccountNotFound, for
\* a user who has no account yet, counts as an answer too: the list is empty then, and at
\* the login, where it is taken for that, no token can have failed.
LoadAnswers(x, certified) ==
    /\ certified \in x.request.waiting
    /\ loads' = Remaining(x, certified)
    /\ \E list \in x.seen :
          IF Heard(x.request) THEN AfterLoad(x, Known(list), {}) ELSE AfterLoad(x, store, failed)
    /\ UNCHANGED failures

\* An error of the last call makes the store undefined.
LoadFails(x, certified) ==
    /\ certified \in x.request.waiting
    /\ Troubles /\ failures' = failures + 1
    /\ loads' = Remaining(x, certified)
    /\ IF Heard(x.request) /\ IsLastCall(certified)
       THEN AfterLoad(x, Undefined, {}) ELSE AfterLoad(x, store, failed)
-----------------------------------------------------------------------------
(* Dialogs. *)

Opens(kind, phase, l, list) ==
    /\ dialog = NoDialog /\ dialogs < MaxDialogs
    /\ dialogs' = dialogs + 1
    /\ dialog' = [kind |-> kind, phase |-> phase, ledger |-> l, list |-> list]
    /\ UNCHANGED <<saved, forced, store, loads, failed, loaded, fetches, page, requested, kept,
                   forgotten, elsewhere, failures, visits>>

\* maximumImportedTokensReached disables the button.
MaximumImportedTokensReached == Cardinality(In(store.list)) >= MaxImported

\* validateLedgerCanister: a token that is imported is refused.
ValidateLedgerCanister(l) == ~IsImportedToken(store, l)

\* The form of ImportTokenModal is submitted; its review is shown.
ImportTokenModal(l) ==
    /\ page = "tokens" /\ store.known /\ ~MaximumImportedTokensReached /\ ValidateLedgerCanister(l)
    /\ \E index \in {"plain", "indexed"} :
          Opens("add", "review", l, [NoTokens EXCEPT ![l] = index])

\* matchLedgerIndexPair is awaited, and the list is taken from the store after that.
AddIndexCanisterModal ==
    /\ page \in Ledgers /\ IsImportedToken(store, page) /\ store.list[page] = "plain"
    /\ Opens("index", "review", page, [NoTokens EXCEPT ![page] = "indexed"])

\* ImportTokenRemoveConfirmation, of the wallet or of a row with a warning
RemoveConfirmation(l) ==
    /\ IsImportedToken(store, l) /\ (page = l \/ (page = "tokens" /\ HasWarning(l)))
    /\ Opens("remove", "review", l, NoTokens)

\* onConfirm returns when the store is undefined, and so does nnsSubmit.
OnConfirm == store.known

Saves(list) ==
    /\ dialog' = [dialog EXCEPT !.phase = "save", !.list = list]
    /\ UNCHANGED <<saved, forced, store, loads, failed, loaded, fetches, page, requested, kept,
                   forgotten, bounds>>

\* [...importedTokens, tokenToAdd], or the token with its index
AddImportedToken ==
    /\ dialog.kind \in {"add", "index"} /\ dialog.phase = "review" /\ OnConfirm
    /\ Saves([store.list EXCEPT ![dialog.ledger] =
          IF dialog.kind = "index" /\ @ = "none" THEN @ ELSE dialog.list[dialog.ledger]])

\* (get(importedTokensStore).importedTokens ?? []).filter(...)
RemoveImportedTokens ==
    /\ dialog.kind = "remove" /\ dialog.phase = "review"
    /\ Saves([store.list EXCEPT ![dialog.ledger] = "none"])

\* The calls that are not answered may return the new list.
SavedIsNow(list) ==
    /\ saved' = list
    /\ loads' = {[x EXCEPT !.seen = @ \cup {list}] : x \in loads}

\* set_imported_tokens replaces the list, unless it is too long.
SetImportedTokens ==
    /\ dialog.phase = "save" /\ Cardinality(In(dialog.list)) <= MaxImported
    /\ SavedIsNow(dialog.list)
    /\ kept' = IF dialog.kind = "remove" THEN kept \ {dialog.ledger} ELSE kept
    /\ dialog' = [dialog EXCEPT !.phase = "saved"]
    /\ UNCHANGED <<forced, store, failed, loaded, fetches, page, requested, forgotten, bounds>>

\* A dialog that failed stays open for another try; the one that removes is closed.
StaysOpen == dialog' = IF dialog.kind = "remove" THEN NoDialog ELSE [dialog EXCEPT !.phase = "review"]

\* TooManyImportedTokensError
TooManyImportedTokens ==
    /\ dialog.phase = "save" /\ Cardinality(In(dialog.list)) > MaxImported
    /\ StaysOpen
    /\ UNCHANGED <<saved, forced, store, loads, failed, loaded, fetches, page, requested, kept, forgotten, bounds>>

\* The call did not get through, or its answer did not.
SaveFails ==
    /\ dialog.phase \in {"save", "saved"} /\ Troubles /\ failures' = failures + 1
    /\ StaysOpen
    /\ UNCHANGED <<saved, forced, store, loads, failed, loaded, fetches, page, requested, kept,
                   forgotten, elsewhere, visits, dialogs>>

\* Mutant of AddDone: the list is not loaded again.
AddDoneOnly ==
    /\ dialog.kind \in {"add", "index"} /\ dialog.phase = "saved"
    /\ kept' = IF dialog.kind = "add" THEN kept \cup {dialog.ledger} ELSE kept
    /\ dialog' = NoDialog
    /\ UNCHANGED <<saved, forced, store, loads, failed, loaded, fetches, page, requested, forgotten, bounds>>

\* A list with one more token is loaded again ...
AddDone ==
    /\ dialog.kind \in {"add", "index"} /\ dialog.phase = "saved"
    /\ loads' = loads \cup {GetImportedTokens(dialogs, saved)}
    /\ kept' = IF dialog.kind = "add" THEN kept \cup {dialog.ledger} ELSE kept
    /\ dialog' = [dialog EXCEPT !.phase = "load"]
    /\ UNCHANGED <<saved, forced, store, failed, loaded, fetches, page, requested, forgotten, bounds>>

\* ... and one with a token less is not; the wallet of the token is left.
RemoveDone ==
    /\ dialog.kind = "remove" /\ dialog.phase = "saved"
    /\ store' = [store EXCEPT !.list[dialog.ledger] = "none"]
    /\ failed' = failed \ {dialog.ledger}
    /\ dialog' = NoDialog
    /\ IF page = dialog.ledger
       THEN page' = "tokens" /\ LoadIcrcTokenAccounts(store', failed', {}, fetches)
       ELSE UNCHANGED page /\ React(store', failed', fetches)
    /\ forgotten' = (forgotten /\ page # dialog.ledger)
    /\ UNCHANGED <<saved, forced, loads, loaded, kept, bounds>>

Cancel ==
    /\ dialog.phase = "review" /\ dialog' = NoDialog
    /\ UNCHANGED <<saved, forced, store, loads, failed, loaded, fetches, page, requested, kept, forgotten, bounds>>

AnotherTab ==
    /\ Troubles /\ elsewhere' = elsewhere + 1
    /\ \E l \in Ledgers, v \in {"none", "plain"} :
          /\ saved[l] # v
          /\ SavedIsNow([saved EXCEPT ![l] = v])
          /\ kept' = IF v = "none" THEN kept \ {l} ELSE kept \cup {l}
    /\ UNCHANGED <<forced, store, failed, loaded, fetches, page, requested, dialog, forgotten,
                   failures, visits, dialogs>>
-----------------------------------------------------------------------------
\* initAppPrivateData loads the imported tokens.
Init ==
    /\ saved \in {list \in [Ledgers -> {"none", "plain"}] : Cardinality(In(list)) <= MaxImported}
    /\ forced \in Forced
    /\ store = Undefined
    /\ loads = {GetImportedTokens(0, saved)}
    /\ failed = {} /\ loaded = {} /\ fetches = {} /\ requested = {}
    /\ page = "none" /\ dialog = NoDialog
    /\ kept = In(saved) /\ forgotten = FALSE
    /\ elsewhere = 0 /\ failures = 0 /\ visits = 0 /\ dialogs = 0

Next ==
    \/ OpenTokens
    \/ \E l \in Ledgers : OpenIcrcWallet(l) \/ FetchAnswers(l) \/ FetchFails(l)
                          \/ ImportTokenModal(l) \/ RemoveConfirmation(l)
    \/ \E x \in loads, certified \in BOOLEAN : LoadAnswers(x, certified) \/ LoadFails(x, certified)
    \/ AddIndexCanisterModal \/ AddImportedToken \/ RemoveImportedTokens \/ SetImportedTokens
    \/ TooManyImportedTokens \/ SaveFails \/ AddDone \/ RemoveDone \/ Cancel \/ AnotherTab

Spec == Init /\ [][Next]_vars
-----------------------------------------------------------------------------
TypeOK ==
    /\ saved \in [Ledgers -> {"none", "plain", "indexed"}]
    /\ store \in [known : BOOLEAN, list : [Ledgers -> {"none", "plain", "indexed"}]]
    /\ failed \subseteq Ledgers /\ loaded \subseteq Ledgers /\ fetches \subseteq Ledgers
    /\ requested \subseteq Ledgers /\ page \in Ledgers \cup {"none", "tokens"}
    /\ kept \subseteq Ledgers

\* Saving a list over the one of the backend loses no token that the user did
\* not remove, in a session whose loads are single calls, unless another tab
\* saved meanwhile (addImportedToken, addIndexCanister, removeImportedTokens).
NoTokenIsLost ==
    forced = "query" => elsewhere > 0 \/ kept \subseteq In(saved)

Quiet == fetches = {} /\ loads = {} /\ page = "tokens" /\ dialog = NoDialog

\* When there is nothing more to hear, every imported token is in the list of
\* the Tokens page, with its data or with a warning, unless the list comes
\* again after a call failed (loadIcrcToken, tokensListUserStore).
TokensAreListed ==
    Quiet /\ ~forgotten => \A l \in In(store.list) : HasRow(l) \/ HasWarning(l)

\* An imported token is neither lost by the backend nor missing on the page
\* (loadImportedTokens, icrcCanistersStore and their like).
ImportedTokensAreKept == TypeOK /\ NoTokenIsLost /\ TokensAreListed

\* "Failed imported tokens will be shown with a warning icon in the UI."
FailedAreShown == Quiet => \A l \in In(store.list) : HasRow(l) \/ HasWarning(l)
=============================================================================
