------------------------ MODULE ImportedTokensProofs ------------------------
(***************************************************************************)
(* Theorems about ImportedTokens for any set of ledgers, any limit of the  *)
(* list and any number of visits, dialogs and troubles: no token is lost   *)
(* when a list is saved over the one of the backend, and none is missing   *)
(* on the Tokens page.                                                     *)
(***************************************************************************)
EXTENDS ImportedTokens, TLAPS

Values == {"none", "plain", "indexed"}
Lists == [Ledgers -> Values]
StoreType == [known : BOOLEAN, list : Lists]
LoadType == [by : Nat, request : Requests, seen : SUBSET Lists]
DialogType ==
    [kind : {"none", "add", "index", "remove"}, phase : {"none", "review", "save", "saved", "load"},
     ledger : Ledgers \cup {""}, list : Lists]

Types ==
    /\ saved \in Lists /\ forced \in Forced /\ store \in StoreType /\ loads \subseteq LoadType
    /\ store.known \/ store = Undefined
    /\ failed \subseteq Ledgers /\ loaded \subseteq Ledgers /\ fetches \subseteq Ledgers
    /\ requested \subseteq Ledgers /\ kept \subseteq Ledgers
    /\ page \in Ledgers \cup {"none", "tokens"}
    /\ dialog \in DialogType
    /\ dialog.phase # "none" => dialog.ledger \in Ledgers
    /\ dialog.kind = "none" <=> dialog.phase = "none"
    /\ forgotten \in BOOLEAN /\ elsewhere \in Nat /\ failures \in Nat /\ dialogs \in Nat

\* The dialog is open, and does not wait for the list.
AtWork == dialog.phase \in {"review", "save", "saved"}

\* In a session of single calls, the list is loaded at the start and for a dialog
\* that waits for it: so a dialog is at work on the list that was loaded last.
SingleCalls ==
    /\ \A x \in loads : x.request = Sent("query") /\ \A y \in loads : x = y
    /\ AtWork => loads = {} /\ store.known
    /\ dialog.phase = "load" => store.known /\ \A x \in loads : x.by = dialogs
    /\ store.known => loads = {} \/ dialog.phase = "load"

KeptEverywhere ==
    /\ kept \subseteq In(saved)
    /\ \A x \in loads : \A list \in x.seen : kept \subseteq In(list)
    /\ store.known /\ dialog.phase # "load" => kept \subseteq In(store.list)

DialogKeeps ==
    LET l == dialog.ledger IN
    /\ dialog.kind \in {"add", "index"} => dialog.list[l] # "none"
    /\ dialog.kind = "index" /\ AtWork => store.list[l] # "none"
    /\ dialog.phase = "save" => \A k \in kept : dialog.list[k] # "none" \/ (dialog.kind = "remove" /\ k = l)
    /\ dialog.phase = "saved" => saved = dialog.list
    /\ dialog.phase = "saved" /\ dialog.kind = "remove" => l \notin kept

NoneLost == forced = "query" /\ elsewhere = 0 => SingleCalls /\ KeptEverywhere /\ DialogKeeps

\* What the Tokens page shows was asked for, and whatever was asked for is
\* awaited or came, or it failed.
AllAsked ==
    /\ failures = 0 => failed = {} /\ requested \subseteq loaded \cup fetches
    /\ page = "tokens" /\ ~forgotten => In(store.list) \subseteq failed \cup (requested \cap (loaded \cup fetches))

IInv == Types /\ NoneLost /\ AllAsked

-----------------------------------------------------------------------------
(***************************************************************************)
(* What the pages ask for.                                                 *)
(***************************************************************************)

\* loadIcrcTokenAccounts asks for each token of the list that did not fail and was not asked for
\* yet.
LEMMA LoadAsks ==
    ASSUME NEW st \in StoreType, NEW f \in SUBSET Ledgers, NEW asked \in SUBSET Ledgers,
           NEW out \in SUBSET Ledgers, LoadIcrcTokenAccounts(st, f, asked, out)
    PROVE  /\ requested' \subseteq Ledgers /\ fetches' \subseteq Ledgers /\ asked \subseteq requested'
           /\ out \subseteq fetches' /\ requested' \subseteq asked \cup fetches'
           /\ In(st.list) \subseteq f \cup requested'
BY DEF LoadIcrcTokenAccounts, NotLoadedIds, IcrcCanisters, FailedExistent, MayFetch, In

\* The reactive statements of the page of tokens ask for every token that the store has.
LEMMA ReactAsks ==
    ASSUME Types, NEW st \in StoreType, NEW f \in SUBSET Ledgers, NEW out \in SUBSET Ledgers, React(st, f, out)
    PROVE  /\ requested' \subseteq Ledgers /\ fetches' \subseteq Ledgers /\ requested \subseteq requested'
           /\ out \subseteq fetches' /\ requested' \subseteq requested \cup fetches'
           /\ page = "tokens" => In(st.list) \subseteq f \cup requested'
<1>1. CASE page = "tokens"
  <2>1. LoadIcrcTokenAccounts(st, f, requested, out) /\ requested \in SUBSET Ledgers
    BY <1>1 DEF React, Types
  <2> QED BY <2>1, LoadAsks
<1>2. CASE page # "tokens"
  BY <1>2 DEF React, Types
<1> QED BY <1>1, <1>2

\* The empty list, the store without a list and the closed dialog are well formed.
LEMMA NoTokensType == NoTokens \in Lists /\ In(NoTokens) = {} /\ Undefined \in StoreType /\ NoDialog \in DialogType
BY DEF NoTokens, Lists, Values, In, Undefined, StoreType, NoDialog, DialogType

\* A request after one of its answers is well formed.
LEMMA AnsweredType ==
    ASSUME NEW r \in Requests, NEW c \in BOOLEAN
    PROVE  Answered(r, c) \in Requests
<1>1. r.waiting \ {c} \in SUBSET BOOLEAN /\ (r.certifiedDone \/ c) \in BOOLEAN
  BY DEF Requests
<1> QED BY <1>1 DEF Answered, Requests

\* A request as it is sent is well formed.
LEMMA SentType == \A s \in Forced : Sent(s) \in Requests
BY TokensAssumption DEF Sent, Requests, CallsOf, Strategies

\* A load after one of its answers is over or still a load.
LEMMA RemainingType ==
    ASSUME Types, NEW x \in loads, NEW c \in x.request.waiting
    PROVE  Remaining(x, c) \subseteq LoadType
<1>1. x \in LoadType /\ x.request \in Requests /\ c \in BOOLEAN
  BY DEF Types, LoadType, Requests
<1>2. [x EXCEPT !.request = Answered(x.request, c)] \in LoadType
  BY <1>1, AnsweredType DEF LoadType
<1> QED BY <1>2 DEF Remaining, Types

\* A single call is answered once.
LEMMA RemainingSingle ==
    ASSUME NEW x \in loads, NEW c \in x.request.waiting, x.request = Sent("query")
    PROVE  Remaining(x, c) = loads \ {x} /\ x.request.waiting = {FALSE} /\ Heard(x.request) /\ c = FALSE
<1>1. x.request = [strategy |-> "query", waiting |-> {FALSE}, certifiedDone |-> FALSE]
  BY DEF Sent, CallsOf
<1>2. x.request.waiting = {FALSE} /\ x.request.certifiedDone = FALSE
  <2> DEFINE w == {FALSE}
  <2>1. x.request = [strategy |-> "query", waiting |-> w, certifiedDone |-> FALSE]
    BY <1>1
  <2> HIDE DEF w
  <2>2. x.request.waiting = w
    BY <2>1
  <2>3. x.request.certifiedDone = FALSE
    BY <2>1
  <2> QED BY <2>2, <2>3 DEF w
<1>3. c = FALSE
  BY <1>2, Zenon
<1>4. Answered(x.request, c).waiting = x.request.waiting \ {c}
  BY <1>1 DEF Answered
<1>5. Answered(x.request, c).waiting = {}
  BY <1>2, <1>3, <1>4, Zenon
<1>6. Remaining(x, c) = loads \ {x}
  BY <1>5 DEF Remaining
<1>7. Heard(x.request)
  BY <1>2 DEF Heard
<1> QED BY <1>2, <1>3, <1>6, <1>7

-----------------------------------------------------------------------------
(***************************************************************************)
(* Steps of the pages.                                                     *)
(***************************************************************************)

\* A step that changes at most the dialog's closing loses no token.
LEMMA NoneLostStays ==
    ASSUME Types, NoneLost, UNCHANGED <<saved, forced, store, loads, kept, elsewhere, dialogs>>,
           dialog' = dialog \/ (dialog.phase = "review" /\ dialog' = NoDialog)
    PROVE  NoneLost'
<1>1. SUFFICES ASSUME forced = "query", elsewhere = 0
               PROVE  SingleCalls' /\ KeptEverywhere' /\ DialogKeeps'
  BY DEF NoneLost
<1>2. SingleCalls /\ KeptEverywhere /\ DialogKeeps
  BY <1>1 DEF NoneLost
<1>3. CASE dialog' = dialog
  BY <1>2, <1>3 DEF SingleCalls, KeptEverywhere, DialogKeeps, AtWork, In
<1>4. CASE dialog.phase = "review" /\ dialog' = NoDialog
  BY <1>2, <1>4 DEF SingleCalls, KeptEverywhere, DialogKeeps, AtWork, NoDialog, In
<1> QED BY <1>3, <1>4

\* A step that leaves the store and the page alone leaves every token asked for.
LEMMA AskedStays ==
    ASSUME Types, AllAsked, UNCHANGED <<store, failed, loaded, fetches, page, requested, forgotten>>,
           failures' = failures \/ failures' = failures + 1
    PROVE  AllAsked'
BY DEF AllAsked, In, Types

\* Opening the page of tokens keeps the invariant.
LEMMA OpenTokensStep == ASSUME IInv, OpenTokens PROVE IInv'
<1>1. /\ Types /\ page' = "tokens" /\ LoadIcrcTokenAccounts(store, failed, {}, fetches)
      /\ UNCHANGED <<saved, forced, store, loads, failed, loaded, kept, elsewhere, failures, dialogs>>
      /\ forgotten' = FALSE /\ dialog' = IF dialog.phase = "review" THEN NoDialog ELSE dialog
  BY DEF IInv, OpenTokens
<1>2. /\ requested' \subseteq Ledgers /\ fetches' \subseteq Ledgers /\ requested' \subseteq fetches'
      /\ In(store.list) \subseteq failed \cup requested'
  <2>1. store \in StoreType /\ failed \in SUBSET Ledgers /\ fetches \in SUBSET Ledgers
    BY <1>1 DEF Types
  <2> QED BY <1>1, <2>1, LoadAsks
<1>3. Types'
  <2>1. dialog' \in DialogType /\ (dialog'.phase # "none" => dialog'.ledger \in Ledgers)
        /\ (dialog'.kind = "none" <=> dialog'.phase = "none")
    BY <1>1, NoTokensType DEF Types, NoDialog
  <2> QED BY <1>1, <1>2, <2>1 DEF Types
<1>4. NoneLost'
  BY <1>1, NoneLostStays DEF IInv
<1>5. AllAsked'
  BY <1>1, <1>2 DEF IInv, AllAsked, In
<1> QED BY <1>3, <1>4, <1>5 DEF IInv

\* Opening the wallet of a token keeps the invariant.
LEMMA OpenIcrcWalletStep == ASSUME IInv, NEW l \in Ledgers, OpenIcrcWallet(l) PROVE IInv'
<1>1. /\ Types /\ page' = l /\ fetches' = fetches \cup MayFetch(store, failed, {l} \ loaded)
      /\ UNCHANGED <<saved, forced, store, loads, failed, loaded, requested, kept, forgotten,
                     elsewhere, failures, dialogs>>
      /\ dialog' = IF dialog.phase = "review" THEN NoDialog ELSE dialog
  BY DEF IInv, OpenIcrcWallet
<1>2. fetches' \subseteq Ledgers /\ fetches \subseteq fetches'
  BY <1>1 DEF Types, MayFetch
<1>3. Types'
  <2>1. dialog' \in DialogType /\ (dialog'.phase # "none" => dialog'.ledger \in Ledgers)
        /\ (dialog'.kind = "none" <=> dialog'.phase = "none")
    BY <1>1, NoTokensType DEF Types, NoDialog
  <2> QED BY <1>1, <1>2, <2>1 DEF Types
<1>4. NoneLost'
  BY <1>1, NoneLostStays DEF IInv
<1>5. AllAsked'
  BY <1>1, <1>2, TokensAssumption DEF IInv, AllAsked
<1> QED BY <1>3, <1>4, <1>5 DEF IInv

\* The answer of a ledger keeps the invariant.
LEMMA FetchAnswersStep == ASSUME IInv, NEW l \in Ledgers, FetchAnswers(l) PROVE IInv'
<1>1. /\ Types /\ l \in fetches /\ fetches' = fetches \ {l} /\ loaded' = loaded \cup {l}
      /\ UNCHANGED <<saved, forced, store, loads, failed, page, requested, dialog, kept, forgotten,
                     elsewhere, failures, dialogs>>
  BY DEF IInv, FetchAnswers, bounds
<1>2. loaded' \cup fetches' = loaded \cup fetches
  BY <1>1
<1>3. Types'
  BY <1>1 DEF Types
<1>4. NoneLost'
  BY <1>1, NoneLostStays DEF IInv
<1>5. AllAsked'
  BY <1>1, <1>2 DEF IInv, AllAsked, In
<1> QED BY <1>3, <1>4, <1>5 DEF IInv

\* A ledger that fails keeps the invariant: its token moves to the failed ones.
LEMMA FetchFailsStep == ASSUME IInv, NEW l \in Ledgers, FetchFails(l) PROVE IInv'
<1>1. /\ Types /\ l \in fetches /\ failures' = failures + 1 /\ loaded' = loaded \ {l}
      /\ failed' = failed \cup FailedImportedTokens(store, l)
      /\ React(store, failed', fetches \ {l})
      /\ UNCHANGED <<saved, forced, store, loads, page, dialog, kept, forgotten, elsewhere, dialogs>>
  BY DEF IInv, FetchFails
<1>2. /\ failed' \subseteq Ledgers /\ failed \subseteq failed' /\ store \in StoreType
      /\ l \in In(store.list) => l \in failed'
  BY <1>1, NoTokensType DEF FailedImportedTokens, IsImportedToken, Types, Undefined
<1>3. /\ requested' \subseteq Ledgers /\ fetches' \subseteq Ledgers /\ requested \subseteq requested'
      /\ fetches \ {l} \subseteq fetches' /\ requested' \subseteq requested \cup fetches'
      /\ page = "tokens" => In(store.list) \subseteq failed' \cup requested'
  <2>1. fetches \ {l} \in SUBSET Ledgers /\ failed' \in SUBSET Ledgers
    BY <1>1, <1>2 DEF Types
  <2>2. PICK f \in SUBSET Ledgers : f = failed' /\ React(store, f, fetches \ {l})
    BY <1>1, <2>1 DEF React, LoadIcrcTokenAccounts
  <2>3. /\ requested' \subseteq Ledgers /\ fetches' \subseteq Ledgers /\ requested \subseteq requested'
        /\ fetches \ {l} \subseteq fetches' /\ requested' \subseteq requested \cup fetches'
        /\ page = "tokens" => In(store.list) \subseteq f \cup requested'
    <3>1. Types /\ store \in StoreType /\ f \in SUBSET Ledgers /\ fetches \ {l} \in SUBSET Ledgers
      BY <1>1, <1>2, <2>1
    <3>2. React(store, f, fetches \ {l})
      BY <2>2
    <3> QED BY <3>1, <3>2, ReactAsks
  <2> QED BY <2>2, <2>3
<1>4. Types'
  BY <1>1, <1>2, <1>3 DEF Types
<1>5. NoneLost'
  BY <1>1, NoneLostStays DEF IInv
<1>6. AllAsked'
  BY <1>1, <1>2, <1>3 DEF IInv, AllAsked, In, Types
<1> QED BY <1>4, <1>5, <1>6 DEF IInv

-----------------------------------------------------------------------------
(***************************************************************************)
(* Answers and failures of loadImportedTokens.                             *)
(***************************************************************************)

\* What the page does after any answer about the list keeps the invariant.
LEMMA AfterLoadStep ==
    ASSUME IInv, NEW x \in loads, NEW c \in x.request.waiting, loads' = Remaining(x, c),
           NEW st \in StoreType, st.known \/ st = Undefined, NEW f \in SUBSET Ledgers, AfterLoad(x, st, f),
           f = failed \/ f = {}, failures' = failures \/ failures' = failures + 1,
           forced = "query" /\ Heard(x.request) => st = Undefined \/ \E list \in x.seen : st = Known(list)
    PROVE  IInv'
<1>1. /\ Types /\ store' = st /\ failed' = f
      /\ forgotten' = (forgotten \/ failures > 0)
      /\ UNCHANGED <<saved, forced, loaded, kept, elsewhere, dialogs>>
  BY DEF IInv, AfterLoad
<1>2. dialog' = (IF IsAwaited(x) THEN NoDialog ELSE dialog)
  BY DEF AfterLoad
<1>3. \/ page' = dialog.ledger /\ dialog.ledger \in Ledgers /\ requested' = requested
         /\ fetches' \subseteq Ledgers /\ fetches \subseteq fetches'
      \/ page' = page /\ React(st, f, fetches)
  <2>1. CASE IsAwaited(x) /\ dialog.kind = "add"
    BY <1>1, <2>1 DEF AfterLoad, IsAwaited, Types, MayFetch
  <2>2. CASE ~(IsAwaited(x) /\ dialog.kind = "add")
    BY <2>2 DEF AfterLoad
  <2> QED BY <2>1, <2>2
<1>4. /\ requested' \subseteq Ledgers /\ fetches' \subseteq Ledgers /\ fetches \subseteq fetches'
      /\ requested' \subseteq requested \cup fetches'
      /\ page' = "tokens" => In(st.list) \subseteq f \cup requested'
  <2>1. CASE page' = dialog.ledger /\ dialog.ledger \in Ledgers /\ requested' = requested
             /\ fetches' \subseteq Ledgers /\ fetches \subseteq fetches'
    BY <1>1, <2>1, TokensAssumption DEF Types
  <2>2. CASE page' = page /\ React(st, f, fetches)
    <3>1. fetches \in SUBSET Ledgers
      BY <1>1 DEF Types
    <3> QED BY <1>1, <2>2, <3>1, ReactAsks
  <2> QED BY <1>3, <2>1, <2>2
<1>5. Types'
  <2>1. dialog' \in DialogType /\ (dialog'.phase # "none" => dialog'.ledger \in Ledgers)
        /\ (dialog'.kind = "none" <=> dialog'.phase = "none")
    BY <1>1, <1>2, NoTokensType DEF Types, NoDialog
  <2>2. page' \in Ledgers \cup {"none", "tokens"}
    BY <1>1, <1>3 DEF Types
  <2>3. failures' \in Nat /\ forgotten' \in BOOLEAN
    BY <1>1 DEF Types
  <2>4. loads' \subseteq LoadType
    BY <1>1, RemainingType
  <2> QED BY <1>1, <1>4, <2>1, <2>2, <2>3, <2>4 DEF Types
<1>6. NoneLost'
  <2> SUFFICES ASSUME forced = "query", elsewhere = 0 PROVE SingleCalls' /\ KeptEverywhere' /\ DialogKeeps'
    BY <1>1 DEF NoneLost
  <2>1. SingleCalls /\ KeptEverywhere /\ DialogKeeps
    BY DEF IInv, NoneLost
  <2>2. loads' = {} /\ x.request.waiting = {FALSE} /\ Heard(x.request)
    <3>1. x.request = Sent("query") /\ \A y \in loads : x = y
      BY <2>1 DEF SingleCalls
    <3>2. Remaining(x, c) = loads \ {x} /\ x.request.waiting = {FALSE} /\ Heard(x.request)
      BY <3>1, RemainingSingle
    <3> QED BY <3>1, <3>2
  <2>3. dialog'.phase = "none" /\ dialog'.kind = "none"
    <3>1. dialog.phase = "load" => IsAwaited(x)
      BY <2>1, <2>2 DEF SingleCalls, IsAwaited, CallsOf
    <3>2. dialog.phase \in {"none", "load"}
      BY <1>1, <2>1 DEF SingleCalls, AtWork, Types, DialogType
    <3> QED BY <1>1, <1>2, <3>1, <3>2 DEF NoDialog, Types
  <2>4. store'.known => kept \subseteq In(store'.list)
    BY <1>1, <2>1, <2>2 DEF KeptEverywhere, Undefined, Known
  <2> QED BY <1>1, <2>1, <2>2, <2>3, <2>4 DEF SingleCalls, AtWork, KeptEverywhere, DialogKeeps, In
<1>7. AllAsked'
  <2>1. failures' = 0 => failures = 0
    BY <1>1 DEF Types
  <2>2. ~forgotten' => ~forgotten /\ failures = 0
    <3>1. ~forgotten' => ~forgotten /\ ~(failures > 0)
      BY <1>1, Zenon
    <3> QED BY <1>1, <3>1 DEF Types
  <2>3. failures = 0 => f = {} /\ requested' \subseteq loaded \cup fetches'
    BY <1>4 DEF IInv, AllAsked
  <2>4. failures' = 0 => failed' = {} /\ requested' \subseteq loaded' \cup fetches'
    BY <1>1, <2>1, <2>3
  <2>5. page' = "tokens" /\ ~forgotten' =>
          In(store'.list) \subseteq failed' \cup (requested' \cap (loaded' \cup fetches'))
    BY <1>1, <1>4, <2>2, <2>3
  <2> QED BY <2>4, <2>5 DEF AllAsked, In
<1> QED BY <1>5, <1>6, <1>7 DEF IInv

\* The answers and failures of loads keep the invariant.
LEMMA LoadSteps ==
    ASSUME IInv, NEW x \in loads, NEW c \in BOOLEAN, LoadAnswers(x, c) \/ LoadFails(x, c)
    PROVE  IInv'
<1>1. Types /\ c \in x.request.waiting /\ loads' = Remaining(x, c) /\ x \in LoadType
  BY DEF IInv, LoadAnswers, LoadFails, Types
<1>2. store \in StoreType /\ (store.known \/ store = Undefined) /\ failed \in SUBSET Ledgers
  BY <1>1 DEF Types
<1>3. CASE LoadAnswers(x, c)
  <2>1. PICK list \in x.seen : IF Heard(x.request) THEN AfterLoad(x, Known(list), {}) ELSE AfterLoad(x, store, failed)
    BY <1>3 DEF LoadAnswers
  <2>2. failures' = failures
    BY <1>3 DEF LoadAnswers
  <2>3. Known(list) \in StoreType /\ Known(list).known
    BY <1>1 DEF Known, StoreType, LoadType
  <2>4. CASE Heard(x.request)
    BY <1>1, <2>1, <2>2, <2>3, <2>4, AfterLoadStep
  <2>5. CASE ~Heard(x.request)
    BY <1>1, <1>2, <2>1, <2>2, <2>5, AfterLoadStep
  <2> QED BY <2>4, <2>5
<1>4. CASE LoadFails(x, c)
  <2>1. failures' = failures + 1
    BY <1>4 DEF LoadFails
  <2>2. Undefined \in StoreType
    BY NoTokensType
  <2>3. CASE Heard(x.request) /\ IsLastCall(c)
    BY <1>1, <1>4, <2>1, <2>2, <2>3, AfterLoadStep DEF LoadFails
  <2>4. CASE ~(Heard(x.request) /\ IsLastCall(c))
    BY <1>1, <1>2, <1>4, <2>1, <2>4, AfterLoadStep DEF LoadFails, IsLastCall
  <2> QED BY <2>3, <2>4
<1> QED BY <1>3, <1>4

-----------------------------------------------------------------------------
(***************************************************************************)
(* Dialogs.                                                                *)
(***************************************************************************)

\* A dialog that opens remembers the list that its save will write.
LEMMA OpensStep ==
    ASSUME IInv, NEW kind \in {"add", "index", "remove"}, NEW l \in Ledgers, NEW list \in Lists,
           Opens(kind, "review", l, list), store.known,
           kind \in {"add", "index"} => list[l] # "none", kind = "index" => store.list[l] # "none"
    PROVE  IInv'
<1>1. /\ Types /\ dialog = NoDialog
      /\ dialog' = [kind |-> kind, phase |-> "review", ledger |-> l, list |-> list]
      /\ UNCHANGED <<saved, forced, store, loads, failed, loaded, fetches, page, requested, kept,
                     forgotten, elsewhere, failures>>
  BY DEF IInv, Opens
<1>2. Types'
  <2>1. dialog' \in DialogType /\ dialog'.phase = "review" /\ dialog'.kind = kind /\ dialog'.ledger = l
    BY <1>1 DEF DialogType
  <2>2. dialogs' \in Nat
    BY <1>1 DEF Opens, Types
  <2> QED BY <1>1, <2>1, <2>2 DEF Types
<1>3. NoneLost'
  <2> SUFFICES ASSUME forced = "query", elsewhere = 0 PROVE SingleCalls' /\ KeptEverywhere' /\ DialogKeeps'
    BY <1>1 DEF NoneLost
  <2>1. SingleCalls /\ KeptEverywhere /\ dialog.phase = "none"
    BY <1>1 DEF IInv, NoneLost, NoDialog
  <2>2. loads = {}
    BY <2>1 DEF SingleCalls
  <2> QED BY <1>1, <2>1, <2>2 DEF SingleCalls, AtWork, KeptEverywhere, DialogKeeps, In
<1>4. AllAsked'
  BY <1>1, AskedStays DEF IInv
<1> QED BY <1>2, <1>3, <1>4 DEF IInv

\* Opening each of the dialogs keeps the invariant.
LEMMA OpenSteps ==
    ASSUME IInv, AddIndexCanisterModal \/ \E l \in Ledgers : ImportTokenModal(l) \/ RemoveConfirmation(l)
    PROVE  IInv'
<1>1. CASE AddIndexCanisterModal
  <2>1. [NoTokens EXCEPT ![page] = "indexed"] \in Lists /\ [NoTokens EXCEPT ![page] = "indexed"][page] # "none"
    BY <1>1 DEF AddIndexCanisterModal, NoTokens, Lists, Values
  <2> QED BY <1>1, <2>1, OpensStep DEF AddIndexCanisterModal, IsImportedToken, In
<1>2. ASSUME NEW l \in Ledgers, ImportTokenModal(l) PROVE IInv'
  <2>1. PICK index \in {"plain", "indexed"} : Opens("add", "review", l, [NoTokens EXCEPT ![l] = index])
    BY <1>2 DEF ImportTokenModal
  <2>2. [NoTokens EXCEPT ![l] = index] \in Lists /\ [NoTokens EXCEPT ![l] = index][l] # "none"
    BY DEF NoTokens, Lists, Values
  <2> QED BY <1>2, <2>1, <2>2, OpensStep DEF ImportTokenModal
<1>3. ASSUME NEW l \in Ledgers, RemoveConfirmation(l) PROVE IInv'
  BY <1>3, OpensStep, NoTokensType DEF RemoveConfirmation, IsImportedToken
<1> QED BY <1>1, <1>2, <1>3

\* A dialog moves on, and nothing else changes.
LEMMA DialogMoves ==
    ASSUME IInv, NEW phase \in {"none", "review", "save"}, NEW list \in Lists, AtWork,
           dialog' = NoDialog \/ (phase # "none" /\ dialog' = [dialog EXCEPT !.phase = phase, !.list = list]),
           UNCHANGED <<saved, forced, store, loads, failed, loaded, fetches, page, requested, kept,
                       forgotten, elsewhere, dialogs>>,
           failures' = failures \/ failures' = failures + 1,
           forced = "query" /\ elsewhere = 0 /\ dialog.kind \in {"add", "index"} => list[dialog.ledger] # "none",
           forced = "query" /\ elsewhere = 0 /\ phase = "save" =>
              \A k \in kept : list[k] # "none" \/ (dialog.kind = "remove" /\ k = dialog.ledger)
    PROVE  IInv'
<1>1. Types /\ dialog \in DialogType /\ dialog.kind # "none" /\ dialog.ledger \in Ledgers
  BY DEF IInv, Types, AtWork
<1>2. Types'
  <2>1. CASE dialog' = NoDialog
    <3>1. dialog' \in DialogType
      BY <2>1, NoTokensType
    <3>2. dialog'.phase = "none" /\ dialog'.kind = "none"
      BY <2>1 DEF NoDialog
    <3> QED BY <1>1, <3>1, <3>2 DEF Types
  <2>2. CASE phase # "none" /\ dialog' = [dialog EXCEPT !.phase = phase, !.list = list]
    <3>1. dialog' \in DialogType /\ dialog'.phase = phase /\ dialog'.kind = dialog.kind /\ dialog'.ledger = dialog.ledger
      BY <1>1, <2>2 DEF DialogType
    <3> QED BY <1>1, <2>2, <3>1 DEF Types
  <2> QED BY <2>1, <2>2
<1>3. NoneLost'
  <2> SUFFICES ASSUME forced = "query", elsewhere = 0 PROVE SingleCalls' /\ KeptEverywhere' /\ DialogKeeps'
    BY DEF NoneLost
  <2>1. SingleCalls /\ KeptEverywhere /\ DialogKeeps /\ loads = {} /\ dialog.phase # "load"
    BY DEF IInv, NoneLost, SingleCalls, AtWork
  <2>2. CASE dialog' = NoDialog
    BY <2>1, <2>2 DEF SingleCalls, AtWork, KeptEverywhere, DialogKeeps, In, NoDialog
  <2>3. CASE phase # "none" /\ dialog' = [dialog EXCEPT !.phase = phase, !.list = list]
    <3>1. /\ dialog'.phase = phase /\ dialog'.kind = dialog.kind /\ dialog'.ledger = dialog.ledger
          /\ dialog'.list = list
      BY <1>1, <2>3 DEF DialogType
    <3>2. SingleCalls' /\ KeptEverywhere'
      BY <2>1, <3>1 DEF SingleCalls, AtWork, KeptEverywhere, In
    <3>3. DialogKeeps'
      BY <2>1, <3>1 DEF DialogKeeps, AtWork
    <3> QED BY <3>2, <3>3
  <2> QED BY <2>2, <2>3
<1>4. AllAsked'
  BY <1>1, AskedStays DEF IInv
<1> QED BY <1>2, <1>3, <1>4 DEF IInv

\* Confirming an import or a removal keeps the invariant.
LEMMA SavesSteps ==
    ASSUME IInv, AddImportedToken \/ RemoveImportedTokens
    PROVE  IInv'
<1>1. Types /\ store.list \in Lists /\ dialog \in DialogType /\ dialog.list \in Lists /\ dialog.phase = "review"
      /\ dialog.ledger \in Ledgers /\ AtWork
  BY DEF IInv, Types, AddImportedToken, RemoveImportedTokens, StoreType, DialogType, AtWork
<1>2. forced = "query" /\ elsewhere = 0 => DialogKeeps /\ \A k \in kept : store.list[k] # "none"
  BY <1>1 DEF IInv, NoneLost, SingleCalls, KeptEverywhere, In
<1>3. CASE AddImportedToken
  <2> DEFINE l == dialog.ledger
             v == IF dialog.kind = "index" /\ store.list[l] = "none" THEN store.list[l] ELSE dialog.list[l]
             new == [store.list EXCEPT ![l] = v]
  <2>1. Saves(new) /\ dialog.kind \in {"add", "index"}
    BY <1>3 DEF AddImportedToken
  <2>2. v \in Values /\ new \in Lists /\ new[l] = v /\ \A k \in Ledgers : k # l => new[k] = store.list[k]
    BY <1>1 DEF Lists
  <2>3. forced = "query" /\ elsewhere = 0 => new[l] # "none"
    BY <1>1, <1>2, <2>1, <2>2 DEF DialogKeeps
  <2>4. forced = "query" /\ elsewhere = 0 => \A k \in kept : new[k] # "none"
    BY <1>1, <1>2, <2>2, <2>3 DEF Types
  <2> HIDE DEF new
  <2>5. /\ dialog' = [dialog EXCEPT !.phase = "save", !.list = new]
        /\ UNCHANGED <<saved, forced, store, loads, failed, loaded, fetches, page, requested, kept,
                       forgotten, elsewhere, dialogs, failures>>
    BY <2>1 DEF Saves, bounds
  <2> QED BY <1>1, <2>2, <2>3, <2>4, <2>5, DialogMoves
<1>4. CASE RemoveImportedTokens
  <2> DEFINE l == dialog.ledger
             new == [store.list EXCEPT ![l] = "none"]
  <2>1. Saves(new) /\ dialog.kind = "remove"
    BY <1>4 DEF RemoveImportedTokens
  <2>2. new \in Lists /\ \A k \in Ledgers : k # l => new[k] = store.list[k]
    BY <1>1 DEF Lists, Values
  <2>3. forced = "query" /\ elsewhere = 0 => \A k \in kept : new[k] # "none" \/ k = l
    BY <1>1, <1>2, <2>2 DEF Types
  <2> HIDE DEF new
  <2>4. /\ dialog' = [dialog EXCEPT !.phase = "save", !.list = new]
        /\ UNCHANGED <<saved, forced, store, loads, failed, loaded, fetches, page, requested, kept,
                       forgotten, elsewhere, dialogs, failures>>
    BY <2>1 DEF Saves, bounds
  <2> QED BY <1>1, <2>1, <2>2, <2>3, <2>4, DialogMoves
<1> QED BY <1>3, <1>4

\* A refused or failed save and a cancelled dialog keep the invariant.
LEMMA StaysOpenSteps ==
    ASSUME IInv, TooManyImportedTokens \/ SaveFails \/ Cancel
    PROVE  IInv'
<1>1. /\ Types /\ dialog \in DialogType /\ dialog.list \in Lists /\ dialog.phase \in {"review", "save", "saved"} /\ AtWork
      /\ UNCHANGED <<saved, forced, store, loads, failed, loaded, fetches, page, requested, kept,
                     forgotten, elsewhere, dialogs>>
      /\ failures' = failures \/ failures' = failures + 1
  BY DEF IInv, Types, TooManyImportedTokens, SaveFails, Cancel, DialogType, AtWork, bounds
<1>2. dialog' = NoDialog \/ dialog' = [dialog EXCEPT !.phase = "review", !.list = dialog.list]
  <2>1. dialog' = NoDialog \/ dialog' = [dialog EXCEPT !.phase = "review"]
    BY DEF TooManyImportedTokens, SaveFails, Cancel, StaysOpen
  <2> QED BY <1>1, <2>1 DEF DialogType
<1>3. forced = "query" /\ elsewhere = 0 /\ dialog.kind \in {"add", "index"} => dialog.list[dialog.ledger] # "none"
  BY DEF IInv, NoneLost, DialogKeeps
<1> QED BY <1>1, <1>2, <1>3, DialogMoves

\* The calls that are not answered may return the new list.
LEMMA SavedIsNowType ==
    ASSUME Types, NEW list \in Lists, SavedIsNow(list)
    PROVE  saved' \in Lists /\ loads' \subseteq LoadType
<1>1. \A x \in loads : [x EXCEPT !.seen = @ \cup {list}] \in LoadType
  BY DEF Types, LoadType
<1> QED BY <1>1 DEF SavedIsNow

\* The backend's set_imported_tokens keeps the invariant.
LEMMA SetImportedTokensStep == ASSUME IInv, SetImportedTokens PROVE IInv'
<1>1. /\ Types /\ dialog.phase = "save" /\ SavedIsNow(dialog.list) /\ dialog \in DialogType /\ dialog.list \in Lists
      /\ kept' = (IF dialog.kind = "remove" THEN kept \ {dialog.ledger} ELSE kept)
      /\ dialog' = [dialog EXCEPT !.phase = "saved"]
      /\ UNCHANGED <<forced, store, failed, loaded, fetches, page, requested, forgotten,
                     elsewhere, failures, dialogs>>
  BY DEF IInv, Types, SetImportedTokens, DialogType, bounds
<1>2. /\ dialog' \in DialogType /\ dialog'.phase = "saved" /\ dialog'.kind = dialog.kind
      /\ dialog'.ledger = dialog.ledger /\ dialog'.list = dialog.list
  BY <1>1 DEF DialogType
<1>3. saved' \in Lists /\ loads' \subseteq LoadType
  BY <1>1, SavedIsNowType
<1>4. Types'
  <2>1. kept' \subseteq Ledgers /\ dialog'.ledger \in Ledgers /\ dialog'.kind # "none"
    BY <1>1, <1>2 DEF Types
  <2> QED BY <1>1, <1>2, <1>3, <2>1 DEF Types
<1>5. NoneLost'
  <2> SUFFICES ASSUME forced = "query", elsewhere = 0 PROVE SingleCalls' /\ KeptEverywhere' /\ DialogKeeps'
    BY <1>1 DEF NoneLost
  <2>1. SingleCalls /\ KeptEverywhere /\ DialogKeeps
    BY DEF IInv, NoneLost
  <2>2. loads = {} /\ store.known
    BY <1>1, <2>1 DEF SingleCalls, AtWork
  <2>3. loads' = {} /\ saved' = dialog.list
    BY <1>1, <2>2 DEF SavedIsNow
  <2>4. kept' \subseteq kept /\ \A k \in kept' : dialog.list[k] # "none"
    BY <1>1, <2>1 DEF DialogKeeps
  <2>5. kept' \subseteq In(dialog.list)
    BY <1>1, <2>4 DEF In, Types
  <2>6. SingleCalls'
    BY <1>1, <1>2, <2>2, <2>3 DEF SingleCalls, AtWork
  <2>7. KeptEverywhere'
    <3>1. kept \subseteq In(store.list)
      BY <1>1, <2>1, <2>2 DEF KeptEverywhere
    <3>2. kept' \subseteq In(store'.list)
      BY <1>1, <2>4, <3>1
    <3> QED BY <2>3, <2>5, <3>2 DEF KeptEverywhere, In
  <2>8. DialogKeeps'
    BY <1>1, <1>2, <2>1, <2>3 DEF DialogKeeps, AtWork
  <2> QED BY <2>6, <2>7, <2>8
<1>6. AllAsked'
  BY <1>1, AskedStays DEF IInv
<1> QED BY <1>4, <1>5, <1>6 DEF IInv

\* The end of an import keeps the invariant.
LEMMA AddDoneStep == ASSUME IInv, AddDone PROVE IInv'
<1>1. /\ Types /\ dialog.phase = "saved" /\ dialog.kind \in {"add", "index"} /\ dialog \in DialogType
      /\ loads' = loads \cup {GetImportedTokens(dialogs, saved)}
      /\ kept' = (IF dialog.kind = "add" THEN kept \cup {dialog.ledger} ELSE kept)
      /\ dialog' = [dialog EXCEPT !.phase = "load"]
      /\ UNCHANGED <<saved, forced, store, failed, loaded, fetches, page, requested, forgotten,
                     elsewhere, failures, dialogs>>
  BY DEF IInv, Types, AddDone, bounds
<1>2. /\ dialog' \in DialogType /\ dialog'.phase = "load" /\ dialog'.kind = dialog.kind
      /\ dialog'.ledger = dialog.ledger /\ dialog'.list = dialog.list /\ dialog.ledger \in Ledgers
  BY <1>1 DEF DialogType, Types
<1>3. loads' \subseteq LoadType
  <2>1. Sent(forced) \in Requests /\ saved \in Lists /\ dialogs \in Nat
    BY <1>1, SentType DEF Types
  <2>2. GetImportedTokens(dialogs, saved) \in LoadType
    BY <2>1 DEF GetImportedTokens, LoadType
  <2> QED BY <1>1, <2>2 DEF Types
<1>4. Types'
  <2>1. kept' \subseteq Ledgers /\ dialog'.kind # "none"
    BY <1>1, <1>2 DEF Types
  <2> QED BY <1>1, <1>2, <1>3, <2>1 DEF Types
<1>5. NoneLost'
  <2> SUFFICES ASSUME forced = "query", elsewhere = 0 PROVE SingleCalls' /\ KeptEverywhere' /\ DialogKeeps'
    BY <1>1 DEF NoneLost
  <2>1. SingleCalls /\ KeptEverywhere /\ DialogKeeps
    BY DEF IInv, NoneLost
  <2>2. loads = {} /\ store.known
    BY <1>1, <2>1 DEF SingleCalls, AtWork
  <2>3. loads' = {[by |-> dialogs, request |-> Sent("query"), seen |-> {saved}]}
    BY <1>1, <2>2 DEF GetImportedTokens
  <2>4. kept' \subseteq In(saved)
    <3>1. kept \subseteq In(saved) /\ saved = dialog.list /\ dialog.list[dialog.ledger] # "none"
      BY <1>1, <2>1 DEF KeptEverywhere, DialogKeeps
    <3> QED BY <1>1, <1>2, <3>1 DEF In
  <2>5. SingleCalls'
    BY <1>1, <1>2, <2>2, <2>3 DEF SingleCalls, AtWork
  <2>6. KeptEverywhere'
    BY <1>1, <1>2, <2>3, <2>4 DEF KeptEverywhere, In
  <2>7. DialogKeeps'
    BY <1>2, <2>1 DEF DialogKeeps, AtWork
  <2> QED BY <2>5, <2>6, <2>7
<1>6. AllAsked'
  BY <1>1, AskedStays DEF IInv
<1> QED BY <1>4, <1>5, <1>6 DEF IInv

\* The end of a removal keeps the invariant.
LEMMA RemoveDoneStep == ASSUME IInv, RemoveDone PROVE IInv'
<1> DEFINE l == dialog.ledger
<1>1. /\ Types /\ dialog.phase = "saved" /\ dialog.kind = "remove" /\ dialog' = NoDialog
      /\ store' = [store EXCEPT !.list[l] = "none"] /\ failed' = failed \ {l}
      /\ forgotten' = (forgotten /\ page # l) /\ l \in Ledgers /\ store \in StoreType
      /\ UNCHANGED <<saved, forced, loads, loaded, kept, elsewhere, failures, dialogs>>
  BY DEF IInv, Types, RemoveDone, bounds
<1>2. /\ store' \in StoreType /\ store'.known = store.known /\ In(store'.list) = In(store.list) \ {l}
      /\ (store'.known \/ store' = Undefined)
  <2>1. store'.known = store.known /\ store'.list = [store.list EXCEPT ![l] = "none"]
    BY <1>1 DEF StoreType
  <2>2. store' \in StoreType
    BY <1>1 DEF StoreType, Lists, Values
  <2>3. In(store'.list) = In(store.list) \ {l}
    BY <1>1, <2>1 DEF In, StoreType, Lists
  <2>4. store = Undefined => store' = store
    BY <1>1 DEF Undefined, NoTokens
  <2> QED BY <1>1, <2>1, <2>2, <2>3, <2>4 DEF Types
<1>3. \/ page = l /\ page' = "tokens" /\ LoadIcrcTokenAccounts(store', failed', {}, fetches)
      \/ page # l /\ page' = page /\ React(store', failed', fetches)
  BY DEF RemoveDone
<1>4. PICK st \in StoreType, f \in SUBSET Ledgers : st = store' /\ f = failed'
  BY <1>1, <1>2 DEF Types
<1>5. fetches \in SUBSET Ledgers
  BY <1>1 DEF Types
<1>6. /\ requested' \subseteq Ledgers /\ fetches' \subseteq Ledgers /\ page' \in Ledgers \cup {"none", "tokens"}
      /\ AllAsked'
  <2>1. CASE page = l
    <3>1. LoadIcrcTokenAccounts(st, f, {}, fetches) /\ page' = "tokens"
      BY <1>3, <1>4, <2>1 DEF LoadIcrcTokenAccounts
    <3>2. /\ requested' \subseteq Ledgers /\ fetches' \subseteq Ledgers /\ fetches \subseteq fetches'
          /\ requested' \subseteq fetches' /\ In(st.list) \subseteq f \cup requested'
      BY <1>4, <1>5, <3>1, LoadAsks
    <3>3. AllAsked'
      BY <1>1, <1>4, <3>2 DEF IInv, AllAsked, In
    <3> QED BY <3>1, <3>2, <3>3
  <2>2. CASE page # l
    <3>1. Types /\ React(st, f, fetches) /\ page' = page
      BY <1>1, <1>3, <1>4, <2>2 DEF React, LoadIcrcTokenAccounts
    <3>2. /\ requested' \subseteq Ledgers /\ fetches' \subseteq Ledgers /\ requested \subseteq requested'
          /\ fetches \subseteq fetches' /\ requested' \subseteq requested \cup fetches'
          /\ page = "tokens" => In(st.list) \subseteq f \cup requested'
      BY <1>5, <3>1, ReactAsks
    <3>3. ~forgotten' => ~forgotten
      BY <1>1, <2>2, Zenon
    <3>4. failures' = 0 => failed' = {} /\ requested' \subseteq loaded' \cup fetches'
      BY <1>1, <3>2 DEF IInv, AllAsked
    <3>5. page' = "tokens" /\ ~forgotten' =>
            In(store'.list) \subseteq failed' \cup (requested' \cap (loaded' \cup fetches'))
      BY <1>1, <1>2, <1>4, <3>1, <3>2, <3>3 DEF IInv, AllAsked
    <3>6. AllAsked'
      BY <3>4, <3>5 DEF AllAsked, In
    <3> QED BY <1>1, <3>1, <3>2, <3>6 DEF Types
  <2> QED BY <2>1, <2>2
<1>7. Types'
  <2>1. dialog' \in DialogType /\ dialog'.phase = "none" /\ dialog'.kind = "none"
    BY <1>1, NoTokensType DEF NoDialog
  <2>2. failed' \subseteq Ledgers /\ forgotten' \in BOOLEAN
    BY <1>1 DEF Types
  <2> QED BY <1>1, <1>2, <1>6, <2>1, <2>2 DEF Types
<1>8. NoneLost'
  <2> SUFFICES ASSUME forced = "query", elsewhere = 0 PROVE SingleCalls' /\ KeptEverywhere' /\ DialogKeeps'
    BY <1>1 DEF NoneLost
  <2>1. SingleCalls /\ KeptEverywhere /\ DialogKeeps
    BY DEF IInv, NoneLost
  <2>2. loads = {} /\ store.known /\ l \notin kept
    BY <1>1, <2>1 DEF SingleCalls, AtWork, DialogKeeps
  <2>3. dialog'.phase = "none" /\ dialog'.kind = "none"
    BY <1>1 DEF NoDialog
  <2>4. SingleCalls' /\ DialogKeeps'
    BY <1>1, <2>2, <2>3 DEF SingleCalls, AtWork, DialogKeeps
  <2>5. kept \subseteq In(store'.list)
    BY <1>1, <1>2, <2>1, <2>2 DEF KeptEverywhere
  <2>6. KeptEverywhere'
    BY <1>1, <2>1, <2>2, <2>5 DEF KeptEverywhere, In
  <2> QED BY <2>4, <2>6
<1> QED BY <1>6, <1>7, <1>8 DEF IInv

\* What another tab saves keeps the invariant.
LEMMA AnotherTabStep == ASSUME IInv, AnotherTab PROVE IInv'
<1>1. PICK l \in Ledgers, v \in {"none", "plain"} :
        /\ SavedIsNow([saved EXCEPT ![l] = v])
        /\ kept' = IF v = "none" THEN kept \ {l} ELSE kept \cup {l}
  BY DEF AnotherTab
<1>2. /\ Types /\ elsewhere' = elsewhere + 1 /\ elsewhere \in Nat
      /\ UNCHANGED <<forced, store, failed, loaded, fetches, page, requested, dialog, forgotten,
                     failures, dialogs>>
  BY DEF IInv, Types, AnotherTab
<1>3. [saved EXCEPT ![l] = v] \in Lists
  BY <1>2 DEF Types, Lists, Values
<1>4. saved' \in Lists /\ loads' \subseteq LoadType
  BY <1>1, <1>2, <1>3, SavedIsNowType
<1>5. Types'
  <2>1. kept' \subseteq Ledgers
    BY <1>1, <1>2 DEF Types
  <2> QED BY <1>2, <1>4, <2>1 DEF Types
<1>6. NoneLost'
  BY <1>2 DEF NoneLost
<1>7. AllAsked'
  BY <1>2, AskedStays DEF IInv
<1> QED BY <1>5, <1>6, <1>7 DEF IInv

-----------------------------------------------------------------------------

\* The invariant holds when the application starts.
LEMMA InitIInv == Init => IInv
<1> SUFFICES ASSUME Init PROVE IInv
  OBVIOUS
<1>1. saved \in Lists /\ forced \in Forced /\ loads = {GetImportedTokens(0, saved)} /\ kept = In(saved)
  BY DEF Init, Lists, Values
<1>2. loads \subseteq LoadType
  <2>1. Sent(forced) \in Requests
    BY <1>1, SentType
  <2> QED BY <1>1, <2>1 DEF GetImportedTokens, LoadType
<1>3. Types
  <2>1. store \in StoreType /\ dialog \in DialogType /\ dialog.phase = "none" /\ dialog.kind = "none"
    BY NoTokensType DEF Init, NoDialog
  <2> QED BY <1>1, <1>2, <2>1 DEF Init, Types, In
<1>4. NoneLost
  <2> SUFFICES ASSUME forced = "query" PROVE SingleCalls /\ KeptEverywhere /\ DialogKeeps
    BY DEF NoneLost
  <2>1. ~store.known /\ dialog.phase = "none" /\ dialog.kind = "none"
    BY DEF Init, Undefined, NoDialog
  <2>2. loads = {[by |-> 0, request |-> Sent("query"), seen |-> {saved}]}
    BY <1>1 DEF GetImportedTokens
  <2> QED BY <1>1, <2>1, <2>2 DEF SingleCalls, AtWork, KeptEverywhere, DialogKeeps
<1>5. AllAsked
  BY DEF Init, AllAsked
<1> QED BY <1>3, <1>4, <1>5 DEF IInv

\* Every step keeps the invariant, one action at a time.
LEMMA NextIInv == IInv /\ [Next]_vars => IInv'
<1> SUFFICES ASSUME IInv, [Next]_vars PROVE IInv'
  OBVIOUS
<1>1. ASSUME NEW l \in Ledgers, OpenIcrcWallet(l) \/ FetchAnswers(l) \/ FetchFails(l) PROVE IInv'
  BY <1>1, OpenIcrcWalletStep, FetchAnswersStep, FetchFailsStep
<1>2. CASE OpenTokens
  BY <1>2, OpenTokensStep
<1>3. CASE AddIndexCanisterModal \/ \E l \in Ledgers : ImportTokenModal(l) \/ RemoveConfirmation(l)
  BY <1>3, OpenSteps
<1>4. ASSUME NEW x \in loads, NEW certified \in BOOLEAN, LoadAnswers(x, certified) \/ LoadFails(x, certified)
      PROVE  IInv'
  BY <1>4, LoadSteps
<1>5. CASE AddImportedToken \/ RemoveImportedTokens
  BY <1>5, SavesSteps
<1>6. CASE TooManyImportedTokens \/ SaveFails \/ Cancel
  BY <1>6, StaysOpenSteps
<1>7. CASE SetImportedTokens
  BY <1>7, SetImportedTokensStep
<1>8. CASE AddDone
  BY <1>8, AddDoneStep
<1>9. CASE RemoveDone
  BY <1>9, RemoveDoneStep
<1>10. CASE AnotherTab
  BY <1>10, AnotherTabStep
<1>11. CASE UNCHANGED vars
  <2>1. Types' /\ AllAsked'
    BY <1>11, AskedStays DEF IInv, Types, vars
  <2>2. NoneLost'
    BY <1>11, NoneLostStays DEF IInv, vars
  <2> QED BY <2>1, <2>2 DEF IInv
<1> QED BY <1>1, <1>2, <1>3, <1>4, <1>5, <1>6, <1>7, <1>8, <1>9, <1>10, <1>11 DEF Next

\* The invariant holds in every state.
LEMMA Invariance == Spec => []IInv
BY InitIInv, NextIInv, PTL DEF Spec

\* An imported token is neither lost by the backend when a list is saved over
\* another, nor missing on the Tokens page (loadImportedTokens, addImportedToken,
\* removeImportedTokens, tokensListUserStore).
THEOREM TokensAreKept == Spec => []ImportedTokensAreKept
<1>1. IInv => ImportedTokensAreKept
  <2> SUFFICES ASSUME IInv PROVE TypeOK /\ NoTokenIsLost /\ TokensAreListed
    BY DEF ImportedTokensAreKept
  <2>1. TypeOK
    BY DEF IInv, Types, TypeOK, Lists, Values, StoreType
  <2>2. NoTokenIsLost
    BY DEF IInv, Types, NoneLost, KeptEverywhere, NoTokenIsLost
  <2>3. TokensAreListed
    <3> SUFFICES ASSUME Quiet, ~forgotten, NEW l \in In(store.list) PROVE HasRow(l) \/ HasWarning(l)
      BY DEF TokensAreListed
    <3>1. l \in failed \/ l \in loaded
      BY DEF IInv, AllAsked, Quiet
    <3> QED BY <3>1 DEF HasRow, HasWarning, IcrcCanisters, FailedExistent
  <2> QED BY <2>1, <2>2, <2>3
<1> QED BY <1>1, Invariance, PTL
=============================================================================
