--------------------------- MODULE HardwareWallet ---------------------------
(***************************************************************************)
(* The hardware wallets of a user (identities/ledger.identity.ts and       *)
(* services/icp-ledger.services.ts).  An operation makes an identity of    *)
(* the wallet that is connected, and whenever it needs the wallet again it *)
(* opens a transport, compares keys, has the wallet do one thing, and      *)
(* closes the transport.  Meanwhile the user may connect another wallet.   *)
(* A call to a canister is signed together with the request that reads its *)
(* state, so that the user confirms one thing although the agent polls.    *)
(*                                                                         *)
(* The transport (WebHID) belongs to one tab at a time, and breaks when    *)
(* the wallet is disconnected.  The wallet, its app and the agent are      *)
(* external.  An account identifier stands for the wallet it is made of.   *)
(***************************************************************************)
EXTENDS Integers, Sequences, FiniteSets

CONSTANTS
    Wallets,    \* the wallets of the user, each with a key of its own
    OldApps,    \* those whose app is older than ALL_CANDID_TXS_VERSION
    Tabs,       \* tabs of the browser: an operation at a time in each
    MaxCalls    \* bound: the calls to canisters

ASSUME HardwareWalletAssumption == OldApps \subseteq Wallets /\ MaxCalls \in Nat

VARIABLES
    plugged,        \* the wallet that is connected, if there is one
    inUse,          \* the tab that has the transport open, if there is one
    operations,     \* what each tab is doing
    attached,       \* accounts of wallets, which the backend holds
    calls,          \* the number of calls made
    confirmations,  \* how often the user confirmed a request of each call
    submitted       \* history: the requests that were sent to the IC

walletVars == <<plugged, inUse, operations, attached, calls, confirmations, submitted>>

-----------------------------------------------------------------------------
(***************************************************************************)
(* Operations.                                                             *)
(***************************************************************************)

\* The calls that an operation makes with the identity of the wallet: staking transfers, and
\* then changes the visibility of a public neuron; the claim between them is anonymous.
Script(kind) ==
    CASE kind \in {"list", "transfer"} -> <<"plain">>
      [] kind = "stake" -> <<"stake">>
      [] kind = "stake public" -> <<"stake", "plain">>
      [] OTHER -> <<>>

OfAccount == {"transfer", "stake", "stake public"}
Kinds == OfAccount \cup {"list", "show", "register"}


\* What is being signed: a call, or the request that reads the state of one.
Content(type, n, purpose, expiry) ==
    [type |-> type, call |-> n, purpose |-> purpose, expiry |-> expiry]
Contents ==
    [type : {"call", "read_state"}, call : 1 .. MaxCalls, purpose : {"plain", "stake"},
     expiry : {0, 1}]

\* The steps during which an operation opens the transport.
SessionSteps == {"create", "show", "version", "sign"}

\* An instance of LedgerIdentity belongs to one operation: its publicKey, neuronStakeFlag and
\* readStateMap, which is keyed by the call.
NoOperation ==
    [step |-> "idle", kind |-> "show", account |-> {}, key |-> {}, flag |-> FALSE,
     todo |-> <<>>, request |-> {}, cache |-> {}]

Ends(t) == operations' = [operations EXCEPT ![t] = NoOperation]

\* For an account of a wallet, getAccountIdentity takes the identity of the wallet.
StartOperation(t, kind, account) ==
    /\ operations[t].step = "idle"
    /\ account \subseteq attached
    /\ account # {} <=> kind \in OfAccount
    /\ operations' = [operations EXCEPT ![t] =
           [NoOperation EXCEPT !.step = "create", !.kind = kind, !.account = account,
                               !.todo = Script(kind)]]
    /\ UNCHANGED <<plugged, inUse, attached, calls, confirmations, submitted>>

-----------------------------------------------------------------------------
(***************************************************************************)
(* The transport.                                                          *)
(***************************************************************************)
Connect(t) ==
    /\ operations[t].step \in SessionSteps
    /\ inUse = {} /\ plugged # {}
    /\ inUse' = {t}
    /\ UNCHANGED <<plugged, operations, attached, calls, confirmations, submitted>>

\* There is no device, another tab has it, or the user does not allow the access.
ConnectFails(t) ==
    /\ operations[t].step \in SessionSteps /\ t \notin inUse
    /\ Ends(t)
    /\ UNCHANGED <<plugged, inUse, attached, calls, confirmations, submitted>>

\* Mutant of SessionFails: the transport is closed after the callback, not finally.
SessionLeaks(t) ==
    /\ t \in inUse
    /\ Ends(t)
    /\ UNCHANGED <<plugged, inUse, attached, calls, confirmations, submitted>>

\* The device is locked or its app is not open, or the user rejects the request: whatever is
\* thrown, finally the transport is closed.
SessionFails(t) ==
    /\ t \in inUse
    /\ inUse' = {} /\ Ends(t)
    /\ UNCHANGED <<plugged, attached, calls, confirmations, submitted>>

Unplug ==
    /\ plugged # {}
    /\ plugged' = {} /\ inUse' = {}
    /\ operations' = [t \in Tabs |-> IF t \in inUse THEN NoOperation ELSE operations[t]]
    /\ UNCHANGED <<attached, calls, confirmations, submitted>>

Plug(w) ==
    /\ plugged = {} /\ plugged' = {w}
    /\ UNCHANGED <<inUse, operations, attached, calls, confirmations, submitted>>

\* executeWithApp: the callback is for the wallet whose key the identity has, and then the
\* transport is closed.
WithApp(t, step) ==
    /\ t \in inUse /\ operations[t].step = step
    /\ operations[t].key = plugged
    /\ inUse' = {}

UnexpectedWallet(t) ==
    /\ t \in inUse /\ operations[t].step \in SessionSteps \ {"create"}
    /\ operations[t].key # plugged
    /\ inUse' = {} /\ Ends(t)
    /\ UNCHANGED <<plugged, attached, calls, confirmations, submitted>>

-----------------------------------------------------------------------------
(***************************************************************************)
(* What the operations do.                                                 *)
(***************************************************************************)

\* LedgerIdentity.create, the check of getLedgerIdentity, and flagUpcomingStakeNeuron.
CreateIdentity(t) ==
    LET op == operations[t]
    IN  /\ t \in inUse /\ op.step = "create"
        /\ inUse' = {}
        /\ IF op.kind \in OfAccount /\ op.account # plugged THEN Ends(t)
           ELSE operations' = [operations EXCEPT
                    ![t].step = IF op.kind = "show" THEN "show" ELSE "ready",
                    ![t].key = plugged,
                    ![t].flag = op.kind \in {"stake", "stake public"}]
        /\ UNCHANGED <<plugged, attached, calls, confirmations, submitted>>

\* showAddressAndPubKeyOnDevice
ShowAddress(t) ==
    /\ WithApp(t, "show") /\ Ends(t)
    /\ UNCHANGED <<plugged, attached, calls, confirmations, submitted>>

\* registerHardwareWallet, with the identity that was made when the wallet was connected; the
\* backend holds the account even if the answer is lost.
RegisterHardwareWallet(t) ==
    /\ operations[t].step = "ready" /\ operations[t].kind = "register"
    /\ attached' = attached \cup operations[t].key
    /\ Ends(t)
    /\ UNCHANGED <<plugged, inUse, calls, confirmations, submitted>>

\* transformRequest for a call, which raiseIfVersionIsDeprecated comes before.
MakeCall(t) ==
    /\ operations[t].step = "ready" /\ operations[t].todo # <<>>
    /\ calls < MaxCalls /\ calls' = calls + 1
    /\ operations' = [operations EXCEPT
           ![t].step = "version",
           ![t].request = {Content("call", calls', Head(operations[t].todo), 0)}]
    /\ UNCHANGED <<plugged, inUse, attached, confirmations, submitted>>

\* raiseIfVersionIsDeprecated
CheckVersion(t) ==
    /\ WithApp(t, "version")
    /\ IF plugged \subseteq OldApps THEN Ends(t)
       ELSE operations' = [operations EXCEPT ![t].step = "sign"]
    /\ UNCHANGED <<plugged, attached, calls, confirmations, submitted>>

\* What the wallet signs, and the request that the agent sends with the signature.
Signature(w, content, flag) ==
    [key |-> w, content |-> content, stakeTransfer |-> flag]
Submit(op, content, signature) ==
    submitted' = submitted \cup {[account |-> op.account, sender |-> op.key,
                                  content |-> content, signature |-> signature]}

\* createReadStateRequest
ReadStateOf(content) == [content EXCEPT !.type = "read_state"]

\* sign, and for a call signWithReadState and storeRequestInCache: the user confirms once.
Sign(t) ==
    LET op == operations[t]
    IN  /\ WithApp(t, "sign")
        /\ \E content \in op.request :
            /\ Submit(op, content, Signature(plugged, content, op.flag))
            /\ confirmations' = [confirmations EXCEPT ![content.call] = @ + 1]
            /\ operations' = [operations EXCEPT
                   ![t].step = "called", ![t].flag = FALSE,
                   ![t].cache =
                       IF content.type # "call" THEN @
                       ELSE {c \in @ : c.body.call # content.call} \cup
                            {[body |-> ReadStateOf(content),
                              signature |-> Signature(plugged, ReadStateOf(content), op.flag)]}]
        /\ UNCHANGED <<plugged, attached, calls>>

\* getRequestFromCache: the body that was signed when the call was made, if what the agent
\* asks now differs in its expiry only.
Cached(op, content) ==
    {c \in op.cache : c.body.call = content.call /\ [content EXCEPT !.expiry = c.body.expiry] = c.body}

\* The agent polls for the answer, with a new expiry; transformRequest for a read_state.
Poll(t, expiry) ==
    /\ operations[t].step = "called"
    /\ \E request \in operations[t].request :
        LET content == [ReadStateOf(request) EXCEPT !.expiry = expiry]
            cached == Cached(operations[t], content)
        IN  IF cached # {}
            THEN /\ \E c \in cached : Submit(operations[t], c.body, c.signature)
                 /\ UNCHANGED operations
            ELSE /\ operations' = [operations EXCEPT ![t].step = "version", ![t].request = {content}]
                 /\ UNCHANGED submitted
    /\ UNCHANGED <<plugged, inUse, attached, calls, confirmations>>

\* The call is answered: the next one, if there is one.
CallAnswered(t) ==
    /\ operations[t].step = "called"
    /\ IF Len(operations[t].todo) = 1 THEN Ends(t)
       ELSE operations' = [operations EXCEPT ![t].step = "ready", ![t].todo = Tail(@)]
    /\ UNCHANGED <<plugged, inUse, attached, calls, confirmations, submitted>>

\* A call to the backend, to the ledger or to the governance canister fails.
CallIsLost(t) ==
    /\ operations[t].step \in {"ready", "called"}
    /\ Ends(t)
    /\ UNCHANGED <<plugged, inUse, attached, calls, confirmations, submitted>>

-----------------------------------------------------------------------------
InitWallets ==
    /\ plugged = {} /\ inUse = {}
    /\ operations = [t \in Tabs |-> NoOperation]
    /\ attached \in SUBSET Wallets
    /\ calls = 0 /\ confirmations = [n \in 1 .. MaxCalls |-> 0]
    /\ submitted = {}

NextWallets ==
    \/ Unplug \/ \E w \in Wallets : Plug(w)
    \/ \E t \in Tabs :
        \/ \E kind \in Kinds, account \in {{}} \cup {{w} : w \in Wallets} :
               StartOperation(t, kind, account)
        \/ Connect(t) \/ ConnectFails(t) \/ SessionFails(t) \/ UnexpectedWallet(t)
        \/ CreateIdentity(t) \/ ShowAddress(t) \/ RegisterHardwareWallet(t)
        \/ MakeCall(t) \/ CheckVersion(t) \/ Sign(t) \/ CallAnswered(t) \/ CallIsLost(t)
        \/ \E expiry \in {0, 1} : Poll(t, expiry)

SpecWallets == InitWallets /\ [][NextWallets]_walletVars

-----------------------------------------------------------------------------
(***************************************************************************)
(* Properties.                                                             *)
(***************************************************************************)

\* Whichever wallets are connected between the steps of an operation, what is sent for an
\* account is signed by the wallet of that account, and the signature is of what is sent, also
\* when a signature is used again. A wallet with an old app signs nothing: its version is read
\* in one session and it signs in another.
SignedByItsWallet ==
    \A r \in submitted :
        /\ r.signature.key = r.sender /\ r.signature.content = r.content
        /\ r.account \in {{}, r.sender}
        /\ ~(r.sender \subseteq OldApps)

\* The wallet is told of a stake transfer for the transfer of a staking, and for no other call.
StakesAreFlagged ==
    \A r \in submitted : r.content.type = "call" =>
        (r.signature.stakeTransfer <=> r.content.purpose = "stake")

\* A call is confirmed once, however often its state is read.
ConfirmedOnce == \A n \in 1 .. MaxCalls : confirmations[n] <= 1

\* Whatever failed, a tab that is not in a session has closed the transport.
TransportIsFreed == \A t \in inUse : operations[t].step \in SessionSteps

\* A request is signed as it should be, and once.
SigningIsSound ==
    SignedByItsWallet /\ StakesAreFlagged /\ ConfirmedOnce /\ TransportIsFreed
=============================================================================
