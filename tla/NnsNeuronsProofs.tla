-------------------------- MODULE NnsNeuronsProofs --------------------------
(***************************************************************************)
(* Theorems about NnsNeurons for any set of neurons, any longest delay and *)
(* any number of operations and lists.                                     *)
(***************************************************************************)
EXTENDS NnsNeurons, FiniteSetTheorems, TLAPS

Controllers == {"user", "wallet", "other"}
States == {"locked", "dissolving", "dissolved"}
FolloweesType == [Topics -> SUBSET Followees]
NeuronType ==
    [controller : Controllers, hotkey : BOOLEAN, state : States, delay : 0 .. MaxDelay,
     fund : BOOLEAN, auto : BOOLEAN, public : BOOLEAN, followees : FolloweesType,
     stake : Nat, maturity : Nat]
Data == [Neurons -> NeuronType]
EntryType ==
    [neuron : NeuronType, certified : BOOLEAN, asked : Nat, from : {"answer", "overtaken", "failure"}]
HitType == [data : Data, overtaken : BOOLEAN]

ArgType == Neurons \cup Nat \cup BOOLEAN \cup FolloweesType
Kinds == {"delay", "join", "leave", "auto", "start", "stop", "disburse", "split", "spawn", "merge",
          "maturity", "hotkey", "public", "followees"}
Signers == Controllers \cup {"nobody"}
CallType ==
    [neuron : Neurons, signer : Signers, kind : Kinds, arg : ArgType, after : {"load", "list"},
     phase : Phases, ok : BOOLEAN, base : NeuronType]
ListType ==
    [op : BOOLEAN, asked : Nat, query : BOOLEAN, update : BOOLEAN, read : BOOLEAN,
     data : Data \cup {<<>>}, at : Nat]

ArgFits(call) ==
    /\ call.kind = "followees" => call.arg \in FolloweesType
    /\ call.kind \in {"auto", "hotkey", "public"} => call.arg \in BOOLEAN
    /\ call.kind = "delay" => call.arg \in Nat
    /\ call.kind \in {"split", "spawn", "merge"} => call.arg \in Neurons /\ call.after = "list"

Types ==
    /\ gov \in Data /\ prev \in Data
    /\ version \in Nat /\ ended \in 0 .. version
    /\ store \in [Neurons -> EntryType]
    /\ cache = {} \/ \E hit \in HitType : cache = {hit}
    /\ lists \subseteq ListType
    /\ ops \subseteq CallType
    /\ trouble \in {"none", "late", "failed"}
    /\ count \in Nat /\ listed \in Nat

\* Calls run together only if they change different neurons, and what a call does
\* next depends on how it is answered.
CallsFit ==
    /\ \A c, d \in ops : c # d => c.neuron # d.neuron /\ c.kind = "public"
    /\ \A c \in ops :
        /\ ArgFits(c)
        /\ c.signer = "nobody" => c.phase = "sent"
        /\ c.phase \in {"load", "list"} => c.phase = c.after
        /\ c.phase = "listing" => c.after = "list"

\* Nothing was asked for after the last operation ended.
AskedBefore ==
    /\ \A n \in Neurons : store[n].asked <= ended
    /\ \A l \in lists : l.asked <= ended

\* The neurons that an accepted call changes, and the calls that changed some and
\* have yet to load them.
Changes(c) == {c.neuron} \cup (IF c.kind \in {"split", "spawn", "merge"} THEN {c.arg} ELSE {})
Executed(c) == c.phase = "executed" /\ c.ok
Reloads(c) == Executed(c) \/ c.phase \in {"load", "list", "listing"}

ListsFresh ==
    \A l \in lists : l.read => /\ l.data \in Data /\ l.asked <= l.at /\ l.at <= version
                               /\ l.at = version => l.data = ListOf(gov)

\* Once every operation has ended, a cached list that is not what governance holds
\* is one that an operation overtook.
CacheFresh == ended = version => \A hit \in cache : hit.overtaken \/ hit.data = ListOf(gov)

CacheLags ==
    trouble = "none" =>
        \A hit \in cache, n \in Neurons :
            hit.data[n] = ListOf(gov)[n] \/ \E c \in ops : Executed(c) /\ n \in Changes(c)

Fresh(n) == UserAuthorizedNeuron(gov[n]) => Shown(n) \in {gov[n], ListOf(gov)[n]}
StoreLags ==
    trouble = "none" => \A n \in Neurons : Fresh(n) \/ \E c \in ops : Reloads(c) /\ n \in Changes(c)

IInv ==
    /\ Types /\ CallsFit /\ AskedBefore /\ ListsFresh /\ CacheFresh /\ CacheLags /\ StoreLags
    /\ SeesOwnWrites /\ NoLostUpdates

-----------------------------------------------------------------------------
(***************************************************************************)
(* What governance does with a call.                                       *)
(***************************************************************************)

\* A field of a neuron is given a new value.
LEMMA FieldTypes ==
    ASSUME NEW v \in NeuronType
    PROVE  /\ v.controller \in Controllers /\ v.hotkey \in BOOLEAN /\ v.state \in States
           /\ v.delay \in 0 .. MaxDelay /\ v.fund \in BOOLEAN /\ v.auto \in BOOLEAN /\ v.public \in BOOLEAN
           /\ v.followees \in FolloweesType /\ v.stake \in Nat /\ v.maturity \in Nat
           /\ \A x \in BOOLEAN : /\ [v EXCEPT !.fund = x] \in NeuronType /\ [v EXCEPT !.auto = x] \in NeuronType
                                 /\ [v EXCEPT !.hotkey = x] \in NeuronType /\ [v EXCEPT !.public = x] \in NeuronType
           /\ \A x \in States : [v EXCEPT !.state = x] \in NeuronType
           /\ \A x \in Nat : [v EXCEPT !.stake = x] \in NeuronType /\ [v EXCEPT !.maturity = x] \in NeuronType
           /\ \A x \in FolloweesType : [v EXCEPT !.followees = x] \in NeuronType
           /\ \A x \in 0 .. MaxDelay : [v EXCEPT !.delay = x] \in NeuronType
BY DEF NeuronType

\* A call that governance accepts gives well-formed neurons and changes only those that Changes
\* names.
LEMMA EffectChanges ==
    ASSUME NEW call \in CallType, ArgFits(call), gov \in Data, Accepts(call)
    PROVE  /\ Effect(call) \in Data
           /\ \A m \in Neurons : m \notin Changes(call) => Effect(call)[m] = gov[m]
<1> DEFINE n == call.neuron
           v == gov[n]
<1>1. n \in Neurons /\ v \in NeuronType /\ call.kind \in Kinds
  BY DEF CallType, Data
<1>2. \A w \in NeuronType : /\ [gov EXCEPT ![n] = w] \in Data
                            /\ \A m \in Neurons : m \notin Changes(call) => [gov EXCEPT ![n] = w][m] = gov[m]
  BY <1>1 DEF Data, Changes
<1>3. CASE call.kind = "followees"
  <2>1. Effect(call) = [gov EXCEPT ![n] = [v EXCEPT !.followees = call.arg]]
    BY <1>3 DEF Effect
  <2>2. [v EXCEPT !.followees = call.arg] \in NeuronType
    BY <1>1, <1>3, FieldTypes DEF ArgFits
  <2> QED BY <1>2, <2>1, <2>2
<1>4. CASE call.kind \in {"join", "leave"}
  <2>1. Effect(call) = [gov EXCEPT ![n] = [v EXCEPT !.fund = (call.kind = "join")]]
    BY <1>4 DEF Effect
  <2>2. [v EXCEPT !.fund = (call.kind = "join")] \in NeuronType
    <3>1. (call.kind = "join") \in BOOLEAN
      OBVIOUS
    <3> QED BY <1>1, <3>1, FieldTypes
  <2> QED BY <1>2, <2>1, <2>2
<1>5. CASE call.kind = "delay"
  <2> DEFINE s == IF v.state = "dissolved" THEN "locked" ELSE v.state
             w == [v EXCEPT !.delay = v.delay + call.arg]
  <2>1. Effect(call) = [[gov EXCEPT ![n].delay = @ + call.arg] EXCEPT ![n].state = IF @ = "dissolved" THEN "locked" ELSE @]
    BY <1>5 DEF Effect
  <2>2. v.delay + call.arg \in 0 .. MaxDelay
    BY <1>1, <1>5, FieldTypes DEF Accepts, ArgFits
  <2>3. w \in NeuronType /\ w.state = v.state
    BY <1>1, <2>2, FieldTypes DEF NeuronType
  <2>4. s \in States
    BY <1>1, FieldTypes DEF States
  <2>5. [w EXCEPT !.state = s] \in NeuronType
    BY <2>3, <2>4, FieldTypes
  <2>6. Effect(call) = [gov EXCEPT ![n] = [w EXCEPT !.state = s]]
    BY <1>1, <2>1, <2>3 DEF Data
  <2> HIDE DEF w, s
  <2> QED BY <1>2, <2>5, <2>6
<1>6. CASE call.kind \in {"start", "stop"}
  <2>1. PICK s \in States : Effect(call) = [gov EXCEPT ![n] = [v EXCEPT !.state = s]]
    BY <1>6 DEF Effect, States
  <2>2. [v EXCEPT !.state = s] \in NeuronType
    BY <1>1, FieldTypes
  <2> QED BY <1>2, <2>1, <2>2
<1>7. CASE call.kind = "disburse"
  <2>1. Effect(call) = [gov EXCEPT ![n] = [v EXCEPT !.stake = 0]]
    BY <1>7 DEF Effect
  <2>2. [v EXCEPT !.stake = 0] \in NeuronType
    BY <1>1, FieldTypes
  <2> QED BY <1>2, <2>1, <2>2
<1>8. CASE call.kind = "maturity"
  <2>1. Effect(call) = [gov EXCEPT ![n] = [v EXCEPT !.maturity = 0]]
    BY <1>8 DEF Effect
  <2>2. [v EXCEPT !.maturity = 0] \in NeuronType
    BY <1>1, FieldTypes
  <2> QED BY <1>2, <2>1, <2>2
<1>9. CASE call.kind = "auto"
  <2>1. Effect(call) = [gov EXCEPT ![n] = [v EXCEPT !.auto = call.arg]]
    BY <1>9 DEF Effect
  <2>2. [v EXCEPT !.auto = call.arg] \in NeuronType
    BY <1>1, <1>9, FieldTypes DEF ArgFits
  <2> QED BY <1>2, <2>1, <2>2
<1>10. CASE call.kind = "hotkey"
  <2>1. Effect(call) = [gov EXCEPT ![n] = [v EXCEPT !.hotkey = call.arg]]
    BY <1>10 DEF Effect
  <2>2. [v EXCEPT !.hotkey = call.arg] \in NeuronType
    BY <1>1, <1>10, FieldTypes DEF ArgFits
  <2> QED BY <1>2, <2>1, <2>2
<1>11. CASE call.kind = "public"
  <2>1. Effect(call) = [gov EXCEPT ![n] = [v EXCEPT !.public = call.arg]]
    BY <1>11 DEF Effect
  <2>2. [v EXCEPT !.public = call.arg] \in NeuronType
    BY <1>1, <1>11, FieldTypes DEF ArgFits
  <2> QED BY <1>2, <2>1, <2>2
<1>12. ASSUME call.kind \in {"split", "spawn", "merge"}
       PROVE  \A g \in Data, w \in NeuronType :
                 (\A m \in Neurons : m # n => g[m] = gov[m]) =>
                    /\ [g EXCEPT ![call.arg] = w] \in Data
                    /\ \A m \in Neurons : m \notin Changes(call) => [g EXCEPT ![call.arg] = w][m] = gov[m]
  BY <1>1, <1>12 DEF Data, Changes, ArgFits
<1>13. CASE call.kind = "split"
  <2> DEFINE w == [v EXCEPT !.stake = v.stake - 1]
             u == [v EXCEPT !.stake = 1]
             e == [u EXCEPT !.maturity = 0]
             g == [gov EXCEPT ![n] = w]
  <2>1. Effect(call) = [g EXCEPT ![call.arg] = e]
    BY <1>13 DEF Effect
  <2>2. v.stake - 1 \in Nat
    BY <1>1, <1>13, FieldTypes DEF Accepts
  <2>3. w \in NeuronType /\ u \in NeuronType
    BY <1>1, <2>2, FieldTypes
  <2>4. e \in NeuronType
    BY <2>3, FieldTypes
  <2>5. g \in Data /\ \A m \in Neurons : m # n => g[m] = gov[m]
    BY <1>1, <2>3 DEF Data
  <2> HIDE DEF w, u, e, g
  <2>6. call.kind \in {"split", "spawn", "merge"}
    BY <1>13
  <2>7. [g EXCEPT ![call.arg] = e] \in Data /\ \A m \in Neurons : m \notin Changes(call) => [g EXCEPT ![call.arg] = e][m] = gov[m]
    BY <1>12, <2>4, <2>5, <2>6
  <2> QED BY <2>1, <2>7
<1>14. CASE call.kind = "spawn"
  <2> DEFINE w == [v EXCEPT !.maturity = 0]
             u == [v EXCEPT !.stake = 0]
  <2>1. Effect(call) = [[gov EXCEPT ![n] = w] EXCEPT ![call.arg] = [u EXCEPT !.state = "locked"]]
    BY <1>14 DEF Effect
  <2>3. w \in NeuronType /\ u \in NeuronType
    BY <1>1, FieldTypes
  <2>4. [u EXCEPT !.state = "locked"] \in NeuronType
    BY <2>3, FieldTypes DEF States
  <2>5. [gov EXCEPT ![n] = w] \in Data /\ \A m \in Neurons : m # n => [gov EXCEPT ![n] = w][m] = gov[m]
    BY <1>1, <2>3 DEF Data
  <2> HIDE DEF w, u
  <2> QED BY ZenonT(60), <1>12, <1>14, <2>1, <2>4, <2>5
<1>15. CASE call.kind = "merge"
  <2> DEFINE w == [v EXCEPT !.stake = v.stake + gov[call.arg].stake]
             g == [gov EXCEPT ![n] = w]
             u == [g[call.arg] EXCEPT !.stake = 0]
             e == [u EXCEPT !.maturity = 0]
  <2>1. Effect(call) = [[g EXCEPT ![call.arg].stake = 0] EXCEPT ![call.arg].maturity = 0]
    BY <1>15 DEF Effect
  <2>2. call.arg \in Neurons /\ v.stake + gov[call.arg].stake \in Nat
    BY <1>1, <1>15, FieldTypes DEF ArgFits, Data
  <2>3. w \in NeuronType
    BY <1>1, <2>2, FieldTypes
  <2>5. g \in Data /\ \A m \in Neurons : m # n => g[m] = gov[m]
    BY <1>1, <2>3 DEF Data
  <2>4. u \in NeuronType /\ e \in NeuronType
    <3>1. g[call.arg] \in NeuronType
      BY <2>2, <2>5 DEF Data
    <3>2. u \in NeuronType
      BY <3>1, FieldTypes
    <3> QED BY <3>2, FieldTypes
  <2>6. Effect(call) = [g EXCEPT ![call.arg] = e]
    BY <2>1, <2>2, <2>5 DEF Data
  <2>7. call.kind \in {"split", "spawn", "merge"}
    BY <1>15
  <2> HIDE DEF w, u, e, g
  <2>8. [g EXCEPT ![call.arg] = e] \in Data /\ \A m \in Neurons : m \notin Changes(call) => [g EXCEPT ![call.arg] = e][m] = gov[m]
    BY <1>12, <2>4, <2>5, <2>7
  <2> QED BY <2>6, <2>8
<1>16. \/ call.kind = "followees" \/ call.kind \in {"join", "leave"} \/ call.kind = "delay"
       \/ call.kind \in {"start", "stop"} \/ call.kind = "disburse" \/ call.kind = "maturity"
       \/ call.kind = "auto" \/ call.kind = "hotkey" \/ call.kind = "public" \/ call.kind = "split"
       \/ call.kind = "spawn" \/ call.kind = "merge"
  BY <1>1 DEF Kinds
<1> HIDE DEF n, v
<1> QED BY <1>16, <1>3, <1>4, <1>5, <1>6, <1>7, <1>8, <1>9, <1>10, <1>11, <1>13, <1>14, <1>15, Zenon
-----------------------------------------------------------------------------
(***************************************************************************)
(* What the pages offer, in terms of the neurons that they show.           *)
(***************************************************************************)

IsSent(n, c) ==
    /\ c \in CallType /\ ArgFits(c)
    /\ c.neuron = n /\ c.phase = "sent" /\ c.ok = FALSE /\ c.base = Shown(n)

\* Governance accepts the call if the neurons are as they are shown.
AcceptsShown(c) ==
    LET v == Shown(c.neuron)
        controller == c.signer = v.controller
        hotkey == c.signer = "user" /\ v.hotkey
    IN  \/ /\ c.kind = "followees"
           /\ controller \/ (hotkey /\ c.arg["management"] = v.followees["management"])
        \/ c.kind = "join" /\ (controller \/ hotkey) /\ v.fund = FALSE
        \/ c.kind = "leave" /\ (controller \/ hotkey) /\ v.fund = TRUE
        \/ c.kind = "delay" /\ controller /\ v.delay + c.arg <= MaxDelay
        \/ c.kind = "start" /\ controller /\ v.state = "locked"
        \/ c.kind = "stop" /\ controller /\ v.state = "dissolving"
        \/ c.kind = "disburse" /\ controller /\ v.state = "dissolved"
        \/ c.kind = "split" /\ controller /\ v.stake >= 2
        \/ /\ c.kind = "merge" /\ controller /\ c.signer = Shown(c.arg).controller
           /\ v.state = "locked" /\ Shown(c.arg).state = "locked"
           /\ SameManageNeuronFollowees(v, Shown(c.arg))
        \/ c.kind \in {"spawn", "maturity"} /\ controller /\ v.maturity > 0
        \/ c.kind \in {"auto", "hotkey", "public"} /\ controller

Promised(n, c) ==
    /\ IsSent(n, c)
    /\ \/ c.signer # "nobody" /\ AcceptsShown(c)
       \/ /\ c.signer = "nobody" /\ c.kind = "followees"
          /\ c.arg["management"] # Shown(n).followees["management"]

Store == [Neurons -> EntryType]

\* What the store shows of a neuron is well formed.
LEMMA ShownType == ASSUME store \in Store, NEW n \in Neurons PROVE Shown(n) \in NeuronType
BY DEF Store, EntryType, Shown

\* A new call with these parts.
Made(c, n, signer, kind, arg, after) ==
    /\ c \in CallType /\ c.neuron = n /\ c.phase = "sent" /\ c.ok = FALSE /\ c.base = Shown(n)
    /\ c.signer = signer /\ c.kind = kind /\ c.arg = arg /\ c.after = after

\* The call that a dialog makes has the neuron, the signer and the command that it was made with.
LEMMA CallIs ==
    ASSUME store \in Store, NEW n \in Neurons, NEW signer \in Signers, NEW kind \in Kinds,
           NEW arg \in ArgType, NEW after \in {"load", "list"}
    PROVE  Made(Call(n, signer, Command(kind, arg), after), n, signer, kind, arg, after)
<1>1. Shown(n) \in NeuronType
  BY ShownType
<1> DEFINE b == Shown(n)
<1>2. Call(n, signer, Command(kind, arg), after) =
        [neuron |-> n, signer |-> signer, kind |-> kind, arg |-> arg, after |-> after,
         phase |-> "sent", ok |-> FALSE, base |-> b]
  BY DEF Call, Command
<1> HIDE DEF b
<1> QED BY <1>1, <1>2 DEF Made, CallType, Phases, b

\* The call of a dialog that the controller signs is signed by the controller that the store shows,
\* never by nobody.
LEMMA ControlledIs ==
    ASSUME store \in Store, NEW n \in Neurons, IsNeuronControllable(Shown(n)), NEW kind \in Kinds,
           NEW arg \in ArgType, NEW after \in {"load", "list"}, NEW c, c = Controlled(n, Command(kind, arg), after)
    PROVE  Made(c, n, Shown(n).controller, kind, arg, after) /\ c.signer # "nobody"
<1>1. Shown(n).controller \in Controllers
  BY ShownType, FieldTypes
<1>2. GetIdentityOfController(Shown(n)) = Shown(n).controller /\ Shown(n).controller # "nobody"
  BY <1>1 DEF GetIdentityOfController, Controllers
<1>3. PICK s \in Signers : s = Shown(n).controller
  BY <1>1 DEF Signers
<1>4. c = Call(n, s, Command(kind, arg), after)
  BY <1>2, <1>3 DEF Controlled
<1>5. Made(c, n, s, kind, arg, after)
  BY <1>4, CallIs
<1> QED BY <1>2, <1>3, <1>5 DEF Made

\* Each kind of call has an argument of its type.
LEMMA ArgsFit ==
    ASSUME NEW c \in CallType, NEW kind \in Kinds, c.kind = kind
    PROVE  /\ kind \in {"join", "leave", "start", "stop", "disburse", "maturity"} => ArgFits(c)
           /\ kind \in {"auto", "hotkey", "public"} /\ c.arg \in BOOLEAN => ArgFits(c)
           /\ kind = "delay" /\ c.arg \in Nat => ArgFits(c)
           /\ kind = "followees" /\ c.arg \in FolloweesType => ArgFits(c)
           /\ kind \in {"split", "spawn", "merge"} /\ c.arg \in Neurons /\ c.after = "list" => ArgFits(c)
BY DEF ArgFits

\* Amounts, neurons, flags and followees are arguments.
LEMMA ArgTypes == /\ \A x \in Nat : x \in ArgType
                  /\ \A x \in Neurons : x \in ArgType
                  /\ \A x \in BOOLEAN : x \in ArgType
                  /\ \A x \in FolloweesType : x \in ArgType
BY DEF ArgType

\* If the store is right, the dialog for the dissolve delay offers only what governance accepts.
LEMMA DelayPromised ==
    ASSUME store \in Store, NEW n \in Neurons, NEW c \in NnsNeuronDissolveDelayItemAction(n)
    PROVE  Promised(n, c)
<1>1. PICK d \in 1 .. MaxDelay : /\ IsNeuronControllable(Shown(n)) /\ d > Shown(n).delay
                                 /\ c = Controlled(n, Command("delay", d - Shown(n).delay), "load")
  BY DEF NnsNeuronDissolveDelayItemAction, If, IncreaseDissolveDelayModal, SetDissolveDelay,
         ConfirmDissolveDelay, UpdateDelay, IncreaseDissolveDelay
<1>2. Shown(n).delay \in 0 .. MaxDelay
  BY ShownType, FieldTypes
<1>3. d - Shown(n).delay \in Nat /\ Shown(n).delay + (d - Shown(n).delay) <= MaxDelay
  BY <1>1, <1>2, MaxDelayAssumption
<1>4. Made(c, n, Shown(n).controller, "delay", d - Shown(n).delay, "load") /\ c.signer # "nobody"
  <2>1. "delay" \in Kinds /\ "load" \in {"load", "list"}
    BY DEF Kinds
  <2>2. PICK by \in ArgType : by = d - Shown(n).delay
    BY <1>3, ArgTypes
  <2> QED BY <1>1, <2>1, <2>2, ControlledIs
<1>5. ArgFits(c)
  BY <1>3, <1>4 DEF ArgFits, Made
<1> QED BY <1>3, <1>4, <1>5 DEF Made, Promised, IsSent, AcceptsShown

\* If the store is right, starting, stopping and disbursing are offered only where governance
\* accepts them.
LEMMA StatePromised ==
    ASSUME store \in Store, NEW n \in Neurons, NEW c \in NnsNeuronStateItemAction(n)
    PROVE  Promised(n, c)
<1>1. /\ IsNeuronControllable(Shown(n)) /\ Shown(n).state \in States
      /\ \/ Shown(n).state = "dissolved" /\ c = Controlled(n, Command("disburse", 0), "list")
         \/ Shown(n).state = "dissolving" /\ c = Controlled(n, Command("stop", 0), "load")
         \/ Shown(n).state = "locked" /\ c = Controlled(n, Command("start", 0), "load")
  <2>1. Shown(n).state \in States
    BY ShownType, FieldTypes
  <2> QED BY <2>1 DEF NnsNeuronStateItemAction, If, DisburseNnsNeuronModal, Disburse, DisburseApi, States,
                      DissolveActionButtonModal, StopDissolving, StopDissolvingApi, StartDissolving, StartDissolvingApi
<1>2. 0 \in ArgType
  BY ArgTypes
<1>3. CASE Shown(n).state = "dissolved" /\ c = Controlled(n, Command("disburse", 0), "list")
  <2>1. "disburse" \in Kinds /\ "list" \in {"load", "list"}
    BY DEF Kinds
  <2>2. Made(c, n, Shown(n).controller, "disburse", 0, "list") /\ c.signer # "nobody"
    BY <1>1, <1>2, <1>3, <2>1, ControlledIs
  <2> QED BY <1>3, <2>2 DEF Made, ArgFits, Promised, IsSent, AcceptsShown
<1>4. CASE Shown(n).state = "dissolving" /\ c = Controlled(n, Command("stop", 0), "load")
  <2>1. "stop" \in Kinds /\ "load" \in {"load", "list"}
    BY DEF Kinds
  <2>2. Made(c, n, Shown(n).controller, "stop", 0, "load") /\ c.signer # "nobody"
    BY <1>1, <1>2, <1>4, <2>1, ControlledIs
  <2> QED BY <1>4, <2>2 DEF Made, ArgFits, Promised, IsSent, AcceptsShown
<1>5. CASE Shown(n).state = "locked" /\ c = Controlled(n, Command("start", 0), "load")
  <2>1. "start" \in Kinds /\ "load" \in {"load", "list"}
    BY DEF Kinds
  <2>2. Made(c, n, Shown(n).controller, "start", 0, "load") /\ c.signer # "nobody"
    BY <1>1, <1>2, <1>5, <2>1, ControlledIs
  <2> QED BY <1>5, <2>2 DEF Made, ArgFits, Promised, IsSent, AcceptsShown
<1> QED BY <1>1, <1>3, <1>4, <1>5

\* If the store is right, the operations on maturity are offered only where governance accepts
\* them.
LEMMA MaturityPromised ==
    ASSUME store \in Store, NEW n \in Neurons, NEW c \in NnsAvailableMaturityItemAction(n)
    PROVE  Promised(n, c)
<1>1. /\ IsNeuronControllable(Shown(n)) /\ Shown(n).maturity > 0
      /\ \/ \E m \in Neurons : c = Controlled(n, Command("spawn", m), "list")
         \/ c = Controlled(n, Command("maturity", 0), "load")
  BY DEF NnsAvailableMaturityItemAction, If, SpawnNeuronButton, SpawnNeuronModal, ConfirmSpawnHW, Unused,
         SpawnNeuron, SpawnNeuronApi, HasEnoughMaturityToStake, IsEnoughMaturityToSpawn,
         NnsStakeMaturityButton, NnsStakeMaturityModal, StakeMaturity, StakeMaturityApi
<1>2. ASSUME NEW m \in Neurons, c = Controlled(n, Command("spawn", m), "list") PROVE Promised(n, c)
  <2>1. "spawn" \in Kinds /\ "list" \in {"load", "list"} /\ m \in ArgType
    BY ArgTypes DEF Kinds
  <2>2. Made(c, n, Shown(n).controller, "spawn", m, "list") /\ c.signer # "nobody"
    BY <1>1, <1>2, <2>1, ControlledIs
  <2> QED BY <1>1, <2>2 DEF Made, ArgFits, Promised, IsSent, AcceptsShown
<1>3. CASE c = Controlled(n, Command("maturity", 0), "load")
  <2>1. "maturity" \in Kinds /\ "load" \in {"load", "list"} /\ 0 \in ArgType
    BY ArgTypes DEF Kinds
  <2>2. Made(c, n, Shown(n).controller, "maturity", 0, "load") /\ c.signer # "nobody"
    BY <1>1, <1>3, <2>1, ControlledIs
  <2> QED BY <1>1, <2>2 DEF Made, ArgFits, Promised, IsSent, AcceptsShown
<1> QED BY <1>1, <1>2, <1>3

\* If the store is right, the advanced section offers only what governance accepts.
LEMMA AdvancedPromised ==
    ASSUME store \in Store, NEW n \in Neurons, NEW c \in NnsNeuronAdvancedSection(n)
    PROVE  Promised(n, c)
<1>1. \/ IsNeuronControllable(Shown(n)) /\ c = Controlled(n, Command("auto", ~Shown(n).auto), "load")
      \/ CanUserManageNeuronFundParticipation(Shown(n)) /\ c = ToggleCommunityFund(n)
      \/ /\ IsNeuronControllable(Shown(n)) /\ Shown(n).stake >= 2
         /\ \E m \in Neurons : c = Controlled(n, Command("split", m), "list")
  BY DEF NnsNeuronAdvancedSection, If, NnsAutoStakeMaturity, NnsAutoStakeMaturityModal, ToggleAutoStakeMaturity,
         AutoStakeMaturityApi, JoinCommunityFundModal, SplitNnsNeuronButton, SplitNnsNeuronModal, NeuronCanBeSplit,
         SplitNeuron, SplitNeuronApi, Unused
<1>2. CASE IsNeuronControllable(Shown(n)) /\ c = Controlled(n, Command("auto", ~Shown(n).auto), "load")
  <2>1. "auto" \in Kinds /\ "load" \in {"load", "list"}
    BY DEF Kinds
  <2>3. PICK x \in BOOLEAN : x = ~Shown(n).auto
    BY Zenon
  <2>2. Made(c, n, Shown(n).controller, "auto", x, "load") /\ c.signer # "nobody"
    <3>1. x \in ArgType
      BY ArgTypes
    <3>2. c = Controlled(n, Command("auto", x), "load")
      BY <1>2, <2>3, Zenon
    <3> QED BY <1>2, <2>1, <3>1, <3>2, ControlledIs
  <2> QED BY <2>2 DEF Made, ArgFits, Promised, IsSent, AcceptsShown
<1>3. CASE CanUserManageNeuronFundParticipation(Shown(n)) /\ c = ToggleCommunityFund(n)
  <2>1. Shown(n).fund \in BOOLEAN /\ Shown(n).controller \in Controllers /\ Shown(n).hotkey \in BOOLEAN
    BY ShownType, FieldTypes
  <2>2. Shown(n).controller = "user" \/ Shown(n).hotkey
    BY <1>3, <2>1 DEF CanUserManageNeuronFundParticipation, IsNeuronControllableByUser, IsHotKeyControllable
  <2>3. PICK kind \in {"join", "leave"} :
            (kind = "leave" /\ Shown(n).fund = TRUE) \/ (kind = "join" /\ Shown(n).fund = FALSE)
    <3>1. CASE Shown(n).fund = TRUE
      BY <3>1, Zenon
    <3>2. CASE Shown(n).fund = FALSE
      BY <3>2, Zenon
    <3> QED BY <2>1, <3>1, <3>2
  <2>4. Made(c, n, "user", kind, 0, "load")
    <3>1. kind \in Kinds /\ "load" \in {"load", "list"} /\ 0 \in ArgType /\ "user" \in Signers
      BY ArgTypes DEF Kinds, Signers, Controllers
    <3>2. c = Call(n, "user", Command(kind, 0), "load")
      BY <1>3, <2>3 DEF ToggleCommunityFund, LeaveCommunityFund, JoinCommunityFund
    <3> QED BY <3>1, <3>2, CallIs
  <2>5. ArgFits(c) /\ c.signer # "nobody"
    BY <2>4 DEF Made, ArgFits
  <2>6. AcceptsShown(c)
    BY <2>2, <2>3, <2>4 DEF Made, AcceptsShown
  <2> QED BY <2>4, <2>5, <2>6 DEF Made, Promised, IsSent
<1>4. ASSUME IsNeuronControllable(Shown(n)), Shown(n).stake >= 2, NEW m \in Neurons,
             c = Controlled(n, Command("split", m), "list")
      PROVE  Promised(n, c)
  <2>1. "split" \in Kinds /\ "list" \in {"load", "list"} /\ m \in ArgType
    BY ArgTypes DEF Kinds
  <2>2. Made(c, n, Shown(n).controller, "split", m, "list") /\ c.signer # "nobody"
    BY <1>4, <2>1, ControlledIs
  <2> QED BY <1>4, <2>2 DEF Made, ArgFits, Promised, IsSent, AcceptsShown
<1> QED BY <1>1, <1>2, <1>3, <1>4

\* If the store is right, hot keys are added and removed only with an identity that may do so.
LEMMA HotkeyPromised ==
    ASSUME store \in Store, NEW n \in Neurons, NEW c \in NnsNeuronHotkeysCard(n)
    PROVE  Promised(n, c)
<1>1. PICK x \in BOOLEAN : IsNeuronControllable(Shown(n)) /\ c = Controlled(n, Command("hotkey", x), "load")
  BY DEF NnsNeuronHotkeysCard, If, ConfirmRemoveCurrentUserHotkey, RemoveHotkey, RemoveHotkeyApi, AddHotkeyModal, AddHotkey, AddHotkeyApi
<1>2. "hotkey" \in Kinds /\ "load" \in {"load", "list"} /\ x \in ArgType
  BY ArgTypes DEF Kinds
<1>3. Made(c, n, Shown(n).controller, "hotkey", x, "load") /\ c.signer # "nobody"
  BY <1>1, <1>2, ControlledIs
<1> QED BY <1>3 DEF Made, ArgFits, Promised, IsSent, AcceptsShown

\* Followees are set for one topic, and they change.
LEMMA SetFolloweesPromised ==
    ASSUME store \in Store, NEW n \in Neurons, NEW topic \in Topics, NEW f \in SUBSET Followees,
           f # Shown(n).followees[topic], IsNeuronControllable(Shown(n)) \/ IsHotKeyControllable(Shown(n))
    PROVE  Promised(n, SetFollowees(n, topic, f))
<1> SUFFICES ASSUME NEW c, c = SetFollowees(n, topic, f) PROVE Promised(n, c)
  OBVIOUS
<1> DEFINE v == Shown(n)
           a == [v.followees EXCEPT ![topic] = f]
<1>1. v.controller \in Controllers /\ v.hotkey \in BOOLEAN /\ v.followees \in FolloweesType
  BY ShownType, FieldTypes
<1>2. a \in FolloweesType /\ (topic # "management" => a["management"] = v.followees["management"])
      /\ (topic = "management" => a["management"] # v.followees["management"])
  BY <1>1 DEF FolloweesType, Topics
<1>3. PICK s \in Signers : s = FolloweesIdentity(v, topic)
  BY <1>1 DEF FolloweesIdentity, GetIdentityOfController, Signers, Controllers
<1>4. \/ s = "user" /\ topic # "management" /\ v.hotkey
      \/ s = v.controller
      \/ s = "nobody" /\ topic = "management"
  BY <1>1, <1>3 DEF FolloweesIdentity, GetIdentityOfController, IsHotKeyControllable, Controllers
<1>5. Made(c, n, s, "followees", a, "load")
  <2>1. "followees" \in Kinds /\ "load" \in {"load", "list"} /\ a \in ArgType
    BY <1>2, ArgTypes DEF Kinds
  <2>2. c = Call(n, s, Command("followees", a), "load")
    BY <1>3 DEF SetFollowees, SetFolloweesApi
  <2> HIDE DEF a
  <2> QED BY <2>1, <2>2, CallIs
<1> HIDE DEF a
<1>6. ArgFits(c)
  BY <1>2, <1>5 DEF Made, ArgFits
<1>7. CASE s = "nobody" /\ topic = "management"
  BY <1>2, <1>5, <1>6, <1>7 DEF Made, Promised, IsSent
<1>8. CASE s = "user" /\ topic # "management" /\ v.hotkey
  BY <1>2, <1>5, <1>6, <1>8 DEF Made, Promised, IsSent, AcceptsShown
<1>9. CASE s = v.controller
  <2>1. s # "nobody"
    BY <1>1, <1>9 DEF Controllers
  <2> QED BY <1>2, <1>5, <1>6, <1>9, <2>1 DEF Made, Promised, IsSent, AcceptsShown
<1> QED BY <1>4, <1>7, <1>8, <1>9

\* If the store is right, followees are set only with an identity that may do so.
LEMMA FollowingPromised ==
    ASSUME store \in Store, NEW n \in Neurons, NEW c \in NeuronFollowingCard(n)
    PROVE  Promised(n, c)
<1>1. /\ IsNeuronControllable(Shown(n)) \/ IsHotKeyControllable(Shown(n))
      /\ \E topic \in Topics : c \in FollowNnsTopicSection(n, topic)
  BY DEF NeuronFollowingCard, If, EditFollowNeurons, TopicsToFollow
<1>2. PICK topic \in Topics : c \in FollowNnsTopicSection(n, topic)
  BY <1>1
<1> DEFINE old == Shown(n).followees[topic]
<1>3. old \in SUBSET Followees
  <2>1. Shown(n).followees \in FolloweesType
    BY ShownType, FieldTypes
  <2> QED BY <2>1 DEF FolloweesType
<1>4. PICK f \in Followees : \/ f \in old /\ c = SetFollowees(n, topic, old \ {f})
                             \/ f \notin old /\ c = SetFollowees(n, topic, old \cup {f})
  BY <1>2, <1>3 DEF FollowNnsTopicSection, NewFolloweeModal, If, KnownNeuronFollowItem, AddFollowee, RemoveFollowee
<1>5. PICK new \in SUBSET Followees : new # old /\ c = SetFollowees(n, topic, new)
  <2>1. CASE f \in old /\ c = SetFollowees(n, topic, old \ {f})
    <3>1. old \ {f} \in SUBSET Followees /\ old \ {f} # old
      BY <1>3, <2>1
    <3> QED BY <2>1, <3>1
  <2>2. CASE f \notin old /\ c = SetFollowees(n, topic, old \cup {f})
    <3>1. old \cup {f} \in SUBSET Followees /\ old \cup {f} # old
      BY <1>3, <1>4, <2>2
    <3> QED BY <2>2, <3>1
  <2> QED BY <1>4, <2>1, <2>2
<1> QED BY <1>1, <1>5, SetFolloweesPromised

\* If the store is right, two neurons are offered for a merge only if governance accepts it.
LEMMA MergePromised ==
    ASSUME store \in Store, NEW c \in NnsNeuronsFooter
    PROVE  /\ c.neuron \in Neurons /\ Promised(c.neuron, c) /\ Shown(c.neuron).state = "locked"
           /\ c.kind = "merge" /\ Shown(c.arg).state = "locked"
<1>1. PICK pair \in Neurons \X Neurons :
        /\ pair[1] \in MapMergeableNeurons(pair[2]) /\ c = MergeNeurons(pair[1], pair[2])
  BY DEF NnsNeuronsFooter, If, MergeNeuronsModal, SelectNeuronsToMerge, ConfirmNeuronsMerge
<1>2. PICK m \in Neurons, n \in Neurons : m \in MapMergeableNeurons(n) /\ c = MergeNeurons(m, n)
  BY <1>1
<1>3. /\ Shown(n).state = "locked" /\ Shown(m).state = "locked" /\ IsNeuronControllable(Shown(n))
      /\ SameController(Shown(m), Shown(n)) /\ SameManageNeuronFollowees(Shown(n), Shown(m))
  BY <1>2 DEF MapMergeableNeurons, IsMergeableNeuron, CanBeMerged, SameManageNeuronFollowees
<1>4. Made(c, n, Shown(n).controller, "merge", m, "list") /\ c.signer # "nobody"
  <2>1. "merge" \in Kinds /\ "list" \in {"load", "list"} /\ m \in ArgType
    BY ArgTypes DEF Kinds
  <2>2. c = Controlled(n, Command("merge", m), "list")
    BY <1>2 DEF MergeNeurons, MergeNeuronsApi
  <2> QED BY <1>3, <2>1, <2>2, ControlledIs
<1>5. ArgFits(c)
  BY <1>4 DEF Made, ArgFits
<1>6. AcceptsShown(c)
  BY <1>3, <1>4 DEF Made, AcceptsShown, SameController
<1> QED BY <1>3, <1>4, <1>5, <1>6 DEF Made, Promised, IsSent

\* What is offered is sound for the neurons that are shown.
LEMMA OfferedPromised ==
    ASSUME store \in Store, NEW c \in Offered
    PROVE  /\ c.neuron \in Neurons /\ Promised(c.neuron, c)
           /\ HasValidStake(Shown(c.neuron)) \/ Shown(c.neuron).state = "locked"
           /\ c.kind = "merge" => Shown(c.arg).state = "locked"
<1>1. CASE c \in NnsNeuronsFooter
  BY <1>1, MergePromised
<1>2. CASE c \in UNION {Operations(n) : n \in {m \in Neurons : HasValidStake(Shown(m))}}
  <2>1. PICK n \in Neurons : HasValidStake(Shown(n)) /\ c \in Operations(n)
    BY <1>2
  <2>2. Promised(n, c)
    BY <2>1, DelayPromised, StatePromised, MaturityPromised, AdvancedPromised, HotkeyPromised, FollowingPromised
       DEF Operations, NnsNeuronVotingPowerSection
  <2>3. c.neuron = n
    BY <2>2 DEF Promised, IsSent
  <2>4. c.kind = "merge" => Shown(c.arg).state = "locked"
    BY <2>2 DEF Promised, AcceptsShown
  <2> QED BY <2>1, <2>2, <2>3, <2>4, Zenon
<1> QED BY <1>1, <1>2 DEF Offered
-----------------------------------------------------------------------------
(***************************************************************************)
(* Lists and calls.                                                        *)
(***************************************************************************)

\* The fields of a new neuron.
LEMMA NeuronIs ==
    ASSUME NEW c \in Controllers, NEW s \in States, NEW k \in Nat
    PROVE  /\ Neuron(c, s, k) \in NeuronType
           /\ Neuron(c, s, k).stake = k /\ Neuron(c, s, k).maturity = 1 /\ Neuron(c, s, k).state = s
           /\ UserAuthorizedNeuron(Neuron(c, s, k))
<1> DEFINE h == c # "user"
           d == IF s = "locked" THEN 1 ELSE 0
<1>1. h \in BOOLEAN /\ (c = "user" \/ h)
  OBVIOUS
<1>2. d \in 0 .. MaxDelay
  BY MaxDelayAssumption
<1>3. NoFollowees \in FolloweesType
  BY DEF NoFollowees, FolloweesType
<1>4. Neuron(c, s, k) =
        [controller |-> c, hotkey |-> h, state |-> s, delay |-> d, fund |-> FALSE, auto |-> FALSE,
         public |-> FALSE, followees |-> NoFollowees, stake |-> k, maturity |-> 1]
  BY DEF Neuron
<1>7. ASSUME c # "user" PROVE UserAuthorizedNeuron(Neuron(c, s, k))
  <2>1. h = TRUE
    BY <1>7
  <2>2. Neuron(c, s, k) =
        [controller |-> c, hotkey |-> TRUE, state |-> s, delay |-> d, fund |-> FALSE, auto |-> FALSE,
         public |-> FALSE, followees |-> NoFollowees, stake |-> k, maturity |-> 1]
    BY <1>4, <2>1
  <2> QED BY <2>2 DEF UserAuthorizedNeuron
<1> HIDE DEF h, d
<1>5. Neuron(c, s, k) \in NeuronType
  BY <1>1, <1>2, <1>3, <1>4 DEF NeuronType
<1>6. /\ Neuron(c, s, k).stake = k /\ Neuron(c, s, k).maturity = 1 /\ Neuron(c, s, k).state = s
      /\ Neuron(c, s, k).controller = c
  BY <1>4
<1> QED BY <1>5, <1>6, <1>7 DEF UserAuthorizedNeuron

\* A neuron that a list does not have is well formed and has no valid stake.
LEMMA EmptyType == Empty \in NeuronType /\ ~HasValidStake(Empty) /\ Empty.state = "dissolved"
<1> DEFINE v == Neuron("user", "dissolved", 0)
<1>1. v \in NeuronType /\ v.stake = 0 /\ v.state = "dissolved"
  BY NeuronIs DEF Controllers, States
<1>2. Empty = [v EXCEPT !.maturity = 0]
  BY DEF Empty
<1> HIDE DEF v
<1>3. Empty \in NeuronType
  BY <1>1, <1>2, FieldTypes
<1>4. Empty.stake = 0 /\ Empty.maturity = 0 /\ Empty.state = "dissolved"
  BY <1>1, <1>2 DEF NeuronType
<1> QED BY <1>3, <1>4 DEF HasValidStake

\* The list that governance answers is well formed.
LEMMA ListOfType == \A data \in Data : ListOf(data) \in Data
BY EmptyType DEF ListOf, Data

\* What the list shows of a neuron depends on this neuron alone.
LEMMA ListOfSame ==
    ASSUME NEW g, NEW h, NEW n \in Neurons, g[n] = h[n]
    PROVE  ListOf(g)[n] = ListOf(h)[n]
BY DEF ListOf

\* A call goes on.
Moved(call, phase, ok) == [call EXCEPT !.phase = phase, !.ok = ok]
MayMove(call, phase) ==
    /\ call.signer # "nobody" /\ phase \in Phases
    /\ phase \in {"load", "list"} => phase = call.after
    /\ phase = "listing" => call.after = "list"

\* A call that moves on still concerns the same neuron, and calls that run together still change
\* different ones.
LEMMA CallMoves ==
    ASSUME Types, CallsFit, NEW call \in ops, NEW phase, NEW ok \in BOOLEAN, MayMove(call, phase),
           NEW new, new = Moved(call, phase, ok), ops' = (ops \ {call}) \cup {new}
    PROVE  /\ new.phase = phase /\ new.ok = ok /\ new.neuron = call.neuron /\ new.base = call.base
           /\ Changes(new) = Changes(call)
           /\ ops' \subseteq CallType /\ CallsFit'
<1>1. call \in CallType
  BY DEF Types
<1>2. /\ new \in CallType /\ new.phase = phase /\ new.ok = ok /\ new.neuron = call.neuron /\ new.base = call.base
      /\ new.kind = call.kind /\ new.arg = call.arg /\ new.after = call.after /\ new.signer = call.signer
  BY <1>1 DEF CallType, Moved, MayMove
<1>3. Changes(new) = Changes(call)
  BY <1>2 DEF Changes
<1>4. ArgFits(new)
  BY <1>2 DEF CallsFit, ArgFits
<1>5. ops' \subseteq CallType
  BY <1>2 DEF Types
<1>6. \A c, d \in ops' : c # d => c.neuron # d.neuron /\ c.kind = "public"
  <2> SUFFICES ASSUME NEW c \in ops', NEW d \in ops', c # d PROVE c.neuron # d.neuron /\ c.kind = "public"
    OBVIOUS
  <2>1. c \in ops \ {call} \/ c = new
    OBVIOUS
  <2>2. d \in ops \ {call} \/ d = new
    OBVIOUS
  <2>3. \A x, y \in ops : x # y => x.neuron # y.neuron /\ x.kind = "public"
    BY DEF CallsFit
  <2>4. CASE c = new /\ d \in ops \ {call}
    BY <1>2, <2>3, <2>4
  <2>5. CASE c \in ops \ {call} /\ d = new
    BY <1>2, <2>3, <2>5
  <2>6. CASE c \in ops \ {call} /\ d \in ops \ {call}
    BY <2>3, <2>6
  <2> QED BY <2>1, <2>2, <2>4, <2>5, <2>6
<1>8. ASSUME NEW c \in ops'
      PROVE  /\ ArgFits(c)
             /\ c.signer = "nobody" => c.phase = "sent"
             /\ c.phase \in {"load", "list"} => c.phase = c.after
             /\ c.phase = "listing" => c.after = "list"
  <2>1. CASE c = new
    BY <1>2, <1>4, <2>1 DEF MayMove
  <2>2. CASE c \in ops \ {call}
    BY <2>2 DEF CallsFit
  <2> QED BY <2>1, <2>2
<1>7. CallsFit'
  BY <1>6, <1>8 DEF CallsFit, ArgFits
<1> QED BY <1>2, <1>3, <1>5, <1>7

\* A call that ends leaves the other calls as they were.
LEMMA CallsEnd ==
    ASSUME Types, CallsFit, ops' \subseteq ops
    PROVE  ops' \subseteq CallType /\ CallsFit'
BY DEF Types, CallsFit, ArgFits

-----------------------------------------------------------------------------
(***************************************************************************)
(* Operations.                                                             *)
(***************************************************************************)

\* The invariant holds before the first list.
LEMMA InitHolds == ASSUME Init PROVE IInv
<1>1. PICK n \in Neurons, c \in Controllers, s \in States :
        LET v == Neuron(c, s, 2) IN
        \/ gov = [[m \in Neurons |-> Empty] EXCEPT ![n] = v]
        \/ \E w \in {v, Managed(v)} : gov = [[m \in Neurons |-> Neuron(c, s, 1)] EXCEPT ![n] = w]
  BY DEF Init, Controllers, States
<1>2. \A k \in {1, 2} : /\ Neuron(c, s, k) \in NeuronType /\ HasValidStake(Neuron(c, s, k))
                        /\ UserAuthorizedNeuron(Neuron(c, s, k))
  <2> SUFFICES ASSUME NEW k \in {1, 2}
               PROVE  /\ Neuron(c, s, k) \in NeuronType /\ HasValidStake(Neuron(c, s, k))
                      /\ UserAuthorizedNeuron(Neuron(c, s, k))
    OBVIOUS
  <2>1. k \in Nat
    OBVIOUS
  <2> QED BY <2>1, NeuronIs DEF HasValidStake
<1>3. /\ Managed(Neuron(c, s, 2)) \in NeuronType /\ HasValidStake(Managed(Neuron(c, s, 2)))
      /\ UserAuthorizedNeuron(Managed(Neuron(c, s, 2)))
  <2> DEFINE v == Neuron(c, s, 2)
             f == [v.followees EXCEPT !["management"] = Followees]
  <2>1. v \in NeuronType /\ Managed(v) = [v EXCEPT !.followees = f]
    BY <1>2 DEF Managed
  <2>2. f \in FolloweesType
    BY <2>1, FieldTypes DEF FolloweesType
  <2>3. /\ [v EXCEPT !.followees = f] \in NeuronType /\ [v EXCEPT !.followees = f].stake = v.stake
        /\ [v EXCEPT !.followees = f].maturity = v.maturity /\ [v EXCEPT !.followees = f].controller = v.controller
        /\ [v EXCEPT !.followees = f].hotkey = v.hotkey
    BY <2>1, <2>2, FieldTypes DEF NeuronType
  <2> HIDE DEF f
  <2> QED BY <1>2, <2>1, <2>3 DEF HasValidStake, UserAuthorizedNeuron
<1>4. gov \in Data /\ \A m \in Neurons : ListOf(gov)[m] = gov[m]
  <2>1. CASE gov = [[m \in Neurons |-> Empty] EXCEPT ![n] = Neuron(c, s, 2)]
    BY <1>2, <2>1, EmptyType DEF Data, ListOf
  <2>2. ASSUME NEW w \in {Neuron(c, s, 2), Managed(Neuron(c, s, 2))},
               gov = [[m \in Neurons |-> Neuron(c, s, 1)] EXCEPT ![n] = w]
        PROVE  gov \in Data /\ \A m \in Neurons : ListOf(gov)[m] = gov[m]
    <3>1. w \in NeuronType /\ HasValidStake(w) /\ UserAuthorizedNeuron(w)
      BY <1>2, <1>3
    <3> QED BY <1>2, <2>2, <3>1 DEF Data, ListOf
  <2> QED BY <1>1, <2>1, <2>2
<1>5. gov = ListOf(gov)
  BY <1>4, ListOfType DEF Data
<1>6. /\ prev = gov /\ version = 0 /\ lists = {} /\ ops = {} /\ ended = 0 /\ trouble = "none"
      /\ count = 0 /\ listed = 0
      /\ cache = (IF forced = "query" THEN {} ELSE {[data |-> gov, overtaken |-> FALSE]})
      /\ store = [n_1 \in Neurons |-> [neuron |-> gov[n_1], certified |-> forced # "query", asked |-> 0,
                                      from |-> "answer"]]
  BY DEF Init, Cached, Entry
<1>7. store \in [Neurons -> EntryType] /\ \A m \in Neurons : Shown(m) = gov[m] /\ store[m].asked = 0
  <2>1. PICK certified \in BOOLEAN : certified = (forced # "query")
    BY Zenon
  <2>2. store = [m \in Neurons |-> [neuron |-> gov[m], certified |-> certified, asked |-> 0, from |-> "answer"]]
    BY <1>6, <2>1, Zenon
  <2> QED BY <1>4, <2>2 DEF EntryType, Shown, Data
<1>8. Types
  <2>1. [data |-> gov, overtaken |-> FALSE] \in HitType
    BY <1>4 DEF HitType
  <2>2. cache = {} \/ \E hit \in HitType : cache = {hit}
    BY <1>6, <2>1, Zenon
  <2> QED BY <1>4, <1>6, <1>7, <2>2 DEF Types
<1> QED BY <1>4, <1>5, <1>6, <1>7, <1>8 DEF IInv, CallsFit, AskedBefore, ListsFresh, CacheFresh, CacheLags,
                                        StoreLags, Fresh, SeesOwnWrites, AskedSince, NoLostUpdates

\* Starting calls that change different neurons keeps the invariant.
LEMMA StartStep ==
    ASSUME IInv, NEW calls \in SUBSET CallType, ops = {}, Start(calls),
           \A c \in calls : ArgFits(c) /\ c.phase = "sent",
           \A c \in calls : trouble = "none" /\ UserAuthorizedNeuron(gov[c.neuron]) => c.base = gov[c.neuron],
           \A c, d \in calls : c # d => c.neuron # d.neuron /\ c.kind = "public"
    PROVE  IInv'
<1>1. /\ count' = count + 1 /\ ops' = calls
      /\ UNCHANGED <<gov, prev, version, store, cache, lists, ended, trouble, listed>>
  BY DEF Start
<1>2. Types'
  BY <1>1 DEF IInv, Types
<1>3. CallsFit'
  BY <1>1 DEF CallsFit, ArgFits
<1>4. AskedBefore' /\ ListsFresh' /\ CacheFresh' /\ SeesOwnWrites'
  BY <1>1 DEF IInv, AskedBefore, ListsFresh, CacheFresh, SeesOwnWrites, AskedSince, Shown
<1>5. CacheLags' /\ StoreLags'
  BY <1>1 DEF IInv, CacheLags, StoreLags, Fresh, Shown
<1>6. NoLostUpdates'
  BY <1>1 DEF NoLostUpdates
<1> QED BY <1>2, <1>3, <1>4, <1>5, <1>6 DEF IInv
\* While no operation runs, what is shown of a neuron with stake is what
\* governance holds.
LEMMA ShownIsFresh ==
    ASSUME IInv, ops = {}, trouble = "none", NEW n \in Neurons, UserAuthorizedNeuron(gov[n]),
           HasValidStake(Shown(n)) \/ Shown(n).state = "locked"
    PROVE  Shown(n) = gov[n]
<1>1. Shown(n) \in {gov[n], ListOf(gov)[n]}
  BY DEF IInv, StoreLags, Fresh
<1> QED BY <1>1, EmptyType DEF ListOf

\* Confirming the dialog of one operation keeps the invariant.
LEMMA ManageStep == ASSUME IInv, Manage PROVE IInv'
<1>1. PICK c \in Offered : Start({c})
  BY DEF Manage
<1>2. store \in Store
  BY DEF IInv, Types, Store
<1>3. /\ c.neuron \in Neurons /\ Promised(c.neuron, c)
      /\ HasValidStake(Shown(c.neuron)) \/ Shown(c.neuron).state = "locked"
  BY <1>2, OfferedPromised
<1>4. c \in CallType /\ ArgFits(c) /\ c.phase = "sent" /\ c.base = Shown(c.neuron)
  BY <1>3 DEF Promised, IsSent
<1>5. ops = {}
  BY DEF Manage, Idle
<1>6. trouble = "none" /\ UserAuthorizedNeuron(gov[c.neuron]) => c.base = gov[c.neuron]
  BY <1>3, <1>4, <1>5, ShownIsFresh
<1>7. PICK calls \in SUBSET CallType : calls = {c} /\ Start(calls)
  BY <1>1, <1>4
<1> QED BY <1>4, <1>5, <1>6, <1>7, StartStep

\* An operation on several neurons keeps the invariant.
LEMMA ManageSeveralStep == ASSUME IInv, ManageSeveral PROVE IInv'
<1>0. PICK x \in BOOLEAN : \E chosen \in SUBSET ControllableNeurons(x) \ {{}} :
        Start({ChangeNeuronVisibility(n, x) : n \in chosen})
  BY DEF ManageSeveral
<1>1. PICK chosen \in SUBSET ControllableNeurons(x) \ {{}} :
        Start({ChangeNeuronVisibility(n, x) : n \in chosen})
  BY <1>0
<1>2. store \in Store
  BY DEF IInv, Types, Store
<1>3. \A n \in chosen : n \in Neurons /\ HasValidStake(Shown(n)) /\ IsNeuronControllable(Shown(n))
  BY <1>1 DEF ControllableNeurons, IsNeuronControllable
<1>4. ops = {}
  BY DEF ManageSeveral, Idle
<1> DEFINE all == {ChangeNeuronVisibility(n, x) : n \in chosen}
<1>5. ASSUME NEW n \in chosen
      PROVE  /\ ChangeNeuronVisibility(n, x) \in CallType /\ ArgFits(ChangeNeuronVisibility(n, x))
             /\ ChangeNeuronVisibility(n, x).phase = "sent" /\ ChangeNeuronVisibility(n, x).neuron = n
             /\ ChangeNeuronVisibility(n, x).kind = "public"
             /\ trouble = "none" /\ UserAuthorizedNeuron(gov[n]) => ChangeNeuronVisibility(n, x).base = gov[n]
  <2> SUFFICES ASSUME NEW c, c = ChangeNeuronVisibility(n, x)
               PROVE  /\ c \in CallType /\ ArgFits(c) /\ c.phase = "sent" /\ c.neuron = n /\ c.kind = "public"
                      /\ trouble = "none" /\ UserAuthorizedNeuron(gov[n]) => c.base = gov[n]
    OBVIOUS
  <2>1. c = Controlled(n, Command("public", x), "load")
    BY DEF ChangeNeuronVisibility, ChangeNeuronVisibilityApi
  <2>2. "public" \in Kinds /\ "load" \in {"load", "list"} /\ x \in ArgType
    BY ArgTypes DEF Kinds
  <2>3. Made(c, n, Shown(n).controller, "public", x, "load")
    BY <1>2, <1>3, <2>1, <2>2, ControlledIs
  <2>4. trouble = "none" /\ UserAuthorizedNeuron(gov[n]) => c.base = gov[n]
    BY <1>3, <1>4, <2>3, ShownIsFresh DEF Made
  <2> QED BY <2>3, <2>4 DEF Made, ArgFits
<1>6. PICK calls \in SUBSET CallType : calls = all /\ Start(calls)
  BY <1>1, <1>5
<1>7. \A c \in calls : \E n \in chosen : c = ChangeNeuronVisibility(n, x)
  BY <1>6
<1>8. /\ \A c \in calls : ArgFits(c) /\ c.phase = "sent"
      /\ \A c \in calls : trouble = "none" /\ UserAuthorizedNeuron(gov[c.neuron]) => c.base = gov[c.neuron]
  BY <1>5, <1>7
<1>9. \A c, d \in calls : c # d => c.neuron # d.neuron /\ c.kind = "public"
  BY <1>5, <1>7
<1> QED BY <1>4, <1>6, <1>8, <1>9, StartStep

\* Adding the user as a hot key of the neuron of a hardware wallet keeps the invariant.
LEMMA AddHotkeyStep == ASSUME IInv, NEW n \in Neurons, AddHotkeyForHardwareWalletNeuron(n) PROVE IInv'
<1> DEFINE c == [Call(n, "wallet", AddHotkeyApi, "load") EXCEPT !.base = gov[n]]
<1>1. store \in Store /\ gov[n] \in NeuronType
  BY DEF IInv, Types, Store, Data
<1>2. Made(Call(n, "wallet", Command("hotkey", TRUE), "load"), n, "wallet", "hotkey", TRUE, "load")
  <2>1. "hotkey" \in Kinds /\ "load" \in {"load", "list"} /\ TRUE \in ArgType /\ "wallet" \in Signers
    BY ArgTypes DEF Kinds, Signers, Controllers
  <2> QED BY <1>1, <2>1, CallIs
<1>3. c \in CallType /\ c.neuron = n /\ c.phase = "sent" /\ c.kind = "hotkey" /\ c.arg = TRUE /\ c.base = gov[n]
  <2>1. PICK b : b = Call(n, "wallet", Command("hotkey", TRUE), "load")
    OBVIOUS
  <2>2. /\ b \in CallType /\ b.neuron = n /\ b.phase = "sent" /\ b.kind = "hotkey" /\ b.arg = TRUE
        /\ c = [b EXCEPT !.base = gov[n]]
    BY <1>2, <2>1 DEF Made, AddHotkeyApi
  <2> HIDE DEF c
  <2> QED BY <1>1, <2>2 DEF CallType
<1> HIDE DEF c
<1>4. ArgFits(c)
  BY <1>3 DEF ArgFits
<1>5. ops = {} /\ \E calls \in SUBSET CallType : calls = {c} /\ Start(calls)
  BY <1>3 DEF AddHotkeyForHardwareWalletNeuron, Idle, c
<1> QED BY <1>3, <1>4, <1>5, StartStep

\* The call reaches governance, which accepts or refuses it.
LEMMA GovernanceStep == ASSUME IInv, NEW call \in ops, Governance(call) PROVE IInv'
<1>1. /\ call.phase = "sent" /\ call.signer # "nobody" /\ call \in CallType /\ ArgFits(call)
      /\ UNCHANGED <<store, cache, lists, ended, trouble, count, listed>>
  BY DEF Governance, IInv, Types, CallsFit
<1> DEFINE ok == Accepts(call)
           new == [call EXCEPT !.phase = "executed", !.ok = ok]
<1>2. ops' = (ops \ {call}) \cup {new}
  BY DEF Governance
<1>3. ok \in BOOLEAN
  BY DEF Accepts
<1>4. /\ new.phase = "executed" /\ new.ok = ok /\ new.neuron = call.neuron /\ Changes(new) = Changes(call)
      /\ ops' \subseteq CallType /\ CallsFit'
  <2>1. PICK o \in BOOLEAN : o = ok
    BY <1>3
  <2>2. Types /\ CallsFit /\ MayMove(call, "executed") /\ new = Moved(call, "executed", o)
    BY <1>1, <2>1 DEF IInv, Phases, MayMove, Moved
  <2> HIDE DEF new, ok
  <2>3. /\ new.phase = "executed" /\ new.ok = o /\ new.neuron = call.neuron /\ Changes(new) = Changes(call)
        /\ ops' \subseteq CallType /\ CallsFit'
    BY <1>1, <1>2, <2>2, CallMoves
  <2> QED BY <2>1, <2>3
<1> HIDE DEF new, ok
<1>5. \A d \in ops' : d.phase = "sent" => d \in ops /\ d # call
  BY <1>1, <1>2, <1>4
<1>6. \A d \in ops, n \in Neurons : Executed(d) \/ Reloads(d) => d \in ops'
  BY <1>1, <1>2 DEF Executed, Reloads
<1>7. CASE ok = FALSE
  <2>1. UNCHANGED <<gov, prev, version>>
    BY <1>7 DEF Governance, ok
  <2>2. Types'
    BY <1>1, <1>4, <2>1 DEF IInv, Types
  <2>3. AskedBefore' /\ ListsFresh' /\ CacheFresh' /\ SeesOwnWrites'
    BY <1>1, <2>1 DEF IInv, AskedBefore, ListsFresh, CacheFresh, SeesOwnWrites, AskedSince, Shown
  <2>4. CacheLags' /\ StoreLags'
    BY <1>1, <1>6, <2>1 DEF IInv, CacheLags, StoreLags, Fresh, Shown
  <2>5. NoLostUpdates'
    BY <1>1, <1>5, <2>1 DEF IInv, NoLostUpdates
  <2> QED BY <1>4, <2>2, <2>3, <2>4, <2>5 DEF IInv
<1>8. CASE ok = TRUE
  <2>1. gov' = Effect(call) /\ prev' = gov /\ version' = version + 1 /\ Accepts(call)
    BY <1>8 DEF Governance, ok
  <2>2. gov' \in Data /\ \A m \in Neurons : m \notin Changes(call) => gov'[m] = gov[m]
    BY <1>1, <2>1, EffectChanges DEF IInv, Types
  <2>3. version \in Nat /\ ended \in 0 .. version /\ lists \subseteq ListType
    BY DEF IInv, Types
  <2>4. Types'
    BY <1>1, <1>4, <2>1, <2>2 DEF IInv, Types
  <2>5. AskedBefore' /\ CacheFresh' /\ SeesOwnWrites'
    BY <1>1, <2>1, <2>3 DEF IInv, AskedBefore, CacheFresh, SeesOwnWrites, AskedSince
  <2>6. ListsFresh'
    BY <1>1, <2>1, <2>3 DEF IInv, ListsFresh, ListType
  <2>7. Executed(new) /\ Reloads(new) /\ new \in ops'
    BY <1>2, <1>4, <1>8 DEF Executed, Reloads
  <2>8. CacheLags'
    <3> SUFFICES ASSUME trouble = "none", NEW hit \in cache, NEW n \in Neurons
                 PROVE  hit.data[n] = ListOf(gov')[n] \/ \E c \in ops' : Executed(c) /\ n \in Changes(c)
      BY <1>1 DEF CacheLags, Executed, Changes, ListOf, UserAuthorizedNeuron, HasValidStake, Empty, Neuron, NoFollowees
    <3>1. CASE n \in Changes(call)
      BY <1>4, <2>7, <3>1
    <3>2. CASE n \notin Changes(call)
      <4>1. hit.data[n] = ListOf(gov)[n] \/ \E c \in ops : Executed(c) /\ n \in Changes(c)
        BY DEF IInv, CacheLags
      <4>2. PICK g : g = gov' /\ g[n] = gov[n]
        BY <2>2, <3>2
      <4>3. ListOf(g)[n] = ListOf(gov)[n]
        BY <4>2, ListOfSame
      <4> QED BY <1>6, <4>1, <4>2, <4>3
    <3> QED BY <3>1, <3>2
  <2>9. StoreLags'
    <3> SUFFICES ASSUME trouble = "none", NEW n \in Neurons
                 PROVE  Fresh(n)' \/ \E c \in ops' : Reloads(c) /\ n \in Changes(c)
      BY <1>1 DEF StoreLags, Reloads, Executed, Changes
    <3>1. CASE n \in Changes(call)
      BY <1>4, <2>7, <3>1
    <3>2. CASE n \notin Changes(call)
      <4>1. Fresh(n) \/ \E c \in ops : Reloads(c) /\ n \in Changes(c)
        BY DEF IInv, StoreLags
      <4>2. gov'[n] = gov[n] /\ ListOf(gov')[n] = ListOf(gov)[n]
        BY <2>2, <3>2 DEF ListOf
      <4>3. Fresh(n) => Fresh(n)'
        BY <1>1, <4>2 DEF Fresh, Shown
      <4> QED BY <1>6, <4>1, <4>3
    <3> QED BY <3>1, <3>2
  <2>10. NoLostUpdates'
    <3> SUFFICES ASSUME NEW d \in ops', d.phase = "sent", trouble = "none", UserAuthorizedNeuron(gov'[d.neuron])
                 PROVE  d.base = gov'[d.neuron]
      BY <1>1 DEF NoLostUpdates, UserAuthorizedNeuron
    <3>1. d \in ops /\ d # call
      BY <1>5
    <3>2. d.neuron \in Neurons /\ d.neuron # call.neuron /\ call.kind = "public"
      BY <1>1, <3>1 DEF IInv, CallsFit, Types, CallType
    <3>3. gov'[d.neuron] = gov[d.neuron]
      BY <2>2, <3>2 DEF Changes
    <3> QED BY <3>1, <3>3 DEF IInv, NoLostUpdates
  <2> QED BY <1>4, <2>4, <2>5, <2>6, <2>8, <2>9, <2>10 DEF IInv
<1> QED BY <1>3, <1>7, <1>8

\* The operation ended: the cache is cleared, and what was changed is loaded.
LEMMA AnsweredStep == ASSUME IInv, NEW call \in ops, Answered(call) PROVE IInv'
<1>1. /\ call.phase = "executed" /\ call \in CallType /\ call.signer # "nobody" /\ cache' = {} /\ ended' = version
      /\ UNCHANGED <<gov, prev, version, store, lists, trouble, count, listed>>
  BY DEF Answered, ClearCacheAfter, IInv, Types, CallsFit
<1> DEFINE new == [call EXCEPT !.phase = call.after]
<1>2. ops' = (ops \ {call}) \cup (IF call.ok THEN {new} ELSE {})
  BY DEF Answered
<1>3. call.ok \in BOOLEAN /\ call.after \in {"load", "list"} /\ version \in Nat /\ ended \in 0 .. version
  BY <1>1 DEF CallType, IInv, Types
<1>4. ASSUME call.ok = TRUE
      PROVE  /\ ops' \subseteq CallType /\ CallsFit'
             /\ \A d \in ops' : d.phase = "sent" => d \in ops
             /\ \A c \in ops : Reloads(c) => \E d \in ops' : Reloads(d) /\ Changes(d) = Changes(c)
  <2>1. ops' = (ops \ {call}) \cup {new}
    BY <1>2, <1>4
  <2>2. /\ Types /\ CallsFit /\ MayMove(call, call.after)
        /\ new = Moved(call, call.after, call.ok)
    BY <1>1, <1>3, <1>4 DEF CallType, Phases, Moved, MayMove, IInv
  <2> HIDE DEF new
  <2>3. /\ new.phase = call.after /\ Changes(new) = Changes(call)
        /\ ops' \subseteq CallType /\ CallsFit'
    <3>1. PICK phase : phase = call.after
      OBVIOUS
    <3>2. MayMove(call, phase) /\ new = Moved(call, phase, call.ok)
      BY <2>2, <3>1
    <3>3. new.phase = phase /\ Changes(new) = Changes(call) /\ ops' \subseteq CallType /\ CallsFit'
      BY <1>3, <2>1, <2>2, <3>2, CallMoves
    <3> QED BY <3>1, <3>3
  <2>4. \A d \in ops' : d.phase = "sent" => d \in ops
    BY <1>3, <2>1, <2>3
  <2>5. \A c \in ops : Reloads(c) => \E d \in ops' : Reloads(d) /\ Changes(d) = Changes(c)
    BY <1>3, <2>1, <2>3 DEF Reloads
  <2> QED BY <2>3, <2>4, <2>5
<1>5. ASSUME call.ok = FALSE
      PROVE  /\ ops' \subseteq CallType /\ CallsFit'
             /\ \A d \in ops' : d.phase = "sent" => d \in ops
             /\ \A c \in ops : Reloads(c) => \E d \in ops' : Reloads(d) /\ Changes(d) = Changes(c)
  <2>1. ops' = ops \ {call}
    BY <1>2, <1>5
  <2>2. ops' \subseteq CallType /\ CallsFit'
    BY <2>1, CallsEnd DEF IInv
  <2>3. \A d \in ops' : d.phase = "sent" => d \in ops
    BY <2>1
  <2>4. ~Reloads(call)
    BY <1>1, <1>5 DEF Reloads, Executed
  <2> QED BY <2>1, <2>2, <2>3, <2>4
<1> HIDE DEF new
<1>6. /\ ops' \subseteq CallType /\ CallsFit'
      /\ \A d \in ops' : d.phase = "sent" => d \in ops
      /\ \A c \in ops : Reloads(c) => \E d \in ops' : Reloads(d) /\ Changes(d) = Changes(c)
  BY <1>3, <1>4, <1>5
<1>7. Types'
  BY <1>1, <1>3, <1>6 DEF IInv, Types
<1>8. AskedBefore'
  <2>1. /\ \A n \in Neurons : store[n].asked \in Nat /\ store[n].asked <= ended
        /\ \A l \in lists : l.asked \in Nat /\ l.asked <= ended
    BY DEF IInv, AskedBefore, Types, ListType, EntryType
  <2> QED BY <1>1, <1>3, <2>1 DEF AskedBefore
<1>9. ListsFresh' /\ CacheFresh' /\ CacheLags'
  BY <1>1 DEF IInv, ListsFresh, CacheFresh, CacheLags
<1>10. StoreLags'
  <2> SUFFICES ASSUME trouble = "none", NEW n \in Neurons
               PROVE  Fresh(n) \/ \E c \in ops' : Reloads(c) /\ n \in Changes(c)
    BY <1>1 DEF StoreLags, Fresh, Shown, Reloads, Executed, Changes
  <2> QED BY <1>6 DEF IInv, StoreLags
<1>11. SeesOwnWrites'
  <2>1. \A n \in Neurons : store[n].asked = version => version = ended
    BY <1>3 DEF IInv, AskedBefore, Types, EntryType
  <2> QED BY <1>1, <2>1 DEF IInv, SeesOwnWrites, AskedSince, Shown
<1>12. NoLostUpdates'
  BY <1>1, <1>6 DEF IInv, NoLostUpdates
<1> QED BY <1>6, <1>7, <1>8, <1>9, <1>10, <1>11, <1>12 DEF IInv

\* A call that is never sent.
LEMMA NotAuthorizedStep == ASSUME IInv, NEW call \in ops, NotAuthorized(call) PROVE IInv'
<1>1. /\ ops' = ops \ {call} /\ call.phase = "sent"
      /\ UNCHANGED <<gov, prev, version, store, cache, lists, ended, trouble, count, listed>>
  BY DEF NotAuthorized, IInv, CallsFit
<1>2. ~Reloads(call) /\ ~Executed(call)
  BY <1>1 DEF Reloads, Executed
<1>3. ops' \subseteq CallType /\ CallsFit'
  BY <1>1, CallsEnd DEF IInv
<1>4. Types'
  BY <1>1, <1>3 DEF IInv, Types
<1>5. AskedBefore' /\ ListsFresh' /\ CacheFresh' /\ SeesOwnWrites' /\ NoLostUpdates'
  BY <1>1 DEF IInv, AskedBefore, ListsFresh, CacheFresh, SeesOwnWrites, AskedSince, NoLostUpdates, Shown
<1>6. CacheLags' /\ StoreLags'
  BY <1>1, <1>2 DEF IInv, CacheLags, StoreLags, Fresh, Shown
<1> QED BY <1>3, <1>4, <1>5, <1>6 DEF IInv

\* A call that fails, after governance executed it or before, keeps the invariant; the cache is
\* cleared all the same.
LEMMA CallFailsStep == ASSUME IInv, NEW call \in ops, CallFails(call) PROVE IInv'
<1>1. /\ ops' \subseteq ops /\ cache' = {} /\ ended' = version /\ trouble = "none" /\ trouble' = "failed"
      /\ UNCHANGED <<gov, prev, version, store, lists, count, listed>>
  BY DEF CallFails, ClearCacheAfter
<1>2. ops' \subseteq CallType /\ CallsFit'
  BY <1>1, CallsEnd DEF IInv
<1>3. version \in Nat /\ ended \in 0 .. version
  BY DEF IInv, Types
<1>4. Types'
  BY <1>1, <1>2, <1>3 DEF IInv, Types
<1>5. AskedBefore'
  <2>1. /\ \A n \in Neurons : store[n].asked \in Nat /\ store[n].asked <= ended
        /\ \A l \in lists : l.asked \in Nat /\ l.asked <= ended
    BY DEF IInv, AskedBefore, Types, ListType, EntryType
  <2> QED BY <1>1, <1>3, <2>1 DEF AskedBefore
<1>6. ListsFresh' /\ CacheFresh'
  BY <1>1 DEF IInv, ListsFresh, CacheFresh
<1>7. CacheLags' /\ StoreLags' /\ NoLostUpdates'
  BY <1>1 DEF CacheLags, StoreLags, NoLostUpdates
<1>8. SeesOwnWrites'
  <2>1. \A n \in Neurons : store[n].asked = version => version = ended
    BY <1>3 DEF IInv, AskedBefore, Types, EntryType
  <2> QED BY <1>1, <2>1 DEF IInv, SeesOwnWrites, AskedSince, Shown
<1> QED BY <1>2, <1>4, <1>5, <1>6, <1>7, <1>8 DEF IInv

\* A failed reload of the changed neuron keeps the invariant.
LEMMA LoadFailsStep == ASSUME IInv, NEW call \in ops, LoadFails(call) PROVE IInv'
<1>1. /\ ops' \subseteq ops /\ trouble = "none" /\ trouble' = "failed"
      /\ UNCHANGED <<gov, prev, version, store, cache, lists, ended, count, listed>>
  BY DEF LoadFails
<1>2. ops' \subseteq CallType /\ CallsFit'
  BY <1>1, CallsEnd DEF IInv
<1>3. Types'
  BY <1>1, <1>2 DEF IInv, Types
<1>4. AskedBefore' /\ ListsFresh' /\ CacheFresh' /\ SeesOwnWrites'
  BY <1>1 DEF IInv, AskedBefore, ListsFresh, CacheFresh, SeesOwnWrites, AskedSince, Shown
<1>5. CacheLags' /\ StoreLags' /\ NoLostUpdates'
  BY <1>1 DEF CacheLags, StoreLags, NoLostUpdates
<1> QED BY <1>2, <1>3, <1>4, <1>5 DEF IInv

\* The neuron is loaded: it is the only one that the call changed.
LEMMA GetAndLoadNeuronStep == ASSUME IInv, NEW call \in ops, GetAndLoadNeuron(call) PROVE IInv'
<1> DEFINE n == call.neuron
           e == Entry(gov[n], TRUE, ended, "answer")
<1>1. /\ call.phase = "load" /\ call \in CallType /\ ops' = ops \ {call}
      /\ UNCHANGED <<gov, prev, version, cache, lists, ended, trouble, count, listed>>
  BY DEF GetAndLoadNeuron, IInv, Types
<1>2. n \in Neurons /\ Changes(call) = {n}
  BY <1>1 DEF CallType, IInv, CallsFit, ArgFits, Changes
<1>3. store' = IF UserAuthorizedNeuron(gov[n]) THEN [store EXCEPT ![n] = e] ELSE store
  BY DEF GetAndLoadNeuron
<1>4. e \in EntryType /\ version \in Nat /\ ended \in 0 .. version /\ store \in [Neurons -> EntryType]
  BY <1>2 DEF Entry, EntryType, IInv, Types, Data
<1>5. \A m \in Neurons : \/ store'[m] = store[m] /\ (m = n => ~UserAuthorizedNeuron(gov[n]))
                         \/ m = n /\ store'[m].neuron = gov[m] /\ store'[m].asked = ended
  BY <1>3, <1>4 DEF Entry
<1>6. store' \in [Neurons -> EntryType]
  BY <1>3, <1>4
<1>7. ops' \subseteq CallType /\ CallsFit'
  BY <1>1, CallsEnd DEF IInv
<1>8. Types'
  BY <1>1, <1>6, <1>7 DEF IInv, Types
<1>9. AskedBefore'
  BY <1>1, <1>4, <1>5 DEF IInv, AskedBefore
<1>10. ListsFresh' /\ CacheFresh' /\ NoLostUpdates'
  BY <1>1 DEF IInv, ListsFresh, CacheFresh, NoLostUpdates
<1>11. CacheLags'
  <2>1. ~Executed(call)
    BY <1>1 DEF Executed
  <2> QED BY <1>1, <2>1 DEF IInv, CacheLags
<1>12. StoreLags'
  <2> SUFFICES ASSUME trouble = "none", NEW m \in Neurons
               PROVE  Fresh(m)' \/ \E c \in ops' : Reloads(c) /\ m \in Changes(c)
    BY <1>1 DEF StoreLags, Reloads, Executed, Changes
  <2>1. CASE m = n
    BY <1>1, <1>5, <2>1 DEF Fresh, Shown
  <2>2. CASE m # n
    <3>1. Fresh(m) \/ \E c \in ops : Reloads(c) /\ m \in Changes(c)
      BY DEF IInv, StoreLags
    <3>2. Fresh(m) => Fresh(m)'
      BY <1>1, <1>5, <2>2 DEF Fresh, Shown
    <3> QED BY <1>1, <1>2, <2>2, <3>1, <3>2
  <2> QED BY <2>1, <2>2
<1>13. SeesOwnWrites'
  BY <1>1, <1>5 DEF IInv, SeesOwnWrites, AskedSince, Shown
<1> QED BY <1>7, <1>8, <1>9, <1>10, <1>11, <1>12, <1>13 DEF IInv
-----------------------------------------------------------------------------
(***************************************************************************)
(* Lists.                                                                  *)
(***************************************************************************)

\* The store shows a list.
LEMMA SetNeuronsSets ==
    ASSUME NEW data \in Data, NEW certified \in BOOLEAN, NEW asked \in Nat,
           NEW from \in {"answer", "overtaken", "failure"}, SetNeurons(data, certified, asked, from)
    PROVE  /\ store' \in [Neurons -> EntryType]
           /\ \A n \in Neurons : /\ store'[n].neuron = data[n] /\ store'[n].certified = certified
                                 /\ store'[n].asked = asked /\ store'[n].from = from
<1>1. store' = [n \in Neurons |-> [neuron |-> data[n], certified |-> certified, asked |-> asked, from |-> from]]
  BY DEF SetNeurons, Entry
<1> QED BY <1>1 DEF EntryType, Data

\* Setting the list that governance holds makes every neuron fresh.
LEMMA AllFresh ==
    ASSUME UNCHANGED gov, \A n \in Neurons : store'[n].neuron = ListOf(gov)[n]
    PROVE  \A n \in Neurons : Fresh(n)'
BY DEF Fresh, Shown, ListOf

\* Asking for the list of neurons keeps the invariant, from the cache or with the calls of the
\* strategy.
LEMMA ListNeuronsStep ==
    ASSUME IInv, NEW call \in SUBSET ops, \A c, d \in call : c = d, ListNeurons(call)
    PROVE  IInv'
<1>1. /\ cache' \subseteq cache /\ UNCHANGED <<gov, prev, version, ended, trouble, count>>
      /\ \A c \in call : c.phase = "list"
      /\ listed' = listed \/ listed' = listed + 1
  BY DEF ListNeurons, HasValidCachedNeurons
<1>2. version \in Nat /\ ended \in 0 .. version
  BY DEF IInv, Types
<1>3. \A c \in call : ~Executed(c) /\ c.phase # "sent"
  BY <1>1 DEF Executed
<1>5. ASSUME NEW hit \in cache, NEW certified \in BOOLEAN, NEW from \in {"answer", "overtaken", "failure"},
             from = (IF hit.overtaken THEN "overtaken" ELSE "answer"),
             SetNeurons(hit.data, certified, ended, from), ops' = ops \ call, UNCHANGED lists
      PROVE  IInv'
  <2>2. hit.data \in Data /\ hit.overtaken \in BOOLEAN
    BY DEF IInv, Types, HitType
  <2>4. /\ store' \in [Neurons -> EntryType]
        /\ \A n \in Neurons : /\ store'[n].neuron = hit.data[n] /\ store'[n].asked = ended
                              /\ store'[n].from = from
    BY <1>2, <1>5, <2>2, SetNeuronsSets
  <2>5. ops' \subseteq CallType /\ CallsFit'
    BY <1>5, CallsEnd DEF IInv
  <2>6. Types'
    BY <1>1, <1>5, <2>4, <2>5 DEF IInv, Types
  <2>7. AskedBefore'
    BY <1>1, <1>2, <1>5, <2>4 DEF IInv, AskedBefore
  <2>8. ListsFresh' /\ CacheFresh'
    BY <1>1, <1>5 DEF IInv, ListsFresh, CacheFresh
  <2>9. CacheLags'
    BY <1>1, <1>3, <1>5 DEF IInv, CacheLags
  <2>10. StoreLags'
    <3> SUFFICES ASSUME trouble = "none", NEW n \in Neurons
                 PROVE  Fresh(n)' \/ \E c \in ops' : Reloads(c) /\ n \in Changes(c)
      BY <1>1 DEF StoreLags, Reloads, Executed, Changes
    <3>1. hit.data[n] = ListOf(gov)[n] \/ \E c \in ops : Executed(c) /\ n \in Changes(c)
      BY <1>5 DEF IInv, CacheLags
    <3>2. CASE hit.data[n] = ListOf(gov)[n]
      BY <1>1, <2>4, <3>2 DEF Fresh, Shown, ListOf
    <3>3. ASSUME NEW c \in ops, Executed(c), n \in Changes(c) PROVE c \in ops' /\ Reloads(c)
      BY <1>3, <1>5, <3>3 DEF Reloads
    <3> QED BY <3>1, <3>2, <3>3
  <2>11. SeesOwnWrites'
    <3> SUFFICES ASSUME NEW n \in Neurons, version = ended,
                        UserAuthorizedNeuron(gov[n]), HasValidStake(gov[n])
                 PROVE  store'[n].neuron = gov[n] \/ store'[n].from = "overtaken"
      BY <1>1 DEF SeesOwnWrites, AskedSince, Shown, UserAuthorizedNeuron, HasValidStake
    <3>1. CASE hit.overtaken
      BY <1>5, <2>4, <3>1
    <3>2. CASE ~hit.overtaken
      <4>1. hit.data = ListOf(gov)
        BY <1>5, <3>2 DEF IInv, CacheFresh
      <4> QED BY <2>4, <4>1 DEF ListOf
    <3> QED BY <3>1, <3>2
  <2>12. NoLostUpdates'
    BY <1>1, <1>5 DEF IInv, NoLostUpdates
  <2> QED BY <2>5, <2>6, <2>7, <2>8, <2>9, <2>10, <2>11, <2>12 DEF IInv
<1>6. ASSUME NEW new \in ListType, new.asked = ended, new.read = FALSE,
             cache' = {}, UNCHANGED store, lists' = lists \cup {new},
             ops' = (ops \ call) \cup {[c EXCEPT !.phase = "listing"] : c \in call}
      PROVE  IInv'
  <2>3. /\ ops' \subseteq CallType /\ CallsFit'
        /\ \A d \in ops' : d.phase = "sent" => d \in ops
        /\ \A c \in ops : Reloads(c) => \E d \in ops' : Reloads(d) /\ Changes(d) = Changes(c)
    <3>1. CASE call = {}
      <4>1. ops' = ops
        BY <1>6, <3>1
      <4> QED BY <4>1, CallsEnd DEF IInv
    <3>2. CASE call # {}
      <4>1. PICK c \in ops : call = {c}
        BY <3>2
      <4>2. c.phase = "list" /\ c \in CallType
        BY <1>1, <4>1 DEF IInv, Types
      <4> DEFINE d == [c EXCEPT !.phase = "listing"]
      <4>3. ops' = (ops \ {c}) \cup {d}
        BY <1>6, <4>1
      <4>4. Types /\ CallsFit /\ MayMove(c, "listing") /\ d = Moved(c, "listing", c.ok) /\ c.ok \in BOOLEAN
        BY <4>2 DEF IInv, CallsFit, CallType, MayMove, Moved, Phases
      <4> HIDE DEF d
      <4>5. d.phase = "listing" /\ Changes(d) = Changes(c) /\ ops' \subseteq CallType /\ CallsFit'
        BY <4>3, <4>4, CallMoves
      <4>6. Reloads(d)
        BY <4>5 DEF Reloads
      <4> QED BY <4>3, <4>5, <4>6
    <3> QED BY <3>1, <3>2
  <2>4. Types'
    BY <1>1, <1>6, <2>3 DEF IInv, Types
  <2>5. AskedBefore'
    BY <1>1, <1>2, <1>6 DEF IInv, AskedBefore
  <2>6. ListsFresh'
    BY <1>1, <1>6 DEF IInv, ListsFresh
  <2>7. CacheFresh' /\ CacheLags'
    BY <1>6 DEF CacheFresh, CacheLags
  <2>8. StoreLags'
    <3> SUFFICES ASSUME trouble = "none", NEW n \in Neurons
                 PROVE  Fresh(n) \/ \E c \in ops' : Reloads(c) /\ n \in Changes(c)
      BY <1>1, <1>6 DEF StoreLags, Fresh, Shown, Reloads, Executed, Changes
    <3> QED BY <2>3 DEF IInv, StoreLags
  <2>9. SeesOwnWrites' /\ NoLostUpdates'
    BY <1>1, <1>6, <2>3 DEF IInv, SeesOwnWrites, AskedSince, Shown, NoLostUpdates
  <2> QED BY <2>3, <2>4, <2>5, <2>6, <2>7, <2>8, <2>9 DEF IInv
<1>7. PICK strategy \in StrategyOf(call) :
        \/ /\ \E hit \in cache :
                SetNeurons(hit.data, strategy # "query", ended, IF hit.overtaken THEN "overtaken" ELSE "answer")
           /\ ops' = ops \ call /\ UNCHANGED lists
        \/ /\ cache' = {} /\ UNCHANGED store
           /\ lists' = lists \cup {[op |-> call # {}, asked |-> ended, query |-> strategy # "update",
                                    update |-> strategy # "query", read |-> FALSE, data |-> <<>>, at |-> 0]}
           /\ ops' = (ops \ call) \cup {[c EXCEPT !.phase = "listing"] : c \in call}
  BY DEF ListNeurons
<1>8. ASSUME NEW hit \in cache, ops' = ops \ call, UNCHANGED lists,
             SetNeurons(hit.data, strategy # "query", ended, IF hit.overtaken THEN "overtaken" ELSE "answer")
      PROVE  IInv'
  <2>1. PICK certified \in BOOLEAN : certified = (strategy # "query")
    BY Zenon
  <2>2. PICK from \in {"answer", "overtaken", "failure"} : from = (IF hit.overtaken THEN "overtaken" ELSE "answer")
    OBVIOUS
  <2>3. SetNeurons(hit.data, certified, ended, from)
    BY <1>8, <2>1, <2>2, Zenon
  <2> QED BY <1>5, <1>8, <2>2, <2>3
<1>9. ASSUME cache' = {}, UNCHANGED store,
             lists' = lists \cup {[op |-> call # {}, asked |-> ended, query |-> strategy # "update",
                                  update |-> strategy # "query", read |-> FALSE, data |-> <<>>, at |-> 0]},
             ops' = (ops \ call) \cup {[c EXCEPT !.phase = "listing"] : c \in call}
      PROVE  IInv'
  <2>1. PICK op \in BOOLEAN, query \in BOOLEAN, update \in BOOLEAN :
            op = (call # {}) /\ query = (strategy # "update") /\ update = (strategy # "query")
    <3>1. (call # {}) \in BOOLEAN /\ (strategy # "update") \in BOOLEAN /\ (strategy # "query") \in BOOLEAN
      OBVIOUS
    <3> QED BY <3>1, Zenon
  <2> DEFINE new == [op |-> op, asked |-> ended, query |-> query, update |-> update, read |-> FALSE,
                     data |-> <<>>, at |-> 0]
  <2>2. new \in ListType /\ new.asked = ended /\ new.read = FALSE
    BY <1>2 DEF ListType
  <2>3. lists' = lists \cup {new}
    BY <1>9, <2>1, Zenon
  <2> HIDE DEF new
  <2> QED BY <1>6, <1>9, <2>2, <2>3
<1> QED BY <1>7, <1>8, <1>9

\* The answers to a list leave the others alone.
LEMMA ListMoves ==
    ASSUME IInv, NEW list \in lists, NEW new \in ListType, new.asked = list.asked,
           new.read => /\ new.data \in Data /\ new.asked <= new.at /\ new.at <= version
                       /\ new.at = version => new.data = ListOf(gov),
           UNCHANGED <<gov, version, ended>>,
           lists' \in {lists \ {list}, (lists \ {list}) \cup {new}}
    PROVE  lists' \subseteq ListType /\ (\A l \in lists' : l.asked <= ended) /\ ListsFresh'
<1>1. lists' \subseteq ListType
  BY DEF IInv, Types
<1>2. \A l \in lists' : l.asked <= ended
  BY DEF IInv, AskedBefore
<1>3. ListsFresh'
  BY DEF IInv, ListsFresh
<1> QED BY <1>1, <1>2, <1>3

\* The end of the query, answered or not, leaves the lists and the calls in order.
LEMMA QueryIsDone ==
    ASSUME IInv, NEW list \in lists, QueryDone(list), Settles(list), UNCHANGED <<gov, version, ended>>
    PROVE  /\ lists' \subseteq ListType /\ (\A l \in lists' : l.asked <= ended) /\ ListsFresh'
           /\ ops' \subseteq ops /\ ops' \subseteq CallType /\ CallsFit'
           /\ \A c \in ops : Executed(c) => c \in ops'
<1> DEFINE new == [list EXCEPT !.query = FALSE, !.op = FALSE]
<1>1. list \in ListType
  BY DEF IInv, Types
<1>2. /\ new \in ListType /\ new.asked = list.asked
      /\ new.read = list.read /\ new.data = list.data /\ new.at = list.at
  BY <1>1 DEF ListType
<1>3. lists' \in {lists \ {list}, (lists \ {list}) \cup {new}}
  BY DEF QueryDone
<1> HIDE DEF new
<1>4. new.read => /\ new.data \in Data /\ new.asked <= new.at /\ new.at <= version
                  /\ new.at = version => new.data = ListOf(gov)
  BY <1>2 DEF IInv, ListsFresh
<1>5. lists' \subseteq ListType /\ (\A l \in lists' : l.asked <= ended) /\ ListsFresh'
  BY <1>2, <1>3, <1>4, ListMoves
<1>6. ops' \subseteq ops /\ \A c \in ops : Executed(c) => c \in ops'
  BY DEF Settles, Executed
<1> QED BY <1>5, <1>6, CallsEnd DEF IInv

\* The answer of the query, which may come from a lagging node, keeps the invariant.
LEMMA QueryAnsweredStep == ASSUME IInv, NEW list \in lists, QueryAnswered(list) PROVE IInv'
<1>1. PICK lags \in BOOLEAN :
        /\ SetNeurons(ListOf(IF lags THEN prev ELSE gov), FALSE, list.asked, "answer")
        /\ MayBeLate((lags /\ prev # gov) \/ list.asked < version)
  BY DEF QueryAnswered
<1>2. QueryDone(list) /\ Settles(list) /\ UNCHANGED <<gov, prev, version, cache, ended, count, listed>>
  BY DEF QueryAnswered
<1> DEFINE data == ListOf(IF lags THEN prev ELSE gov)
<1>3. data \in Data /\ list \in ListType /\ list.asked \in Nat /\ list.asked <= ended
  BY ListOfType DEF IInv, Types, ListType, AskedBefore
<1>4. trouble' \in {"none", "late", "failed"}
      /\ (trouble' = "none" => trouble = "none" /\ data = ListOf(gov))
  BY <1>1 DEF MayBeLate, IInv, Types
<1> HIDE DEF data
<1>5. /\ lists' \subseteq ListType /\ (\A l \in lists' : l.asked <= ended) /\ ListsFresh'
      /\ ops' \subseteq ops /\ ops' \subseteq CallType /\ CallsFit'
      /\ \A c \in ops : Executed(c) => c \in ops'
  BY <1>2, QueryIsDone
<1>6. /\ store' \in [Neurons -> EntryType]
      /\ \A n \in Neurons : store'[n].certified = FALSE /\ store'[n].neuron = data[n] /\ store'[n].asked = list.asked
  <2>1. PICK f \in BOOLEAN : f = FALSE
    OBVIOUS
  <2>2. PICK from \in {"answer", "overtaken", "failure"} : from = "answer"
    OBVIOUS
  <2>3. SetNeurons(data, f, list.asked, from)
    BY <1>1, <2>1, <2>2 DEF data
  <2> QED BY <1>3, <2>1, <2>3, SetNeuronsSets
<1>8. Types'
  BY <1>2, <1>4, <1>5, <1>6 DEF IInv, Types
<1>10. AskedBefore'
  BY <1>2, <1>3, <1>5, <1>6 DEF AskedBefore
<1>11. CacheFresh' /\ NoLostUpdates'
  BY <1>2, <1>4, <1>5 DEF IInv, CacheFresh, NoLostUpdates
<1>12. CacheLags'
  <2> SUFFICES ASSUME trouble' = "none", NEW hit \in cache, NEW n \in Neurons
               PROVE  hit.data[n] = ListOf(gov)[n] \/ \E c \in ops' : Executed(c) /\ n \in Changes(c)
    BY <1>2 DEF CacheLags, Executed, Changes, ListOf
  <2> QED BY <1>2, <1>4, <1>5 DEF IInv, CacheLags
<1>13. StoreLags'
  BY <1>2, <1>4, <1>6, AllFresh DEF StoreLags
<1>14. SeesOwnWrites'
  BY <1>6 DEF SeesOwnWrites, AskedSince
<1> QED BY <1>5, <1>8, <1>10, <1>11, <1>12, <1>13, <1>14 DEF IInv

\* The failure of the query, which empties the list only if no update is under way, keeps the
\* invariant.
LEMMA QueryFailsStep == ASSUME IInv, NEW list \in lists, QueryFails(list) PROVE IInv'
<1> DEFINE none == [n \in Neurons |-> Empty]
<1>1. /\ QueryDone(list) /\ Settles(list) /\ trouble = "none" /\ trouble' = "failed"
      /\ store' = store \/ SetNeurons(none, FALSE, list.asked, "failure")
      /\ UNCHANGED <<gov, prev, version, cache, ended, count, listed>>
  BY DEF QueryFails
<1>2. list.asked \in Nat /\ list.asked <= ended /\ none \in Data
  BY EmptyType DEF IInv, Types, ListType, AskedBefore, Data
<1> HIDE DEF none
<1>3. /\ store' \in [Neurons -> EntryType]
      /\ \/ store' = store
         \/ \A n \in Neurons : store'[n].certified = FALSE /\ store'[n].asked = list.asked
  <2>1. CASE store' = store
    BY <2>1 DEF IInv, Types
  <2>2. CASE SetNeurons(none, FALSE, list.asked, "failure")
    <3>1. PICK f \in BOOLEAN : f = FALSE
      OBVIOUS
    <3>2. PICK from \in {"answer", "overtaken", "failure"} : from = "failure"
      OBVIOUS
    <3>3. SetNeurons(none, f, list.asked, from)
      BY <2>2, <3>1, <3>2
    <3> QED BY <1>2, <3>1, <3>3, SetNeuronsSets
  <2> QED BY <1>1, <2>1, <2>2
<1>4. /\ lists' \subseteq ListType /\ (\A l \in lists' : l.asked <= ended) /\ ListsFresh'
      /\ ops' \subseteq CallType /\ CallsFit'
  BY <1>1, QueryIsDone
<1>5. Types'
  BY <1>1, <1>3, <1>4 DEF IInv, Types
<1>6. AskedBefore' /\ CacheFresh'
  BY <1>1, <1>2, <1>3, <1>4 DEF IInv, AskedBefore, CacheFresh
<1>7. CacheLags' /\ StoreLags' /\ NoLostUpdates'
  BY <1>1 DEF CacheLags, StoreLags, NoLostUpdates
<1>8. SeesOwnWrites'
  BY <1>1, <1>3 DEF IInv, SeesOwnWrites, AskedSince, Shown
<1> QED BY <1>4, <1>5, <1>6, <1>7, <1>8 DEF IInv

\* The moment at which governance reads the neurons for the update keeps the invariant.
LEMMA UpdateReadStep == ASSUME IInv, NEW list \in lists, UpdateRead(list) PROVE IInv'
<1> DEFINE data == ListOf(gov)
           new == [list EXCEPT !.read = TRUE, !.data = data, !.at = version]
<1>1. /\ lists' = (lists \ {list}) \cup {new}
      /\ UNCHANGED <<gov, prev, version, store, cache, ops, ended, trouble, count, listed>>
  BY DEF UpdateRead
<1>2. data \in Data /\ list \in ListType /\ version \in Nat /\ list.asked <= version
  BY ListOfType DEF IInv, Types, AskedBefore, ListType
<1>3. new \in ListType /\ new.asked = list.asked /\ new.data = ListOf(gov) /\ new.at = version
  <2> HIDE DEF data
  <2>1. new \in ListType /\ new.asked = list.asked /\ new.data = data /\ new.at = version
    BY <1>2 DEF ListType
  <2> QED BY <2>1 DEF data
<1> HIDE DEF new
<1>4. lists' \subseteq ListType /\ (\A l \in lists' : l.asked <= ended) /\ ListsFresh'
  BY <1>1, <1>2, <1>3, ListMoves
<1>5. Types' /\ AskedBefore'
  BY <1>1, <1>4 DEF IInv, Types, AskedBefore
<1>6. CallsFit'
  BY <1>1, CallsEnd DEF IInv
<1>7. CacheFresh' /\ CacheLags' /\ StoreLags' /\ SeesOwnWrites' /\ NoLostUpdates'
  BY <1>1 DEF IInv, CacheFresh, CacheLags, StoreLags, Fresh, SeesOwnWrites, AskedSince, NoLostUpdates, Shown
<1> QED BY <1>4, <1>5, <1>6, <1>7 DEF IInv

\* The answer of the update, which fills the cache and the store, keeps the invariant: an answer
\* that is older than what governance holds was overtaken, unless an operation has yet to end.
LEMMA UpdateAnsweredStep == ASSUME IInv, NEW list \in lists, UpdateAnswered(list) PROVE IInv'
<1> DEFINE old == list.asked < ended /\ list.at < version
           hit == Cached(list.data, old)
<1>1. /\ lists' = lists \ {list} /\ cache' = {hit} /\ list.read
      /\ SetNeurons(list.data, TRUE, list.asked, "answer") /\ MayBeLate(list.at < version)
      /\ ops' \subseteq ops
      /\ UNCHANGED <<gov, prev, version, ended, count, listed>>
  BY DEF UpdateAnswered, Settles
<1>2. /\ list \in ListType /\ list.asked \in Nat /\ list.asked <= ended /\ list.at \in Nat
      /\ list.data \in Data /\ list.asked <= list.at /\ list.at <= version
      /\ (list.at = version => list.data = ListOf(gov)) /\ version \in Nat /\ ended \in 0 .. version
  BY <1>1 DEF IInv, Types, ListType, AskedBefore, ListsFresh
<1>3. trouble' \in {"none", "late", "failed"}
      /\ (trouble' # "late" => trouble' = trouble /\ list.data = ListOf(gov))
  BY <1>1, <1>2 DEF MayBeLate, IInv, Types
<1>4. /\ store' \in [Neurons -> EntryType]
      /\ \A n \in Neurons : store'[n].neuron = list.data[n] /\ store'[n].asked = list.asked
  <2>1. PICK t \in BOOLEAN : t = TRUE
    OBVIOUS
  <2>2. PICK from \in {"answer", "overtaken", "failure"} : from = "answer"
    OBVIOUS
  <2>3. SetNeurons(list.data, t, list.asked, from)
    BY <1>1, <2>1, <2>2
  <2> QED BY <1>2, <2>3, SetNeuronsSets
<1>5. ops' \subseteq CallType /\ CallsFit'
  BY <1>1, CallsEnd DEF IInv
<1>6. hit \in HitType /\ hit.data = list.data /\ hit.overtaken = old
  <2>1. PICK b \in BOOLEAN : b = old
    BY Zenon
  <2>2. hit = [data |-> list.data, overtaken |-> b]
    BY <2>1, Zenon DEF Cached
  <2> HIDE DEF hit, old
  <2> QED BY <1>2, <2>1, <2>2 DEF HitType
<1> HIDE DEF hit
<1>7. Types'
  BY <1>1, <1>2, <1>3, <1>4, <1>5, <1>6 DEF IInv, Types
<1>8. AskedBefore' /\ ListsFresh'
  BY <1>1, <1>2, <1>4 DEF IInv, AskedBefore, ListsFresh
<1>9. CacheFresh'
  <2> SUFFICES ASSUME ended = version, ~old PROVE list.data = ListOf(gov)
    BY <1>1, <1>6 DEF CacheFresh
  <2> QED BY <1>2
<1>10. CacheLags'
  BY <1>1, <1>3, <1>6 DEF CacheLags
<1>11. StoreLags'
  BY <1>1, <1>3, <1>4, AllFresh DEF StoreLags
<1>12. SeesOwnWrites'
  <2> SUFFICES ASSUME NEW n \in Neurons, store'[n].asked = ended, version = ended,
                      UserAuthorizedNeuron(gov[n]), HasValidStake(gov[n])
               PROVE  store'[n].neuron = gov[n]
    BY <1>1 DEF SeesOwnWrites, AskedSince, Shown, UserAuthorizedNeuron, HasValidStake
  <2>1. list.data = ListOf(gov)
    BY <1>2, <1>4
  <2> QED BY <1>4, <2>1 DEF ListOf
<1>13. NoLostUpdates'
  BY <1>1, <1>3 DEF IInv, NoLostUpdates
<1> QED BY <1>5, <1>7, <1>8, <1>9, <1>10, <1>11, <1>12, <1>13 DEF IInv

\* A list that fails keeps the invariant.
LEMMA ListFailsStep == ASSUME IInv, NEW list \in lists, ListFails(list) PROVE IInv'
<1> DEFINE none == [n \in Neurons |-> Empty]
<1>1. /\ lists' = lists \ {list} /\ trouble = "none" /\ trouble' = "failed"
      /\ SetNeurons(none, TRUE, list.asked, "failure") /\ ops' \subseteq ops
      /\ UNCHANGED <<gov, prev, version, cache, ended, count, listed>>
  BY DEF ListFails, Settles
<1>2. list.asked \in Nat /\ list.asked <= ended /\ none \in Data
  BY EmptyType DEF IInv, Types, ListType, AskedBefore, Data
<1> HIDE DEF none
<1>3. /\ store' \in [Neurons -> EntryType]
      /\ \A n \in Neurons : store'[n].from = "failure" /\ store'[n].asked = list.asked
  <2>1. PICK t \in BOOLEAN : t = TRUE
    OBVIOUS
  <2>2. PICK from \in {"answer", "overtaken", "failure"} : from = "failure"
    OBVIOUS
  <2>3. SetNeurons(none, t, list.asked, from)
    BY <1>1, <2>1, <2>2
  <2> QED BY <1>2, <2>2, <2>3, SetNeuronsSets
<1>4. ops' \subseteq CallType /\ CallsFit'
  BY <1>1, CallsEnd DEF IInv
<1>5. Types'
  BY <1>1, <1>3, <1>4 DEF IInv, Types
<1>6. AskedBefore' /\ ListsFresh' /\ CacheFresh'
  BY <1>1, <1>2, <1>3 DEF IInv, AskedBefore, ListsFresh, CacheFresh
<1>7. CacheLags' /\ StoreLags' /\ NoLostUpdates'
  BY <1>1 DEF CacheLags, StoreLags, NoLostUpdates
<1>8. SeesOwnWrites'
  BY <1>3 DEF SeesOwnWrites
<1> QED BY <1>4, <1>5, <1>6, <1>7, <1>8 DEF IInv

-----------------------------------------------------------------------------
(***************************************************************************)
(* The theorems.                                                           *)
(***************************************************************************)

\* Every step keeps the invariant, one action at a time.
LEMMA Inductive == IInv /\ [Next]_vars => IInv'
<1> SUFFICES ASSUME IInv, [Next]_vars PROVE IInv'
  OBVIOUS
<1>1. CASE Manage \/ ManageSeveral
  BY <1>1, ManageStep, ManageSeveralStep
<1>2. CASE HardwareWalletNeuronAddHotkeyModal
  BY <1>2, AddHotkeyStep DEF HardwareWalletNeuronAddHotkeyModal, HardwareWalletNeurons
<1>3. CASE ListNeurons({})
  <2>1. PICK none \in SUBSET ops : none = {}
    OBVIOUS
  <2>2. ListNeurons(none) /\ \A c, d \in none : c = d
    BY <1>3, <2>1
  <2> QED BY <2>2, ListNeuronsStep
<1>4. ASSUME NEW call \in ops,
             \/ Governance(call) \/ Answered(call) \/ NotAuthorized(call) \/ CallFails(call)
             \/ GetAndLoadNeuron(call) \/ LoadFails(call)
      PROVE  IInv'
  BY <1>4, GovernanceStep, AnsweredStep, NotAuthorizedStep, CallFailsStep, GetAndLoadNeuronStep, LoadFailsStep
<1>5. ASSUME NEW call \in ops, ListNeurons({call}) PROVE IInv'
  <2>1. PICK one \in SUBSET ops : one = {call}
    OBVIOUS
  <2>2. ListNeurons(one) /\ \A c, d \in one : c = d
    BY <1>5, <2>1
  <2> QED BY <2>2, ListNeuronsStep
<1>6. ASSUME NEW list \in lists,
             \/ QueryAnswered(list) \/ QueryFails(list)
             \/ UpdateRead(list) \/ UpdateAnswered(list) \/ ListFails(list)
      PROVE  IInv'
  BY <1>6, QueryAnsweredStep, QueryFailsStep, UpdateReadStep, UpdateAnsweredStep, ListFailsStep
<1>7. CASE UNCHANGED vars
  <2>1. UNCHANGED <<gov, prev, version, store, cache, lists, ops, ended, trouble, count, listed>>
    BY <1>7 DEF vars
  <2>2. Types' /\ AskedBefore'
    BY <2>1 DEF IInv, Types, AskedBefore
  <2>3. CallsFit'
    BY <2>1, CallsEnd DEF IInv
  <2>4. ListsFresh' /\ CacheFresh' /\ CacheLags' /\ StoreLags' /\ SeesOwnWrites' /\ NoLostUpdates'
    BY <2>1 DEF IInv, ListsFresh, CacheFresh, CacheLags, StoreLags, Fresh, SeesOwnWrites, AskedSince, NoLostUpdates, Shown
  <2> QED BY <2>2, <2>3, <2>4 DEF IInv
<1> QED BY <1>1, <1>2, <1>3, <1>4, <1>5, <1>6, <1>7 DEF Next

\* The inductive invariant holds in every state: calls that run together change different neurons,
\* and while nothing went wrong what the cache and the store have of a neuron is what governance
\* has, or a call that changed it has yet to be followed by a reload.
THEOREM InvariantHolds == Spec => []IInv
BY InitHolds, Inductive, PTL DEF Spec

\* While no answer was late and no call failed, an operation is computed from the
\* neuron that governance holds, whichever lists the pages load meanwhile and
\* whatever is cached: so no followee, delay or membership is lost
\* (neurons.services.ts, governance.api-service.ts).
THEOREM UpdatesAreKept == Spec => []NoLostUpdates
<1>1. IInv => NoLostUpdates
  BY DEF IInv
<1> QED BY <1>1, InvariantHolds, PTL

\* The invariant implies the type invariant.
LEMMA TypesHold == ASSUME IInv PROVE TypeOK
<1>1. \A n \in Neurons : /\ gov[n] \in NeuronType /\ store[n].asked \in 0 .. version
  BY DEF IInv, Types, AskedBefore, Data, EntryType
<1>2. \A n \in Neurons :
        /\ gov[n].controller \in {"user", "wallet", "other"}
        /\ gov[n].state \in {"locked", "dissolving", "dissolved"}
        /\ gov[n].followees \in [Topics -> SUBSET Followees] /\ gov[n].delay \in 0 .. MaxDelay
        /\ store[n].asked \in 0 .. version
  BY <1>1, FieldTypes DEF Controllers, States, FolloweesType
<1>3. \A call \in ops : call.neuron \in Neurons /\ call.phase \in Phases
  BY DEF IInv, Types, CallType
<1>4. \A hit, other \in cache : hit = other
  BY DEF IInv, Types
<1> QED BY <1>2, <1>3, <1>4 DEF IInv, Types, TypeOK

\* After an operation ended, also with an error, a certified list or neuron that was
\* asked for then shows what governance holds, whether it came from the network or
\* from the cache and however late other answers are; but for a list that failed and
\* for a cached list that the operation overtook between its call and its answer
\* (clearCacheAfter and queryNeurons in governance.api-service.ts).
THEOREM WritesAreSeen == Spec => []ShownAsTheyAre
<1>1. IInv => ShownAsTheyAre
  BY TypesHold DEF IInv, ShownAsTheyAre
<1> QED BY <1>1, InvariantHolds, PTL

\* The invariant implies that governance accepts what the pages offer.
LEMMA AcceptsOffered == ASSUME IInv PROVE OffersAreAccepted
<1> SUFFICES ASSUME \A n \in Neurons : Shown(n) = ListOf(gov)[n], NEW c \in Offered
             PROVE  IF c.signer = "nobody"
                    THEN c.kind = "followees" /\ c.arg["management"] # gov[c.neuron].followees["management"]
                    ELSE Accepts(c)
  BY DEF OffersAreAccepted
<1>1. /\ c.neuron \in Neurons /\ Promised(c.neuron, c)
      /\ HasValidStake(Shown(c.neuron)) \/ Shown(c.neuron).state = "locked"
      /\ c.kind = "merge" => Shown(c.arg).state = "locked"
  BY OfferedPromised DEF IInv, Types, Store
<1>2. Shown(c.neuron) = gov[c.neuron]
  BY <1>1, EmptyType DEF ListOf
<1>3. c.kind = "merge" => Shown(c.arg) = gov[c.arg]
  <2>1. c.kind = "merge" => c.arg \in Neurons
    BY <1>1 DEF Promised, IsSent, ArgFits
  <2> QED BY <1>1, <2>1, EmptyType DEF ListOf
<1>4. CASE c.signer = "nobody"
  BY <1>1, <1>2, <1>4 DEF Promised
<1>5. CASE c.signer # "nobody"
  <2>1. AcceptsShown(c) /\ gov[c.neuron].fund \in BOOLEAN
    BY <1>1, <1>2, <1>5, FieldTypes DEF Promised, IInv, Types, Data
  <2> QED BY <1>2, <1>3, <1>5, <2>1 DEF AcceptsShown, Accepts
<1> QED BY <1>4, <1>5

\* What the pages offer, signed by the identity that the service chooses, is
\* accepted if the neurons are shown as they are: for each of the fourteen
\* commands, the conditions of the pages are at least those of governance
\* (neuron.utils.ts, neurons.services.ts).
THEOREM OffersAccepted == Spec => []OffersAreAccepted
<1>1. IInv => OffersAreAccepted
  BY AcceptsOffered
<1> QED BY <1>1, InvariantHolds, PTL
=============================================================================
