----------------------------- MODULE ValueLocked -----------------------------
(***************************************************************************)
(* The total value locked that the backend shows (rs/backend/src/tvl.rs),  *)
(* and the heap of the backend across upgrades (state.rs, state/).         *)
(*                                                                         *)
(* Timers ask the exchange rate canister for the rate of ICP, and the      *)
(* governance canister for what is locked; what is shown is the product of *)
(* the last answers.  The heap is written to its partition of the stable   *)
(* memory before an upgrade, a length and then that many bytes, over what  *)
(* an earlier upgrade left there, and is read back after it.  A word of    *)
(* the memory is as long as the length field.                              *)
(***************************************************************************)
EXTENDS Integers, Sequences, FiniteSets

CONSTANTS
    PageSize,       \* WASM_PAGE_SIZE_IN_BYTES, in words
    E8s,            \* 8: the decimals of an amount in e8s
    Margin,         \* XRC_MARGIN_SECONDS
    Rates,          \* [rate, decimals] that the exchange rate canister may answer
    Amounts,        \* total_locked_e8s that the governance canister may answer
    Calls,          \* bound: calls in flight of each kind
    MaxEntries,     \* bound: the length of the rest of the heap
    MaxTime         \* bound: the time

ASSUME ValueLockedAssumption ==
    PageSize \in Nat \ {0} /\ Margin \in Nat /\ MaxEntries \in Nat

VARIABLES
    tvl,            \* tvl_state: [locked, rate, time]
    rest,           \* the length of what else is encoded: accounts store and assets
    memory,         \* the heap's partition
    rateCalls,      \* get_exchange_rate in flight: the timestamp of each, 0 if there is none
    lockedCalls,    \* get_metrics in flight
    now,
    answers         \* history: the [rate, time] of the answers of the exchange rate canister

tvlVars == <<tvl, rest, memory, rateCalls, lockedCalls, now, answers>>

NoValue == [locked |-> 0, rate |-> 0, time |-> 0]

-----------------------------------------------------------------------------
(***************************************************************************)
(* The value locked.                                                       *)
(***************************************************************************)

\* convert_to_e8s: the decimal point is moved so that there are 8 decimals.
ConvertToE8s(amount, decimals) ==
    IF decimals >= E8s THEN amount \div 10 ^ (decimals - E8s)
    ELSE amount * 10 ^ (E8s - decimals)

\* update_exchange_rate, which a timer starts, asks for the rate of a moment ago.
AskRate(s) ==
    /\ rateCalls[s] = 0 /\ now > Margin
    /\ rateCalls' = [rateCalls EXCEPT ![s] = now - Margin]
    /\ UNCHANGED <<tvl, rest, memory, lockedCalls, now, answers>>

RateAnswered(s, r) ==
    /\ rateCalls[s] # 0
    /\ LET rate == ConvertToE8s(r.rate, r.decimals)
       IN  /\ tvl' = [tvl EXCEPT !.rate = rate, !.time = rateCalls[s]]
           /\ answers' = answers \cup {[rate |-> rate, time |-> rateCalls[s]]}
    /\ rateCalls' = [rateCalls EXCEPT ![s] = 0]
    /\ UNCHANGED <<rest, memory, lockedCalls, now>>

\* An error of the canister or of the call: the values are kept.
RateFails(s) ==
    /\ rateCalls[s] # 0
    /\ rateCalls' = [rateCalls EXCEPT ![s] = 0]
    /\ UNCHANGED <<tvl, rest, memory, lockedCalls, now, answers>>

\* update_locked_icp_e8s
AskLocked(s) ==
    /\ s \notin lockedCalls
    /\ lockedCalls' = lockedCalls \cup {s}
    /\ UNCHANGED <<tvl, rest, memory, rateCalls, now, answers>>

LockedAnswered(s, a) ==
    /\ s \in lockedCalls
    /\ tvl' = [tvl EXCEPT !.locked = a]
    /\ lockedCalls' = lockedCalls \ {s}
    /\ UNCHANGED <<rest, memory, rateCalls, now, answers>>

LockedFails(s) ==
    /\ s \in lockedCalls
    /\ lockedCalls' = lockedCalls \ {s}
    /\ UNCHANGED <<tvl, rest, memory, rateCalls, now, answers>>

\* get_tvl: in whole USD, with the time of the rate.
GetTvl ==
    [tvl |-> ((tvl.locked * tvl.rate) \div 10 ^ E8s) \div 10 ^ E8s, time |-> tvl.time]

-----------------------------------------------------------------------------
(***************************************************************************)
(* The heap.                                                               *)
(***************************************************************************)

\* StableState::encode, a value and a number of further words, and decode.
Encode(value, length) == <<value>> \o [i \in 1 .. length |-> i]
Decode(bytes) == [tvl |-> bytes[1], rest |-> Len(bytes) - 1]

CeilDiv(a, b) == (a + b - 1) \div b

\* growing_write: the memory grows by whole pages until the words fit.
GrowingWrite(mem, offset, words) ==
    LET minPages == CeilDiv(Len(words) + offset, PageSize)
        currentPages == Len(mem) \div PageSize
        pages == IF currentPages < minPages THEN minPages ELSE currentPages
    IN  [i \in 1 .. pages * PageSize |->
            IF i \in offset + 1 .. offset + Len(words) THEN words[i - offset]
            ELSE IF i <= Len(mem) THEN mem[i] ELSE 0]

\* save_heap_to_managed_memory: the length, and the bytes after it.
SaveHeap(mem, bytes) == GrowingWrite(GrowingWrite(mem, 0, <<Len(bytes)>>), 1, bytes)

\* Mutant of RecoverHeap: what an earlier upgrade left there is read too.
RecoverMemory(mem) == SubSeq(mem, 2, Len(mem))

\* recover_heap_from_managed_memory reads as many words as the length says.
RecoverHeap(mem) == SubSeq(mem, 2, mem[1] + 1)

\* The rest of the heap grows and shrinks with the work of the canister.
HeapChanges ==
    /\ rest' \in 0 .. MaxEntries
    /\ UNCHANGED <<tvl, memory, rateCalls, lockedCalls, now, answers>>

\* pre_upgrade, and post_upgrade of the new version (new_restored): the calls and the timers
\* of the old one are gone.
UpgradeState ==
    /\ memory' = SaveHeap(memory, Encode(tvl, rest))
    /\ LET state == Decode(RecoverHeap(memory'))
       IN  tvl' = state.tvl /\ rest' = state.rest
    /\ rateCalls' = [s \in Calls |-> 0] /\ lockedCalls' = {}
    /\ UNCHANGED <<now, answers>>

TimePasses ==
    /\ now < MaxTime /\ now' = now + 1
    /\ UNCHANGED <<tvl, rest, memory, rateCalls, lockedCalls, answers>>

-----------------------------------------------------------------------------
\* State::new, on a memory without pages.
InitState ==
    /\ tvl = NoValue /\ rest = 0 /\ memory = <<>>
    /\ rateCalls = [s \in Calls |-> 0] /\ lockedCalls = {}
    /\ now = Margin /\ answers = {}

NextState ==
    \/ \E s \in Calls :
        \/ AskRate(s) \/ RateFails(s) \/ \E r \in Rates : RateAnswered(s, r)
        \/ AskLocked(s) \/ LockedFails(s) \/ \E a \in Amounts : LockedAnswered(s, a)
    \/ HeapChanges \/ UpgradeState \/ TimePasses

SpecState == InitState /\ [][NextState]_tvlVars

-----------------------------------------------------------------------------
(***************************************************************************)
(* Properties.                                                             *)
(***************************************************************************)

\* What an upgrade would save now could be read back, and is what was saved, however long the
\* heaps were that earlier upgrades left in the memory.
SavedIsRecovered ==
    LET mem == SaveHeap(memory, Encode(tvl, rest))
    IN  /\ mem[1] + 1 <= Len(mem)
        /\ Decode(RecoverHeap(mem)) = [tvl |-> tvl, rest |-> rest]

\* The rate that is shown and its time are of one answer, of a time that is past: failed calls
\* and upgrades neither mix answers nor forget them.
RateIsOneAnswer ==
    /\ IF answers = {} THEN tvl.rate = 0 /\ tvl.time = 0
       ELSE [rate |-> tvl.rate, time |-> tvl.time] \in answers
    /\ GetTvl.time <= now

\* The heap survives upgrades, and with it what was learned for the value locked.
HeapIsKept == SavedIsRecovered /\ RateIsOneAnswer
=============================================================================
