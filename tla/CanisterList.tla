---------------------------- MODULE CanisterList ----------------------------
(***************************************************************************)
(* The list of canisters of an account: the part of the operations of      *)
(* rs/backend/src/accounts_store.rs on `account.canisters` that depends on *)
(* nothing else.  AccountsStore uses it for every account, CreateCanister  *)
(* for the account of one user.                                            *)
(*                                                                         *)
(* Names and canister ids are numbers, which gives them their order; 0 is  *)
(* the empty name, LongName stands for every name that is too long, and    *)
(* WideName for those that have at most 24 characters but more than 24     *)
(* bytes.                                                                  *)
(***************************************************************************)
EXTENDS Integers, Sequences, FiniteSets

CONSTANTS
    CanisterIds,    \* a set of numbers
    MaxName,        \* the names are 0 .. MaxName
    MaxCanisters    \* u8::MAX: canisters a user can attach

ASSUME CanisterListAssumption ==
    /\ CanisterIds \subseteq Nat
    /\ MaxName \in Nat /\ MaxCanisters \in Nat

Names == 0 .. MaxName
EmptyName == 0
LongName == MaxName + 1
WideName == MaxName + 2
RequestNames == Names \cup {LongName, WideName}
NamedCanister == [name : Names, id : CanisterIds]

\* validate_account_name, validate_canister_name: they count bytes.
ValidName(n) == n \notin {LongName, WideName}

Elems(s) == {s[i] : i \in DOMAIN s}

\* All the ways to put the elements of s in an order that le allows (the sorts
\* of the code are not all stable).
Sorted(s, le(_, _)) ==
    {r \in {[i \in DOMAIN s |-> s[f[i]]] :
              f \in {g \in [DOMAIN s -> DOMAIN s] : \A i, j \in DOMAIN s : g[i] = g[j] => i = j}} :
        \A i, j \in DOMAIN r : i < j => le(r[i], r[j])}

Remove(s, i) == [j \in 1 .. Len(s) - 1 |-> IF j < i THEN s[j] ELSE s[j + 1]]

\* The order of sorting_key: names first, in their order, then the canisters
\* without a name by their ids.
CanisterLE(c, d) ==
    IF c.name # EmptyName
    THEN d.name = EmptyName \/ c.name <= d.name
    ELSE d.name = EmptyName /\ c.id <= d.id

\* The lists that push and sort may leave.
PushAndSort(list, name, id) == Sorted(Append(list, [name |-> name, id |-> id]), CanisterLE)

Has(list, id) == \E c \in Elems(list) : c.id = id

\* find_canister_index, when there is one
FindCanisterIndex(list, id) ==
    CHOOSE i \in DOMAIN list : list[i].id = id /\ \A j \in 1 .. i - 1 : list[j].id # id

----------------------------------------------------------------------------
\* Mutants of AlreadyAttached: another name attaches the canister again; an entry
\* without a name does not give way.
AlreadyAttachedAs(name, id, c) == c.id = id /\ c.name = name
AlreadyListed(name, id, c) == c.id = id

\* attach_canister scans the list and returns at the first entry that forbids
\* the request.  An entry without a name, which the periodic task runner may
\* have attached before the user's call came, gives way to a request with one.
TakenBy(name, c) == name # EmptyName /\ c.name = name
AlreadyAttached(name, id, c) == c.id = id /\ (c.name # EmptyName \/ name = EmptyName)
Replaces(name, id, c) == c.id = id /\ c.name = EmptyName /\ name # EmptyName

\* The list without the entry that the request replaces (the last one that the
\* scan saw, if there were several).
WithoutReplaced(list, name, id) ==
    LET old == {i \in DOMAIN list : Replaces(name, id, list[i])}
    IN  IF old = {} THEN list
        ELSE Remove(list, CHOOSE i \in old : \A j \in old : j <= i)

\* Mutant of IsFull: one canister too many.
IsOverfull(list) == Len(list) > MaxCanisters

IsFull(list) == Len(list) >= MaxCanisters

\* The answer of attach_canister for an account that exists.
AttachResponse(list, name, id) ==
    LET forbids(c) == TakenBy(name, c) \/ AlreadyAttached(name, id, c)
    IN  IF ~ValidName(name) THEN "NameTooLong"
        ELSE IF \E i \in DOMAIN list :
                   TakenBy(name, list[i]) /\ \A j \in 1 .. i - 1 : ~forbids(list[j])
             THEN "NameAlreadyTaken"
        ELSE IF \E i \in DOMAIN list : AlreadyAttached(name, id, list[i])
             THEN "CanisterAlreadyAttached"
        ELSE IF IsFull(WithoutReplaced(list, name, id))
             THEN "CanisterLimitExceeded"
        ELSE "Ok"

\* ... and the lists that it may leave when the answer is Ok.
AfterAttach(list, name, id) == PushAndSort(WithoutReplaced(list, name, id), name, id)

\* rename_canister
RenameResponse(list, name, id) ==
    IF ~ValidName(name) THEN "NameTooLong"
    ELSE IF \E c \in Elems(list) : TakenBy(name, c) THEN "NameAlreadyTaken"
    ELSE IF ~Has(list, id) THEN "CanisterNotFound"
    ELSE "Ok"

AfterRename(list, name, id) == PushAndSort(Remove(list, FindCanisterIndex(list, id)), name, id)

\* detach_canister, for a canister in the list
AfterDetach(list, id) == Remove(list, FindCanisterIndex(list, id))

\* attach_newly_created_canister: neither the name nor the number of canisters
\* is checked.
AfterNewlyCreated(list, id) ==
    IF Has(list, id) THEN {list} ELSE PushAndSort(list, EmptyName, id)

\* A list without a canister twice and without a name twice, in order.
SoundList(list) ==
    \A i, j \in DOMAIN list :
        i < j => /\ list[i].id # list[j].id
                 /\ list[i].name = list[j].name => list[i].name = EmptyName
                 /\ CanisterLE(list[i], list[j])

=============================================================================
