----------------------------- MODULE AccountsMap -----------------------------
(***************************************************************************)
(* What an accounts database promises (the trait AccountsDbTrait of        *)
(* rs/backend/src/accounts_store/schema.rs): it is a map from keys to      *)
(* accounts, which changes only as it is asked to, when an account is      *)
(* inserted or removed.                                                    *)
(***************************************************************************)
CONSTANTS
    Keys,       \* account identifiers
    Accounts,   \* what can be stored for one
    NoAccount   \* there is none

VARIABLES
    map,
    asked       \* what it was asked last

Maps == [Keys -> Accounts \cup {NoAccount}]

Init == map \in Maps /\ asked = <<>>

\* db_insert_account
Insert(k, a) == map' = [map EXCEPT ![k] = a] /\ asked' = <<k, a>>

\* db_remove_account
Remove(k) == map' = [map EXCEPT ![k] = NoAccount] /\ asked' = <<k, NoAccount>>

Next == \E k \in Keys : Remove(k) \/ \E a \in Accounts : Insert(k, a)

Spec == Init /\ [][Next]_<<map, asked>>
=============================================================================
