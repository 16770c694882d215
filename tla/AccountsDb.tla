----------------------------- MODULE AccountsDb ------------------------------
(***************************************************************************)
(* The accounts database of the backend (rs/backend/src/accounts_store/    *)
(* schema): a proxy in front of an authoritative database and, while the   *)
(* accounts are migrated, of the database they are migrated to.  Every     *)
(* change goes to both; steps of the migration copy the accounts that were *)
(* there before, a few at a time, in the order of their keys.  The         *)
(* heartbeat asks for a step on every block by a call of the canister to   *)
(* itself, so that a step that fails changes nothing, and asks again for a *)
(* smaller one.                                                            *)
(*                                                                         *)
(* The hook that installs a version sets the database up (proxy.rs:18).    *)
(* That of this version starts no migration, so InitDb has every database  *)
(* it may find, with a migration at its beginning or without one.          *)
(***************************************************************************)
EXTENDS Integers, FiniteSets

CONSTANTS
    Keys,           \* account identifiers, by their order
    Accounts,       \* what can be stored for one
    NoAccount,      \* there is none
    StepSize,       \* MIGRATION_STEP_SIZE
    StepSizeMax,    \* MIGRATION_STEP_SIZE_MAX
    Slots           \* bound: heartbeats whose step is in flight

ASSUME AccountsDbAssumption ==
    /\ Keys \subseteq Nat /\ IsFiniteSet(Keys)
    /\ NoAccount \notin Accounts
    /\ StepSize \in Nat \ {0, 1} /\ StepSizeMax \in Nat \ {0}

VARIABLES
    authoritative,  \* authoritative_db
    migration,      \* Option<Migration>: at most one [db, next_to_migrate]
    steps,          \* step_migration in flight: the size of each, 0 if there is none
    asked           \* history: the last change that the proxy was asked for

dbVars == <<authoritative, migration, steps, asked>>

Databases == [Keys -> Accounts \cup {NoAccount}]
EmptyDb == [k \in Keys |-> NoAccount]
NoKey == -1         \* next_to_migrate is None
Migration == [db : Databases, next : Keys \cup {NoKey}]

DbTypeOK ==
    /\ authoritative \in Databases
    /\ migration \subseteq Migration
    /\ \A m, n \in migration : m = n
    /\ steps \in [Slots -> {0, 1, StepSize}]

-----------------------------------------------------------------------------
(***************************************************************************)
(* What both implementations of a database do: a BTreeMap on the heap, and *)
(* one in stable memory.                                                   *)
(***************************************************************************)
Stored(db) == {k \in Keys : db[k] # NoAccount}

Least(S) == CHOOSE k \in S : \A j \in S : k <= j

\* The entry at a key that is chosen among those that are stored, if there are any.
FirstKeyValue(db) ==
    {<<k, db[k]>> : k \in {k \in Stored(db) : \A j \in Stored(db) : k <= j}}
LastKeyValue(db) ==
    {<<k, db[k]>> : k \in {k \in Stored(db) : \A j \in Stored(db) : j <= k}}

\* The keys of range(next ..), and the first n of them.
From(db, next) == {k \in Stored(db) : next <= k}
Take(db, next, n) ==
    {k \in From(db, next) : Cardinality({j \in From(db, next) : j < k}) < n}

\* The key of the first entry of an iterator over keys.
NextKey(S) == IF S = {} THEN NoKey ELSE Least(S)

-----------------------------------------------------------------------------
(***************************************************************************)
(* The proxy.                                                              *)
(***************************************************************************)

\* Mutant of InsertAccount: a migration copies what is ahead of it, and is told nothing.
InsertIntoAuthoritative(k, a) ==
    /\ authoritative' = [authoritative EXCEPT ![k] = a]
    /\ asked' = <<k, a>>
    /\ UNCHANGED <<migration, steps>>

\* db_insert_account, into all the underlying databases.
InsertAccount(k, a) ==
    /\ authoritative' = [authoritative EXCEPT ![k] = a]
    /\ migration' = {[m EXCEPT !.db[k] = a] : m \in migration}
    /\ asked' = <<k, a>>
    /\ UNCHANGED steps

\* Mutant of RemoveAccount
RemoveFromAuthoritative(k) ==
    /\ authoritative' = [authoritative EXCEPT ![k] = NoAccount]
    /\ asked' = <<k, NoAccount>>
    /\ UNCHANGED <<migration, steps>>

\* db_remove_account
RemoveAccount(k) ==
    /\ authoritative' = [authoritative EXCEPT ![k] = NoAccount]
    /\ migration' = {[m EXCEPT !.db[k] = NoAccount] : m \in migration}
    /\ asked' = <<k, NoAccount>>
    /\ UNCHANGED steps

MigrationInProgress == migration # {}

Clamp(size) ==
    IF size < 1 THEN 1 ELSE IF size > StepSizeMax THEN StepSizeMax ELSE size

\* step_migration, while there are accounts to copy.
Copied(m, size) ==
    LET batch == Take(authoritative, m.next, Clamp(size))
    IN  [db |-> [k \in Keys |-> IF k \in batch THEN authoritative[k] ELSE m.db[k]],
         next |-> NextKey(From(authoritative, m.next) \ batch)]

\* The checks of complete_migration: a migration that fails one is dropped.
SameEnds(old, new) ==
    /\ Cardinality(Stored(old)) = Cardinality(Stored(new))
    /\ FirstKeyValue(old) = FirstKeyValue(new)
    /\ LastKeyValue(old) = LastKeyValue(new)

\* step_migration: copies a batch, or makes the new database authoritative.
StepMigration(size) ==
    \/ ~MigrationInProgress /\ UNCHANGED <<authoritative, migration>>
    \/ \E m \in migration :
        /\ m.next # NoKey
        /\ migration' = {Copied(m, size)}
        /\ UNCHANGED authoritative
    \/ \E m \in migration :
        /\ m.next = NoKey
        /\ migration' = {}
        /\ authoritative' = IF SameEnds(authoritative, m.db) THEN m.db ELSE authoritative

-----------------------------------------------------------------------------
(***************************************************************************)
(* The canister: heartbeats, its calls to itself, and upgrades.            *)
(***************************************************************************)

\* canister_heartbeat spawns call_step_migration_with_retries.
HeartbeatMigrates(s) ==
    /\ steps[s] = 0 /\ MigrationInProgress
    /\ steps' = [steps EXCEPT ![s] = StepSize]
    /\ UNCHANGED <<authoritative, migration, asked>>

\* The canister executes the step that it asked for.
StepSucceeds(s) ==
    /\ steps[s] # 0
    /\ StepMigration(steps[s])
    /\ steps' = [steps EXCEPT ![s] = 0]
    /\ UNCHANGED asked

\* The step traps or is not delivered; one of StepSize is tried again with one account.
StepFails(s) ==
    /\ steps[s] # 0
    /\ steps' = [steps EXCEPT ![s] = IF steps[s] = 1 THEN 0 ELSE 1]
    /\ UNCHANGED <<authoritative, migration, asked>>

\* An upgrade, once the canister's calls are answered: new_restored loads the database that
\* is in stable memory, and replace_accounts_db sets up a proxy that migrates nothing.
UpgradeDb ==
    /\ \A s \in Slots : steps[s] = 0
    /\ migration' = {}
    /\ UNCHANGED <<authoritative, steps, asked>>

-----------------------------------------------------------------------------
InitDb ==
    /\ authoritative \in Databases
    /\ migration \in {{}, {[db |-> EmptyDb, next |-> NextKey(Stored(authoritative))]}}
    /\ steps = [s \in Slots |-> 0]
    /\ asked = <<>>

NextDb ==
    \/ \E k \in Keys : RemoveAccount(k) \/ \E a \in Accounts : InsertAccount(k, a)
    \/ \E s \in Slots : HeartbeatMigrates(s) \/ StepSucceeds(s) \/ StepFails(s)
    \/ UpgradeDb

SpecDb == InitDb /\ [][NextDb]_dbVars

-----------------------------------------------------------------------------
(***************************************************************************)
(* Properties.                                                             *)
(***************************************************************************)

\* The keys that a migration has passed.
Passed(m) == {k \in Keys : m.next = NoKey \/ k < m.next}

\* However inserts, removals and steps of any size alternate, the new database has what the
\* old one has at every key that the migration has passed, and nothing that is out of date
\* or that was removed ahead of it (AccountsDbAsProxy).
MigrationIsFaithful ==
    \A m \in migration : \A k \in Keys :
        \/ m.db[k] = authoritative[k]
        \/ k \notin Passed(m) /\ m.db[k] = NoAccount

\* When a migration has passed every key it is completed, never cancelled: the checks of
\* complete_migration hold whatever was written during the migration.
MigrationsComplete ==
    \A m \in migration : m.next = NoKey => SameEnds(authoritative, m.db)

\* The two together, with the types of the variables.
MigrationIsSound == DbTypeOK /\ MigrationIsFaithful /\ MigrationsComplete

\* The proxy is one map, which changes only as it is asked to: the end of a migration, or an
\* upgrade in the middle of one, changes no account.
Map == INSTANCE AccountsMap WITH map <- authoritative
ProxyIsOneMap == Map!Spec
=============================================================================
