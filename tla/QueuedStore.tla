----------------------------- MODULE QueuedStore -----------------------------
(***************************************************************************)
(* The queued store (stores/queued-store.ts).  Every request reserves a    *)
(* spot in a queue; the mutation of its query and that of its update fill  *)
(* the spot.  What is shown is the certified data with the mutations of    *)
(* the queue applied in the order of the spots.                            *)
(*                                                                         *)
(* Data are functions, and a mutation is the part of the function that it  *)
(* changes: all of it for set, some of it for update.                      *)
(***************************************************************************)
EXTENDS Naturals, Sequences, SequencesExt

\* A spot: a set of at most one mutation for each kind of answer.
MutationEntry(key, strategy) ==
    [mutationKey |-> key, strategy |-> strategy,
     certifiedMutation |-> {}, nonCertifiedMutation |-> {}]

QueuedStoreOf(data) == [certifiedData |-> data, mutationQueue |-> <<>>, exposed |-> data]

\* Mutant: the first answer counts.
MutationUncertifiedFirst(entry) ==
    IF entry.nonCertifiedMutation # {} THEN entry.nonCertifiedMutation
    ELSE entry.certifiedMutation

\* entry.certifiedMutation || entry.nonCertifiedMutation
Mutation(entry) ==
    IF entry.certifiedMutation # {} THEN entry.certifiedMutation
    ELSE entry.nonCertifiedMutation

\* A mutation of the data: what it changes, and the rest.
Changed(data, mutation) ==
    [i \in DOMAIN data |-> IF i \in DOMAIN mutation THEN mutation[i] ELSE data[i]]

Mutated(data, entry) ==
    IF Mutation(entry) = {} THEN data
    ELSE Changed(data, CHOOSE m \in Mutation(entry) : TRUE)

\* What subscribers see.
UpdateExposedData(store) ==
    [store EXCEPT !.exposed = FoldLeft(Mutated, store.certifiedData, store.mutationQueue)]

IsFinal(entry) ==
    CASE entry.strategy = "query" -> entry.nonCertifiedMutation # {}
      [] OTHER                    -> entry.certifiedMutation # {}

\* The number of entries at the front of the queue that are final.
FinalPrefix(queue) ==
    Max({n \in 0 .. Len(queue) : \A i \in 1 .. n : IsFinal(queue[i])})

\* Finalized mutations leave the queue and become certified data.
ApplyFinal(store) ==
    LET n == FinalPrefix(store.mutationQueue) IN
    [store EXCEPT
        !.certifiedData = FoldLeft(Mutated, @, SubSeq(store.mutationQueue, 1, n)),
        !.mutationQueue = SubSeq(@, n + 1, Len(@))]

GetSingleMutationStore(store, key, strategy) ==
    [store EXCEPT !.mutationQueue = Append(@, MutationEntry(key, strategy))]

EntryOf(store, key) ==
    {i \in DOMAIN store.mutationQueue : store.mutationQueue[i].mutationKey = key}

\* addMutation throws without an entry, or if the entry has this mutation.
MayAdd(store, key, certified) ==
    \E i \in EntryOf(store, key) :
        LET entry == store.mutationQueue[i] IN
        (IF certified THEN entry.certifiedMutation ELSE entry.nonCertifiedMutation) = {}

\* Mutant: queueing disabled, as the comment in addMutation shows it.
AddMutationDirect(store, key, certified, mutation) ==
    [store EXCEPT !.certifiedData = Changed(@, mutation),
                  !.exposed = Changed(store.certifiedData, mutation)]

AddMutation(store, key, certified, mutation) ==
    LET filled(entry) ==
            IF entry.mutationKey # key THEN entry
            ELSE IF certified THEN [entry EXCEPT !.certifiedMutation = {mutation}]
            ELSE [entry EXCEPT !.nonCertifiedMutation = {mutation}]
        queue == [i \in DOMAIN store.mutationQueue |-> filled(store.mutationQueue[i])]
    IN  UpdateExposedData(ApplyFinal([store EXCEPT !.mutationQueue = queue]))

\* cancel throws unless the entry is there and has no mutation.  No two entries
\* have the same key.
MayCancel(store, key) ==
    \E i \in EntryOf(store, key) : Mutation(store.mutationQueue[i]) = {}

Cancel(store, key) ==
    LET i == CHOOSE j \in EntryOf(store, key) : TRUE IN
    [store EXCEPT !.mutationQueue = RemoveAt(@, i)]
=============================================================================
