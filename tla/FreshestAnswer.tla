--------------------------- MODULE FreshestAnswer ---------------------------
(***************************************************************************)
(* What the queued stores promise.  Requests stand in the order in which   *)
(* they were made.  For every item the store shows the answer of the last  *)
(* request that has one for it, and a certified answer stays: neither the  *)
(* order of the answers, nor failures, nor how much the store forgot of    *)
(* older requests can be seen.                                             *)
(***************************************************************************)
EXTENDS Naturals, Sequences

CONSTANTS Items, Initial

VARIABLES
    answers,  \* per request, a set of at most one [certified, items] record
    shown     \* what subscribers see, a function on Items

avars == <<answers, shown>>

\* The requests that have an answer for an item.
Having(ans, i) ==
    {r \in DOMAIN ans : \E a \in ans[r] : i \in DOMAIN a.items}

View(ans) ==
    [i \in Items |->
        IF Having(ans, i) = {} THEN Initial[i]
        ELSE LET last == CHOOSE r \in Having(ans, i) : \A s \in Having(ans, i) : s <= r
             IN  (CHOOSE a \in ans[last] : TRUE).items[i]]

Init == answers = <<>> /\ shown = View(<<>>)

\* One or two requests are made; nothing is shown of them yet.
Ask ==
    /\ \E n \in 1 .. 2 : answers' = answers \o [k \in 1 .. n |-> {}]
    /\ UNCHANGED shown

\* An answer comes: it is shown unless later requests have answers, and it
\* takes the place of an uncertified answer of the same request only.
Answer ==
    /\ \E r \in DOMAIN answers :
        /\ \A a \in answers[r] : ~a.certified
        /\ DOMAIN answers' = DOMAIN answers
        /\ \A s \in DOMAIN answers \ {r} : answers'[s] = answers[s]
        /\ answers'[r] # {}
    /\ shown' = View(answers')

Next == Ask \/ Answer

Spec == Init /\ [][Next]_avars
=============================================================================
