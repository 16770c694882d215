--------------------------- MODULE QueryAndUpdate ---------------------------
(***************************************************************************)
(* The calls of the browser (services/utils.services.ts).  A request is    *)
(* sent as a query, as an update, or as both at once; the callbacks hear   *)
(* of an answer or of a failure unless the certified one came before.      *)
(***************************************************************************)
Strategies == {"query_and_update", "query", "update"}

\* An anonymous user gets queries only; asking for more is refused.
Refused(anonymous, strategy) == anonymous /\ strategy # "query"

\* The calls that a strategy makes; TRUE stands for the certified one.
CallsOf(strategy) ==
    CASE strategy = "query"  -> {FALSE}
      [] strategy = "update" -> {TRUE}
      [] OTHER               -> BOOLEAN

\* A request that was sent: the calls that are not answered yet, and whether
\* the certified answer or failure came.
Sent(strategy) ==
    [strategy |-> strategy, waiting |-> CallsOf(strategy), certifiedDone |-> FALSE]

Requests == [strategy : Strategies, waiting : SUBSET BOOLEAN, certifiedDone : BOOLEAN]

\* onLoad or onError is called for an answer that comes now.
Heard(request) == ~request.certifiedDone

\* The request after its query or its update was answered or failed.
Answered(request, certified) ==
    [request EXCEPT !.waiting = @ \ {certified},
                    !.certifiedDone = @ \/ certified]
=============================================================================
