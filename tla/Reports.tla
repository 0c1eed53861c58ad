------------------------------ MODULE Reports ------------------------------
(***************************************************************************)
(* The queries of internal/storage.go behind the dashboard, over the tables *)
(* of Storage.  Each is one SELECT and sees one state of the database; the  *)
(* dashboard shows their results side by side.                              *)
(***************************************************************************)
EXTENDS Storage, Functions

CONSTANTS Row,          \* [model, provider, fromCache, tokens] of each exchange
          Windows       \* the numbers of days getDays may return, never 0

ASSUME ReportsAssumption ==
    /\ Windows \subseteq Nat \ {0}
    /\ \A e \in Exchanges : Row[e].tokens \in Nat /\ Row[e].fromCache \in BOOLEAN
-----------------------------------------------------------------------------
\* WHERE rl.created_at >= unixepoch('now', '-<days> days') * 1000.
InWindow(days) == {e \in db["request_logs"] : created[e] >= clock - days}

\* JOIN response_logs.
Answered(days) == InWindow(days) \cap db["response_logs"]

\* LEFT JOIN usage_logs and COALESCE(ul.total_tokens, 0).
Tokens == [e \in Exchanges |-> IF e \in db["usage_logs"] THEN Row[e].tokens ELSE 0]

\* rs.from_cache, 0 without a response.
Hits ==
    [e \in Exchanges |-> IF e \in db["response_logs"] /\ Row[e].fromCache THEN 1 ELSE 0]

\* COUNT, the SUM of rs.from_cache and the SUM of the tokens over a group.
Totals(S) ==
    [requests |-> Cardinality(S),
     hits     |-> SumFunctionOnSet(Hits, S),
     tokens   |-> SumFunctionOnSet(Tokens, S)]

\* GROUP BY: one row for each label of a member of S.  An empty name is a group of
\* its own, whatever is shown for it.
GroupBy(label, S) ==
    {[label |-> v, totals |-> Totals({e \in S : label[e] = v})] : v \in {label[e] : e \in S}}

\* Mutant: usage_logs is joined instead of left joined.
ModelUsageOfUsers(days) ==
    GroupBy([e \in Exchanges |-> Row[e].model], Answered(days) \cap db["usage_logs"])

ModelUsageReports(days) ==
    GroupBy([e \in Exchanges |-> Row[e].model], Answered(days))

ProviderUsageReports(days) ==
    GroupBy([e \in Exchanges |-> Row[e].provider], Answered(days))

\* The only report that also counts requests without a response.
DailyUsage(days) == GroupBy(created, InWindow(days))

\* Its one row, or nothing when no request is in the window: SUM over no rows is NULL
\* and Scan refuses to store it in an int64, so the handler answers 500.
UsageSummary(days) ==
    IF Answered(days) = {} THEN {} ELSE {Totals(Answered(days))}

\* The newest requests up to a limit; requests of the same time come in any order.
RequestLogs(days, limit) ==
    {S \in SUBSET Answered(days) :
        /\ \/ Cardinality(S) = limit
           \/ S = Answered(days) /\ Cardinality(S) <= limit
        /\ \A e \in S : \A other \in Answered(days) \ S : created[e] >= created[other]}

\* The tokens RequestDetail shows for a request it finds.
RequestDetail(id) ==
    IF id \in db["request_logs"] \cap db["response_logs"] THEN {Tokens[id]} ELSE {}
-----------------------------------------------------------------------------
AddTotals(rows) ==
    [requests |-> SumFunction([r \in rows |-> r.totals.requests]),
     hits     |-> SumFunction([r \in rows |-> r.totals.hits]),
     tokens   |-> SumFunction([r \in rows |-> r.totals.tokens])]

\* The figures of the dashboard fit together at every moment, while exchanges are
\* committed and cleaned up, after a failed transaction and after a crash: the
\* reports by day, model and provider add up to the summary, although one of them
\* counts requests without a response and the others do not; the log lists what the
\* summary counts; and every request it lists has a detail page with its tokens.
ReportsAgree ==
    \A days \in Windows :
        LET total == AddTotals(ModelUsageReports(days))
            all == Cardinality(Answered(days))
        IN  /\ AddTotals(DailyUsage(days)) = total
            /\ AddTotals(ProviderUsageReports(days)) = total
            /\ UsageSummary(days) = IF total.requests = 0 THEN {} ELSE {total}
            /\ \A listed \in RequestLogs(days, all) :
                  /\ Cardinality(listed) = total.requests
                  /\ \A e \in listed : RequestDetail(e) = {Tokens[e]}
            /\ \A limit \in 1 .. all : RequestLogs(days, limit) # {}
=============================================================================
