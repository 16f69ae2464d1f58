---------------------------- MODULE MCWebClient ----------------------------
(* The web pages for TLC: two tenants, two settings of the filters.        *)
EXTENDS WebClient, TLC
CONSTANTS a, b, c1, c2
Alike == Permutations(Tenants) \cup Permutations(Choices)

\* "Refresh sale, stock, fiscal and financial queries after success" (the plan of
\* sprint 19, for the dialogs that compensate a sale) is not what they do: the keys
\* they invalidate are not those of the stock.
CompensationsRefresh ==
    \A f \in {ReturnDialog, CancellationDialog, RefundDialog}, q \in Queries :
        f.change.writes \cap q.get.reads # {} => q.root \in f.reaches
ASSUME StockLeftStale == ~CompensationsRefresh
=============================================================================
