------------------------------ MODULE WebLists ------------------------------
(***************************************************************************)
(* The list pages of the web front end (src/frontend/src), each by what it *)
(* lets its user do: which filters and page buttons it draws, when, and    *)
(* what they lead to.  One list is looked at at a time, while the rows on  *)
(* the server change; page 2 is asked for by number and may be gone.       *)
(***************************************************************************)
EXTENDS Naturals, FiniteSets

CONSTANTS Filters,     \* settings of the filters that leave rows out
          All,         \* the setting that leaves none out
          Sizes,       \* how many rows a setting may match
          PageSize,    \* rows of a page, here and in the backend
          Unknown,     \* no answer is held
          MaxChanges,
          MaxFaults

ASSUME ListAssumption ==
    /\ All \notin Filters /\ PageSize \in Nat \ {0} /\ Unknown \notin Nat
    /\ Sizes \subseteq Nat /\ \E n \in Sizes : \A m \in Sizes : m <= n
    /\ {MaxChanges, MaxFaults} \subseteq Nat

-----------------------------------------------------------------------------
(* What a list page is like.  `drawn': its filters are there always, only  *)
(* with a row below them, only until one is set, or never.  `turns': the   *)
(* page buttons lead to that page, or back to the first.                   *)

List(drawn, turns) ==
    [drawn |-> drawn, turns |-> turns, pager |-> "count", by |-> "number", error |-> "alone"]
\* The backend pages it by a cursor and does not count the rows.
Cursor(l) == [l EXCEPT !.by = "cursor"]
\* Page buttons as the answer's next and previous say.
Linked(l) == [l EXCEPT !.pager = "links"]
Unpaged(l) == [l EXCEPT !.pager = "none"]
\* An error is drawn as a list without rows.
Silent(l) == [l EXCEPT !.error = "empty"]

SalesPage == List("always", "back")
CashSessionsPage == List("always", "back")
BrandsPage == Cursor(List("withRows", "moves"))
CategoriesPage == Cursor(List("withRows", "moves"))
UnitsPage == Cursor(List("withRows", "moves"))
ProductsPage == Cursor(List("always", "moves"))
ServicesPage == Unpaged(Cursor(List("always", "moves")))
CombosPage == Cursor(List("withRows", "moves"))
LabelsPage == Silent(Cursor(List("always", "moves")))
BalancesPage == List("always", "back")
MovementsPage == List("always", "back")
LotsPage == List("always", "back")
PayablesPage == List("always", "moves")
ReceivablesPage == List("always", "moves")
CashflowPage == List("always", "moves")
FinancialStatementPage == Unpaged(List("untilSet", "moves"))
BankReconciliationPage == List("withRows", "moves")
SuppliersPage == List("always", "moves")
PurchaseOrdersPage == List("always", "moves")
PeoplePage == List("always", "moves")
CompaniesPage == List("never", "moves")
BranchesPage == List("never", "moves")
MembersPage == Unpaged(List("never", "moves"))
\* Its filter only hides rows that are held.
InvitationsPage == Unpaged(List("never", "moves"))
DevicesPage == Unpaged(List("withRows", "moves"))
FiscalDocumentsPage == Linked(List("always", "moves"))
TransactionsPage == Linked(List("always", "moves"))
ReconciliationBatchesPage == Linked(List("never", "moves"))

\* Pages that app/App.tsx does not route.
SubCategoriesPage == Cursor(List("withRows", "moves"))
TagsPage == Cursor(List("withRows", "moves"))
ActivitiesPage == List("withRows", "moves")
CustomerHistoryPage == List("withRows", "moves")
PipelinePage == List("withRows", "moves")
ChannelsPage == List("always", "back")
MarketplacesPage == List("always", "back")
OnlineOrdersPage == List("always", "back")
BillingsPage == List("always", "back")
FiscalCompensationsPage == List("always", "back")
InventoryCountsPage == List("withRows", "moves")
MovementReasonsPage == List("withRows", "moves")
ProductionOrdersPage == List("withRows", "moves")
StorageTypesPage == List("withRows", "moves")
\* Each of its tabs is a list.
ReplenishmentPage == Silent(List("never", "moves"))
StockMapPage == Unpaged(List("always", "moves"))
OpenPurchasesPage == List("withRows", "moves")
PurchaseReturnsPage == List("withRows", "moves")
SupplierQuotesPage == List("withRows", "moves")
PurchaseReceiptPage == Unpaged(List("always", "moves"))
CommissionsPage == List("withRows", "moves")
ConsignmentsPage == List("withRows", "moves")
PriceListsPage == List("withRows", "moves")
QuotesPage == List("withRows", "moves")
SalesOrdersPage == List("withRows", "moves")

Lists ==
    {SalesPage, CashSessionsPage, BrandsPage, CategoriesPage, UnitsPage, ProductsPage,
     ServicesPage, CombosPage, LabelsPage, BalancesPage, MovementsPage, LotsPage,
     PayablesPage, ReceivablesPage, CashflowPage, FinancialStatementPage,
     BankReconciliationPage, SuppliersPage, PurchaseOrdersPage, PeoplePage,
     CompaniesPage, BranchesPage, MembersPage, InvitationsPage, DevicesPage,
     FiscalDocumentsPage, TransactionsPage, ReconciliationBatchesPage,
     SubCategoriesPage, TagsPage, ActivitiesPage, CustomerHistoryPage, PipelinePage,
     ChannelsPage, MarketplacesPage, OnlineOrdersPage, BillingsPage,
     FiscalCompensationsPage, InventoryCountsPage, MovementReasonsPage,
     ProductionOrdersPage, StorageTypesPage, ReplenishmentPage, StockMapPage,
     OpenPurchasesPage, PurchaseReturnsPage, SupplierQuotesPage, PurchaseReceiptPage,
     CommissionsPage, ConsignmentsPage, PriceListsPage, QuotesPage, SalesOrdersPage}

-----------------------------------------------------------------------------
VARIABLES list,      \* the page that is looked at
          rows,      \* how many rows on the server match each setting
          choice,    \* the setting of the filters
          page,      \* the page that is asked for
          held,      \* the count last answered for a setting and a page
          failed,    \* the keys whose last answer was an error
          changes, faults,
          fewer,     \* rows have gone, or stopped to match, since the start
          seeks      \* the user looks through the whole list, and does nothing else

listVars == <<list, rows, choice, page, held, failed, changes, faults, fewer, seeks>>
server == <<rows, changes, fewer>>

Settings == Filters \cup {All}
Rows == {r \in [Settings -> Sizes] : \A c \in Settings : r[c] <= r[All]}

\* Mutant: the rows of a last page that is not full are not counted.
TotalPagesWhole(n) == n \div PageSize
TotalPages(n) == (n + PageSize - 1) \div PageSize

LastPage == 1 + (CHOOSE n \in Sizes : \A m \in Sizes : m <= n) \div PageSize
Keys == Settings \X (1..LastPage)
Key == <<choice, page>>

ListInit ==
    /\ list \in Lists /\ rows \in Rows
    /\ choice = All /\ page = 1
    /\ held = [k \in Keys |-> Unknown] /\ failed = {}
    /\ changes = 0 /\ faults = 0 /\ fewer = FALSE
    /\ seeks = FALSE

-----------------------------------------------------------------------------
(* Answers.  The backend has no page past the last one but the first.      *)

Answered == held[Key] # Unknown \/ Key \in failed
There == list.by = "cursor" \/ page = 1 \/ (page - 1) * PageSize < rows[choice]

Arrive ==
    IF There THEN /\ held' = [held EXCEPT ![Key] = rows[choice]]
                  /\ failed' = failed \ {Key}
    ELSE /\ failed' = failed \cup {Key}
         /\ UNCHANGED held

Load ==
    /\ ~Answered /\ Arrive
    /\ UNCHANGED <<list, server, choice, page, faults, seeks>>

\* A change made on the page, or the page is come back to.
Refetch ==
    /\ Answered /\ Arrive
    /\ UNCHANGED <<list, server, choice, page, faults, seeks>>

\* No answer, after every retry: also where rows are held the page becomes an error.
Fail ==
    /\ faults < MaxFaults /\ faults' = faults + 1
    /\ failed' = failed \cup {Key}
    /\ UNCHANGED <<list, server, choice, page, held, seeks>>

-----------------------------------------------------------------------------
(* What is drawn: nothing while nothing is held (isLoading), nothing to go *)
(* on with after an error.                                                 *)

Errs == Key \in failed
Drawn == IF Errs THEN list.error = "empty" ELSE held[Key] # Unknown
Seen == held[Key] # Unknown /\ (page - 1) * PageSize < held[Key]

FiltersDrawn ==
    /\ Drawn
    /\ \/ list.drawn = "always"
       \/ list.drawn = "withRows" /\ Seen
       \/ list.drawn = "untilSet" /\ choice = All

Numbered == list.pager = "count" /\ list.by = "number"
NextDrawn ==
    /\ Drawn /\ held[Key] # Unknown
    /\ \/ Numbered /\ page < TotalPages(held[Key])
       \/ list.pager = "links" /\ page * PageSize < held[Key]
PreviousDrawn ==
    /\ Drawn /\ page > 1
    /\ \/ Numbered /\ held[Key] # Unknown /\ TotalPages(held[Key]) > 1
       \/ list.pager = "links"

\* A key without data that is come to is asked for anew.
Go(c, p) ==
    /\ choice' = c /\ page' = p
    /\ failed' = failed \ {k \in failed : k = <<c, p>> /\ held[k] = Unknown}
    /\ UNCHANGED <<list, server, held, faults, seeks>>

TurnTo(p) == Go(choice, IF list.turns = "moves" THEN p ELSE 1)

TurnOn == NextDrawn /\ TurnTo(page + 1)
TurnBack == ~seeks /\ PreviousDrawn /\ TurnTo(page - 1)

\* Mutant: the page is kept.
ChooseHere(c) ==
    /\ c # choice /\ FiltersDrawn
    /\ seeks => c = All
    /\ Go(c, page)

Choose(c) ==
    /\ c # choice /\ FiltersDrawn
    /\ seeks => c = All
    /\ Go(c, 1)

\* The user leaves and comes back; what was held may have been dropped meanwhile.
Reopen ==
    /\ ~seeks
    /\ choice' = All /\ page' = 1
    /\ \/ /\ UNCHANGED held
          /\ failed' = failed \ {k \in failed : held[k] = Unknown}
       \/ /\ held' = [k \in Keys |-> Unknown]
          /\ failed' = {}
    /\ UNCHANGED <<list, server, faults, seeks>>

Seek ==
    /\ ~seeks /\ seeks' = TRUE
    /\ UNCHANGED <<list, server, choice, page, held, failed, faults>>

\* Anybody's work on the server.
Change ==
    /\ changes < MaxChanges /\ changes' = changes + 1
    /\ rows' \in Rows \ {rows}
    /\ fewer' = (fewer \/ \E c \in Settings : rows'[c] < rows[c])
    /\ UNCHANGED <<list, choice, page, held, failed, faults, seeks>>

ListNext ==
    \/ Load \/ Refetch \/ Fail
    \/ TurnOn \/ TurnBack \/ \E c \in Settings : Choose(c)
    \/ Reopen \/ Seek \/ Change

\* Every request ends; a user who looks through the list goes on doing so.
Fairness ==
    /\ WF_listVars(Load)
    /\ WF_listVars(seeks /\ TurnOn)
    /\ WF_listVars(seeks /\ Choose(All))

ListSpec == ListInit /\ [][ListNext]_listVars /\ Fairness

-----------------------------------------------------------------------------
\* The list's filters went away with the last row that they left, or with the
\* first setting: there is no way back to the whole list on the page.
Trapped == choice # All /\ Drawn /\ ~FiltersDrawn
EndShown == choice = All /\ held[Key] # Unknown /\ page * PageSize >= held[Key]

\* On a list that is paged by number and turns its pages, a user who looks for a row
\* comes to the end of the whole list as it was answered, from whatever filter and page,
\* while rows come and go - unless an answer is an error (drawn without page buttons
\* or filters) or the page hides its filters (totalPages, disabled and setPage of
\* the list pages).
EndIsReached ==
    (seeks /\ list.turns = "moves" /\ list.by = "number" /\ list.pager # "none")
        ~> (EndShown \/ Errs \/ Trapped)

\* A list page is never an error of its own making: the page it asks for was there
\* (setPage(1), page=1 of every filter), unless a request failed or rows went away.
ErrorHasCause == Errs => faults > 0 \/ fewer

=============================================================================
