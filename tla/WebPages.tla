------------------------------ MODULE WebPages ------------------------------
(***************************************************************************)
(* The pages of the web front end (src/frontend/src, as app/App.tsx routes *)
(* them) and their forms.  A page is the set of its queries: under which   *)
(* key each keeps its answer and for what it asks.  A form is what its     *)
(* mutation changes and what it does with the answer.  All keys hold the   *)
(* tenant, which is left out here.                                         *)
(***************************************************************************)
EXTENDS Naturals, WebApi

\* useQuery: the name its key begins with, the function, and what else is in the
\* key: all that the function asks for, or a name of a look-up.
Query(root, get, key) == [root |-> root, get |-> get, key |-> key]
Lookup(root, get, name) == Query(root, get, {name})
First == "1"

\* useMutation: the keys its onSuccess invalidates.  Unless said otherwise the
\* button is disabled while the form waits, and the form is gone when it succeeds.
Form(change, roots) ==
    [change |-> change, reaches |-> roots, locked |-> TRUE, stays |-> FALSE,
     kept |-> FALSE, puts |-> FALSE]
Stays(f) == [f EXCEPT !.stays = TRUE]
Unlocked(f) == [f EXCEPT !.locked = FALSE]
\* One idempotency key for as long as the form is open, not one for each attempt.
KeptKey(f) == [f EXCEPT !.kept = f.change.keyed]
\* setQueryData instead of invalidateQueries.
Putting(f) == [f EXCEPT !.puts = TRUE]

-----------------------------------------------------------------------------
(* sales                                                                   *)

SalesPage == {Query("sales", fetchSales, {"page", "status", "from", "to"})}
SaleDetailPage == {Query("sale", fetchSale, {"id"})}
SaleDialog == Query("sale-dialog", fetchSale, {"id"})
CashSessionsPage == {Query("cash-sessions", fetchCashSessions, {"page", "from", "to"})}
CashSessionDetailPage == {Query("cash-session", fetchCashSession, {"id"})}

\* The roots "inventory" and "financial", which some of them invalidate as well, are
\* of no query.
ReturnDialog == KeptKey(Form(Keyed(Post({"sale", "thatSale", "stock", "session"})),
                             {"sale", "sales", "inventory", "financial"}))
CancellationDialog == KeptKey(Form(Keyed(Post({"sale", "thatSale", "stock", "session"})),
                                   {"sale", "sales", "inventory", "financial"}))
RefundDialog == KeptKey(Form(Keyed(Post({"sale", "thatSale", "session"})),
                             {"sale", "sales", "financial"}))

-----------------------------------------------------------------------------
(* catalog                                                                 *)

BrandsPage == {Query("brands", fetchBrands, {"page", "q"})}
BrandCreate == Form(createBrand, {"brands"})
\* The button that turns a brand off or on is not disabled while it waits.
BrandUpdate == Unlocked(Form(updateBrand, {"brands"}))
BrandQuickCreate == Unlocked(Putting(Form(createBrand, {})))

CategoriesPage == {Query("categories", fetchCategories, {"page", "q"}),
                   Lookup("categories", fetchCategories, "all")}
CategoryCreate == Form(createCategory, {"categories"})
CategoryUpdate == Unlocked(Form(Patch({"category"}), {"categories"}))
CategoryQuickCreate == Unlocked(Putting(Form(createCategory, {})))

UnitsPage == {Query("units", Get({"unit"}), {"page", "q"})}
UnitCreate == Form(Post({"unit"}), {"units"})
UnitUpdate == Form(Patch({"unit"}), {"units"})
UnitQuickCreate == Unlocked(Putting(Form(createUnit, {})))

ProductsPage == {Query("products", fetchProducts, {"page", "q", "category", "active"}),
                 Query("categories", fetchCategories, {})}
ProductForm == {Lookup("categories", fetchCategories, First),
                Lookup("units", Get({"unit"}), First),
                Query("product-fiscal-data", fetchProductFiscalData, {"id"}),
                Query("product-price-tiers", fetchProductPriceTiers, {"id"})}
\* With the bar code, whose failure is not looked at.
ProductCreate == Form(Post({"product", "code"}), {"products"})
ProductUpdate == Form(Patch({"product", "thatProduct", "code"}), {"products"})
FiscalData == Stays(Form(upsertProductFiscalData, {"product-fiscal-data"}))
TierCreate == Stays(Form(createProductPriceTier, {"product-price-tiers"}))
TierDelete == Stays(Form(deleteProductPriceTier, {"product-price-tiers"}))

ProductEditorPage == {Query("catalog-product", fetchProduct, {"id"}),
                      Query("catalog-product-stock-summary", fetchProductStockSummary,
                            {"id"})}
\* One command for the page, which goes on to another once the product is made.
EditorCreate == Unlocked(KeptKey(Form(applyProduct, {})))
\* The product, then its bar code.
EditorUpdate == Stays(Unlocked(Form(Then(updateProduct, updateProductCode), {})))

ProductIdentityStep == {Lookup("categories", fetchCategories, First),
                        Lookup("units", Get({"unit"}), First),
                        Lookup("brands", fetchBrands, First)}
ProductStockFields == {Lookup("branches", fetchBranches, First),
                       Query("stock-locations", fetchStockLocations, {"branch"})}
ProductFiscalStep == {Query("product-fiscal-data", fetchProductFiscalData, {"id"})}
FiscalStep == Stays(Form(upsertProductFiscalData, {"product-fiscal-data"}))

ProductPricesStep == {Query("product-prices", fetchProductPrices, {"id"}),
                      Query("product-price-tiers", fetchProductPriceTiers, {"id"})}
StepTierCreate == Stays(Form(createProductPriceTier, {"product-price-tiers"}))
\* Amount and tiers are written together, under a command of their own each time.
SnapshotTier == Stays(Form([createProductPricingSnapshot EXCEPT !.adds = FALSE],
                           {"product-prices"}))
StepTierDelete == Stays(Form(deleteProductPriceTier, {"product-price-tiers"}))
\* One command for as long as the step is there: a second amount is a conflict.
BasePriceSnapshot ==
    Stays(KeptKey(Form([createProductPricingSnapshot EXCEPT !.adds = FALSE],
                       {"product-prices"})))
\* A price that is no snapshot is changed by itself; a page with several of them,
\* where one would be added, has no button.
BasePriceUpdate == Stays(Form(updateProductPrice, {"product-prices"}))
BasePriceCreate == Stays(Form(createProductPrice, {"product-prices"}))

ProductInventoryStep == {Query("product-stock-summary", fetchStockSummary, {"id"}),
                         Query("product-stock-policies", fetchProductStockPolicies,
                               {"id"})}
StockPolicy == Stays(Form(updateProductStockPolicy,
                          {"product-stock-summary", "product-stock-policies"}))

ProductCompositionStep ==
    {Query("product-composition-info", fetchProduct, {"id"}),
     Query("product-composition", fetchComposition, {"id"}),
     Query("products-for-composition", NoSignal(fetchProducts), {})}
CompositionAdd == Stays(Form(createCompositionItem, {"product-composition"}))
CompositionDelete == Stays(Form(deleteCompositionItem, {"product-composition"}))

ProductChannelsStep == {Query("channel-profiles", fetchChannelProfiles, {"id"})}
ChannelCreate == Stays(Form(createChannelProfile, {"channel-profiles"}))
ChannelSave == Stays(Form(saveChannelProfile, {"channel-profiles"}))
ChannelPublish == Stays(Form(publishChannel, {"channel-profiles"}))

ProductMediaPanel == {Query("product-images", fetchProductImages, {"id"})}
\* Several files are sent at once.
ImageUpload == Stays(Unlocked(Form(uploadProductImage, {"product-images"})))

ServicesPage == {Query("services", fetchProducts, {"q"})}
ServiceEditorPage == {Query("service", Get({"thatProduct"}), {"id"}),
                      Lookup("categories", fetchCategories, First),
                      Lookup("units", Get({"unit"}), First)}
ServiceCreate == Form(persistServiceExtensions(Post({"product"})), {"services"})
ServiceUpdate == Form(Then(updateProduct, upsertProductFiscalData), {"services"})

CombosPage == {Query("combos", fetchCombos, {"page", "q"})}
ComboEditorPage == {Query("combo", fetchCombo, {"id"}),
                    Lookup("products", fetchProducts, "combo-editor")}
ComboCreate == Form(createCombo, {"combos"})
ComboUpdate == Stays(Form(updateCombo, {"combo", "combos"}))
\* Mutant: the combo that is on the page is not told of its new item.
ComboItemAddUntold == Stays(Form(addComboItem, {"combos"}))
ComboItemAdd == Stays(Form(addComboItem, {"combo", "combos"}))
ComboItemRemove == Stays(Form(removeComboItem, {"combo", "combos"}))

LabelsPage == {Query("products", fetchProducts, {"page", "search", "category"}),
               Query("categories", fetchCategories, {}),
               Query("brands", fetchBrands, {}),
               Query("label-templates", fetchLabelTemplates, {})}

-----------------------------------------------------------------------------
(* inventory, financial                                                    *)

Branches == Lookup("branches", fetchBranches, First)

BalancesPage == {Query("balances", fetchBalances,
                       {"page", "branch", "product", "location"}), Branches}
MovementsPage == {Query("movements", fetchMovements,
                        {"page", "from", "to", "type", "branch"}), Branches}
LotsPage == {Query("lots", fetchLots, {"page", "branch", "product", "expiring"}),
             Branches}

Obligations == {"page", "status", "from", "to", "branch", "account"}
PayablesPage == {Query("payables", fetchPayables, Obligations), Branches}
ReceivablesPage == {Query("receivables", fetchReceivables, Obligations), Branches}
CashflowPage == {Query("cashflow", fetchCashflow, {"page", "from", "to", "branch"}),
                 Branches}
FinancialStatementPage == {Query("financial-statement", Get({"cashflow"}),
                                 {"account", "from", "to"})}
BankReconciliationPage == {Query("bank-reconciliations", Get({"reconciliation"}),
                                 {"page", "q"})}
ReportsPage == {Query("financial-reports", fetchReports, {})}

\* Of what is to be paid, or to be received.
PayableSettlement == Form(settlePayable, {"payables", "receivables", "cashflow"})
ReceivableSettlement == Form(settleReceivable, {"payables", "receivables", "cashflow"})
ReportGenerate == Stays(Form(generateReport, {"financial-reports"}))

-----------------------------------------------------------------------------
(* purchasing, people, organization                                        *)

SuppliersPage == {Query("suppliers", fetchSuppliers, {"page", "q", "active"})}
SupplierCreate == Form(createSupplier, {"suppliers"})
SupplierUpdate == Form(updateSupplier, {"suppliers"})

PurchaseOrdersPage == {Query("purchase-orders", fetchPurchaseOrders, {"page", "status"})}
PurchaseOrderDetailPage == {Query("purchase-order", fetchPurchaseOrder, {"id"})}
PurchaseOrderEditor == {Query("suppliers", fetchSuppliers, {"page", "q", "active"}),
                        Branches,
                        Query("purchase-order", fetchPurchaseOrder, {"id"})}
OrderApprove == Stays(Form(approvePurchaseOrder, {"purchase-order", "purchase-orders"}))
\* They go to the order half a second after they succeed.
OrderCreate == Stays(Form(createPurchaseOrder, {"purchase-orders"}))
OrderUpdate == Stays(Form(updatePurchaseOrder, {"purchase-order", "purchase-orders"}))
EditorApprove == Stays(Form(approvePurchaseOrder, {"purchase-order", "purchase-orders"}))

PeoplePage == {Query("people", Get({"person"}), {"page", "q", "role", "active"})}
PersonDetailPage == {Query("person", fetchPerson, {"id"})}
PersonCreate == Form(Post({"person"}), {"people"})
PersonDeactivate == Form(deactivatePerson, {"person", "people"})
AddressCreate == Form(createAddress, {"person"})
AddressUpdate == Form(updateAddress, {"person"})
ContactCreate == Form(createContact, {"person"})
ContactUpdate == Form(updateContact, {"person"})
ConsentGrant == Form(grantConsent, {"person"})
ConsentRevoke == Form(revokeConsent, {"person"})

CompaniesPage == {Query("companies", Get({"company"}), {"page"})}
CompanyCreate == Form(Post({"company"}), {"companies"})
CompanyUpdate == Form(Patch({"company"}), {"companies"})
BranchesPage == {Query("branches", fetchBranches, {"page"})}
BranchForm == {Lookup("companies", Get({"company"}), First)}
BranchCreate == Form(Post({"branch"}), {"branches"})
BranchUpdate == Form(Patch({"branch"}), {"branches"})

-----------------------------------------------------------------------------
(* access, devices, fiscal, payments, and what is on every page            *)

MembersPage == {Query("memberships", Get({"member"}), {})}
MemberUpdate == Form(Patch({"member"}), {"memberships"})
InvitationsPage == {Query("invitations", Get({"invitation"}), {})}
InvitationCreate == Form(Post({"invitation"}), {"invitations"})
InvitationResend == Stays(Unlocked(Form(Patch({"invitation"}), {"invitations"})))
MfaPolicyPage == {Query("mfa-policy", Get({"mfa"}), {})}
MfaPolicyUpdate == Stays(Form(Patch({"mfa"}), {"mfa-policy"}))
DevicesPage == {Query("devices", Get({"device"}), {"status"})}
DeviceRevoke == Form(Patch({"device"}), {"devices"})

FiscalConfigPage == {Query("fiscal-emitters", listEmitters, {})}
EmitterCreate == Form(createEmitter, {"fiscal-emitters"})
EmitterUpdate == Form(updateEmitter, {"fiscal-emitters"})
FiscalDocumentsPage == {Query("fiscal-documents", listDocuments,
                              {"page", "status", "direction"})}
FiscalDocumentDetailPage == {Query("fiscal-document", getDocument, {"id"})}
DocumentRetry == Form(retryDocument, {"fiscal-document"})
DocumentCancel == Form(cancelDocument, {"fiscal-document"})
ProductConfigPage == {Query("fiscal-product-configs", listProductConfigs, {})}

ProviderConfigPage == {Query("payment-provider-configs", listProviderConfigs, {})}
ProviderCreate == Form(createProviderConfig, {"payment-provider-configs"})
ProviderUpdate == Form(updateProviderConfig, {"payment-provider-configs"})
TransactionsPage == {Query("payment-transactions", listTransactions,
                           {"page", "intent", "type"})}
ReconciliationBatchesPage == {Query("payment-reconciliation-batches",
                                    listReconciliationBatches, {"page"})}
ReconciliationBatchDetailPage == {Query("payment-reconciliation-batch",
                                        getReconciliationBatch, {"id"})}
BatchConfirm == Stays(Form(confirmReconciliationBatch,
                           {"payment-reconciliation-batches"}))

useFavorites == {Query("favorites", getFavorites, {})}
FavoriteRemove == Stays(Unlocked(Form(deleteFavorite, {"favorites"})))
useKeyboardShortcuts == {Query("shortcuts", getShortcuts, {})}
GlobalSearch == {Query("search", search, {"query"})}
OperationsPage == {Query("monitoring", fetchOperations, {})}

-----------------------------------------------------------------------------
(* Pages that app/App.tsx does not route: they are there, with their tests, *)
(* but no address leads to them yet.                                       *)

SubCategoriesPage == {Query("subcategories", Get({"subCategory"}), {"page", "q"}),
                      Lookup("categories", fetchCategories, "all")}
SubCategoryCreate == Form(Post({"subCategory"}), {"subcategories"})
SubCategoryUpdate == Unlocked(Form(Patch({"subCategory"}), {"subcategories"}))
TagsPage == {Query("tags", Get({"tag"}), {"page", "q"})}
TagCreate == Form(Post({"tag"}), {"tags"})
TagUpdate == Unlocked(Form(Patch({"tag"}), {"tags"}))

ActivitiesPage == {Query("activities", Get({"activity"}), {"page", "q"})}
ActivityComplete == Stays(Form(Patch({"activity"}), {"activities"}))
ActivityCancel == Stays(Form(Patch({"activity"}), {"activities"}))
CustomerHistoryPage == {Query("customer-history", Get({"history"}), {"page", "q"})}
PipelinePage == {Query("pipelines", Get({"pipeline"}), {}),
                 Query("opportunities", Get({"opportunity"}), {"page", "q"})}

\* The look-up asks for the first page under a key that begins as the page's does.
Channels == Lookup("channels", fetchChannels, First)
ChannelsPage == {Query("channels", fetchChannels, {"page", "status", "type"})}
MarketplacesPage == {Query("marketplaces", fetchMarketplaces, {"page", "status", "channel"}),
                     Channels}
OnlineOrdersPage == {Query("onlineOrders", fetchOnlineOrders,
                           {"page", "status", "payment", "channel"}), Channels}

Dated == {"page", "status", "from", "to", "branch"}
BillingsPage == {Query("billings", fetchBillings, Dated), Branches}
FiscalCompensationsPage == {Query("fiscalCompensations", fetchFiscalCompensations, Dated),
                            Branches}
DREPage == {Query("dre", fetchDREReport, {"from", "to", "branch"}), Branches}

InventoryCountsPage == {Query("inventory-counts", Get({"count"}), {"page", "q"})}
MovementReasonsPage == {Query("movement-reasons", Get({"reason"}), {"page", "q"})}
ProductionOrdersPage == {Query("production-orders", Get({"production"}), {"page", "q"})}
StorageTypesPage == {Query("storage-types", Get({"storageType"}), {"page", "q"})}
ReplenishmentPage == {Query("replenishment-rules", Get({"replenishmentRule"}), {"page"}),
                      Query("replenishment-orders", Get({"replenishmentOrder"}), {"page"})}
StockMapPage == {Query("stock-map", Get({"stock"}), {"location", "product"})}
\* They know the balances and the movements, of all that shows the stock.
Adjustment == KeptKey(Form(createMovement, {"balances", "movements"}))
Receipt == KeptKey(Form(createMovement, {"balances", "movements"}))
Transfer == KeptKey(Form(createMovement, {"balances", "movements"}))

OpenPurchasesPage == {Query("open-purchases", Get({"order"}), {"page", "q"})}
PurchaseReturnsPage == {Query("supplier-returns", Get({"supplierReturn"}), {"page", "q"})}
SupplierQuotesPage == {Query("supplier-quotes", Get({"supplierQuote"}), {"page", "q"})}
PurchaseReceiptPage == {Query("receipts", fetchReceipts, {"status", "order"})}
ReceiptDetailPage == {Query("receipt", fetchReceiptDetail, {"id"})}
ReceiptForm == {Query("orders-list", Get({"order"}), {}),
                Query("order-detail", Get({"thatOrder"}), {"id"})}
ReturnForm == {Query("orders-list", Get({"order"}), {}),
               Query("order-detail", Get({"thatOrder"}), {"id"})}
SupplierReturnPage == {Query("returns", fetchReturns, {})}
RecurringTemplatesPage == {Query("templates", fetchTemplates, {})}
\* The form goes on to show the receipt it made.
ReceiptCreate == KeptKey(Form(createReceipt, {"receipts"}))
ReceiptCancel == Form(cancelReceipt, {"receipts", "receipt"})
ReturnCreate == KeptKey(Form(createReturn, {"returns"}))
TemplateToggle == Stays(Unlocked(Form(toggleTemplate, {"templates"})))

CommissionsPage == {Query("commissions", Get({"commission"}), {"page", "q"})}
CommissionApprove == Stays(Form(Patch({"commission"}), {"commissions"}))
CommissionPay == Stays(Form(Patch({"commission"}), {"commissions"}))
CommissionCancel == Stays(Form(Patch({"commission"}), {"commissions"}))
PriceListsPage == {Query("price-lists", Get({"priceList"}), {"page", "q"})}
QuotesPage == {Query("quotes", Get({"quote"}), {"page", "q"})}
SalesOrdersPage == {Query("sales-orders", Get({"salesOrder"}), {"page", "q"})}
ConsignmentsPage == {Query("consignments", Get({"consignment"}), {"page", "q"})}
\* A quote or an order becomes a counter sale; a consignment is only closed.
Sold == {"sale", "stock", "session", "receivable", "cashflow"}
QuoteConvert == Stays(Form(Patch({"quote"} \cup Sold), {"quotes"}))
OrderConvert == Stays(Form(Patch({"salesOrder"} \cup Sold), {"sales-orders"}))
ConsignmentConvert == Stays(Form(Patch({"consignment"}), {"consignments"}))

\* Routed, but outside any tenant or without a query of its own.
DashboardPage == {Query("health", healthCheck, {})}
FiscalReceiptValidate == Stays(Form(validateFiscalReceipt, {}))

-----------------------------------------------------------------------------
(* What is looked at: a form, and a query that reads what the form changes. *)

Queries == {SaleDialog} \cup UNION {
    SalesPage, SaleDetailPage, CashSessionsPage, CashSessionDetailPage,
    BrandsPage, CategoriesPage, UnitsPage, ProductsPage, ProductForm,
    ProductEditorPage, ProductIdentityStep, ProductStockFields,
    ProductFiscalStep, ProductPricesStep, ProductInventoryStep,
    ProductCompositionStep, ProductChannelsStep, ProductMediaPanel,
    ServicesPage, ServiceEditorPage, CombosPage, ComboEditorPage, LabelsPage,
    BalancesPage, MovementsPage, LotsPage, PayablesPage, ReceivablesPage, CashflowPage,
    FinancialStatementPage, BankReconciliationPage, ReportsPage,
    SuppliersPage, PurchaseOrdersPage, PurchaseOrderDetailPage,
    PurchaseOrderEditor, PeoplePage, PersonDetailPage, CompaniesPage,
    BranchesPage, BranchForm, MembersPage, InvitationsPage, MfaPolicyPage,
    DevicesPage, FiscalConfigPage, FiscalDocumentsPage,
    FiscalDocumentDetailPage, ProductConfigPage, ProviderConfigPage,
    TransactionsPage, ReconciliationBatchesPage,
    ReconciliationBatchDetailPage, useFavorites, useKeyboardShortcuts,
    GlobalSearch, OperationsPage, SubCategoriesPage, TagsPage,
    ActivitiesPage, CustomerHistoryPage, PipelinePage, ChannelsPage,
    MarketplacesPage, OnlineOrdersPage, BillingsPage, FiscalCompensationsPage,
    DREPage, InventoryCountsPage, MovementReasonsPage, ProductionOrdersPage,
    StorageTypesPage, ReplenishmentPage, StockMapPage, OpenPurchasesPage,
    PurchaseReturnsPage, SupplierQuotesPage, PurchaseReceiptPage,
    ReceiptDetailPage, ReceiptForm, ReturnForm, SupplierReturnPage,
    RecurringTemplatesPage, CommissionsPage, PriceListsPage, QuotesPage,
    SalesOrdersPage, ConsignmentsPage, DashboardPage}

Forms == {
    ReturnDialog, CancellationDialog, RefundDialog, BrandCreate, BrandUpdate,
    BrandQuickCreate, CategoryCreate, CategoryUpdate, CategoryQuickCreate,
    UnitCreate, UnitUpdate, UnitQuickCreate, ProductCreate, ProductUpdate,
    FiscalData, TierCreate, TierDelete, EditorCreate, EditorUpdate,
    FiscalStep, StepTierCreate, SnapshotTier, StepTierDelete, BasePriceSnapshot,
    BasePriceUpdate, BasePriceCreate, StockPolicy, CompositionAdd, CompositionDelete, ChannelCreate,
    ChannelSave, ChannelPublish, ImageUpload, ServiceCreate, ServiceUpdate,
    ComboCreate, ComboUpdate, ComboItemAdd, ComboItemRemove, PayableSettlement,
    ReceivableSettlement, ReportGenerate, SupplierCreate, SupplierUpdate, OrderApprove, OrderCreate,
    OrderUpdate, EditorApprove, PersonCreate, PersonDeactivate, AddressCreate,
    AddressUpdate, ContactCreate, ContactUpdate, ConsentGrant, ConsentRevoke,
    CompanyCreate, CompanyUpdate, BranchCreate, BranchUpdate, MemberUpdate,
    InvitationCreate, InvitationResend, MfaPolicyUpdate, DeviceRevoke,
    EmitterCreate, EmitterUpdate, DocumentRetry, DocumentCancel,
    ProviderCreate, ProviderUpdate, BatchConfirm, FavoriteRemove,
    SubCategoryCreate, SubCategoryUpdate, TagCreate, TagUpdate,
    ActivityComplete, ActivityCancel, Adjustment, Receipt, Transfer,
    ReceiptCreate, ReceiptCancel, ReturnCreate, TemplateToggle,
    CommissionApprove, CommissionPay, CommissionCancel, QuoteConvert,
    OrderConvert, ConsignmentConvert, FiscalReceiptValidate}

Puts(f, q) == f.puts /\ q.key \subseteq {First}

\* What the pages leave as it was for up to half a minute, or until they are loaded
\* anew, although the form changed it.
Leaves(forms, roots) == {x \in forms \X Queries : x[2].root \in roots /\ ~Puts(x[1], x[2])}

\* The lists of the stock, of which the pages know the first two at most.
Stocks == {"balances", "movements", "lots", "product-stock-summary",
           "catalog-product-stock-summary", "stock-map"}

Unreached == UNION {
    \* The balances, the movements and the sessions of the tills, which the plan for
    \* these dialogs has refreshed; and the sale itself when the next dialog opens.
    Leaves({ReturnDialog, CancellationDialog},
           {"sale-dialog", "cash-sessions", "cash-session", "dre"} \cup Stocks),
    Leaves({RefundDialog}, {"sale-dialog", "cash-sessions", "cash-session", "dre"}),
    \* The editors invalidate neither what they show nor, for products, the list.
    Leaves({EditorCreate},
           {"products", "services", "search", "products-for-composition"}
               \cup Stocks),
    Leaves({EditorUpdate},
           {"products", "services", "search", "products-for-composition",
            "catalog-product", "product-composition-info", "service"}),
    Leaves({ServiceCreate, ServiceUpdate},
           {"products", "search", "products-for-composition"}),
    Leaves({ServiceUpdate},
           {"service", "catalog-product", "product-composition-info",
            "product-fiscal-data"}),
    Leaves({ProductCreate, ProductUpdate},
           {"services", "search", "products-for-composition"}),
    Leaves({ProductUpdate}, {"catalog-product", "product-composition-info", "service"}),
    Leaves({BrandQuickCreate}, {"brands"}),
    Leaves({CategoryQuickCreate}, {"categories"}),
    Leaves({UnitQuickCreate}, {"units"}),
    Leaves({BasePriceSnapshot, SnapshotTier}, {"product-price-tiers"}),
    Leaves({PayableSettlement}, {"financial-statement", "dre"}),
    Leaves({ReceivableSettlement}, {"financial-statement"}),
    Leaves({PersonCreate, PersonDeactivate}, {"search"}),
    Leaves({DocumentRetry, DocumentCancel}, {"fiscal-documents"}),
    Leaves({BatchConfirm},
           {"payment-reconciliation-batch", "cashflow", "financial-statement"}),
    \* Pages without a route are unknown to the others, and know few of them.
    Leaves({Adjustment, Receipt, Transfer}, Stocks \ {"balances", "movements"}),
    Leaves({QuoteConvert, OrderConvert},
           {"sales", "cash-sessions", "cash-session", "receivables", "cashflow",
            "financial-statement", "dre"} \cup Stocks),
    Leaves({OrderCreate, OrderUpdate, OrderApprove, EditorApprove},
           {"open-purchases", "orders-list", "dre"}),
    Leaves({OrderUpdate, OrderApprove, EditorApprove}, {"order-detail"}),
    Leaves({ReceiptCreate, ReceiptCancel},
           {"purchase-orders", "purchase-order", "open-purchases", "orders-list",
            "order-detail", "payables", "dre"} \cup Stocks),
    Leaves({ReturnCreate}, {"supplier-returns", "payables", "dre"} \cup Stocks)}

Kind(f, q) ==
    [reached |-> q.root \in f.reaches, put |-> Puts(f, q),
     unreached |-> <<f, q>> \in Unreached,
     signal |-> q.get.signal, locked |-> f.locked, stays |-> f.stays,
     kept |-> f.kept, keyed |-> f.change.keyed, adds |-> f.change.adds,
     steps |-> f.change.steps]
AllKinds == {Kind(x[1], x[2]) :
               x \in {y \in Forms \X Queries : y[1].change.writes \cap y[2].get.reads # {}}}

\* A form that changes a row, does so in one request, or has no key, does nothing that
\* one that adds a row, takes two or makes a key for each does not do; nor does one that
\* is gone when it succeeds, when nothing else of it is under way, to one that stays and
\* is closed; nor a fetch that may be called off to one without a signal that fails.
Covers(wide, k) ==
    /\ wide = [k EXCEPT !.adds = wide.adds, !.steps = wide.steps,
                        !.keyed = wide.keyed, !.stays = wide.stays,
                        !.signal = wide.signal]
    /\ k.adds => wide.adds
    /\ k.keyed => wide.keyed
    /\ k.steps <= wide.steps
    /\ k.stays # wide.stays => k.locked /\ wide.stays
    /\ wide.signal => k.signal
Kinds == {k \in AllKinds : \A wide \in AllKinds : Covers(wide, k) => wide = k}

=============================================================================
