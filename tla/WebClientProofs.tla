-------------------------- MODULE WebClientProofs --------------------------
(***************************************************************************)
(* Proofs about WebClient, for any tenants, any settings of the filters    *)
(* and any number of requests and moves.  What a kind of form and query is *)
(* like is WebPages' business; of its table the proofs ask two facts:      *)
(* KeptAtOnce, and EachAccounted, which compares every form with every     *)
(* query.                                                                  *)
(***************************************************************************)
EXTENDS WebClient, FiniteSetTheorems, TLAPS

\* A change under a kept key is one request.
KeptAtOnce == \A k \in Kinds : k.kept => k.steps = 1

-----------------------------------------------------------------------------
(* The table: what every form of WebPages is like.                         *)

LEMMA FormsAtOnce == \A f \in Forms : f.kept => f.change.steps = 1
<1> DEFINE Sound(f) == f.kept => f.change.steps = 1
<1>0. \A change, roots : /\ Sound(Form(change, roots))
                         /\ Sound(Stays(Form(change, roots)))
                         /\ Sound(Unlocked(Putting(Form(change, roots))))
                         /\ Sound(Unlocked(Form(change, roots)))
                         /\ Sound(Stays(Unlocked(Form(change, roots))))
    BY DEF Form, Stays, Unlocked, Putting
<1>1. \A change, roots : change.steps = 1 =>
            /\ Sound(KeptKey(Form(change, roots)))
            /\ Sound(Unlocked(KeptKey(Form(change, roots))))
            /\ Sound(Stays(KeptKey(Form(change, roots))))
    BY DEF Form, Stays, Unlocked, KeptKey
<1>2. /\ \A resources : Keyed(Post(resources)).steps = 1
      /\ [createProductPricingSnapshot EXCEPT !.adds = FALSE].steps = 1
    BY DEF Keyed, Post, Change, createProductPricingSnapshot
<1>3. /\ \A resources, roots : Sound(KeptKey(Form(Keyed(Post(resources)), roots)))
      /\ Sound(EditorCreate) /\ Sound(BasePriceSnapshot)
    BY <1>1, <1>2 DEF EditorCreate, BasePriceSnapshot, applyProduct
<1> HIDE DEF Sound
<1>4. \A f \in {ReturnDialog, CancellationDialog, RefundDialog,
           BrandCreate, BrandUpdate, BrandQuickCreate, CategoryCreate,
           CategoryUpdate} : Sound(f)
    BY <1>0, <1>3 DEF ReturnDialog, CancellationDialog, RefundDialog,
       BrandCreate, BrandUpdate, BrandQuickCreate, CategoryCreate,
       CategoryUpdate
<1>5. \A f \in {CategoryQuickCreate, UnitCreate, UnitUpdate,
           UnitQuickCreate, ProductCreate, ProductUpdate, FiscalData,
           TierCreate} : Sound(f)
    BY <1>0, <1>3 DEF CategoryQuickCreate, UnitCreate, UnitUpdate,
       UnitQuickCreate, ProductCreate, ProductUpdate, FiscalData,
       TierCreate
<1>6. \A f \in {TierDelete, EditorUpdate, FiscalStep, StepTierCreate,
           SnapshotTier, StepTierDelete, StockPolicy, CompositionAdd} :
           Sound(f)
    BY <1>0, <1>3 DEF TierDelete, EditorUpdate, FiscalStep,
       StepTierCreate, SnapshotTier, StepTierDelete, StockPolicy,
       CompositionAdd
<1>7. \A f \in {CompositionDelete, ChannelCreate, ChannelSave,
           ChannelPublish, ImageUpload, ServiceCreate, ServiceUpdate,
           ComboCreate} : Sound(f)
    BY <1>0, <1>3 DEF CompositionDelete, ChannelCreate, ChannelSave,
       ChannelPublish, ImageUpload, ServiceCreate, ServiceUpdate,
       ComboCreate
<1>8. \A f \in {ComboUpdate, ComboItemAdd, ComboItemRemove,
           PayableSettlement, ReceivableSettlement, ReportGenerate,
           SupplierCreate, SupplierUpdate, OrderApprove,
           BasePriceUpdate, BasePriceCreate} : Sound(f)
    BY <1>0, <1>3 DEF ComboUpdate, ComboItemAdd, ComboItemRemove,
       PayableSettlement, ReceivableSettlement, ReportGenerate,
       SupplierCreate, SupplierUpdate, OrderApprove,
       BasePriceUpdate, BasePriceCreate
<1>9. \A f \in {OrderCreate, OrderUpdate, EditorApprove, PersonCreate,
           PersonDeactivate, AddressCreate, AddressUpdate, ContactCreate}
           : Sound(f)
    BY <1>0, <1>3 DEF OrderCreate, OrderUpdate, EditorApprove,
       PersonCreate, PersonDeactivate, AddressCreate, AddressUpdate,
       ContactCreate
<1>10. \A f \in {ContactUpdate, ConsentGrant, ConsentRevoke,
           CompanyCreate, CompanyUpdate, BranchCreate, BranchUpdate,
           MemberUpdate} : Sound(f)
    BY <1>0, <1>3 DEF ContactUpdate, ConsentGrant, ConsentRevoke,
       CompanyCreate, CompanyUpdate, BranchCreate, BranchUpdate,
       MemberUpdate
<1>11. \A f \in {InvitationCreate, InvitationResend, MfaPolicyUpdate,
           DeviceRevoke, EmitterCreate, EmitterUpdate, DocumentRetry,
           DocumentCancel} : Sound(f)
    BY <1>0, <1>3 DEF InvitationCreate, InvitationResend, MfaPolicyUpdate,
       DeviceRevoke, EmitterCreate, EmitterUpdate, DocumentRetry,
       DocumentCancel
<1>12. \A f \in {ProviderCreate, ProviderUpdate, BatchConfirm,
           FavoriteRemove, SubCategoryCreate, SubCategoryUpdate,
           TagCreate, TagUpdate} : Sound(f)
    BY <1>0, <1>3 DEF ProviderCreate, ProviderUpdate, BatchConfirm,
       FavoriteRemove, SubCategoryCreate, SubCategoryUpdate,
       TagCreate, TagUpdate
<1>13. \A f \in {ActivityComplete, ActivityCancel, Adjustment, Receipt,
           Transfer, ReceiptCreate, ReceiptCancel, ReturnCreate} :
           Sound(f)
    BY <1>0, <1>3 DEF ActivityComplete, ActivityCancel, Adjustment,
       Receipt, Transfer, ReceiptCreate, ReceiptCancel, ReturnCreate,
       createMovement, createReceipt, createReturn
<1>14. \A f \in {TemplateToggle, CommissionApprove, CommissionPay,
           CommissionCancel, QuoteConvert, OrderConvert,
           ConsignmentConvert, FiscalReceiptValidate} : Sound(f)
    BY <1>0, <1>3 DEF TemplateToggle, CommissionApprove, CommissionPay,
       CommissionCancel, QuoteConvert, OrderConvert,
       ConsignmentConvert, FiscalReceiptValidate
<1>15. \A f \in Forms : Sound(f)
    BY <1>3, <1>4, <1>5, <1>6, <1>7, <1>8, <1>9, <1>10, <1>11, <1>12,
       <1>13, <1>14 DEF Forms
<1> QED
    BY <1>15 DEF Sound

LEMMA KindShape ==
    \A k \in Kinds : \E f \in Forms, q \in Queries :
        /\ k.kept = f.kept /\ k.steps = f.change.steps
<1> SUFFICES ASSUME NEW k \in Kinds
             PROVE  \E f \in Forms, q \in Queries :
                        /\ k.kept = f.kept /\ k.steps = f.change.steps
    OBVIOUS
<1>1. PICK f \in Forms, q \in Queries : k = Kind(f, q)
    BY DEF Kinds, AllKinds
<1>2. Kind(f, q).kept = f.kept
    BY DEF Kind
<1>3. Kind(f, q).steps = f.change.steps
    BY DEF Kind
<1> QED
    BY <1>1, <1>2, <1>3

LEMMA TableAtOnce == KeptAtOnce
BY FormsAtOnce, KindShape DEF KeptAtOnce

-----------------------------------------------------------------------------
(* The table, form against query.                                          *)

\* Which rows the queries under a root read.
Shows(row, root) ==
    \/ row = "activity" /\ root = "activities"
    \/ row = "batch" /\ root = "payment-reconciliation-batches"
    \/ row = "billing" /\ root = "billings"
    \/ row = "branch" /\ root = "branches"
    \/ row = "brand" /\ root = "brands"
    \/ row = "cashflow" /\ root \in {"cashflow", "financial-statement"}
    \/ row = "category" /\ root = "categories"
    \/ row = "channel" /\ root = "channel-profiles"
    \/ row = "combo" /\ root = "combos"
    \/ row = "commission" /\ root = "commissions"
    \/ row = "company" /\ root = "companies"
    \/ row = "compensation" /\ root = "fiscalCompensations"
    \/ row = "composition" /\ root = "product-composition"
    \/ row = "consignment" /\ root = "consignments"
    \/ row = "count" /\ root = "inventory-counts"
    \/ row = "device" /\ root = "devices"
    \/ row = "document" /\ root = "fiscal-documents"
    \/ row = "emitter" /\ root = "fiscal-emitters"
    \/ row = "favorite" /\ root = "favorites"
    \/ row = "fiscalData" /\ root = "product-fiscal-data"
    \/ row = "health" /\ root = "health"
    \/ row = "history" /\ root = "customer-history"
    \/ row = "image" /\ root = "product-images"
    \/ row = "invitation" /\ root = "invitations"
    \/ row = "location" /\ root = "stock-locations"
    \/ row = "marketplace" /\ root = "marketplaces"
    \/ row = "member" /\ root = "memberships"
    \/ row = "mfa" /\ root = "mfa-policy"
    \/ row = "onlineOrder" /\ root = "onlineOrders"
    \/ row = "operation" /\ root = "monitoring"
    \/ row = "opportunity" /\ root = "opportunities"
    \/ /\ row = "order"
       /\ root \in {"open-purchases", "orders-list", "purchase-orders", "dre"}
    \/ row = "payable" /\ root \in {"payables", "dre"}
    \/ row = "person" /\ root \in {"people", "search"}
    \/ row = "pipeline" /\ root = "pipelines"
    \/ row = "policy" /\ root = "product-stock-policies"
    \/ row = "price" /\ root = "product-prices"
    \/ row = "priceList" /\ root = "price-lists"
    \/ /\ row = "product"
       /\ root \in {"products", "products-for-composition", "search", "services"}
    \/ row = "productConfig" /\ root = "fiscal-product-configs"
    \/ row = "production" /\ root = "production-orders"
    \/ row = "provider" /\ root = "payment-provider-configs"
    \/ row = "quote" /\ root = "quotes"
    \/ row = "reason" /\ root = "movement-reasons"
    \/ row = "receipt" /\ root = "receipts"
    \/ row = "reconciliation" /\ root = "bank-reconciliations"
    \/ row = "recurring" /\ root = "templates"
    \/ row = "replenishmentOrder" /\ root = "replenishment-orders"
    \/ row = "replenishmentRule" /\ root = "replenishment-rules"
    \/ row = "report" /\ root = "financial-reports"
    \/ row = "receivable" /\ root = "receivables"
    \/ row = "sale" /\ root \in {"sales", "dre"}
    \/ row = "salesOrder" /\ root = "sales-orders"
    \/ row = "session" /\ root \in {"cash-session", "cash-sessions"}
    \/ row = "shortcut" /\ root = "shortcuts"
    \/ row = "stock" /\ root \in Stocks
    \/ row = "storageType" /\ root = "storage-types"
    \/ row = "storeChannel" /\ root = "channels"
    \/ row = "subCategory" /\ root = "subcategories"
    \/ row = "supplier" /\ root = "suppliers"
    \/ row = "supplierQuote" /\ root = "supplier-quotes"
    \/ row = "supplierReturn" /\ root \in {"returns", "supplier-returns"}
    \/ row = "tag" /\ root = "tags"
    \/ row = "template" /\ root = "label-templates"
    \/ row = "thatBatch" /\ root = "payment-reconciliation-batch"
    \/ row = "thatCombo" /\ root = "combo"
    \/ row = "thatDocument" /\ root = "fiscal-document"
    \/ row = "thatOrder" /\ root \in {"order-detail", "purchase-order"}
    \/ row = "thatPerson" /\ root = "person"
    \/ /\ row = "thatProduct"
       /\ root \in {"catalog-product", "product-composition-info", "service"}
    \/ row = "thatReceipt" /\ root = "receipt"
    \/ row = "thatSale" /\ root \in {"sale", "sale-dialog"}
    \/ row = "tier" /\ root = "product-price-tiers"
    \/ row = "transaction" /\ root = "payment-transactions"
    \/ row = "unit" /\ root = "units"

LEMMA QueriesRead ==
    \A q \in Queries : \A row \in q.get.reads : Shows(row, q.root)
<1> DEFINE Sound(q) == \A row \in q.get.reads : Shows(row, q.root)
<1>1. /\ \A root, row, key :
            Shows(row, root) => Sound(Query(root, Get({row}), key))
      /\ \A root, row, key :
            Shows(row, root) => Sound(Query(root, NoSignal(Get({row})), key))
      /\ \A root, row, name :
            Shows(row, root) => Sound(Lookup(root, Get({row}), name))
    BY DEF Query, Lookup, Get, NoSignal
<1>2. /\ Sound(Branches) /\ Sound(Channels)
      /\ Sound(Query("search", search, {"query"}))
      /\ \A key : Sound(Query("dre", fetchDREReport, key))
    BY DEF Branches, Channels, fetchBranches, fetchChannels, Lookup, Query, Get,
       search, fetchDREReport, Shows
<1> HIDE DEF Sound
<1>3. \A q \in SalesPage \cup SaleDetailPage \cup CashSessionsPage \cup
           CashSessionDetailPage : Sound(q)
  <2>1. Shows("sale", "sales") /\ Shows("session", "cash-session") /\
        Shows("session", "cash-sessions") /\ Shows("thatSale", "sale")
      BY DEF Shows
  <2> QED
      BY <1>1, <2>1 DEF SalesPage, SaleDetailPage, CashSessionsPage,
         CashSessionDetailPage, fetchSales, fetchSale, fetchCashSessions,
         fetchCashSession
<1>4. \A q \in BrandsPage \cup CategoriesPage \cup UnitsPage \cup
           ProductsPage : Sound(q)
  <2>1. Shows("brand", "brands") /\ Shows("category", "categories") /\
        Shows("product", "products") /\ Shows("unit", "units")
      BY DEF Shows
  <2> QED
      BY <1>1, <2>1 DEF BrandsPage, CategoriesPage, UnitsPage, ProductsPage,
         fetchBrands, fetchCategories, fetchProducts
<1>5. \A q \in ProductForm \cup ProductEditorPage \cup ProductIdentityStep
           \cup ProductStockFields : Sound(q)
  <2>1. Shows("branch", "branches") /\ Shows("brand", "brands") /\
        Shows("category", "categories") /\
        Shows("fiscalData", "product-fiscal-data") /\
        Shows("location", "stock-locations") /\
        Shows("stock", "catalog-product-stock-summary") /\
        Shows("thatProduct", "catalog-product") /\
        Shows("tier", "product-price-tiers") /\ Shows("unit", "units")
      BY DEF Shows, Stocks
  <2> QED
      BY <1>1, <2>1 DEF ProductForm, ProductEditorPage, ProductIdentityStep,
         ProductStockFields, fetchCategories, fetchProductFiscalData,
         fetchProductPriceTiers, fetchProductStockSummary, fetchProduct,
         fetchBrands, fetchBranches, fetchStockLocations
<1>6. \A q \in ProductFiscalStep \cup ProductPricesStep \cup
           ProductInventoryStep \cup ProductCompositionStep : Sound(q)
  <2>1. Shows("composition", "product-composition") /\
        Shows("fiscalData", "product-fiscal-data") /\
        Shows("policy", "product-stock-policies") /\
        Shows("price", "product-prices") /\
        Shows("product", "products-for-composition") /\
        Shows("stock", "product-stock-summary") /\
        Shows("thatProduct", "product-composition-info") /\
        Shows("tier", "product-price-tiers")
      BY DEF Shows, Stocks
  <2> QED
      BY <1>1, <2>1 DEF ProductFiscalStep, ProductPricesStep,
         ProductInventoryStep, ProductCompositionStep,
         fetchProductFiscalData, fetchProductPriceTiers, fetchProductPrices,
         fetchStockSummary, fetchProductStockPolicies, fetchProducts,
         fetchComposition, fetchProduct
<1>7. \A q \in ProductChannelsStep \cup ProductMediaPanel \cup ServicesPage
           \cup ServiceEditorPage : Sound(q)
  <2>1. Shows("category", "categories") /\
        Shows("channel", "channel-profiles") /\
        Shows("image", "product-images") /\ Shows("product", "services") /\
        Shows("thatProduct", "service") /\ Shows("unit", "units")
      BY DEF Shows
  <2> QED
      BY <1>1, <2>1 DEF ProductChannelsStep, ProductMediaPanel,
         ServicesPage, ServiceEditorPage, fetchChannelProfiles,
         fetchProductImages, fetchProducts, fetchCategories
<1>8. \A q \in CombosPage \cup ComboEditorPage \cup LabelsPage \cup
           BalancesPage : Sound(q)
  <2>1. Shows("brand", "brands") /\ Shows("category", "categories") /\
        Shows("combo", "combos") /\ Shows("product", "products") /\
        Shows("stock", "balances") /\ Shows("template", "label-templates")
        /\ Shows("thatCombo", "combo")
      BY DEF Shows, Stocks
  <2> QED
      BY <1>1, <2>1, <1>2 DEF CombosPage, ComboEditorPage, LabelsPage,
         BalancesPage, fetchCombos, fetchProducts, fetchCombo,
         fetchCategories, fetchBrands, fetchLabelTemplates, fetchBalances
<1>9. \A q \in MovementsPage \cup LotsPage \cup PayablesPage \cup
           ReceivablesPage : Sound(q)
  <2>1. Shows("payable", "payables") /\
        Shows("receivable", "receivables") /\ Shows("stock", "lots") /\
        Shows("stock", "movements")
      BY DEF Shows, Stocks
  <2> QED
      BY <1>1, <2>1, <1>2 DEF MovementsPage, LotsPage, PayablesPage,
         ReceivablesPage, fetchMovements, fetchLots, fetchPayables,
         fetchReceivables
<1>10. \A q \in CashflowPage \cup FinancialStatementPage \cup
           BankReconciliationPage \cup ReportsPage : Sound(q)
  <2>1. Shows("cashflow", "cashflow") /\
        Shows("cashflow", "financial-statement") /\
        Shows("reconciliation", "bank-reconciliations") /\
        Shows("report", "financial-reports")
      BY DEF Shows
  <2> QED
      BY <1>1, <2>1, <1>2 DEF CashflowPage, FinancialStatementPage,
         BankReconciliationPage, ReportsPage, fetchCashflow, fetchReports
<1>11. \A q \in SuppliersPage \cup PurchaseOrdersPage \cup
           PurchaseOrderDetailPage \cup PurchaseOrderEditor : Sound(q)
  <2>1. Shows("order", "purchase-orders") /\ Shows("supplier", "suppliers")
        /\ Shows("thatOrder", "purchase-order")
      BY DEF Shows
  <2> QED
      BY <1>1, <2>1, <1>2 DEF SuppliersPage, PurchaseOrdersPage,
         PurchaseOrderDetailPage, PurchaseOrderEditor, fetchSuppliers,
         fetchPurchaseOrders, fetchPurchaseOrder
<1>12. \A q \in PeoplePage \cup PersonDetailPage \cup CompaniesPage \cup
           BranchesPage : Sound(q)
  <2>1. Shows("branch", "branches") /\ Shows("company", "companies") /\
        Shows("person", "people") /\ Shows("thatPerson", "person")
      BY DEF Shows
  <2> QED
      BY <1>1, <2>1 DEF PeoplePage, PersonDetailPage, CompaniesPage,
         BranchesPage, fetchPerson, fetchBranches
<1>13. \A q \in BranchForm \cup MembersPage \cup InvitationsPage \cup
           MfaPolicyPage : Sound(q)
  <2>1. Shows("company", "companies") /\ Shows("invitation", "invitations")
        /\ Shows("member", "memberships") /\ Shows("mfa", "mfa-policy")
      BY DEF Shows
  <2> QED
      BY <1>1, <2>1 DEF BranchForm, MembersPage, InvitationsPage,
         MfaPolicyPage
<1>14. \A q \in DevicesPage \cup FiscalConfigPage \cup FiscalDocumentsPage
           \cup FiscalDocumentDetailPage : Sound(q)
  <2>1. Shows("device", "devices") /\ Shows("document", "fiscal-documents")
        /\ Shows("emitter", "fiscal-emitters") /\
        Shows("thatDocument", "fiscal-document")
      BY DEF Shows
  <2> QED
      BY <1>1, <2>1 DEF DevicesPage, FiscalConfigPage, FiscalDocumentsPage,
         FiscalDocumentDetailPage, listEmitters, listDocuments, getDocument
<1>15. \A q \in ProductConfigPage \cup ProviderConfigPage \cup
           TransactionsPage \cup ReconciliationBatchesPage : Sound(q)
  <2>1. Shows("batch", "payment-reconciliation-batches") /\
        Shows("productConfig", "fiscal-product-configs") /\
        Shows("provider", "payment-provider-configs") /\
        Shows("transaction", "payment-transactions")
      BY DEF Shows
  <2> QED
      BY <1>1, <2>1 DEF ProductConfigPage, ProviderConfigPage,
         TransactionsPage, ReconciliationBatchesPage, listProductConfigs,
         listProviderConfigs, listTransactions, listReconciliationBatches
<1>16. \A q \in ReconciliationBatchDetailPage \cup useFavorites \cup
           useKeyboardShortcuts \cup GlobalSearch : Sound(q)
  <2>1. Shows("favorite", "favorites") /\ Shows("shortcut", "shortcuts") /\
        Shows("thatBatch", "payment-reconciliation-batch")
      BY DEF Shows
  <2> QED
      BY <1>1, <2>1, <1>2 DEF ReconciliationBatchDetailPage, useFavorites,
         useKeyboardShortcuts, GlobalSearch, getReconciliationBatch,
         getFavorites, getShortcuts, search
<1>17. \A q \in OperationsPage \cup SubCategoriesPage \cup TagsPage \cup
           ActivitiesPage : Sound(q)
  <2>1. Shows("activity", "activities") /\ Shows("category", "categories")
        /\ Shows("operation", "monitoring") /\
        Shows("subCategory", "subcategories") /\ Shows("tag", "tags")
      BY DEF Shows
  <2> QED
      BY <1>1, <2>1 DEF OperationsPage, SubCategoriesPage, TagsPage,
         ActivitiesPage, fetchOperations, fetchCategories
<1>18. \A q \in CustomerHistoryPage \cup PipelinePage \cup ChannelsPage \cup
           MarketplacesPage : Sound(q)
  <2>1. Shows("history", "customer-history") /\
        Shows("marketplace", "marketplaces") /\
        Shows("opportunity", "opportunities") /\
        Shows("pipeline", "pipelines") /\ Shows("storeChannel", "channels")
      BY DEF Shows
  <2> QED
      BY <1>1, <2>1, <1>2 DEF CustomerHistoryPage, PipelinePage,
         ChannelsPage, MarketplacesPage, fetchChannels, fetchMarketplaces
<1>19. \A q \in OnlineOrdersPage \cup BillingsPage \cup
           FiscalCompensationsPage \cup DREPage : Sound(q)
  <2>1. Shows("billing", "billings") /\
        Shows("compensation", "fiscalCompensations") /\
        Shows("onlineOrder", "onlineOrders")
      BY DEF Shows
  <2> QED
      BY <1>1, <2>1, <1>2 DEF OnlineOrdersPage, BillingsPage,
         FiscalCompensationsPage, DREPage, fetchOnlineOrders, fetchBillings,
         fetchFiscalCompensations
<1>20. \A q \in InventoryCountsPage \cup MovementReasonsPage \cup
           ProductionOrdersPage \cup StorageTypesPage : Sound(q)
  <2>1. Shows("count", "inventory-counts") /\
        Shows("production", "production-orders") /\
        Shows("reason", "movement-reasons") /\
        Shows("storageType", "storage-types")
      BY DEF Shows
  <2> QED
      BY <1>1, <2>1 DEF InventoryCountsPage, MovementReasonsPage,
         ProductionOrdersPage, StorageTypesPage
<1>21. \A q \in ReplenishmentPage \cup StockMapPage \cup OpenPurchasesPage
           \cup PurchaseReturnsPage : Sound(q)
  <2>1. Shows("order", "open-purchases") /\
        Shows("replenishmentOrder", "replenishment-orders") /\
        Shows("replenishmentRule", "replenishment-rules") /\
        Shows("stock", "stock-map") /\
        Shows("supplierReturn", "supplier-returns")
      BY DEF Shows, Stocks
  <2> QED
      BY <1>1, <2>1 DEF ReplenishmentPage, StockMapPage, OpenPurchasesPage,
         PurchaseReturnsPage
<1>22. \A q \in SupplierQuotesPage \cup PurchaseReceiptPage \cup
           ReceiptDetailPage \cup ReceiptForm : Sound(q)
  <2>1. Shows("order", "orders-list") /\ Shows("receipt", "receipts") /\
        Shows("supplierQuote", "supplier-quotes") /\
        Shows("thatOrder", "order-detail") /\
        Shows("thatReceipt", "receipt")
      BY DEF Shows
  <2> QED
      BY <1>1, <2>1 DEF SupplierQuotesPage, PurchaseReceiptPage,
         ReceiptDetailPage, ReceiptForm, fetchReceipts, fetchReceiptDetail
<1>23. \A q \in ReturnForm \cup SupplierReturnPage \cup
           RecurringTemplatesPage \cup CommissionsPage : Sound(q)
  <2>1. Shows("commission", "commissions") /\ Shows("order", "orders-list")
        /\ Shows("recurring", "templates") /\
        Shows("supplierReturn", "returns") /\
        Shows("thatOrder", "order-detail")
      BY DEF Shows
  <2> QED
      BY <1>1, <2>1 DEF ReturnForm, SupplierReturnPage,
         RecurringTemplatesPage, CommissionsPage, fetchReturns,
         fetchTemplates
<1>24. \A q \in PriceListsPage \cup QuotesPage \cup SalesOrdersPage \cup
           ConsignmentsPage : Sound(q)
  <2>1. Shows("consignment", "consignments") /\
        Shows("priceList", "price-lists") /\ Shows("quote", "quotes") /\
        Shows("salesOrder", "sales-orders")
      BY DEF Shows
  <2> QED
      BY <1>1, <2>1 DEF PriceListsPage, QuotesPage, SalesOrdersPage,
         ConsignmentsPage
<1>25. \A q \in DashboardPage : Sound(q)
  <2>1. Shows("health", "health")
      BY DEF Shows
  <2> QED
      BY <1>1, <2>1 DEF DashboardPage, healthCheck
<1>26. Sound(SaleDialog)
  <2>1. Shows("thatSale", "sale-dialog")
      BY DEF Shows
  <2> QED
      BY <1>1, <2>1 DEF SaleDialog, fetchSale
<1>27. \A q \in Queries : Sound(q)
    BY <1>3, <1>4, <1>5, <1>6, <1>7, <1>8, <1>9, <1>10, <1>11, <1>12, <1>13,
       <1>14, <1>15, <1>16, <1>17, <1>18, <1>19, <1>20, <1>21, <1>22, <1>23,
       <1>24, <1>25, <1>26 DEF Queries
<1> QED
    BY <1>27 DEF Sound

\* The forms that leave a query as it was, or tell it by other means.
Partial == {
    ReturnDialog, CancellationDialog, RefundDialog, EditorCreate, EditorUpdate,
    ServiceCreate, ServiceUpdate, ProductCreate, ProductUpdate,
    BrandQuickCreate, CategoryQuickCreate, UnitQuickCreate,
    BasePriceSnapshot, SnapshotTier, PayableSettlement,
    ReceivableSettlement, PersonCreate, PersonDeactivate,
    DocumentRetry, DocumentCancel, BatchConfirm, Adjustment, Receipt,
    Transfer, QuoteConvert, OrderConvert, OrderCreate, OrderUpdate,
    OrderApprove, EditorApprove, ReceiptCreate, ReceiptCancel,
    ReturnCreate}

\* The form tells every query that reads what it changes.
TellsAll(f) ==
    \A row \in f.change.writes : \A root :
        Shows(row, root) => root \in f.reaches

LEMMA FormShapes ==
    ASSUME NEW change, NEW roots,
           \A row \in change.writes : \A root :
               Shows(row, root) => root \in roots
    PROVE  /\ TellsAll(Form(change, roots))
           /\ TellsAll(Stays(Form(change, roots)))
           /\ TellsAll(KeptKey(Form(change, roots)))
           /\ TellsAll(Unlocked(Form(change, roots)))
           /\ TellsAll(Stays(Unlocked(Form(change, roots))))
BY DEF TellsAll, Form, Stays, KeptKey, Unlocked

\* The rows are shown in these queries only.
Only(rows, roots) ==
    \A row \in rows : \A root : Shows(row, root) => root \in roots

LEMMA ChangeShapes ==
    ASSUME NEW rows, NEW roots, Only(rows, roots)
    PROVE  /\ TellsAll(Form(Post(rows), roots))
           /\ TellsAll(Form(Patch(rows), roots))
           /\ TellsAll(Form(Keyed(Post(rows)), roots))
           /\ TellsAll(Stays(Form(Post(rows), roots)))
           /\ TellsAll(Stays(Form(Patch(rows), roots)))
           /\ TellsAll(Stays(Form(Delete(rows), roots)))
           /\ TellsAll(Stays(Form(Keyed(Post(rows)), roots)))
           /\ TellsAll(KeptKey(Form(Keyed(Post(rows)), roots)))
           /\ TellsAll(Unlocked(Form(Patch(rows), roots)))
           /\ TellsAll(Stays(Unlocked(Form(Post(rows), roots))))
           /\ TellsAll(Stays(Unlocked(Form(Patch(rows), roots))))
           /\ TellsAll(Stays(Unlocked(Form(Delete(rows), roots))))
<1>1. /\ Post(rows).writes = rows /\ Patch(rows).writes = rows
      /\ Delete(rows).writes = rows /\ Keyed(Post(rows)).writes = rows
    BY DEF Post, Patch, Delete, Keyed, Change
<1> QED
    BY <1>1, FormShapes DEF Only

LEMMA FormsTell == \A f \in Forms \ Partial : TellsAll(f)
<1>1. \A f \in {BrandCreate, BrandUpdate, CategoryCreate, CategoryUpdate,
       UnitCreate, UnitUpdate, FiscalData, TierCreate} : TellsAll(f)
  <2>1. Only({"brand"}, {"brands"}) /\ Only({"category"}, {"categories"}) /\
        Only({"unit"}, {"units"}) /\
        Only({"fiscalData"}, {"product-fiscal-data"}) /\
        Only({"tier"}, {"product-price-tiers"})
      BY DEF Only, Shows
  <2> QED
      BY <2>1, ChangeShapes DEF BrandCreate, BrandUpdate, CategoryCreate,
         CategoryUpdate, UnitCreate, UnitUpdate, FiscalData, TierCreate,
         createBrand, updateBrand, createCategory, upsertProductFiscalData,
         createProductPriceTier
<1>2. \A f \in {TierDelete, FiscalStep, StepTierCreate, StepTierDelete,
       StockPolicy, CompositionAdd, CompositionDelete, ChannelCreate} :
       TellsAll(f)
  <2>1. Only({"tier"}, {"product-price-tiers"}) /\
        Only({"fiscalData"}, {"product-fiscal-data"}) /\
        Only({"policy"}, {"product-stock-summary", "product-stock-policies"})
        /\ Only({"composition"}, {"product-composition"}) /\
        Only({"channel"}, {"channel-profiles"})
      BY DEF Only, Shows
  <2> QED
      BY <2>1, ChangeShapes DEF TierDelete, FiscalStep, StepTierCreate,
         StepTierDelete, StockPolicy, CompositionAdd, CompositionDelete,
         ChannelCreate, deleteProductPriceTier, upsertProductFiscalData,
         createProductPriceTier, updateProductStockPolicy,
         createCompositionItem, deleteCompositionItem, createChannelProfile
<1>3. \A f \in {ChannelSave, ChannelPublish, ImageUpload, ComboCreate,
       ComboUpdate, ComboItemAdd, ComboItemRemove, ReportGenerate} :
       TellsAll(f)
  <2>1. Only({"channel"}, {"channel-profiles"}) /\
        Only({"image"}, {"product-images"}) /\ Only({"combo"}, {"combos"})
        /\ Only({"combo", "thatCombo"}, {"combo", "combos"}) /\
        Only({"report"}, {"financial-reports"})
      BY DEF Only, Shows
  <2> QED
      BY <2>1, ChangeShapes DEF ChannelSave, ChannelPublish, ImageUpload,
         ComboCreate, ComboUpdate, ComboItemAdd, ComboItemRemove,
         ReportGenerate, saveChannelProfile, publishChannel,
         uploadProductImage, createCombo, updateCombo, addComboItem,
         removeComboItem, generateReport
<1>4. \A f \in {SupplierCreate, SupplierUpdate, AddressCreate,
       AddressUpdate, ContactCreate, ContactUpdate, ConsentGrant,
       ConsentRevoke} : TellsAll(f)
  <2>1. Only({"supplier"}, {"suppliers"}) /\
        Only({"thatPerson"}, {"person"})
      BY DEF Only, Shows
  <2> QED
      BY <2>1, ChangeShapes DEF SupplierCreate, SupplierUpdate,
         AddressCreate, AddressUpdate, ContactCreate, ContactUpdate,
         ConsentGrant, ConsentRevoke, createSupplier, updateSupplier,
         createAddress, updateAddress, createContact, updateContact,
         grantConsent, revokeConsent
<1>5. \A f \in {CompanyCreate, CompanyUpdate, BranchCreate, BranchUpdate,
       MemberUpdate, InvitationCreate, InvitationResend, MfaPolicyUpdate} :
       TellsAll(f)
  <2>1. Only({"company"}, {"companies"}) /\ Only({"branch"}, {"branches"})
        /\ Only({"member"}, {"memberships"}) /\
        Only({"invitation"}, {"invitations"}) /\
        Only({"mfa"}, {"mfa-policy"})
      BY DEF Only, Shows
  <2> QED
      BY <2>1, ChangeShapes DEF CompanyCreate, CompanyUpdate, BranchCreate,
         BranchUpdate, MemberUpdate, InvitationCreate, InvitationResend,
         MfaPolicyUpdate
<1>6. \A f \in {DeviceRevoke, EmitterCreate, EmitterUpdate, ProviderCreate,
       ProviderUpdate, FavoriteRemove, SubCategoryCreate, SubCategoryUpdate}
       : TellsAll(f)
  <2>1. Only({"device"}, {"devices"}) /\
        Only({"emitter"}, {"fiscal-emitters"}) /\
        Only({"provider"}, {"payment-provider-configs"}) /\
        Only({"favorite"}, {"favorites"}) /\
        Only({"subCategory"}, {"subcategories"})
      BY DEF Only, Shows
  <2> QED
      BY <2>1, ChangeShapes DEF DeviceRevoke, EmitterCreate, EmitterUpdate,
         ProviderCreate, ProviderUpdate, FavoriteRemove, SubCategoryCreate,
         SubCategoryUpdate, createEmitter, updateEmitter,
         createProviderConfig, updateProviderConfig, deleteFavorite
<1>7. \A f \in {TagCreate, TagUpdate, ActivityComplete, ActivityCancel,
       TemplateToggle, CommissionApprove, BasePriceUpdate,
       BasePriceCreate} : TellsAll(f)
  <2>1. Only({"tag"}, {"tags"}) /\ Only({"activity"}, {"activities"}) /\
        Only({"price"}, {"product-prices"}) /\
        Only({"recurring"}, {"templates"}) /\
        Only({"commission"}, {"commissions"})
      BY DEF Only, Shows
  <2> QED
      BY <2>1, ChangeShapes DEF TagCreate, TagUpdate, ActivityComplete,
         ActivityCancel, TemplateToggle, CommissionApprove, BasePriceUpdate,
         BasePriceCreate, updateProductPrice, createProductPrice,
         toggleTemplate
<1>8. \A f \in {CommissionPay, CommissionCancel, ConsignmentConvert,
       FiscalReceiptValidate} : TellsAll(f)
  <2>1. Only({"commission"}, {"commissions"}) /\
        Only({"consignment"}, {"consignments"}) /\
        Only({"fiscalReceipt"}, {})
      BY DEF Only, Shows
  <2> QED
      BY <2>1, ChangeShapes DEF CommissionPay, CommissionCancel,
         ConsignmentConvert, FiscalReceiptValidate, validateFiscalReceipt
<1> QED
    BY <1>1, <1>2, <1>3, <1>4, <1>5, <1>6, <1>7, <1>8 DEF Forms, Partial

-----------------------------------------------------------------------------
\* Under these roots WebPages lists the form, or it puts its answer there.
LeftTo(f, roots) ==
    \A q \in Queries : q.root \in roots => Puts(f, q) \/ <<f, q>> \in Unreached
Accounts(f) ==
    \A q \in Queries : \A row \in f.change.writes :
        Shows(row, q.root) => \/ q.root \in f.reaches
                              \/ Puts(f, q) \/ <<f, q>> \in Unreached

LEMMA LeftAccounts ==
    ASSUME NEW f, NEW rows, NEW roots, NEW left,
           f.change.writes = rows, f.reaches = roots,
           LeftTo(f, left), Only(rows, roots \cup left)
    PROVE  Accounts(f)
BY DEF Accounts, LeftTo, Only

LEMMA FormFields ==
    ASSUME NEW change, NEW roots
    PROVE  /\ Form(change, roots).change = change
           /\ Form(change, roots).reaches = roots
           /\ KeptKey(Form(change, roots)).change = change
           /\ KeptKey(Form(change, roots)).reaches = roots
           /\ Stays(Form(change, roots)).change = change
           /\ Stays(Form(change, roots)).reaches = roots
           /\ Stays(Unlocked(Form(change, roots))).change = change
           /\ Stays(Unlocked(Form(change, roots))).reaches = roots
           /\ Stays(KeptKey(Form(change, roots))).change = change
           /\ Stays(KeptKey(Form(change, roots))).reaches = roots
           /\ Unlocked(KeptKey(Form(change, roots))).change = change
           /\ Unlocked(KeptKey(Form(change, roots))).reaches = roots
           /\ Unlocked(Putting(Form(change, roots))).change = change
           /\ Unlocked(Putting(Form(change, roots))).reaches = roots
BY DEF Form, KeptKey, Stays, Unlocked, Putting

LEMMA ChangeFields ==
    ASSUME NEW rows
    PROVE  /\ Post(rows).writes = rows /\ Patch(rows).writes = rows
           /\ Keyed(Post(rows)).writes = rows
           /\ persistServiceExtensions(Post(rows)).writes = rows
BY DEF Post, Patch, Keyed, Change, persistServiceExtensions

LEMMA SnapshotField ==
    [createProductPricingSnapshot EXCEPT !.adds = FALSE].writes
        = {"price", "tier"}
BY DEF createProductPricingSnapshot, Post, Keyed, Change

LEMMA ThenFields ==
    ASSUME NEW rows, NEW more
    PROVE  Then(Patch(rows), Patch(more)).writes = rows \cup more
BY DEF Patch, Change, Then

LEMMA FormsLeave == \A f \in Partial : Accounts(f)
<1>1. ASSUME NEW f \in {ReturnDialog, CancellationDialog}
      PROVE  Accounts(f)
  <2> DEFINE left == {"sale-dialog", "cash-sessions", "cash-session", "dre"}
                 \cup Stocks
  <2>1. LeftTo(f, left)
      BY <1>1 DEF LeftTo, Leaves, Unreached
  <2>2. /\ f.change.writes = {"sale", "thatSale", "stock", "session"}
        /\ f.reaches = {"sale", "sales", "inventory", "financial"}
      BY <1>1, FormFields, ChangeFields DEF ReturnDialog, CancellationDialog
  <2>3. Only({"sale", "thatSale", "stock", "session"}, {"sale", "sales",
        "inventory", "financial"} \cup left)
      BY DEF Only, Shows, Stocks
  <2> QED
      BY <2>1, <2>2, <2>3, LeftAccounts
<1>2. ASSUME NEW f \in {RefundDialog}
      PROVE  Accounts(f)
  <2> DEFINE left == {"sale-dialog", "cash-sessions", "cash-session", "dre"}
  <2>1. LeftTo(f, left)
      BY <1>2 DEF LeftTo, Leaves, Unreached
  <2>2. /\ f.change.writes = {"sale", "thatSale", "session"}
        /\ f.reaches = {"sale", "sales", "financial"}
      BY <1>2, FormFields, ChangeFields DEF RefundDialog
  <2>3. Only({"sale", "thatSale", "session"}, {"sale", "sales", "financial"}
        \cup left)
      BY DEF Only, Shows
  <2> QED
      BY <2>1, <2>2, <2>3, LeftAccounts
<1>3. ASSUME NEW f \in {BrandQuickCreate}
      PROVE  Accounts(f)
  <2> DEFINE left == {"brands"}
  <2>1. LeftTo(f, left)
      BY <1>3 DEF LeftTo, Leaves, Unreached
  <2>2. /\ f.change.writes = {"brand"}
        /\ f.reaches = {}
      BY <1>3, FormFields, ChangeFields DEF BrandQuickCreate, createBrand
  <2>3. Only({"brand"}, {} \cup left)
      BY DEF Only, Shows
  <2> QED
      BY <2>1, <2>2, <2>3, LeftAccounts
<1>4. ASSUME NEW f \in {CategoryQuickCreate}
      PROVE  Accounts(f)
  <2> DEFINE left == {"categories"}
  <2>1. LeftTo(f, left)
      BY <1>4 DEF LeftTo, Leaves, Unreached
  <2>2. /\ f.change.writes = {"category"}
        /\ f.reaches = {}
      BY <1>4, FormFields, ChangeFields DEF CategoryQuickCreate,
         createCategory
  <2>3. Only({"category"}, {} \cup left)
      BY DEF Only, Shows
  <2> QED
      BY <2>1, <2>2, <2>3, LeftAccounts
<1>5. ASSUME NEW f \in {UnitQuickCreate}
      PROVE  Accounts(f)
  <2> DEFINE left == {"units"}
  <2>1. LeftTo(f, left)
      BY <1>5 DEF LeftTo, Leaves, Unreached
  <2>2. /\ f.change.writes = {"unit"}
        /\ f.reaches = {}
      BY <1>5, FormFields, ChangeFields DEF UnitQuickCreate, createUnit
  <2>3. Only({"unit"}, {} \cup left)
      BY DEF Only, Shows
  <2> QED
      BY <2>1, <2>2, <2>3, LeftAccounts
<1>6. ASSUME NEW f \in {ProductCreate}
      PROVE  Accounts(f)
  <2> DEFINE left == {"services", "search", "products-for-composition"}
  <2>1. LeftTo(f, left)
      BY <1>6 DEF LeftTo, Leaves, Unreached
  <2>2. /\ f.change.writes = {"product", "code"}
        /\ f.reaches = {"products"}
      BY <1>6, FormFields, ChangeFields DEF ProductCreate
  <2>3. Only({"product", "code"}, {"products"} \cup left)
      BY DEF Only, Shows
  <2> QED
      BY <2>1, <2>2, <2>3, LeftAccounts
<1>7. ASSUME NEW f \in {ProductUpdate}
      PROVE  Accounts(f)
  <2> DEFINE left == {"services", "search", "products-for-composition"} \cup
                 {"catalog-product", "product-composition-info", "service"}
  <2>1. LeftTo(f, left)
      BY <1>7 DEF LeftTo, Leaves, Unreached
  <2>2. /\ f.change.writes = {"product", "thatProduct", "code"}
        /\ f.reaches = {"products"}
      BY <1>7, FormFields, ChangeFields DEF ProductUpdate
  <2>3. Only({"product", "thatProduct", "code"}, {"products"} \cup left)
      BY DEF Only, Shows
  <2> QED
      BY <2>1, <2>2, <2>3, LeftAccounts
<1>8. ASSUME NEW f \in {EditorCreate}
      PROVE  Accounts(f)
  <2> DEFINE left == {"products", "services", "search",
                 "products-for-composition"} \cup Stocks
  <2>1. LeftTo(f, left)
      BY <1>8 DEF LeftTo, Leaves, Unreached
  <2>2. /\ f.change.writes = {"product", "stock"}
        /\ f.reaches = {}
      BY <1>8, FormFields, ChangeFields DEF EditorCreate, applyProduct
  <2>3. Only({"product", "stock"}, {} \cup left)
      BY DEF Only, Shows, Stocks
  <2> QED
      BY <2>1, <2>2, <2>3, LeftAccounts
<1>9. ASSUME NEW f \in {EditorUpdate}
      PROVE  Accounts(f)
  <2> DEFINE left == {"products", "services", "search",
                 "products-for-composition", "catalog-product",
                 "product-composition-info", "service"}
  <2>1. LeftTo(f, left)
      BY <1>9 DEF LeftTo, Leaves, Unreached
  <2>2. /\ f.change.writes = {"code", "product", "thatProduct"}
        /\ f.reaches = {}
      BY <1>9, FormFields, ThenFields DEF EditorUpdate, updateProduct,
         updateProductCode
  <2>3. Only({"code", "product", "thatProduct"}, {} \cup left)
      BY DEF Only, Shows
  <2> QED
      BY <2>1, <2>2, <2>3, LeftAccounts
<1>10. ASSUME NEW f \in {BasePriceSnapshot, SnapshotTier}
      PROVE  Accounts(f)
  <2> DEFINE left == {"product-price-tiers"}
  <2>1. LeftTo(f, left)
      BY <1>10 DEF LeftTo, Leaves, Unreached
  <2>2. /\ f.change = [createProductPricingSnapshot EXCEPT !.adds = FALSE]
        /\ f.reaches = {"product-prices"}
      BY <1>10 DEF BasePriceSnapshot, SnapshotTier, Form, Stays, KeptKey
  <2>3. f.change.writes = {"price", "tier"}
      BY <2>2, SnapshotField
  <2>4. Only({"price", "tier"}, {"product-prices"} \cup left)
      BY DEF Only, Shows
  <2> QED
      BY <2>1, <2>2, <2>3, <2>4, LeftAccounts
<1>11. ASSUME NEW f \in {ServiceCreate}
      PROVE  Accounts(f)
  <2> DEFINE left == {"products", "search", "products-for-composition"}
  <2>1. LeftTo(f, left)
      BY <1>11 DEF LeftTo, Leaves, Unreached
  <2>2. /\ f.change.writes = {"product"}
        /\ f.reaches = {"services"}
      BY <1>11, FormFields, ChangeFields DEF ServiceCreate
  <2>3. Only({"product"}, {"services"} \cup left)
      BY DEF Only, Shows
  <2> QED
      BY <2>1, <2>2, <2>3, LeftAccounts
<1>12. ASSUME NEW f \in {ServiceUpdate}
      PROVE  Accounts(f)
  <2> DEFINE left == {"products", "search", "products-for-composition"} \cup
                 {"service", "catalog-product", "product-composition-info",
                 "product-fiscal-data"}
  <2>1. LeftTo(f, left)
      BY <1>12 DEF LeftTo, Leaves, Unreached
  <2>2. /\ f.change.writes = {"fiscalData", "product", "thatProduct"}
        /\ f.reaches = {"services"}
      BY <1>12, FormFields, ThenFields DEF ServiceUpdate, updateProduct,
         upsertProductFiscalData
  <2>3. Only({"fiscalData", "product", "thatProduct"}, {"services"} \cup
        left)
      BY DEF Only, Shows
  <2> QED
      BY <2>1, <2>2, <2>3, LeftAccounts
<1>13. ASSUME NEW f \in {PayableSettlement}
      PROVE  Accounts(f)
  <2> DEFINE left == {"financial-statement", "dre"}
  <2>1. LeftTo(f, left)
      BY <1>13 DEF LeftTo, Leaves, Unreached
  <2>2. /\ f.change.writes = {"payable", "cashflow"}
        /\ f.reaches = {"payables", "receivables", "cashflow"}
      BY <1>13, FormFields, ChangeFields DEF PayableSettlement, settlePayable
  <2>3. Only({"payable", "cashflow"}, {"payables", "receivables", "cashflow"}
        \cup left)
      BY DEF Only, Shows
  <2> QED
      BY <2>1, <2>2, <2>3, LeftAccounts
<1>24. ASSUME NEW f \in {ReceivableSettlement}
      PROVE  Accounts(f)
  <2> DEFINE left == {"financial-statement"}
  <2>1. LeftTo(f, left)
      BY <1>24 DEF LeftTo, Leaves, Unreached
  <2>2. /\ f.change.writes = {"receivable", "cashflow"}
        /\ f.reaches = {"payables", "receivables", "cashflow"}
      BY <1>24, FormFields, ChangeFields DEF ReceivableSettlement,
         settleReceivable
  <2>3. Only({"receivable", "cashflow"}, {"payables", "receivables",
        "cashflow"} \cup left)
      BY DEF Only, Shows
  <2> QED
      BY <2>1, <2>2, <2>3, LeftAccounts
<1>14. ASSUME NEW f \in {OrderCreate}
      PROVE  Accounts(f)
  <2> DEFINE left == {"open-purchases", "orders-list", "dre"}
  <2>1. LeftTo(f, left)
      BY <1>14 DEF LeftTo, Leaves, Unreached
  <2>2. /\ f.change.writes = {"order"}
        /\ f.reaches = {"purchase-orders"}
      BY <1>14, FormFields, ChangeFields DEF OrderCreate,
         createPurchaseOrder
  <2>3. Only({"order"}, {"purchase-orders"} \cup left)
      BY DEF Only, Shows
  <2> QED
      BY <2>1, <2>2, <2>3, LeftAccounts
<1>15. ASSUME NEW f \in {OrderUpdate, OrderApprove, EditorApprove}
      PROVE  Accounts(f)
  <2> DEFINE left == {"open-purchases", "orders-list", "dre"} \cup
                 {"order-detail"}
  <2>1. LeftTo(f, left)
      BY <1>15 DEF LeftTo, Leaves, Unreached
  <2>2. /\ f.change.writes = {"order", "thatOrder"}
        /\ f.reaches = {"purchase-order", "purchase-orders"}
      BY <1>15, FormFields, ChangeFields DEF OrderUpdate, OrderApprove,
         EditorApprove, updatePurchaseOrder, approvePurchaseOrder
  <2>3. Only({"order", "thatOrder"}, {"purchase-order", "purchase-orders"}
        \cup left)
      BY DEF Only, Shows
  <2> QED
      BY <2>1, <2>2, <2>3, LeftAccounts
<1>16. ASSUME NEW f \in {PersonCreate}
      PROVE  Accounts(f)
  <2> DEFINE left == {"search"}
  <2>1. LeftTo(f, left)
      BY <1>16 DEF LeftTo, Leaves, Unreached
  <2>2. /\ f.change.writes = {"person"}
        /\ f.reaches = {"people"}
      BY <1>16, FormFields, ChangeFields DEF PersonCreate
  <2>3. Only({"person"}, {"people"} \cup left)
      BY DEF Only, Shows
  <2> QED
      BY <2>1, <2>2, <2>3, LeftAccounts
<1>17. ASSUME NEW f \in {PersonDeactivate}
      PROVE  Accounts(f)
  <2> DEFINE left == {"search"}
  <2>1. LeftTo(f, left)
      BY <1>17 DEF LeftTo, Leaves, Unreached
  <2>2. /\ f.change.writes = {"person", "thatPerson"}
        /\ f.reaches = {"person", "people"}
      BY <1>17, FormFields, ChangeFields DEF PersonDeactivate,
         deactivatePerson
  <2>3. Only({"person", "thatPerson"}, {"person", "people"} \cup left)
      BY DEF Only, Shows
  <2> QED
      BY <2>1, <2>2, <2>3, LeftAccounts
<1>18. ASSUME NEW f \in {DocumentRetry, DocumentCancel}
      PROVE  Accounts(f)
  <2> DEFINE left == {"fiscal-documents"}
  <2>1. LeftTo(f, left)
      BY <1>18 DEF LeftTo, Leaves, Unreached
  <2>2. /\ f.change.writes = {"document", "thatDocument"}
        /\ f.reaches = {"fiscal-document"}
      BY <1>18, FormFields, ChangeFields DEF DocumentRetry, DocumentCancel,
         retryDocument, cancelDocument
  <2>3. Only({"document", "thatDocument"}, {"fiscal-document"} \cup left)
      BY DEF Only, Shows
  <2> QED
      BY <2>1, <2>2, <2>3, LeftAccounts
<1>19. ASSUME NEW f \in {BatchConfirm}
      PROVE  Accounts(f)
  <2> DEFINE left == {"payment-reconciliation-batch", "cashflow",
                 "financial-statement"}
  <2>1. LeftTo(f, left)
      BY <1>19 DEF LeftTo, Leaves, Unreached
  <2>2. /\ f.change.writes = {"batch", "thatBatch", "cashflow"}
        /\ f.reaches = {"payment-reconciliation-batches"}
      BY <1>19, FormFields, ChangeFields DEF BatchConfirm,
         confirmReconciliationBatch
  <2>3. Only({"batch", "thatBatch", "cashflow"},
        {"payment-reconciliation-batches"} \cup left)
      BY DEF Only, Shows
  <2> QED
      BY <2>1, <2>2, <2>3, LeftAccounts
<1>20. ASSUME NEW f \in {Adjustment, Receipt, Transfer}
      PROVE  Accounts(f)
  <2> DEFINE left == Stocks \ {"balances", "movements"}
  <2>1. LeftTo(f, left)
      BY <1>20 DEF LeftTo, Leaves, Unreached
  <2>2. /\ f.change.writes = {"stock"}
        /\ f.reaches = {"balances", "movements"}
      BY <1>20, FormFields, ChangeFields DEF Adjustment, Receipt, Transfer,
         createMovement
  <2>3. Only({"stock"}, {"balances", "movements"} \cup left)
      BY DEF Only, Shows, Stocks
  <2> QED
      BY <2>1, <2>2, <2>3, LeftAccounts
<1>21. ASSUME NEW f \in {QuoteConvert}
      PROVE  Accounts(f)
  <2> DEFINE left == {"sales", "cash-sessions", "cash-session",
                 "receivables", "cashflow", "financial-statement", "dre"}
                 \cup Stocks
  <2>1. LeftTo(f, left)
      BY <1>21 DEF LeftTo, Leaves, Unreached
  <2>2. /\ f.change.writes = {"quote"} \cup Sold
        /\ f.reaches = {"quotes"}
      BY <1>21, FormFields, ChangeFields DEF QuoteConvert
  <2>3. Only({"quote"} \cup Sold, {"quotes"} \cup left)
      BY DEF Only, Shows, Stocks, Sold
  <2> QED
      BY <2>1, <2>2, <2>3, LeftAccounts
<1>22. ASSUME NEW f \in {OrderConvert}
      PROVE  Accounts(f)
  <2> DEFINE left == {"sales", "cash-sessions", "cash-session",
                 "receivables", "cashflow", "financial-statement", "dre"}
                 \cup Stocks
  <2>1. LeftTo(f, left)
      BY <1>22 DEF LeftTo, Leaves, Unreached
  <2>2. /\ f.change.writes = {"salesOrder"} \cup Sold
        /\ f.reaches = {"sales-orders"}
      BY <1>22, FormFields, ChangeFields DEF OrderConvert
  <2>3. Only({"salesOrder"} \cup Sold, {"sales-orders"} \cup left)
      BY DEF Only, Shows, Stocks, Sold
  <2> QED
      BY <2>1, <2>2, <2>3, LeftAccounts
<1>23. ASSUME NEW f \in {ReturnCreate}
      PROVE  Accounts(f)
  <2> DEFINE left == {"supplier-returns", "payables", "dre"} \cup Stocks
  <2>1. LeftTo(f, left)
      BY <1>23 DEF LeftTo, Leaves, Unreached
  <2>2. /\ f.change.writes = {"supplierReturn", "stock", "payable"}
        /\ f.reaches = {"returns"}
      BY <1>23, FormFields, ChangeFields DEF ReturnCreate, createReturn
  <2>3. Only({"supplierReturn", "stock", "payable"}, {"returns"} \cup left)
      BY DEF Only, Shows, Stocks
  <2> QED
      BY <2>1, <2>2, <2>3, LeftAccounts
<1>25. ASSUME NEW f \in {ReceiptCreate, ReceiptCancel}
      PROVE  Accounts(f)
  <2> DEFINE rows == {"receipt", "thatReceipt", "stock", "order", "thatOrder",
                 "payable"}
             left == {"purchase-orders", "purchase-order", "open-purchases",
                 "orders-list", "order-detail", "payables", "dre"}
                 \cup Stocks
  <2>1. LeftTo(f, left)
      BY <1>25 DEF LeftTo, Leaves, Unreached
  <2>2. CASE f = ReceiptCreate
    <3>1. /\ f.change.writes = {"receipt", "stock", "order", "thatOrder",
                "payable"}
          /\ f.reaches = {"receipts"}
        BY <2>2, FormFields, ChangeFields DEF ReceiptCreate, createReceipt
    <3>2. Only({"receipt", "stock", "order", "thatOrder", "payable"},
          {"receipts"} \cup left)
        BY DEF Only, Shows, Stocks
    <3> QED
        BY <2>1, <3>1, <3>2, LeftAccounts
  <2>3. CASE f = ReceiptCancel
    <3>1. /\ f.change.writes = rows
          /\ f.reaches = {"receipts", "receipt"}
        BY <2>3, FormFields, ChangeFields DEF ReceiptCancel, cancelReceipt
    <3>2. Only(rows, {"receipts", "receipt"} \cup left)
        BY DEF Only, Shows, Stocks
    <3> QED
        BY <2>1, <3>1, <3>2, LeftAccounts
  <2> QED
      BY <1>25, <2>2, <2>3
<1> QED
    BY <1>1, <1>2, <1>3, <1>4, <1>5, <1>6, <1>7, <1>8, <1>9, <1>10, <1>11,
       <1>12, <1>13, <1>14, <1>15, <1>16, <1>17, <1>18, <1>19, <1>20, <1>21,
       <1>22, <1>23, <1>24, <1>25 DEF Partial

LEMMA FormsAccount == \A f \in Forms : Accounts(f)
BY FormsTell, FormsLeave DEF TellsAll, Accounts

LEMMA TableAccounted == EachAccounted
<1> SUFFICES ASSUME NEW k \in Kinds
             PROVE  k.reached \/ k.unreached \/ k.put
    BY DEF EachAccounted
<1>1. PICK f \in Forms, q \in Queries :
          k = Kind(f, q) /\ f.change.writes \cap q.get.reads # {}
    BY DEF Kinds, AllKinds
<1>2. PICK row \in q.get.reads : row \in f.change.writes
    BY <1>1
<1>3. q.root \in f.reaches \/ Puts(f, q) \/ <<f, q>> \in Unreached
    BY <1>2, QueriesRead, FormsAccount DEF Accounts
<1>4. k.reached = (q.root \in f.reaches)
    BY <1>1 DEF Kind
<1>5. k.put = Puts(f, q)
    BY <1>1 DEF Kind
<1>6. k.unreached = (<<f, q>> \in Unreached)
    BY <1>1 DEF Kind
<1> QED
    BY <1>3, <1>4, <1>5, <1>6

-----------------------------------------------------------------------------
(* Types.                                                                  *)

LEMMA StartType ==
    ASSUME NEW f \in [Keys -> Answered \cup {Idle, Asked}],
           NEW k \in Keys
    PROVE  /\ Start(f, k) \in [Keys -> Answered \cup {Idle, Asked}]
           /\ Leave(f, k) \in [Keys -> Answered \cup {Idle, Asked}]
BY DEF Start, Leave, Idle

LEMMA QueryType ==
    ASSUME TypeOK, QueryStep
    PROVE  TypeOK'
<1>0. Key \in Keys
    BY DEF TypeOK, Key, Keys
<1> DEFINE Fetches == [Keys -> Answered \cup {Idle, Asked}]
<1>1. CASE Mount
  <2>1. Start(fetch, Key) \in Fetches
      BY <1>0, StartType DEF TypeOK
  <2> QED
      BY <1>1, <2>1 DEF Mount, Fetch, TypeOK, form
<1>2. CASE Unmount
  <2>1. Leave(fetch, Key) \in Fetches
      BY <1>0, StartType DEF TypeOK
  <2> QED
      BY <1>2, <2>1 DEF Unmount, Fetch, TypeOK, form
<1>3. ASSUME NEW c \in Choices, Choose(c)
      PROVE  TypeOK'
  <2>1. Leave(fetch, Key) \in Fetches
      BY <1>0, StartType DEF TypeOK
  <2>2. <<tenant, c>> \in Keys
      BY DEF TypeOK, Keys
  <2>3. Start(Leave(fetch, Key), <<tenant, c>>) \in Fetches
      BY <2>1, <2>2, StartType
  <2> QED
      BY <1>3, <2>3 DEF Choose, Fetch, TypeOK, form
<1>4. ASSUME NEW k \in Keys, Read(k)
      PROVE  TypeOK'
  <2>1. Rows(k[1]) \subseteq Ids
      BY DEF Rows, TypeOK, Request
  <2>2. [stage |-> "answered", rows |-> Rows(k[1])] \in Answered
      BY <2>1 DEF Answered
  <2> QED
      BY <1>4, <2>2 DEF Read, TypeOK, page, form
<1>5. ASSUME NEW k \in Keys, Arrive(k)
      PROVE  TypeOK'
  <2>1. fetch[k] \in Answered
      BY <1>5 DEF Arrive, TypeOK, Asked, Idle
  <2>2. [rows |-> fetch[k].rows, fresh |-> TRUE] \in Entry
      BY <2>1 DEF Answered, Entry
  <2> QED
      BY <1>5, <2>2 DEF Arrive, TypeOK, page, form
<1>6. ASSUME NEW k \in Keys, Fail(k)
      PROVE  TypeOK'
    BY <1>6 DEF Fail, Fetch, TypeOK, page, form
<1>7. ASSUME NEW k \in Keys, Expire(k)
      PROVE  TypeOK'
  <2>1. [cache[k] EXCEPT !.fresh = FALSE] \in Entry
      BY <1>7 DEF Expire, Held, TypeOK, Entry
  <2> QED
      BY <1>7, <2>1 DEF Expire, TypeOK, page, form
<1> QED
    BY <1>1, <1>2, <1>3, <1>4, <1>5, <1>6, <1>7 DEF QueryStep

LEMMA InvalidateType ==
    ASSUME TypeOK, NEW t \in Tenants, Invalidate(t)
    PROVE  /\ cache' \in [Keys -> Entry \cup {None}]
           /\ fetch' \in [Keys -> Answered \cup {Idle, Asked}]
           /\ overtaken' \subseteq Keys
<1>1. \A k \in Keys : Held(k) => [cache[k] EXCEPT !.fresh = FALSE] \in Entry
    BY DEF Held, TypeOK, Entry
<1> QED
    BY <1>1 DEF Invalidate, TypeOK

LEMMA PutType ==
    ASSUME TypeOK, NEW t \in Tenants, NEW id \in Ids, Put(t, id)
    PROVE  /\ cache' \in [Keys -> Entry \cup {None}]
           /\ fetch' \in [Keys -> Answered \cup {Idle, Asked}]
           /\ overtaken' \subseteq Keys
<1>1. \A k \in Keys : Held(k) => [cache[k] EXCEPT !.rows = @ \cup {id},
                                                  !.fresh = TRUE] \in Entry
    BY DEF Held, TypeOK, Entry
<1> QED
    BY <1>1 DEF Put, TypeOK

LEMMA FormType ==
    ASSUME TypeOK, FormStep
    PROVE  TypeOK'
<1>1. CASE Open
    BY <1>1, WebAssumption DEF Open, TypeOK, queries, page
<1>2. CASE Close
  <2>1. Left \subseteq Request
      BY DEF Left, TypeOK, Request
  <2> QED
      BY <1>2, <2>1 DEF Close, TypeOK, queries, page
<1>3. CASE Submit
  <2>1. Free # {} /\ Free \subseteq Ids
      BY <1>3 DEF Submit, Free
  <2>2. [id |-> CHOOSE i \in Free : TRUE, tenant |-> tenant, scope |-> tenant,
         opening |-> opening, intent |-> intent, effect |-> FALSE,
         state |-> "sent", answer |-> "awaited"] \in Request
      BY <2>1 DEF TypeOK, Request
  <2> QED
      BY <1>3, <2>2 DEF Submit, TypeOK, queries, page, form
<1>4. ASSUME NEW r \in requests, Handle(r)
      PROVE  TypeOK'
  <2>1. [r EXCEPT !.state = "made", !.effect = ~Made(r)] \in Request
      BY DEF TypeOK, Request
  <2> QED
      BY <1>4, <2>1 DEF Handle, Becomes, TypeOK, queries, page, form
<1>5. ASSUME NEW r \in requests, Refuse(r)
      PROVE  TypeOK'
  <2>1. \A half \in BOOLEAN : [r EXCEPT !.state = "refused", !.effect = half] \in Request
      BY DEF TypeOK, Request
  <2>2. PICK half \in BOOLEAN :
            Becomes(r, [r EXCEPT !.state = "refused", !.effect = half])
      BY <1>5 DEF Refuse
  <2> QED
      BY <1>5, <2>1, <2>2 DEF Refuse, Becomes, TypeOK, queries, page, form
<1>6. ASSUME NEW r \in requests, Succeed(r)
      PROVE  TypeOK'
  <2>1. r \in Request /\ [r EXCEPT !.state = "told"] \in Request
      BY DEF TypeOK, Request
  <2>2. r.scope \in Tenants /\ r.id \in Ids
      BY <2>1 DEF Request
  <2>3. /\ cache' \in [Keys -> Entry \cup {None}]
        /\ fetch' \in [Keys -> Answered \cup {Idle, Asked}]
        /\ overtaken' \subseteq Keys
    <3>1. CASE Invalidate(r.scope)
        BY <3>1, <2>2, InvalidateType
    <3>2. CASE Put(r.scope, r.id)
        BY <3>2, <2>2, PutType
    <3>3. CASE UNCHANGED queries
        BY <3>3 DEF TypeOK, queries
    <3> QED
        BY <1>6, <3>1, <3>2, <3>3 DEF Succeed
  <2>4. requests' \subseteq Request /\ intent' \in Nat /\ open' \in BOOLEAN
      BY <1>6, <2>1 DEF Succeed, Becomes, TypeOK
  <2> QED
      BY <1>6, <2>3, <2>4 DEF Succeed, TypeOK, page
<1>7. ASSUME NEW r \in requests, Problem(r)
      PROVE  TypeOK'
  <2>1. [r EXCEPT !.answer = "lost"] \in Request
      BY DEF TypeOK, Request
  <2> QED
      BY <1>7, <2>1 DEF Problem, Becomes, TypeOK, queries, page, form
<1> QED
    BY <1>1, <1>2, <1>3, <1>4, <1>5, <1>6, <1>7 DEF FormStep

LEMMA MoveType ==
    ASSUME TypeOK, Logout \/ \E t \in Tenants : SelectTenant(t)
    PROVE  TypeOK'
<1>1. CASE Logout
  <2>1. Left \subseteq Request
      BY DEF Left, TypeOK, Request
  <2>2. switches' \in 0..MaxMoves
      BY <1>1, WebAssumption DEF Logout, TypeOK
  <2> QED
      BY <1>1, <2>1, <2>2 DEF Logout, Cleared, TypeOK
<1>2. ASSUME NEW t \in Tenants, SelectTenant(t)
      PROVE  TypeOK'
  <2>1. fetch' \in [Keys -> Answered \cup {Idle, Asked}]
      BY <1>2 DEF SelectTenant
  <2>2. requests' \subseteq Request
      BY <1>2 DEF SelectTenant, TypeOK, Request
  <2>3. switches' \in 0..MaxMoves
      BY <1>2, WebAssumption DEF SelectTenant, TypeOK
  <2> QED
      BY <1>2, <2>1, <2>2, <2>3 DEF SelectTenant, Cleared, TypeOK, page, form
<1> QED
    BY <1>1, <1>2

LEMMA TypeInit == Init => TypeOK
<1> SUFFICES ASSUME Init PROVE TypeOK
    OBVIOUS
<1>1. 0 \in 0..MaxMoves
    BY WebAssumption
<1>2. /\ cache \in [Keys -> Entry \cup {None}]
      /\ fetch \in [Keys -> Answered \cup {Idle, Asked}]
    BY DEF Init
<1> QED
    BY <1>1, <1>2 DEF Init, TypeOK

LEMMA TypeStep ==
    ASSUME TypeOK, [Next]_vars
    PROVE  TypeOK'
<1>1. CASE UNCHANGED vars
    BY <1>1 DEF vars, queries, page, form, TypeOK
<1> QED
    BY <1>1, QueryType, FormType, MoveType DEF Next

(***************************************************************************)
(* What the cache, the fetches, the form and its requests may hold         *)
(* (WebClient's variables), whatever the user and the backend do.          *)
(***************************************************************************)
THEOREM TypeCorrect == Spec => []TypeOK
<1> QED
    BY TypeInit, TypeStep, PTL DEF Spec

-----------------------------------------------------------------------------
(* What becomes of a request, and of the rows.                             *)

SentUndone == \A r \in requests : r.state = "sent" => ~r.effect

(***************************************************************************)
(* A request stays what it was but for its state, its answer and its       *)
(* scope, and only one that is sent comes to have an effect.               *)
(***************************************************************************)
Same(q, r) == /\ q.id = r.id /\ q.tenant = r.tenant
              /\ q.opening = r.opening /\ q.intent = r.intent

LEMMA RequestsKept ==
    ASSUME TypeOK, [Next]_vars
    PROVE  \A r \in requests : \E q \in requests' :
               Same(q, r) /\ (q.effect = r.effect \/ r.state = "sent")
<1> SUFFICES ASSUME NEW r \in requests
             PROVE  \E q \in requests' :
                        Same(q, r) /\ (q.effect = r.effect \/ r.state = "sent")
    OBVIOUS
<1>0. r \in Request
    BY DEF TypeOK
<1>1. ASSUME NEW s \in requests, NEW new, Becomes(s, new), Same(new, s),
             new.effect = s.effect \/ s.state = "sent"
      PROVE  \E q \in requests' :
                 Same(q, r) /\ (q.effect = r.effect \/ r.state = "sent")
    BY <1>1 DEF Becomes, Same
<1>2. CASE requests' = requests
    BY <1>2 DEF Same
<1>3. CASE requests' = Left
  <2>1. (IF Mine(r) /\ Waits(r) THEN [r EXCEPT !.answer = "left"] ELSE r) \in requests'
      BY <1>3 DEF Left
  <2> QED
      BY <1>0, <2>1 DEF Request, Same
<1>4. CASE Submit
    BY <1>4 DEF Submit, Same
<1>5. ASSUME NEW s \in requests, Handle(s)
      PROVE  \E q \in requests' :
                 Same(q, r) /\ (q.effect = r.effect \/ r.state = "sent")
  <2>1. s \in Request
      BY DEF TypeOK
  <2>2. Same([s EXCEPT !.state = "made", !.effect = ~Made(s)], s)
      BY <2>1 DEF Request, Same
  <2> QED
      BY <1>1, <1>5, <2>2 DEF Handle
<1>6. ASSUME NEW s \in requests, Refuse(s)
      PROVE  \E q \in requests' :
                 Same(q, r) /\ (q.effect = r.effect \/ r.state = "sent")
  <2>1. s \in Request
      BY DEF TypeOK
  <2>2. PICK half \in BOOLEAN :
            Becomes(s, [s EXCEPT !.state = "refused", !.effect = half])
      BY <1>6 DEF Refuse
  <2>3. Same([s EXCEPT !.state = "refused", !.effect = half], s)
      BY <2>1 DEF Request, Same
  <2> QED
      BY <1>1, <1>6, <2>2, <2>3 DEF Refuse
<1>7. ASSUME NEW s \in requests, Succeed(s) \/ Problem(s)
      PROVE  \E q \in requests' :
                 Same(q, r) /\ (q.effect = r.effect \/ r.state = "sent")
  <2>1. s \in Request
      BY DEF TypeOK
  <2>2. /\ Same([s EXCEPT !.state = "told"], s)
        /\ [s EXCEPT !.state = "told"].effect = s.effect
        /\ Same([s EXCEPT !.answer = "lost"], s)
        /\ [s EXCEPT !.answer = "lost"].effect = s.effect
      BY <2>1 DEF Request, Same
  <2> QED
      BY <1>1, <1>7, <2>2 DEF Succeed, Problem
<1>8. ASSUME NEW t \in Tenants, SelectTenant(t)
      PROVE  \E q \in requests' :
                 Same(q, r) /\ (q.effect = r.effect \/ r.state = "sent")
  <2>1. (IF Mine(r) THEN [r EXCEPT !.scope = t] ELSE r) \in requests'
      BY <1>8 DEF SelectTenant
  <2> QED
      BY <1>0, <2>1 DEF Request, Same
<1> QED
    BY <1>2, <1>3, <1>4, <1>5, <1>6, <1>7, <1>8
    DEF Next, QueryStep, FormStep, vars, Mount, Unmount, Choose, Read, Arrive, Fail,
        Expire, Open, Close, Logout

LEMMA RowsGrow ==
    ASSUME TypeOK, SentUndone, [Next]_vars
    PROVE  \A t \in Tenants : Rows(t) \subseteq Rows(t)'
BY RequestsKept DEF Rows, Same, SentUndone

(***************************************************************************)
(* Where a request comes from: it is the one that Submit adds, or one that *)
(* was there, as one of the form's steps left it.                          *)
(***************************************************************************)
Submitted == [id |-> CHOOSE i \in Free : TRUE, tenant |-> tenant, scope |-> tenant,
              opening |-> opening, intent |-> intent, effect |-> FALSE,
              state |-> "sent", answer |-> "awaited"]
From(q, o) ==
    /\ Same(q, o)
    /\ q.answer = "awaited" => o.answer = "awaited"
    /\ q.answer = "left" /\ o.answer # "left" => requests' = Left /\ open' = FALSE
    /\ q.scope = o.scope \/ \E t \in Tenants : SelectTenant(t)
    /\ \/ q.effect = o.effect /\ q.state = o.state
       \/ Handle(o) /\ q.state = "made" /\ q.effect = ~Made(o)
       \/ Refuse(o) /\ q.state = "refused" /\ (q.effect => kind.steps # 1)
       \/ Succeed(o) /\ q.state = "told" /\ q.effect = o.effect

LEMMA RequestsFrom ==
    ASSUME TypeOK, [Next]_vars, NEW q \in requests'
    PROVE  \/ Submit /\ q = Submitted
           \/ \E o \in requests : From(q, o)
<1> DEFINE Goal == (Submit /\ q = Submitted) \/ \E o \in requests : From(q, o)
<1>0. ASSUME q \in requests
      PROVE  From(q, q)
    BY DEF From, Same
<1>1. CASE requests' = requests
    BY <1>0, <1>1
<1>2. CASE Close \/ Logout
  <2>1. PICK r \in requests :
            q = IF Mine(r) /\ Waits(r) THEN [r EXCEPT !.answer = "left"] ELSE r
      BY <1>2 DEF Close, Logout, Left
  <2>2. r \in Request
      BY DEF TypeOK
  <2>3. requests' = Left /\ open' = FALSE
      BY <1>2 DEF Close, Logout
  <2>4. CASE q = r
      BY <1>0, <2>4
  <2>5. CASE Waits(r) /\ q = [r EXCEPT !.answer = "left"]
      BY <2>2, <2>3, <2>5 DEF From, Same, Request
  <2> QED
      BY <2>1, <2>4, <2>5
<1>3. CASE Submit
    BY <1>0, <1>3 DEF Submit, Submitted
<1>4. ASSUME NEW s \in requests, Handle(s)
      PROVE  Goal
  <2>1. s \in Request
      BY DEF TypeOK
  <2>2. q \in requests \/ q = [s EXCEPT !.state = "made", !.effect = ~Made(s)]
      BY <1>4 DEF Handle, Becomes
  <2>3. CASE q = [s EXCEPT !.state = "made", !.effect = ~Made(s)]
    <3>1. From(q, s)
        BY <1>4, <2>1, <2>3 DEF From, Same, Request
    <3> QED
        BY <3>1
  <2> QED
      BY <1>0, <2>2, <2>3
<1>5. ASSUME NEW s \in requests, Refuse(s)
      PROVE  Goal
  <2>1. s \in Request
      BY DEF TypeOK
  <2>2. PICK half \in IF kind.steps = 1 THEN {FALSE} ELSE BOOLEAN :
            Becomes(s, [s EXCEPT !.state = "refused", !.effect = half])
      BY <1>5 DEF Refuse
  <2>3. CASE q = [s EXCEPT !.state = "refused", !.effect = half]
    <3>1. q.effect = half /\ (half => kind.steps # 1)
        BY <2>1, <2>2, <2>3 DEF Request
    <3>2. From(q, s)
        BY <1>5, <2>1, <2>3, <3>1 DEF From, Same, Request
    <3> QED
        BY <3>2
  <2> QED
      BY <1>0, <2>2, <2>3 DEF Becomes
<1>6. ASSUME NEW s \in requests, Succeed(s)
      PROVE  Goal
  <2>1. s \in Request
      BY DEF TypeOK
  <2>2. q \in requests \/ q = [s EXCEPT !.state = "told"]
      BY <1>6 DEF Succeed, Becomes
  <2>3. CASE q = [s EXCEPT !.state = "told"]
    <3>1. From(q, s)
        BY <1>6, <2>1, <2>3 DEF From, Same, Request
    <3> QED
        BY <3>1
  <2> QED
      BY <1>0, <2>2, <2>3
<1>7. ASSUME NEW s \in requests, Problem(s)
      PROVE  Goal
  <2>1. s \in Request
      BY DEF TypeOK
  <2>2. q \in requests \/ q = [s EXCEPT !.answer = "lost"]
      BY <1>7 DEF Problem, Becomes
  <2>3. CASE q = [s EXCEPT !.answer = "lost"]
    <3>1. From(q, s)
        BY <2>1, <2>3 DEF From, Same, Request
    <3> QED
        BY <3>1
  <2> QED
      BY <1>0, <2>2, <2>3
<1>8. ASSUME NEW t \in Tenants, SelectTenant(t)
      PROVE  Goal
  <2>1. PICK r \in requests : q = IF Mine(r) THEN [r EXCEPT !.scope = t] ELSE r
      BY <1>8 DEF SelectTenant
  <2>2. r \in Request
      BY DEF TypeOK
  <2>3. From(q, r)
      BY <1>8, <2>1, <2>2 DEF From, Same, Request
  <2> QED
      BY <2>3
<1> QED
    BY <1>1, <1>2, <1>3, <1>4, <1>5, <1>6, <1>7, <1>8
    DEF Next, QueryStep, FormStep, vars, Mount, Unmount, Choose, Read, Arrive, Fail,
        Expire, Open

LEMMA SentStep ==
    ASSUME TypeOK, SentUndone, [Next]_vars
    PROVE  SentUndone'
<1> SUFFICES ASSUME NEW q \in requests', q.state = "sent"
             PROVE  ~q.effect
    BY DEF SentUndone
<1>1. CASE q = Submitted
    BY <1>1 DEF Submitted
<1>2. ASSUME NEW o \in requests, From(q, o)
      PROVE  ~q.effect
    BY <1>2 DEF From, SentUndone
<1> QED
    BY <1>1, <1>2, RequestsFrom

(***************************************************************************)
(* What a step leaves in a fetch and in the cache.  Only Read brings an    *)
(* answer, and only Arrive brings one into the cache; a fetch begins, or   *)
(* is given up, only under a key whose data does not count as fresh.       *)
(***************************************************************************)
LEMMA StartShape ==
    ASSUME NEW f \in [Keys -> Answered \cup {Idle, Asked}],
           NEW k \in Keys, NEW j \in Keys
    PROVE  /\ \/ Start(f, k)[j] = f[j]
              \/ /\ j = k /\ f[j] = Idle /\ ~(Held(j) /\ cache[j].fresh)
                 /\ Start(f, k)[j] = Asked
           /\ Leave(f, k)[j] \in {f[j], Idle}
BY DEF Start, Leave

Kept(k) == cache'[k] = cache[k] /\ fetch'[k] = fetch[k]
           /\ (k \in overtaken' <=> k \in overtaken)
Begun(k) == /\ ~(Held(k) /\ cache[k].fresh) /\ cache'[k] = cache[k]
            /\ fetch'[k] = Asked
Ended(k) == /\ fetch[k] # Idle /\ fetch'[k] = Idle /\ cache'[k] = cache[k]
Aged(k) == /\ Held(k) /\ cache'[k] = [cache[k] EXCEPT !.fresh = FALSE]
           /\ fetch'[k] = fetch[k] /\ (k \in overtaken' <=> k \in overtaken)
Cleaned(k) == cache'[k] = None /\ fetch'[k] \in {Idle, Asked}
QueryMove(k) == Kept(k) \/ Begun(k) \/ Ended(k) \/ Aged(k)

LEMMA FetchShape ==
    ASSUME TypeOK, NEW f \in [Keys -> Answered \cup {Idle, Asked}], Fetch(f),
           cache' = cache, NEW k \in Keys,
           \/ f[k] = fetch[k]
           \/ f[k] = Idle
           \/ ~(Held(k) /\ cache[k].fresh) /\ f[k] = Asked
    PROVE  QueryMove(k)
BY DEF Fetch, QueryMove, Kept, Begun, Ended, TypeOK

LEMMA QueryShape ==
    ASSUME TypeOK, QueryStep, NEW k \in Keys
    PROVE  \/ QueryMove(k)
           \/ Read(k) \/ Arrive(k)
<1>0. Key \in Keys
    BY DEF TypeOK, Key, Keys
<1> DEFINE Fetches == [Keys -> Answered \cup {Idle, Asked}]
<1>1. CASE Mount
  <2>1. Start(fetch, Key) \in Fetches
      BY <1>0, StartType DEF TypeOK
  <2>2. \/ Start(fetch, Key)[k] = fetch[k]
        \/ ~(Held(k) /\ cache[k].fresh) /\ Start(fetch, Key)[k] = Asked
      BY <1>0, StartShape DEF TypeOK
  <2> QED
      BY <1>1, <2>1, <2>2, FetchShape DEF Mount, Key, TypeOK
<1>2. CASE Unmount
  <2>1. Leave(fetch, Key) \in Fetches /\ Leave(fetch, Key)[k] \in {fetch[k], Idle}
      BY <1>0, StartType, StartShape DEF TypeOK
  <2> QED
      BY <1>2, <2>1, FetchShape DEF Unmount
<1>3. ASSUME NEW c \in Choices, Choose(c)
      PROVE  QueryMove(k)
  <2>1. Leave(fetch, Key) \in Fetches /\ Leave(fetch, Key)[k] \in {fetch[k], Idle}
      BY <1>0, StartType, StartShape DEF TypeOK
  <2>2. <<tenant, c>> \in Keys
      BY DEF TypeOK, Keys
  <2>3. Fetch(Start(Leave(fetch, Key), <<tenant, c>>)) /\ cache' = cache
      BY <1>3 DEF Choose
  <2>4. Start(Leave(fetch, Key), <<tenant, c>>) \in Fetches
      BY <2>1, <2>2, StartType
  <2>5. \/ Start(Leave(fetch, Key), <<tenant, c>>)[k] = Leave(fetch, Key)[k]
        \/ /\ ~(Held(k) /\ cache[k].fresh)
           /\ Start(Leave(fetch, Key), <<tenant, c>>)[k] = Asked
      BY <2>1, <2>2, StartShape
  <2> QED
      BY <2>1, <2>3, <2>4, <2>5, FetchShape
<1>4. ASSUME NEW j \in Keys, Read(j) \/ Arrive(j) \/ Fail(j) \/ Expire(j)
      PROVE  QueryMove(k) \/ Read(k) \/ Arrive(k)
  <2>1. CASE j = k
    <3>1. CASE Fail(k)
        BY <3>1 DEF Fail, Fetch, QueryMove, Ended, Idle, TypeOK
    <3>2. CASE Expire(k)
      <4>1. cache'[k] = [cache[k] EXCEPT !.fresh = FALSE]
          BY <3>2 DEF Expire, TypeOK
      <4> QED
          BY <3>2, <4>1 DEF Expire, QueryMove, Aged
    <3> QED
        BY <1>4, <2>1, <3>1, <3>2
  <2>2. CASE j # k
      BY <1>4, <2>2 DEF Read, Arrive, Fail, Expire, Fetch, QueryMove, Kept, TypeOK
  <2> QED
      BY <2>1, <2>2
<1> QED
    BY <1>1, <1>2, <1>3, <1>4 DEF QueryStep

LEMMA MoveShape ==
    ASSUME TypeOK, Logout \/ \E t \in Tenants : SelectTenant(t), NEW k \in Keys
    PROVE  Cleaned(k)
<1>1. CASE Logout
    BY <1>1 DEF Logout, Cleared, Cleaned
<1>2. ASSUME NEW t \in Tenants, SelectTenant(t)
      PROVE  Cleaned(k)
  <2>1. cache'[k] = None
      BY <1>2 DEF SelectTenant, Cleared
  <2>2. fetch'[k] = IF shown /\ k = <<t, choice>> THEN Asked ELSE Idle
      BY <1>2 DEF SelectTenant
  <2> QED
      BY <2>1, <2>2 DEF Cleaned
<1> QED
    BY <1>1, <1>2

\* The keys of the tenant whose lists a form tells, and the others.
Told(k) ==
    /\ cache'[k] = IF Held(k) THEN [cache[k] EXCEPT !.fresh = FALSE] ELSE cache[k]
    /\ \/ fetch'[k] = fetch[k] /\ (fetch[k] # Idle => k \in overtaken')
       \/ fetch'[k] = Asked
Added(k, id) ==
    /\ cache'[k] = IF Held(k) THEN [cache[k] EXCEPT !.rows = @ \cup {id},
                                                    !.fresh = TRUE]
                              ELSE cache[k]
    /\ fetch'[k] = fetch[k]

LEMMA SucceedShape ==
    ASSUME TypeOK, NEW r \in requests, Succeed(r), NEW k \in Keys
    PROVE  \/ /\ kind.reached
              /\ IF k[1] = r.scope THEN Told(k) ELSE Kept(k)
           \/ /\ ~kind.reached /\ kind.put
              /\ \/ Added(k, r.id) \/ Kept(k)
           \/ /\ ~kind.reached /\ ~kind.put
              /\ Kept(k)
<1>1. CASE kind.reached
  <2>1. Invalidate(r.scope)
      BY <1>1 DEF Succeed
  <2>2. cache'[k] = IF k[1] = r.scope /\ Held(k)
                    THEN [cache[k] EXCEPT !.fresh = FALSE] ELSE cache[k]
      BY <2>1 DEF Invalidate
  <2>3. fetch'[k] = IF k[1] = r.scope /\ shown /\ k = Key /\ Held(k)
                    THEN Asked ELSE fetch[k]
      BY <2>1 DEF Invalidate
  <2>4. k \in overtaken' <=>
            \/ k \in overtaken /\ ~(k[1] = r.scope /\ shown /\ k = Key /\ Held(k))
            \/ k[1] = r.scope /\ ~(shown /\ k = Key /\ Held(k)) /\ fetch[k] # Idle
      BY <2>1 DEF Invalidate
  <2> QED
      BY <1>1, <2>2, <2>3, <2>4 DEF Told, Kept
<1>2. CASE ~kind.reached /\ kind.put
  <2>1. Put(r.scope, r.id)
      BY <1>2 DEF Succeed
  <2>2. cache'[k] = IF k[1] = r.scope /\ Held(k)
                    THEN [cache[k] EXCEPT !.rows = @ \cup {r.id}, !.fresh = TRUE]
                    ELSE cache[k]
      BY <2>1 DEF Put
  <2>3. /\ fetch'[k] = fetch[k]
        /\ k[1] # r.scope => (k \in overtaken' <=> k \in overtaken)
      BY <2>1 DEF Put
  <2> QED
      BY <1>2, <2>2, <2>3 DEF Added, Kept
<1>3. CASE ~kind.reached /\ ~kind.put
    BY <1>3 DEF Succeed, queries, Kept
<1> QED
    BY <1>1, <1>2, <1>3

LEMMA OtherShape ==
    ASSUME TypeOK, NEW k \in Keys,
           \/ UNCHANGED vars
           \/ Open \/ Close \/ Submit
           \/ \E r \in requests : Handle(r) \/ Refuse(r) \/ Problem(r)
    PROVE  Kept(k)
BY DEF vars, Open, Close, Submit, Handle, Refuse, Problem, queries, Kept

LEMMA KindKept == [Next]_vars => kind' = kind
BY DEF Next, QueryStep, FormStep, vars, Mount, Unmount, Choose, Read, Arrive, Fail,
       Expire, Open, Close, Submit, Handle, Refuse, Succeed, Problem, Logout,
       SelectTenant

LEMMA BegunShape ==
    ASSUME NEW k \in Keys, Begun(k)
    PROVE  /\ fetch'[k].stage # "answered"
           /\ fetch'[k] # Idle
BY DEF Begun, Asked, Idle

LEMMA StepShape ==
    ASSUME TypeOK, [Next]_vars, NEW k \in Keys
    PROVE  \/ QueryMove(k) \/ Cleaned(k) \/ Read(k) \/ Arrive(k)
           \/ kind.reached /\ Told(k)
           \/ ~kind.reached /\ kind.put /\ \E id \in Ids : Added(k, id)
<1>1. CASE QueryStep
    BY <1>1, QueryShape
<1>2. CASE Logout \/ \E t \in Tenants : SelectTenant(t)
    BY <1>2, MoveShape
<1>3. ASSUME NEW r \in requests, Succeed(r)
      PROVE  \/ QueryMove(k)
             \/ kind.reached /\ Told(k)
             \/ ~kind.reached /\ kind.put /\ \E id \in Ids : Added(k, id)
  <2>1. r.id \in Ids
      BY DEF TypeOK, Request
  <2> QED
      BY <1>3, <2>1, SucceedShape DEF QueryMove
<1> QED
    BY <1>1, <1>2, <1>3, OtherShape DEF Next, FormStep, QueryMove

-----------------------------------------------------------------------------
(* Fresh lists show what the forms were told.                              *)

AtOnce == kind.kept => kind.steps = 1
Accounted == kind.reached \/ kind.unreached \/ kind.put

\* Under a kept key, one request of the opening has the effect.
ToldMade == kind.kept =>
    \A r \in requests : r.state \in {"made", "told"} =>
        \E q \in requests : /\ q.effect /\ q.tenant = r.tenant
                            /\ q.opening = r.opening

\* Nothing is fetched under a key whose data counts as fresh.
FetchedIsStale ==
    ~kind.put => \A k \in Keys : fetch[k] # Idle => ~(Held(k) /\ cache[k].fresh)

\* An answer that was not overtaken has the rows that the forms know of.
AnswersKnow ==
    \A k \in Keys :
        fetch[k].stage = "answered" /\ k \notin overtaken /\ ~kind.unreached /\ ~kind.put
            => Known(k[1]) \subseteq fetch[k].rows

LEMMA ToldStep ==
    ASSUME TypeOK, SentUndone, ToldMade, [Next]_vars
    PROVE  ToldMade'
<1> DEFINE Covered(q) == \E p \in requests' : /\ p.effect /\ p.tenant = q.tenant
                                              /\ p.opening = q.opening
<1> SUFFICES ASSUME kind.kept, NEW q \in requests', q.state \in {"made", "told"}
             PROVE  Covered(q)
    BY KindKept DEF ToldMade
<1>1. ASSUME NEW o \in requests, Same(q, o), NEW p \in requests,
             p.effect, p.tenant = o.tenant, p.opening = o.opening
      PROVE  Covered(q)
  <2>1. p.state # "sent"
      BY <1>1 DEF SentUndone
  <2> QED
      BY <1>1, <2>1, RequestsKept DEF Same
<1>2. ASSUME NEW o \in requests, From(q, o)
      PROVE  Covered(q)
  <2>0. Same(q, o)
      BY <1>2 DEF From
  <2>1. CASE o.state \in {"made", "told"}
      BY <1>1, <2>0, <2>1 DEF ToldMade
  <2>2. CASE Handle(o) /\ q.effect = ~Made(o)
    <3>1. CASE Made(o)
        BY <1>1, <2>0, <3>1 DEF Made
    <3>2. CASE ~Made(o)
        BY <2>2, <3>2
    <3> QED
        BY <3>1, <3>2
  <2>3. CASE Succeed(o)
      BY <1>1, <2>0, <2>3 DEF ToldMade, Succeed
  <2> QED
      BY <1>2, <2>1, <2>2, <2>3 DEF From
<1> QED
    BY <1>2, RequestsFrom DEF Submitted

LEMMA StaleStep ==
    ASSUME TypeOK, FetchedIsStale, [Next]_vars
    PROVE  FetchedIsStale'
<1> SUFFICES ASSUME ~kind.put, NEW k \in Keys, fetch'[k] # Idle
             PROVE  ~(cache'[k] # None /\ cache'[k].fresh)
    BY KindKept DEF FetchedIsStale, Held
<1>1. fetch[k] # Idle => ~(cache[k] # None /\ cache[k].fresh)
    BY DEF FetchedIsStale, Held
<1>2. CASE Kept(k) \/ Begun(k) \/ Ended(k) \/ Cleaned(k)
    BY <1>1, <1>2 DEF Kept, Begun, Ended, Cleaned, Held
<1>3. CASE Aged(k) \/ Told(k)
  <2>1. Held(k) => [cache[k] EXCEPT !.fresh = FALSE].fresh = FALSE
      BY DEF TypeOK, Held, Entry
  <2> QED
      BY <1>3, <2>1 DEF Aged, Told, Held
<1>4. CASE Read(k) \/ Arrive(k)
    BY <1>1, <1>4 DEF Read, Arrive, TypeOK, Idle
<1> QED
    BY <1>2, <1>3, <1>4, StepShape DEF QueryMove

(***************************************************************************)
(* What the forms know of a tenant's rows grows only when one of them is   *)
(* told, or with a switch of the tenant.                                   *)
(***************************************************************************)
LEMMA KnownStep ==
    ASSUME TypeOK, SentUndone, ToldMade, AtOnce, [Next]_vars, NEW t \in Tenants,
           \A r \in requests : Succeed(r) => r.scope # t,
           \A u \in Tenants : ~SelectTenant(u)
    PROVE  Known(t)' \subseteq Known(t)
<1> SUFFICES ASSUME NEW p \in requests', NEW r \in requests',
                    p.effect, p.tenant = t, r.state = "told", r.scope = t,
                    r.tenant = t, r.opening = p.opening, r = p \/ kind.kept
             PROVE  p.id \in Known(t)
    BY KindKept DEF Known
<1>1. PICK o \in requests : /\ o.state = "told" /\ o.scope = t /\ Same(r, o)
                            /\ o.effect = r.effect
  <2>1. PICK o \in requests : From(r, o)
      BY RequestsFrom DEF Submitted
  <2>2. r.scope = o.scope /\ Same(r, o)
      BY <2>1 DEF From
  <2>3. r.effect = o.effect /\ r.state = o.state
      BY <2>1, <2>2 DEF From
  <2> QED
      BY <2>2, <2>3
<1>2. CASE r = p
    BY <1>1, <1>2 DEF Known, Same
<1>3. CASE kind.kept
  <2>1. PICK q \in requests : From(p, q)
      BY RequestsFrom DEF Submitted
  <2>2. Same(p, q)
      BY <2>1 DEF From
  <2>3. q.effect
    <3>1. ~(Refuse(q) /\ kind.steps # 1)
        BY <1>3 DEF AtOnce
    <3>2. PICK x \in requests : /\ x.effect /\ x.tenant = o.tenant
                                /\ x.opening = o.opening
        BY <1>1, <1>3 DEF ToldMade
    <3>3. x.tenant = q.tenant /\ x.opening = q.opening
        BY <1>1, <2>2, <3>2 DEF Same
    <3>4. Made(q)
        BY <1>3, <3>2, <3>3 DEF Made
    <3> QED
        BY <2>1, <3>1, <3>4 DEF From
  <2> QED
      BY <1>1, <1>3, <2>2, <2>3 DEF Known, Same
<1> QED
    BY <1>2, <1>3

LEMMA KnownRows == \A t \in Tenants : Known(t) \subseteq Rows(t)
BY DEF Known, Rows

\* A fresh list and an answer, under one key.
Fresh(k) == cache[k] # None /\ cache[k].fresh /\ k \notin overtaken
                => Known(k[1]) \subseteq cache[k].rows
Fetched(k) == fetch[k].stage = "answered" /\ k \notin overtaken
                => Known(k[1]) \subseteq fetch[k].rows

LEMMA FreshStep ==
    ASSUME TypeOK, SentUndone, ToldMade, AtOnce, Accounted, FetchedIsStale, AnswersKnow,
           Refreshed, [Next]_vars
    PROVE  AnswersKnow' /\ Refreshed'
<1> SUFFICES ASSUME ~kind.unreached, ~kind.put, NEW k \in Keys
             PROVE  Fresh(k)' /\ Fetched(k)'
    BY KindKept DEF AnswersKnow, Refreshed, Held, Fresh, Fetched
<1>0. kind.reached
    BY DEF Accounted
<1>1. Fresh(k) /\ Fetched(k)
    BY DEF AnswersKnow, Refreshed, Held, Fresh, Fetched
<1>2. fetch[k] # Idle => ~(cache[k] # None /\ cache[k].fresh)
    BY DEF FetchedIsStale, Held
<1>3. k[1] \in Tenants
    BY DEF Keys
<1>4. CASE Cleaned(k)
    BY <1>4 DEF Cleaned, Fresh, Fetched, Idle, Asked
<1>5. CASE Told(k)
  <2>1. Held(k) => [cache[k] EXCEPT !.fresh = FALSE].fresh = FALSE
      BY DEF TypeOK, Held, Entry
  <2>2. Fresh(k)'
      BY <1>5, <2>1 DEF Told, Held, Fresh
  <2>3. Fetched(k)'
      BY <1>5 DEF Told, Fetched, Idle, Asked
  <2> QED
      BY <2>2, <2>3
<1>6. ASSUME Known(k[1])' \subseteq Known(k[1]),
             QueryMove(k) \/ Read(k) \/ Arrive(k)
      PROVE  Fresh(k)' /\ Fetched(k)'
  <2>1. CASE Kept(k)
      BY <1>1, <1>6, <2>1 DEF Kept, Fresh, Fetched
  <2>2. CASE Begun(k)
    <3>1. fetch'[k].stage # "answered" /\ ~(cache'[k] # None /\ cache'[k].fresh)
        BY <2>2, BegunShape DEF Begun, Held
    <3> QED
        BY <3>1 DEF Fresh, Fetched
  <2>3. CASE Ended(k)
      BY <1>2, <2>3 DEF Ended, Fresh, Fetched, Idle, Asked
  <2>4. CASE Aged(k)
    <3>1. [cache[k] EXCEPT !.fresh = FALSE].fresh = FALSE
        BY <2>4 DEF Aged, TypeOK, Held, Entry
    <3>2. Fresh(k)'
        BY <2>4, <3>1 DEF Aged, Fresh
    <3>3. Fetched(k)'
        BY <1>1, <1>6, <2>4 DEF Aged, Fetched
    <3> QED
        BY <3>2, <3>3
  <2>5. CASE Read(k)
    <3>1. Known(k[1])' \subseteq Rows(k[1])
        BY <1>3, <1>6, KnownRows
    <3>2. /\ fetch'[k].rows = Rows(k[1])
          /\ cache' = cache /\ fetch[k] # Idle
        BY <2>5 DEF Read, TypeOK, Idle
    <3> QED
        BY <1>2, <3>1, <3>2 DEF Fresh, Fetched
  <2>6. CASE Arrive(k)
    <3>1. /\ cache'[k].rows = fetch[k].rows /\ overtaken' = overtaken
          /\ fetch'[k] = Idle /\ fetch[k].stage = "answered"
        BY <2>6 DEF Arrive, TypeOK
    <3> QED
        BY <1>1, <1>6, <3>1 DEF Fresh, Fetched, Idle
  <2> QED
      BY <1>6, <2>1, <2>2, <2>3, <2>4, <2>5, <2>6 DEF QueryMove
<1>7. CASE \E r \in requests : Succeed(r) /\ r.scope = k[1]
    BY <1>0, <1>5, <1>7, SucceedShape
<1>8. CASE Logout \/ \E t \in Tenants : SelectTenant(t)
    BY <1>4, <1>8, MoveShape
<1>9. CASE /\ \A r \in requests : Succeed(r) => r.scope # k[1]
           /\ \A u \in Tenants : ~SelectTenant(u)
  <2>1. Known(k[1])' \subseteq Known(k[1])
      BY <1>3, <1>9, KnownStep
  <2>2. QueryMove(k) \/ Read(k) \/ Arrive(k) \/ Cleaned(k) \/ Told(k)
      BY <1>0, StepShape
  <2> QED
      BY <1>4, <1>5, <1>6, <2>1, <2>2
<1> QED
    BY <1>7, <1>8, <1>9

(***************************************************************************)
(* Of all pages and forms: a list that counts as fresh shows every change  *)
(* a form was told is made (onSuccess and invalidateQueries of the pages), *)
(* with the exceptions that Refreshed names.                               *)
(***************************************************************************)
THEOREM FreshListsShowChanges == Spec => []Refreshed
<1> DEFINE IInv == /\ TypeOK /\ SentUndone /\ ToldMade /\ AtOnce /\ Accounted
                   /\ FetchedIsStale /\ AnswersKnow /\ Refreshed
<1>1. Init => IInv
  <2> SUFFICES ASSUME Init PROVE IInv
      OBVIOUS
  <2>1. AtOnce /\ Accounted
      BY TableAccounted, TableAtOnce DEF Init, EachAccounted, KeptAtOnce, AtOnce, Accounted
  <2>2. TypeOK
      BY TypeInit
  <2>3. SentUndone /\ ToldMade
      BY DEF Init, SentUndone, ToldMade
  <2>4. FetchedIsStale /\ AnswersKnow /\ Refreshed
      BY DEF Init, FetchedIsStale, AnswersKnow, Refreshed, Held, Idle
  <2> QED
      BY <2>1, <2>2, <2>3, <2>4
<1>2. IInv /\ [Next]_vars => IInv'
  <2> SUFFICES ASSUME IInv, [Next]_vars PROVE IInv'
      OBVIOUS
  <2>1. AtOnce' /\ Accounted'
      BY KindKept DEF AtOnce, Accounted
  <2> QED
      BY <2>1, TypeStep, SentStep, ToldStep, StaleStep, FreshStep
<1>3. IInv => Refreshed
    OBVIOUS
<1> QED
    BY <1>1, <1>2, <1>3, PTL DEF Spec

-----------------------------------------------------------------------------
(* One change for one intent.                                              *)

UniqueIds == \A r, s \in requests : r.id = s.id => r = s
\* Who was told has made the next intent another one.
Counted == \A r \in requests : /\ r.opening <= opening /\ r.intent <= intent
                               /\ r.state = "told" => r.intent < intent
\* An opening that was left does not come back.
LeftIsGone == \A r \in requests : r.answer = "left" => ~Mine(r)
\* Behind a locked button, one request waits, and that of the opening there is.
WaitsHere == kind.locked => \A r \in requests : Waits(r) => Mine(r)
WaitsAlone == kind.locked =>
    \A r, s \in requests : Waits(r) /\ Waits(s) => r = s
AwaitedOnce == kind.locked =>
    \A r, s \in requests :
        r.answer = "awaited" /\ s.answer = "awaited" /\ r.intent = s.intent => r = s

Bounds == UniqueIds /\ Counted /\ LeftIsGone
Waiting == WaitsHere /\ WaitsAlone /\ AwaitedOnce

LEMMA SubmittedType ==
    ASSUME TypeOK, Submit
    PROVE  /\ Submitted.id \in Ids /\ \A r \in requests : r.id # Submitted.id
           /\ requests' = requests \cup {Submitted}
<1>1. Free # {}
    BY DEF Submit
<1> QED
    BY <1>1 DEF Submit, Submitted, Free

LEMMA UniqueStep ==
    ASSUME TypeOK, UniqueIds, [Next]_vars
    PROVE  UniqueIds'
<1> SUFFICES ASSUME NEW q \in requests', NEW p \in requests', q.id = p.id
             PROVE  q = p
    BY DEF UniqueIds
<1>1. ASSUME NEW s \in requests, NEW new, Becomes(s, new), Same(new, s)
      PROVE  q = p
    BY <1>1 DEF Becomes, Same, UniqueIds
<1>2. CASE requests' = requests
    BY <1>2 DEF UniqueIds
<1>3. CASE requests' = Left
  <2>1. PICK r \in requests :
            q = IF Mine(r) /\ Waits(r) THEN [r EXCEPT !.answer = "left"] ELSE r
      BY <1>3 DEF Left
  <2>2. PICK s \in requests :
            p = IF Mine(s) /\ Waits(s) THEN [s EXCEPT !.answer = "left"] ELSE s
      BY <1>3 DEF Left
  <2>3. r.id = q.id /\ s.id = p.id
      BY <2>1, <2>2 DEF TypeOK, Request
  <2>4. r = s
      BY <2>3 DEF UniqueIds
  <2> QED
      BY <2>1, <2>2, <2>4
<1>4. CASE Submit
    BY <1>4, SubmittedType DEF UniqueIds
<1>5. ASSUME NEW s \in requests, Handle(s)
      PROVE  q = p
  <2>1. Same([s EXCEPT !.state = "made", !.effect = ~Made(s)], s)
      BY DEF TypeOK, Request, Same
  <2> QED
      BY <1>1, <1>5, <2>1 DEF Handle
<1>6. ASSUME NEW s \in requests, Refuse(s)
      PROVE  q = p
  <2>1. PICK half \in BOOLEAN :
            Becomes(s, [s EXCEPT !.state = "refused", !.effect = half])
      BY <1>6 DEF Refuse
  <2>2. Same([s EXCEPT !.state = "refused", !.effect = half], s)
      BY DEF TypeOK, Request, Same
  <2> QED
      BY <1>1, <2>1, <2>2
<1>7. ASSUME NEW s \in requests, Succeed(s) \/ Problem(s)
      PROVE  q = p
  <2>1. Same([s EXCEPT !.state = "told"], s) /\ Same([s EXCEPT !.answer = "lost"], s)
      BY DEF TypeOK, Request, Same
  <2> QED
      BY <1>1, <1>7, <2>1 DEF Succeed, Problem
<1>8. ASSUME NEW t \in Tenants, SelectTenant(t)
      PROVE  q = p
  <2>1. PICK r \in requests : q = IF Mine(r) THEN [r EXCEPT !.scope = t] ELSE r
      BY <1>8 DEF SelectTenant
  <2>2. PICK s \in requests : p = IF Mine(s) THEN [s EXCEPT !.scope = t] ELSE s
      BY <1>8 DEF SelectTenant
  <2>3. r.id = q.id /\ s.id = p.id
      BY <2>1, <2>2 DEF TypeOK, Request
  <2>4. r = s
      BY <2>3 DEF UniqueIds
  <2> QED
      BY <2>1, <2>2, <2>4
<1> QED
    BY <1>2, <1>3, <1>4, <1>5, <1>6, <1>7, <1>8
    DEF Next, QueryStep, FormStep, vars, Mount, Unmount, Choose, Read, Arrive, Fail,
        Expire, Open, Close, Logout

\* The counters go up, and an opening begins with Open.
LEMMA CountersStep ==
    ASSUME TypeOK, [Next]_vars
    PROVE  /\ opening' \in Int /\ intent' \in Int
           /\ opening <= opening' /\ intent <= intent'
           /\ (\E r \in requests : Succeed(r)) => intent' = intent + 1
           /\ \/ Open /\ ~open /\ opening' = opening + 1
              \/ opening' = opening /\ (open' => open)
<1>1. opening \in Int /\ intent \in Int
    BY DEF TypeOK
<1>2. ASSUME NEW r \in requests, Succeed(r)
      PROVE  /\ opening' = opening /\ intent' = intent + 1 /\ (open' => open)
    BY <1>2 DEF Succeed
<1>3. \/ UNCHANGED form
      \/ Open \/ Close \/ Logout \/ \E r \in requests : Succeed(r)
    BY DEF Next, QueryStep, FormStep, vars, Mount, Unmount, Choose, Read, Arrive, Fail,
           Expire, Submit, Handle, Refuse, Problem, SelectTenant
<1>4. (\E r \in requests : Succeed(r)) => intent' = intent + 1
    BY <1>2
<1>5. intent' = intent \/ intent' = intent + 1
    BY <1>2, <1>3 DEF Open, Close, Logout, form
<1>6. \/ Open /\ ~open /\ opening' = opening + 1
      \/ opening' = opening /\ (open' => open)
    BY <1>2, <1>3 DEF Open, form, Close, Logout
<1> QED
    BY <1>1, <1>4, <1>5, <1>6

LEMMA BoundsStep ==
    ASSUME TypeOK, Bounds, [Next]_vars
    PROVE  Bounds'
<1>1. UniqueIds'
    BY UniqueStep DEF Bounds
<1>2. Counted'
  <2> SUFFICES ASSUME NEW q \in requests'
               PROVE  /\ q.opening <= opening' /\ q.intent <= intent'
                      /\ q.state = "told" => q.intent < intent'
      BY DEF Counted
  <2>1. CASE q = Submitted
      BY <2>1, CountersStep DEF Submitted, TypeOK
  <2>2. ASSUME NEW o \in requests, From(q, o)
        PROVE  /\ q.opening <= opening' /\ q.intent <= intent'
               /\ q.state = "told" => q.intent < intent'
    <3>1. /\ o.opening <= opening /\ o.intent <= intent
          /\ o.state = "told" => o.intent < intent
          /\ q.opening = o.opening /\ q.intent = o.intent
          /\ o.opening \in Int /\ o.intent \in Int /\ opening \in Int /\ intent \in Int
        BY <2>2 DEF Bounds, Counted, From, Same, TypeOK, Request
    <3>2. q.state = "told" => o.state = "told" \/ Succeed(o)
        BY <2>2 DEF From
    <3> QED
        BY <3>1, <3>2, CountersStep
  <2> QED
      BY <2>1, <2>2, RequestsFrom
<1>3. LeftIsGone'
  <2> SUFFICES ASSUME NEW q \in requests', q.answer = "left",
                      open', q.opening = opening'
               PROVE  FALSE
      BY DEF LeftIsGone, Mine
  <2>1. PICK o \in requests : From(q, o)
      BY RequestsFrom DEF Submitted
  <2>2. q.opening = o.opening /\ o.opening <= opening /\ o.opening \in Int
      BY <2>1 DEF From, Same, Bounds, Counted, TypeOK, Request
  <2>3. o.answer = "left"
      BY <2>1 DEF From
  <2>4. ~(open /\ o.opening = opening)
      BY <2>3 DEF Bounds, LeftIsGone, Mine
  <2> QED
      BY <2>2, <2>4, CountersStep DEF TypeOK
<1> QED
    BY <1>1, <1>2, <1>3 DEF Bounds

LEMMA WaitingStep ==
    ASSUME TypeOK, Bounds, Waiting, [Next]_vars
    PROVE  Waiting'
<1> SUFFICES ASSUME kind.locked
             PROVE  /\ \A q \in requests' : Waits(q) => open' /\ q.opening = opening'
                    /\ \A q, p \in requests' : Waits(q) /\ Waits(p) => q = p
                    /\ \A q, p \in requests' :
                           q.answer = "awaited" /\ p.answer = "awaited"
                               /\ q.intent = p.intent => q = p
    BY KindKept DEF Waiting, WaitsHere, WaitsAlone, AwaitedOnce, Mine, Waits
<1>0. UniqueIds'
    BY UniqueStep DEF Bounds
<1>1. ASSUME NEW q \in requests', NEW o \in requests, From(q, o)
      PROVE  /\ Waits(q) => Waits(o) /\ Mine(o)
             /\ q.answer = "awaited" => o.answer = "awaited"
             /\ q.id = o.id /\ q.intent = o.intent /\ q.opening = o.opening
  <2>1. /\ q.answer = "awaited" => o.answer = "awaited"
        /\ q.id = o.id /\ q.intent = o.intent /\ q.opening = o.opening
        /\ o.state = "told" => q.state = "told"
      BY <1>1 DEF From, Same, Handle, Refuse
  <2> QED
      BY <2>1 DEF Waits, Waiting, WaitsHere
<1>2. CASE Submit
  <2>1. \A r \in requests : ~Waits(r)
      BY <1>2 DEF Submit, Waiting, WaitsHere
  <2>2. \A r \in requests : r.answer = "awaited" => r.intent < intent
      BY <2>1 DEF Waits, Bounds, Counted
  <2>3. \A r \in requests : r.answer = "awaited" => r.intent # intent
      BY <2>2 DEF TypeOK, Request
  <2>4. requests' = requests \cup {Submitted} /\ open' /\ opening' = opening
      BY <1>2, SubmittedType DEF Submit, form
  <2>5. Submitted.opening = opening /\ Submitted.intent = intent
      BY DEF Submitted
  <2> QED
      BY <2>1, <2>3, <2>4, <2>5 DEF Waiting, AwaitedOnce
<1>3. CASE ~Submit
  <2>1. \A q \in requests' : \E o \in requests : From(q, o)
      BY <1>3, RequestsFrom
  <2>2. \A q, p \in requests' : Waits(q) /\ Waits(p) => q = p
      BY <1>0, <1>1, <2>1 DEF UniqueIds, Waiting, WaitsAlone
  <2>3. \A q, p \in requests' : q.answer = "awaited" /\ p.answer = "awaited"
                                    /\ q.intent = p.intent => q = p
      BY <1>0, <1>1, <2>1 DEF UniqueIds, Waiting, AwaitedOnce
  <2>4. ASSUME NEW q \in requests', Waits(q)
        PROVE  open' /\ q.opening = opening'
    <3>1. PICK o \in requests : From(q, o)
        BY <2>1
    <3>2. Waits(o) /\ open /\ o.opening = opening /\ q.opening = o.opening
        BY <1>1, <2>4, <3>1 DEF Mine
    <3>3. ~Open /\ opening' = opening
        BY <3>2, CountersStep DEF Open
    <3>4. CASE Close \/ Logout
      <4>1. PICK r \in requests :
                q = IF Mine(r) /\ Waits(r) THEN [r EXCEPT !.answer = "left"] ELSE r
          BY <3>4 DEF Close, Logout, Left
      <4>2. CASE Mine(r) /\ Waits(r)
          BY <2>4, <4>1, <4>2 DEF Waits, TypeOK, Request
      <4>3. CASE ~(Mine(r) /\ Waits(r))
          BY <2>4, <4>1, <4>3 DEF Waiting, WaitsHere
      <4> QED
          BY <4>2, <4>3
    <3>5. ASSUME NEW r \in requests, Succeed(r)
          PROVE  open'
      <4>1. CASE Mine(r)
        <5>1. r.answer # "left" /\ r.answer # "lost" /\ r.state = "made"
            BY <1>3, <3>5, <4>1 DEF Succeed, Bounds, LeftIsGone
        <5>2. Waits(r)
            BY <5>1 DEF Waits, TypeOK, Request
        <5>3. r = o
            BY <3>2, <5>2 DEF Waiting, WaitsAlone
        <5>4. q.id = r.id
            BY <3>1, <5>3 DEF From, Same
        <5>5. [r EXCEPT !.state = "told"] \in requests'
            BY <3>5 DEF Succeed, Becomes
        <5>6. /\ [r EXCEPT !.state = "told"].id = r.id
              /\ [r EXCEPT !.state = "told"].state = "told"
            BY DEF TypeOK, Request
        <5>7. q = [r EXCEPT !.state = "told"]
            BY <1>0, <5>4, <5>5, <5>6 DEF UniqueIds
        <5> QED
            BY <2>4, <5>6, <5>7 DEF Waits
      <4>2. CASE ~Mine(r)
          BY <3>2, <3>5, <4>2 DEF Succeed
      <4> QED
          BY <4>1, <4>2
    <3>6. open'
        BY <1>3, <3>2, <3>3, <3>4, <3>5
        DEF Next, QueryStep, FormStep, vars, Mount, Unmount, Choose, Read, Arrive, Fail,
            Expire, Handle, Refuse, Problem, SelectTenant, form
    <3> QED
        BY <3>2, <3>3, <3>6
  <2> QED
      BY <2>2, <2>3, <2>4
<1> QED
    BY <1>2, <1>3

LEMMA KeptOnceStep ==
    ASSUME TypeOK, SentUndone, UniqueIds, AtOnce, KeptOnce, [Next]_vars
    PROVE  KeptOnce'
<1> SUFFICES ASSUME kind.kept, NEW q \in requests', NEW p \in requests',
                    q.effect, p.effect, q.tenant = p.tenant, q.opening = p.opening
             PROVE  q = p
    BY KindKept DEF KeptOnce
<1>0. UniqueIds'
    BY UniqueStep
<1>1. PICK o \in requests : From(q, o)
    BY RequestsFrom DEF Submitted
<1>2. PICK u \in requests : From(p, u)
    BY RequestsFrom DEF Submitted
<1>3. Same(q, o) /\ Same(p, u) /\ o.tenant = u.tenant /\ o.opening = u.opening
    BY <1>1, <1>2 DEF From, Same
<1>4. /\ o.effect \/ (Handle(o) /\ ~Made(o))
      /\ u.effect \/ (Handle(u) /\ ~Made(u))
    BY <1>1, <1>2 DEF From, AtOnce
<1>5. ~(o.effect /\ ~Made(u)) /\ ~(u.effect /\ ~Made(o))
    BY <1>3 DEF Made
<1>6. o = u
  <2>1. CASE o.effect /\ u.effect
      BY <1>3, <2>1 DEF KeptOnce
  <2>2. CASE Handle(o) /\ Handle(u)
    <3>1. [o EXCEPT !.state = "made", !.effect = ~Made(o)].state = "made"
        BY DEF TypeOK, Request
    <3>2. u.state = "sent" /\ (u \in requests' => u = o)
        BY <2>2, <3>1 DEF Handle, Becomes
    <3>3. [u EXCEPT !.state = "made", !.effect = ~Made(u)].state = "made"
        BY DEF TypeOK, Request
    <3>4. requests' = (requests \ {u})
                          \cup {[u EXCEPT !.state = "made", !.effect = ~Made(u)]}
        BY <2>2 DEF Handle, Becomes
    <3>5. requests' = (requests \ {o})
                          \cup {[o EXCEPT !.state = "made", !.effect = ~Made(o)]}
        BY <2>2 DEF Handle, Becomes
    <3>6. u # o => u \in requests'
        BY <3>5
    <3>7. u \notin requests'
        BY <3>2, <3>3, <3>4
    <3> QED
        BY <3>6, <3>7
  <2> QED
      BY <1>4, <1>5, <2>1, <2>2
<1> QED
    BY <1>0, <1>3, <1>6 DEF UniqueIds, Same

(***************************************************************************)
(* As many requests as there are members in a set they are told apart by.  *)
(***************************************************************************)
LEMMA OnePlus ==
    ASSUME NEW S, NEW G, IsFiniteSet(G), NEW x, NEW f,
           \A r \in S : f[r] \in G \cup {x},
           \A r, s \in S : f[r] = f[s] => r = s
    PROVE  IsFiniteSet(S) /\ Cardinality(S) <= 1 + Cardinality(G)
<1> DEFINE T == G \cup {x}
           g == [r \in S |-> f[r]]
<1>1. IsFiniteSet(T)
    BY FS_AddElement
<1>2. Cardinality(G) \in Nat
    BY FS_CardinalityType
<1>3. Cardinality(T) <= Cardinality(G) + 1
  <2>1. Cardinality(T) = IF x \in G THEN Cardinality(G) ELSE Cardinality(G) + 1
      BY FS_AddElement
  <2> QED
      BY <1>2, <2>1
<1>4. g \in Injection(S, T)
  <2>1. g \in [S -> T]
      OBVIOUS
  <2>2. \A r, s \in S : g[r] = g[s] => r = s
      OBVIOUS
  <2> QED
      BY <2>1, <2>2 DEF Injection, IsInjective
<1> HIDE DEF T, g
<1>5. IsFiniteSet(S) /\ Cardinality(S) <= Cardinality(T)
    BY <1>1, <1>4, FS_Injection
<1>6. Cardinality(S) \in Nat /\ Cardinality(T) \in Nat
    BY <1>1, <1>5, FS_CardinalityType
<1> QED
    BY <1>2, <1>3, <1>5, <1>6

(***************************************************************************)
(* The changes of one intent: the attempts that were given up tell them    *)
(* apart, but for the one whose answer is awaited.                         *)
(***************************************************************************)
LEMMA OneEffectHolds ==
    ASSUME TypeOK, UniqueIds, Waiting, KeptOnce
    PROVE  OneEffect
<1> SUFFICES ASSUME kind.locked, NEW i \in 1..MaxRequests + 1, NEW t \in Tenants
             PROVE  Cardinality(Effects(i, t)) <= 1 + Cardinality(Unsure(i))
    BY DEF OneEffect
<1> DEFINE G == Unsure(i)
           none == CHOOSE x : x \notin requests
           f == [r \in requests |-> IF r.answer = "awaited" THEN none ELSE r]
<1>0. none \notin requests
    BY NoSetContainsEverything
<1>1. IsFiniteSet(G)
  <2>1. 1 \in Int /\ MaxRequests \in Int
      BY WebAssumption
  <2>2. IsFiniteSet(Ids)
      BY <2>1, FS_Interval DEF Ids
  <2> DEFINE id == [r \in G |-> r.id]
  <2>3. id \in Injection(G, Ids)
    <3>1. id \in [G -> Ids]
        BY DEF Unsure, TypeOK, Request
    <3>2. \A r, s \in G : id[r] = id[s] => r = s
        BY DEF Unsure, UniqueIds
    <3> QED
        BY <3>1, <3>2 DEF Injection, IsInjective
  <2> HIDE DEF G, id
  <2> QED
      BY <2>2, <2>3, FS_Injection
<1>2. \A r \in Effects(i, t) : f[r] \in G \cup {none}
    BY DEF Effects, Unsure
<1>3. \A r, s \in Effects(i, t) : f[r] = f[s] => r = s
    BY <1>0 DEF Effects, Waiting, AwaitedOnce
<1> HIDE DEF G, f, none
<1>4. Cardinality(Effects(i, t)) <= 1 + Cardinality(G)
    BY <1>1, <1>2, <1>3, OnePlus
<1> QED
    BY <1>4 DEF G

(***************************************************************************)
(* Behind a button that is locked while the form waits                     *)
(* (mutation.isPending) a change is made once for the user who wants it    *)
(* once, and once more at most for each attempt that was given up; under a *)
(* key that the form keeps, once for an opening whatever is lost.          *)
(***************************************************************************)
THEOREM IntentsMadeOnce == Spec => []OneEffect
<1> DEFINE IInv == TypeOK /\ SentUndone /\ AtOnce /\ Bounds /\ Waiting /\ KeptOnce
<1>1. Init => IInv
  <2> SUFFICES ASSUME Init PROVE IInv
      OBVIOUS
  <2>1. AtOnce
      BY TableAtOnce DEF Init, KeptAtOnce, AtOnce
  <2> QED
      BY <2>1, TypeInit
      DEF Init, SentUndone, Bounds, UniqueIds, Counted, LeftIsGone, Waiting, WaitsHere,
          WaitsAlone, AwaitedOnce, KeptOnce
<1>2. IInv /\ [Next]_vars => IInv'
  <2> SUFFICES ASSUME IInv, [Next]_vars PROVE IInv'
      OBVIOUS
  <2>1. AtOnce'
      BY KindKept DEF AtOnce
  <2>2. UniqueIds
      BY DEF Bounds
  <2> QED
      BY <2>1, <2>2, TypeStep, SentStep, BoundsStep, WaitingStep, KeptOnceStep
<1>3. IInv => OneEffect
    BY OneEffectHolds DEF Bounds
<1> QED
    BY <1>1, <1>2, <1>3, PTL DEF Spec

=============================================================================
