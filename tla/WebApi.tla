------------------------------- MODULE WebApi -------------------------------
(***************************************************************************)
(* The functions through which the web pages ask the backend               *)
(* (src/frontend/src/*/*Api.ts): for each, what it reads or changes and    *)
(* what decides how it fails - whether the page may call it off (an        *)
(* AbortSignal is passed on), whether it carries an idempotency key,       *)
(* whether it adds something anew at each call, and whether it makes its   *)
(* changes in more than one request.  Paths, bodies and the rewriting of   *)
(* answers are left out.                                                   *)
(***************************************************************************)

\* A GET: api/client.ts sends it once more when it gets no answer, and never
\* another method.
Get(resources) == [reads |-> resources, signal |-> TRUE]
NoSignal(get) == [get EXCEPT !.signal = FALSE]

\* Resources are kinds of rows; "thatSale" is one row, which a page shows alone and
\* which is there before the page is.
Change(resources) == [writes |-> resources, adds |-> FALSE, keyed |-> FALSE,
                      steps |-> 1]
Patch(resources) == Change(resources)
Delete(resources) == Change(resources)
Post(resources) == [Change(resources) EXCEPT !.adds = TRUE]
Keyed(post) == [post EXCEPT !.keyed = TRUE]
Then(first, second) == [first EXCEPT !.writes = @ \cup second.writes, !.steps = 2]

-----------------------------------------------------------------------------
(* catalog/catalogApi.ts                                                   *)

fetchProductImages == NoSignal(Get({"image"}))
uploadProductImage == Post({"image"})
fetchProducts == Get({"product"})
applyProduct == Keyed(Post({"product", "stock"}))
fetchProductStockSummary == NoSignal(Get({"stock"}))
updateProduct == Patch({"product", "thatProduct"})
fetchCategories == Get({"category"})
createCategory == Post({"category"})
createUnit == Post({"unit"})
fetchProductFiscalData == NoSignal(Get({"fiscalData"}))
upsertProductFiscalData == Patch({"fiscalData"})
fetchProductPriceTiers == NoSignal(Get({"tier"}))
createProductPriceTier == Post({"tier"})
deleteProductPriceTier == Delete({"tier"})
fetchComposition == NoSignal(Get({"composition"}))
createCompositionItem == Post({"composition"})
deleteCompositionItem == Delete({"composition"})
fetchProduct == NoSignal(Get({"thatProduct"}))
fetchProductPrices == NoSignal(Get({"price"}))
createProductPricingSnapshot == Keyed(Post({"price", "tier"}))
createProductPrice == Post({"price"})
updateProductPrice == Patch({"price"})
createProductCode == Post({"code"})
updateProductCode == Patch({"code"})
fetchBrands == Get({"brand"})
createBrand == Post({"brand"})
updateBrand == Patch({"brand"})
fetchCombos == Get({"combo"})
fetchCombo == NoSignal(Get({"thatCombo"}))
createCombo == Post({"combo"})
updateCombo == Patch({"combo", "thatCombo"})
addComboItem == Post({"combo", "thatCombo"})
removeComboItem == Delete({"combo", "thatCombo"})
fetchLabelTemplates == Get({"template"})
fetchChannelProfiles == NoSignal(Get({"channel"}))
saveChannelProfile == Patch({"channel"})
createChannelProfile == Post({"channel"})
publishChannel == Patch({"channel"})

\* After the product itself: a failure here leaves the product made.
persistServiceExtensions(product) == [product EXCEPT !.steps = 2]

-----------------------------------------------------------------------------
(* inventory, sales, financial                                             *)

fetchBalances == Get({"stock"})
fetchMovements == Get({"stock"})
fetchLots == Get({"stock"})
fetchBranches == Get({"branch"})
fetchStockLocations == Get({"location"})
fetchStockSummary == Get({"stock"})
fetchProductStockPolicies == NoSignal(Get({"policy"}))
updateProductStockPolicy == Patch({"policy"})

fetchSales == Get({"sale"})
fetchSale == Get({"thatSale"})
fetchCashSessions == Get({"session"})
fetchCashSession == Get({"session"})

fetchPayables == Get({"payable"})
fetchReceivables == Get({"receivable"})
fetchCashflow == Get({"cashflow"})
settlePayable == Keyed(Post({"payable", "cashflow"}))
settleReceivable == Keyed(Post({"receivable", "cashflow"}))
generateReport == Keyed(Post({"report"}))
fetchReports == Get({"report"})

-----------------------------------------------------------------------------
(* purchasing, people, fiscal, payments, favorites                         *)

fetchSuppliers == Get({"supplier"})
createSupplier == Keyed(Post({"supplier"}))
updateSupplier == Patch({"supplier"})
fetchPurchaseOrders == Get({"order"})
fetchPurchaseOrder == Get({"thatOrder"})
createPurchaseOrder == Keyed(Post({"order"}))
updatePurchaseOrder == Patch({"order", "thatOrder"})
approvePurchaseOrder == Patch({"order", "thatOrder"})

fetchPerson == Get({"thatPerson"})
deactivatePerson == Patch({"person", "thatPerson"})
grantConsent == Post({"thatPerson"})
revokeConsent == Patch({"thatPerson"})
createAddress == Post({"thatPerson"})
updateAddress == Patch({"thatPerson"})
createContact == Post({"thatPerson"})
updateContact == Patch({"thatPerson"})

listEmitters == NoSignal(Get({"emitter"}))
createEmitter == Post({"emitter"})
updateEmitter == Patch({"emitter"})
listDocuments == NoSignal(Get({"document"}))
getDocument == NoSignal(Get({"thatDocument"}))
retryDocument == Patch({"document", "thatDocument"})
cancelDocument == Patch({"document", "thatDocument"})
listProductConfigs == NoSignal(Get({"productConfig"}))

listProviderConfigs == NoSignal(Get({"provider"}))
createProviderConfig == Post({"provider"})
updateProviderConfig == Patch({"provider"})
listTransactions == NoSignal(Get({"transaction"}))
listReconciliationBatches == NoSignal(Get({"batch"}))
getReconciliationBatch == NoSignal(Get({"thatBatch"}))
\* With the fees of what was settled.
confirmReconciliationBatch == Patch({"batch", "thatBatch", "cashflow"})

getFavorites == Get({"favorite"})
createFavorite == Post({"favorite"})
deleteFavorite == Delete({"favorite"})
reorderFavorites == Patch({"favorite"})
getShortcuts == Get({"shortcut"})
updateShortcuts == Patch({"shortcut"})
search == Get({"product", "person"})
fetchOperations == NoSignal(Get({"operation"}))
validateFiscalReceipt == Patch({"fiscalReceipt"})
healthCheck == Get({"health"})

-----------------------------------------------------------------------------
(* The functions of pages that app/App.tsx does not route.                 *)

fetchChannels == Get({"storeChannel"})
fetchMarketplaces == Get({"marketplace"})
fetchOnlineOrders == Get({"onlineOrder"})
fetchBillings == Get({"billing"})
fetchFiscalCompensations == Get({"compensation"})
fetchDREReport == Get({"sale", "order", "payable"})
createMovement == Keyed(Post({"stock"}))
fetchReceipts == Get({"receipt"})
fetchReceiptDetail == Get({"thatReceipt"})
\* What is received goes into the stock, is owed for, and may complete the order;
\* cancelling it takes all three back, a return the stock and the debt.
createReceipt == Keyed(Post({"receipt", "stock", "order", "thatOrder", "payable"}))
cancelReceipt == Patch({"receipt", "thatReceipt", "stock", "order", "thatOrder",
                        "payable"})
fetchReturns == Get({"supplierReturn"})
createReturn == Keyed(Post({"supplierReturn", "stock", "payable"}))
fetchTemplates == Get({"recurring"})
toggleTemplate == Patch({"recurring"})

=============================================================================
