\* Three documents at once on a shelf of two products.
CONSTANTS
  A = A
  B = B
  t1 = t1
  t2 = t2
  t3 = t3
  Txs = {t1, t2, t3}
  Sales <- ThreeSales
  Lots <- FiveLots
  Products <- TwoProducts
  ProductOf <- FirstFourOfA
  Cart <- Carts
  Opening <- Shelf
  Past <- OneSold
  Requests <- Everything
SPECIFICATION FairSpec
INVARIANTS
  TypeOK
  StockMatchesDocuments
  OnHandExcused
  RefundedVoidWasOverlapped
  FullyReturnedIsMarked
  DeadlocksExplained
PROPERTIES
  DocumentsEnd
