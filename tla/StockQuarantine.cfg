\* One transaction disposes of a part of a quarantined lot.
CONSTANTS
  A = A
  B = B
  t1 = t1
  t2 = t2
  t3 = t3
  Txs = {t1}
  Sales <- ThreeSales
  Lots <- FiveLots
  Products <- TwoProducts
  ProductOf <- FirstFourOfA
  Cart <- Carts
  Opening <- Shelf
  Past <- OneSold
  Requests <- Everything
SPECIFICATION Spec
PROPERTIES
  QuarantineHolds
