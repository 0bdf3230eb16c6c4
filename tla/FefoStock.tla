------------------------------ MODULE FefoStock ------------------------------
(***************************************************************************)
(* The stock of one shop under concurrent documents: the lots of           *)
(* inventory_batches, the quantity on hand of each product, and the sales, *)
(* voids, refunds, goods receipts, quarantines and disposals that change   *)
(* them (SamplePOS.Server/src/modules/sales/salesService.ts,               *)
(* modules/inventory-lot, modules/loss-quarantine, utils/inventorySync.ts).*)
(*                                                                         *)
(* Each document is one PostgreSQL transaction at READ COMMITTED: a        *)
(* statement sees what was committed when it began and what its own        *)
(* transaction wrote; a row it changes or selects FOR UPDATE stays locked  *)
(* until the transaction ends; a statement that waits for a row sees it    *)
(* again, and nothing else again, when it has the lock.                    *)
(*                                                                         *)
(* One shop without stores (isMultistoreEnabled is false), quantities in   *)
(* base units, whole lots quarantined; prices, cost layers and the amounts *)
(* of the ledger are left out (InventoryCoupling has the amounts), the     *)
(* lock under which a posting takes its number is not.                     *)
(***************************************************************************)
EXTENDS Integers, Sequences, FiniteSets, Functions

CONSTANTS Txs,        \* database transactions, one document each
          Sales,      \* sale documents
          Lots,       \* rows of inventory_batches, numbered in FEFO order
          Products,
          ProductOf,  \* the product of each lot
          Cart,       \* the lines of each sale: a product and a quantity
          Opening,    \* the lots at the start
          Past,       \* the sales at the start
          Requests    \* the documents that may be asked for

VARIABLES lot,        \* inventory_batches: remaining_quantity and status
          onHand,     \* products.quantity_on_hand
          sale,       \* sales and sale_items
          tx,         \* the open transactions, with what they wrote
          \* history
          received,   \* what came into each lot by an opening or a receipt
          disposed,   \* what left each lot by a disposal
          stale,      \* products whose quantity on hand was written from an
                      \* old sum, or with a lot quarantined since
          overlapped  \* sales that were being refunded when their void committed

history == <<received, disposed, stale, overlapped>>
vars == <<lot, onHand, sale, tx, history>>

Statuses == {"none", "ACTIVE", "DEPLETED", "QUARANTINED"}
Rows == [qty : Nat, status : Statuses]

SaleStatuses == {"none", "COMPLETED", "PARTIALLY_RETURNED", "VOIDED_BY_RETURN", "VOID"}
\* A sale line: the first lot it was taken from, its quantity, and refunded_qty.
Lines == [lot : Lots, qty : Nat, refunded : Nat]

\* A request: op says which document; the other fields are what op needs.
Documents == [op : {"sale", "void"}, sale : Sales]
               \cup [op : {"refund"}, sale : Sales, line : Nat \ {0}, qty : Nat \ {0}]
               \cup [op : {"receive", "dispose"}, lot : Lots, qty : Nat \ {0}]
               \cup [op : {"quarantine"}, lot : Lots]

ASSUME LotsAssumption == /\ IsFiniteSet(Lots) /\ Lots \subseteq Nat
                         /\ ProductOf \in [Lots -> Products]
                         /\ Opening \in [Lots -> Rows]

\* A sale has lines, of positive quantities; the sales at the start are whole.
ASSUME SalesAssumption ==
  /\ IsFiniteSet(Sales)
  /\ Cart \in [Sales -> Seq([product : Products, qty : Nat \ {0}])]
  /\ Past \in [Sales -> [status : {"none", "COMPLETED"},
                        lines : Seq([lot : Lots, qty : Nat \ {0}, refunded : {0}])]]
  /\ \A s \in Sales : Past[s].status = "none" <=> Past[s].lines = <<>>

ASSUME RequestsAssumption == /\ Requests \subseteq Documents
                             /\ \A r \in Requests : r.op = "sale" => Cart[r.sale] # <<>>

NoRequest == [op |-> "none"]
Idle == [req   |-> NoRequest,
         pc    |-> "idle",
         line  |-> 1,       \* the line it works on
         todo  |-> {},      \* lots it has selected and not yet locked
         held  |-> <<>>,    \* rows of inventory_batches it locked, as it sees them
         hand  |-> <<>>,    \* quantities on hand it wrote
         total |-> 0,       \* the sum syncProductQuantity has read
         sold  |-> <<>>,    \* the lines of the sale it makes
         behind |-> {}]     \* products others changed since it read their sum
Ended == [Idle EXCEPT !.pc = "done"]

LotsOf(p) == {b \in Lots : ProductOf[b] = p}
Sum(S, row) == SumFunctionOnSet([b \in S |-> row[b].qty], S)

\* What some lines of a sale took from lot b.
TakenFrom(lines, b) ==
  SumFunctionOnSet([i \in DOMAIN lines |-> IF lines[i].lot = b THEN lines[i].qty ELSE 0],
                   DOMAIN lines)

Init == /\ lot = Opening
        /\ sale = Past
        /\ onHand = [p \in Products |->
                       Sum({b \in LotsOf(p) : Opening[b].status = "ACTIVE"}, Opening)]
        /\ tx = [t \in Txs |-> Idle]
        /\ received = [b \in Lots |->
                         Opening[b].qty + SumFunctionOnSet(
                           [s \in Sales |-> TakenFrom(Past[s].lines, b)], Sales)]
        /\ disposed = [b \in Lots |-> 0]
        /\ stale = {}
        /\ overlapped = {}

-----------------------------------------------------------------------------
(* What a transaction sees, and what it waits for *)

Override(f, g) == [x \in DOMAIN f |-> IF x \in DOMAIN g THEN g[x] ELSE f[x]]
With(f, S, v(_)) == [x \in DOMAIN f \cup S |-> IF x \in S THEN v(x) ELSE f[x]]

\* The lots as a statement of t sees them.
Seen(t) == Override(lot, tx[t].held)

\* The line t works on, and its product.
LineOf(t) == IF tx[t].req.op = "refund" THEN sale[tx[t].req.sale].lines[tx[t].req.line]
                                        ELSE sale[tx[t].req.sale].lines[tx[t].line]
Product(t) == CASE tx[t].req.op = "sale" -> Cart[tx[t].req.sale][tx[t].line].product
                [] tx[t].req.op \in {"void", "refund"} -> ProductOf[LineOf(t).lot]
                [] OTHER -> ProductOf[tx[t].req.lot]

\* loadGlobalSelectableLots
CanSell(row) == row.status = "ACTIVE" /\ row.qty > 0
Selectable(t) == {b \in LotsOf(Product(t)) : CanSell(Seen(t)[b])}

\* syncProductQuantity, step 1: the lots whose status does not fit their quantity.
Misfits(t) == {b \in LotsOf(Product(t)) :
                 LET row == Seen(t)[b]
                 IN \/ row.qty > 0 /\ row.status # "ACTIVE"
                    \/ row.qty = 0 /\ row.status = "ACTIVE"}

Earliest(S) == CHOOSE b \in S : \A c \in S : b <= c

\* The lots the next statement of t locks.
LotsNeeded(t) == CASE tx[t].pc = "lock" /\ tx[t].todo # {} -> {Earliest(tx[t].todo)}
                   [] tx[t].pc = "lock" /\ tx[t].todo = {} -> Selectable(t)
                   [] tx[t].pc = "flip" -> Misfits(t)
                   [] tx[t].pc = "return" -> {LineOf(t).lot}
                   [] OTHER -> {}

\* t has changed the sale_items row, or the sales row, and has not ended.
HoldsItem(t, s, i) == /\ tx[t].req.op = "refund"
                      /\ tx[t].req.sale = s /\ tx[t].req.line = i
                      /\ tx[t].pc \notin {"count", "done"}
HoldsSale(t, s) == tx[t].req.op = "void" /\ tx[t].req.sale = s /\ tx[t].pc = "commit"
\* Mutant: a refund posts before it restores its lot.
HoldsLedgerEarly(t) == tx[t].req.op = "refund" /\ tx[t].pc \notin {"count", "done"}

\* t has posted: the lock of the transaction numbers is held until it ends.
HoldsLedger(t) == tx[t].pc = "end"

Waits(t, u) ==
  /\ u # t
  /\ \/ LotsNeeded(t) \cap DOMAIN tx[u].held # {}
     \/ tx[t].pc = "write" /\ Product(t) \in DOMAIN tx[u].hand
     \/ tx[t].pc = "count" /\ HoldsItem(u, tx[t].req.sale, tx[t].req.line)
     \/ tx[t].pc \in {"post", "commit"} /\ HoldsLedger(u)
     \/ tx[t].pc \in {"end", "mark"} /\ HoldsSale(u, tx[t].req.sale)

Ready(t, pc) == tx[t].pc = pc /\ \A u \in Txs : ~Waits(t, u)

Goto(t, pc) == tx' = [tx EXCEPT ![t].pc = pc]

\* ROLLBACK
Fail(t) == /\ tx' = [tx EXCEPT ![t] = Ended]
           /\ UNCHANGED <<lot, onHand, sale, history>>

\* COMMIT of t with the rows it holds: what others see from now on.
Publish(t, rows, hand, unsynced) ==
  LET changed == {ProductOf[b] : b \in {c \in DOMAIN rows : rows[c] # lot[c]}}
  IN /\ lot' = Override(lot, rows)
     /\ onHand' = Override(onHand, hand)
     /\ stale' = (stale \ DOMAIN hand) \cup unsynced \cup (tx[t].behind \cap DOMAIN hand)
     /\ tx' = [u \in Txs |-> IF u = t THEN Ended
                            ELSE IF tx[u].pc \in {"idle", "done"} THEN tx[u]
                            ELSE [tx[u] EXCEPT !.behind = @ \cup changed]]
CommitLots(t) == Publish(t, tx[t].held, tx[t].hand, {})

-----------------------------------------------------------------------------
(* createSale *)

Begin(t, r, pc) == /\ tx[t].pc = "idle"
                   /\ tx' = [tx EXCEPT ![t].req = r, ![t].pc = pc]
                   /\ UNCHANGED <<lot, onHand, sale, history>>

StartSale(t, r) == /\ r.op = "sale"
                   /\ sale[r.sale].status = "none"
                   /\ \A u \in Txs : tx[u].req # r
                   /\ Begin(t, r, "load")

\* loadGlobalSelectableLots ... FOR UPDATE: the statement selects, then locks row
\* by row in FEFO order; a row that no longer qualifies is dropped.
Load(t) == /\ Ready(t, "load")
           /\ tx' = [tx EXCEPT ![t].todo = Selectable(t), ![t].pc = "lock"]
           /\ UNCHANGED <<lot, onHand, sale, history>>

LockLot(t) ==
  /\ Ready(t, "lock")
  /\ tx[t].todo # {}
  /\ LET b == Earliest(tx[t].todo)
         keep == IF CanSell(Seen(t)[b]) THEN {b} ELSE {}
     IN tx' = [tx EXCEPT ![t].todo = @ \ {b},
                         ![t].held = With(@, keep, LAMBDA c : Seen(t)[c])]
  /\ UNCHANGED <<lot, onHand, sale, history>>

\* Mutant: the quantity of a lot is no limit.
TakenWithoutLimit(S, row, qty) ==
  [b \in S |-> LET before == Sum({c \in S : c < b}, row)
               IN IF before >= qty THEN 0 ELSE qty - before]

\* What selectLots takes from each of the lots S to reach qty.
Less(a, b) == IF a < b THEN a ELSE b
Taken(S, row, qty) ==
  [b \in S |-> LET before == Sum({c \in S : c < b}, row)
               IN IF before >= qty THEN 0 ELSE Less(row[b].qty, qty - before)]

Want(t) == Cart[tx[t].req.sale][tx[t].line].qty
LockedForSale(t) == Selectable(t) \cap DOMAIN tx[t].held

\* Mutant: after a shortfall the sale selects again.
ShortfallSelectsAgain(t) == /\ Ready(t, "lock")
                            /\ tx[t].todo = {}
                            /\ Sum(LockedForSale(t), Seen(t)) < Want(t)
                            /\ Goto(t, "load")
                            /\ UNCHANGED <<lot, onHand, sale, history>>

\* Not enough stock in the lots it locked: the sale is rolled back.
Shortfall(t) == /\ Ready(t, "lock")
                /\ tx[t].todo = {}
                /\ Sum(LockedForSale(t), Seen(t)) < Want(t)
                /\ Fail(t)

\* decrementMasterRemainingQuantity
Decrement(row, qty) == [qty |-> row.qty - qty,
                        status |-> IF row.qty - qty <= 0 THEN "DEPLETED" ELSE row.status]

\* consumeLot selects again, this time every lot that can be sold now; the sale
\* line records the first lot it takes from.
Deduct(t) ==
  /\ Ready(t, "lock")
  /\ tx[t].todo = {}
  /\ Sum(LockedForSale(t), Seen(t)) >= Want(t)
  /\ LET S == Selectable(t)
         taken == Taken(S, Seen(t), Want(t))
         line == [lot |-> Earliest(S), qty |-> Want(t), refunded |-> 0]
     IN tx' = [tx EXCEPT
                 ![t].held = With(@, S, LAMBDA b : IF taken[b] > 0
                                                   THEN Decrement(Seen(t)[b], taken[b])
                                                   ELSE Seen(t)[b]),
                 ![t].sold = Append(@, line),
                 ![t].pc = "flip"]
  /\ UNCHANGED <<lot, onHand, sale, history>>

CommitSale(t) ==
  /\ Ready(t, "commit")
  /\ tx[t].req.op = "sale"
  /\ CommitLots(t)
  /\ sale' = [sale EXCEPT ![tx[t].req.sale] = [status |-> "COMPLETED",
                                               lines |-> tx[t].sold]]
  /\ UNCHANGED <<received, disposed, overlapped>>

-----------------------------------------------------------------------------
(* syncProductQuantity: three statements *)

\* Step 1 gives every lot with stock the status ACTIVE, whatever it was.
FlipStatuses(t) ==
  /\ Ready(t, "flip")
  /\ tx' = [tx EXCEPT
              ![t].held = With(@, Misfits(t), LAMBDA b :
                            [Seen(t)[b] EXCEPT !.status = IF @ = "ACTIVE" THEN "DEPLETED"
                                                                          ELSE "ACTIVE"]),
              ![t].pc = "sum"]
  /\ UNCHANGED <<lot, onHand, sale, history>>

\* Mutant: the sum is read through the pool, not by the transaction.
SumThroughPool(t) ==
  /\ Ready(t, "sum")
  /\ tx' = [tx EXCEPT
              ![t].total = Sum({b \in LotsOf(Product(t)) : lot[b].status = "ACTIVE"}, lot),
              ![t].behind = @ \ {Product(t)},
              ![t].pc = "write"]
  /\ UNCHANGED <<lot, onHand, sale, history>>

\* Steps 2 to 4 are one statement, which reads the sum before it waits for the
\* row of the product.
SumLots(t) ==
  /\ Ready(t, "sum")
  /\ tx' = [tx EXCEPT
              ![t].total = Sum({b \in LotsOf(Product(t)) : Seen(t)[b].status = "ACTIVE"},
                               Seen(t)),
              ![t].behind = @ \ {Product(t)},
              ![t].pc = "write"]
  /\ UNCHANGED <<lot, onHand, sale, history>>

\* What a document does when a line of it is synced.
LastLine(t) == CASE tx[t].req.op = "sale" -> tx[t].line = Len(Cart[tx[t].req.sale])
                 [] tx[t].req.op = "void" -> tx[t].line = Len(sale[tx[t].req.sale].lines)
                 [] OTHER -> TRUE
AfterLine(t) == CASE tx[t].req.op = "sale" -> IF LastLine(t) THEN "commit" ELSE "load"
                  [] tx[t].req.op = "void" -> IF LastLine(t) THEN "mark" ELSE "return"
                  [] tx[t].req.op = "refund" -> "post"
                  [] OTHER -> "commit"

WriteOnHand(t) ==
  /\ Ready(t, "write")
  /\ tx' = [tx EXCEPT
              ![t].hand = With(@, {Product(t)}, LAMBDA p : tx[t].total),
              ![t].total = 0,
              ![t].line = IF LastLine(t) THEN @ ELSE @ + 1,
              ![t].pc = AfterLine(t)]
  /\ UNCHANGED <<lot, onHand, sale, history>>

-----------------------------------------------------------------------------
(* voidSale and refundSale *)

\* Both read the sale without a lock.
ReadForVoid(t, r) == /\ r.op = "void"
                     /\ sale[r.sale].status \in {"COMPLETED", "PARTIALLY_RETURNED"}
                     /\ Begin(t, r, "return")

\* Mutant: a refund does not look at the status of the sale.
ReturnableAnySale(r) == r.line \in DOMAIN sale[r.sale].lines

Returnable(r) == /\ sale[r.sale].status \in {"COMPLETED", "PARTIALLY_RETURNED"}
                 /\ r.line \in DOMAIN sale[r.sale].lines
Left(r) == LET l == sale[r.sale].lines[r.line] IN l.qty - l.refunded

ReadForRefund(t, r) == /\ r.op = "refund"
                       /\ Returnable(r)
                       /\ r.qty <= Left(r)
                       /\ Begin(t, r, "count")

\* Mutant: the increment trusts the quantity read before.
CountRefundUnchecked(t) == /\ Ready(t, "count")
                           /\ Goto(t, "return")
                           /\ UNCHANGED <<lot, onHand, sale, history>>

\* incrementRefundedQty looks at the quantity again, under the lock of the row.
CountRefund(t) ==
  /\ Ready(t, "count")
  /\ IF tx[t].req.qty <= Left(tx[t].req)
     THEN /\ Goto(t, "return")
          /\ UNCHANGED <<lot, onHand, sale, history>>
     ELSE Fail(t)

\* increaseMasterRemainingQuantity: the lot of the line, whatever its status.
Increase(row, qty) == [qty |-> row.qty + qty, status |-> "ACTIVE"]

ReturnLot(t) ==
  /\ Ready(t, "return")
  /\ LET qty == IF tx[t].req.op = "void" THEN LineOf(t).qty ELSE tx[t].req.qty
     IN tx' = [tx EXCEPT
                 ![t].held = With(@, {LineOf(t).lot}, LAMBDA b : Increase(Seen(t)[b], qty)),
                 ![t].pc = "flip"]
  /\ UNCHANGED <<lot, onHand, sale, history>>

\* Mutant: the update of the sale has no status in its WHERE.
MarkVoidAnyStatus(t) == /\ Ready(t, "mark")
                        /\ Goto(t, "commit")
                        /\ UNCHANGED <<lot, onHand, sale, history>>

\* salesRepository.voidSale changes a COMPLETED sale only; the ledger comes after.
MarkVoid(t) ==
  /\ Ready(t, "mark")
  /\ IF sale[tx[t].req.sale].status = "COMPLETED"
     THEN /\ Goto(t, "commit")
          /\ UNCHANGED <<lot, onHand, sale, history>>
     ELSE Fail(t)

Refunding(s) == \E u \in Txs : /\ tx[u].req.op = "refund" /\ tx[u].req.sale = s
                               /\ tx[u].pc # "done"

CommitVoid(t) ==
  /\ Ready(t, "commit")
  /\ tx[t].req.op = "void"
  /\ CommitLots(t)
  /\ sale' = [sale EXCEPT ![tx[t].req.sale].status = "VOID"]
  /\ overlapped' = overlapped \cup {s \in {tx[t].req.sale} : Refunding(s)}
  /\ UNCHANGED <<received, disposed>>

\* recordSaleRefundToGL takes the lock of the transaction numbers.
PostRefund(t) == /\ Ready(t, "post")
                 /\ Goto(t, "end")
                 /\ UNCHANGED <<lot, onHand, sale, history>>

\* isSaleFullyRefunded, then markSaleVoidedByReturn or markSalePartiallyReturned:
\* neither minds that it finds no row to change.
Marked(status, full) ==
  IF full /\ status \in {"COMPLETED", "PARTIALLY_RETURNED"} THEN "VOIDED_BY_RETURN"
  ELSE IF ~full /\ status = "COMPLETED" THEN "PARTIALLY_RETURNED"
  ELSE status
FullyRefunded(lines) == \A i \in DOMAIN lines : lines[i].refunded >= lines[i].qty

CommitRefund(t) ==
  /\ Ready(t, "end")
  /\ CommitLots(t)
  /\ LET r == tx[t].req
         lines == [sale[r.sale].lines EXCEPT ![r.line].refunded = @ + r.qty]
     IN sale' = [sale EXCEPT
                   ![r.sale] = [status |-> Marked(@.status, FullyRefunded(lines)),
                                lines |-> lines]]
  /\ UNCHANGED <<received, disposed, overlapped>>

-----------------------------------------------------------------------------
(* Goods receipt, soft quarantine and disposal of one lot *)

\* finalizeGR: receiveLot inserts the lot.
Receive(t, r) ==
  /\ tx[t].pc = "idle"
  /\ r.op = "receive"
  /\ lot[r.lot].status = "none"
  /\ \A u \in Txs : r.lot \notin DOMAIN tx[u].held
  /\ tx' = [tx EXCEPT ![t].req = r, ![t].pc = "flip",
                      ![t].held = With(@, {r.lot}, LAMBDA b : Increase(lot[b], r.qty))]
  /\ UNCHANGED <<lot, onHand, sale, history>>

\* disposeSoftQuarantine: the lot FOR UPDATE, then consumeLot of this lot alone.
Dispose(t, r) ==
  /\ tx[t].pc = "idle"
  /\ r.op = "dispose"
  /\ \A u \in Txs : r.lot \notin DOMAIN tx[u].held
  /\ lot[r.lot].status = "QUARANTINED"
  /\ r.qty <= lot[r.lot].qty
  /\ tx' = [tx EXCEPT ![t].req = r, ![t].pc = "flip",
                      ![t].held = With(@, {r.lot}, LAMBDA b : Decrement(lot[b], r.qty))]
  /\ UNCHANGED <<lot, onHand, sale, history>>

CommitReceipt(t) ==
  /\ Ready(t, "commit")
  /\ tx[t].req.op = "receive"
  /\ CommitLots(t)
  /\ received' = [received EXCEPT ![tx[t].req.lot] = @ + tx[t].req.qty]
  /\ UNCHANGED <<sale, disposed, overlapped>>

CommitDisposal(t) ==
  /\ Ready(t, "commit")
  /\ tx[t].req.op = "dispose"
  /\ CommitLots(t)
  /\ disposed' = [disposed EXCEPT ![tx[t].req.lot] = @ + tx[t].req.qty]
  /\ UNCHANGED <<sale, received, overlapped>>

\* softQuarantine changes the status of the lot and calls no sync.
Quarantine(t, r) ==
  /\ tx[t].pc = "idle"
  /\ r.op = "quarantine"
  /\ \A u \in Txs : r.lot \notin DOMAIN tx[u].held
  /\ CanSell(lot[r.lot])
  /\ LET rows == With(<<>>, {r.lot}, LAMBDA b : [lot[b] EXCEPT !.status = "QUARANTINED"])
     IN Publish(t, rows, <<>>, {ProductOf[r.lot]})
  /\ UNCHANGED <<sale, received, disposed, overlapped>>

-----------------------------------------------------------------------------
\* PostgreSQL rolls back one transaction of a cycle of waits.
Stuck(C) == C # {} /\ \A t \in C : \E u \in C : Waits(t, u)
Break(t) == /\ \E C \in SUBSET Txs :
                 /\ t \in C /\ Stuck(C)
                 /\ \A D \in SUBSET C : Stuck(D) => D = C
            /\ Fail(t)

Steps(t) == \/ Load(t) \/ LockLot(t) \/ Shortfall(t) \/ Deduct(t) \/ CommitSale(t)
            \/ FlipStatuses(t) \/ SumLots(t) \/ WriteOnHand(t)
            \/ CountRefund(t) \/ ReturnLot(t) \/ MarkVoid(t) \/ CommitVoid(t)
            \/ PostRefund(t) \/ CommitRefund(t)
            \/ CommitReceipt(t) \/ CommitDisposal(t) \/ Break(t)

Starts(t, r) == \/ StartSale(t, r) \/ ReadForVoid(t, r) \/ ReadForRefund(t, r)
                \/ Receive(t, r) \/ Dispose(t, r) \/ Quarantine(t, r)

\* No transaction is open: the shop may stay as it is.
Rest == (\A t \in Txs : tx[t].pc \in {"idle", "done"}) /\ UNCHANGED vars

Next == \/ \E t \in Txs : Steps(t) \/ \E r \in Requests : Starts(t, r)
        \/ Rest

Spec == Init /\ [][Next]_vars
FairSpec == Spec /\ \A t \in Txs : WF_vars(Steps(t))

-----------------------------------------------------------------------------
(* Properties *)

\* Type correctness.
TypeOK ==
  /\ lot \in [Lots -> Rows]
  /\ onHand \in [Products -> Nat]
  /\ \A s \in Sales : sale[s].status \in SaleStatuses /\ sale[s].lines \in Seq(Lines)
  /\ \A t \in Txs : /\ tx[t].req \in Requests \cup {NoRequest}
                    /\ DOMAIN tx[t].held \subseteq Lots
                    /\ tx[t].held \in [DOMAIN tx[t].held -> Rows]
                    /\ DOMAIN tx[t].hand \subseteq Products
                    /\ tx[t].hand \in [DOMAIN tx[t].hand -> Nat]
  /\ received \in [Lots -> Nat] /\ disposed \in [Lots -> Nat]
  /\ stale \subseteq Products /\ overlapped \subseteq Sales

\* What a sale has taken from the shop of product p: a void gives everything back,
\* whatever refunds gave back before or after it.
Out(doc, line) == (IF doc.status = "VOID" THEN 0 ELSE line.qty) - line.refunded
OutOf(doc, p) ==
  SumFunctionOnSet([i \in DOMAIN doc.lines |-> IF ProductOf[doc.lines[i].lot] = p
                                               THEN Out(doc, doc.lines[i]) ELSE 0],
                   DOMAIN doc.lines)

\* Whatever runs at once, the stock of a product is what was received less what its
\* documents took out: nothing is sold twice, and a document that is rolled back
\* after it restored stock (a second void, a deadlock) leaves nothing behind.
StockMatchesDocuments ==
  \A p \in Products :
    Sum(LotsOf(p), lot) =
      SumFunctionOnSet([b \in LotsOf(p) |-> received[b] - disposed[b]], LotsOf(p))
        - SumFunctionOnSet([s \in Sales |-> OutOf(sale[s], p)], Sales)

\* products.quantity_on_hand is the sum of the lots that can be sold, except after a
\* quarantine, which does not sync, and after two documents of the product summed
\* its lots before either had committed; the next sync that is alone repairs it.
OnHandExcused ==
  \A p \in Products \ stale :
    onHand[p] = Sum({b \in LotsOf(p) : lot[b].status = "ACTIVE"}, lot)

\* Goods of one sale come back both by a void and by a refund only when the refund
\* had read the sale before the void committed.
RefundedVoidWasOverlapped ==
  \A s \in Sales : (/\ sale[s].status = "VOID"
                    /\ \E i \in DOMAIN sale[s].lines : sale[s].lines[i].refunded > 0)
                   => s \in overlapped

\* A sale whose lines have all come back is marked so, although the check sees
\* committed refunds only: the refunds pass it one at a time.  No line comes back
\* twice.
FullyReturnedIsMarked ==
  \A s \in Sales : LET lines == sale[s].lines
                   IN /\ \A i \in DOMAIN lines : lines[i].refunded <= lines[i].qty
                      /\ (lines # <<>> /\ FullyRefunded(lines))
                           => sale[s].status \in {"VOIDED_BY_RETURN", "VOID"}

\* Documents wait for each other in a circle only if one of them
\*   - has several lines and holds the product of an earlier one,
\*   - puts quarantined lots back on sale, which takes them in no order, or
\*   - is a sale that selects its lots a second time and finds one that came back
\*     since, and that another sale has locked before it.
\* FEFO order, with the product after its lots, keeps all others apart.
Circles == {C \in SUBSET Txs : Stuck(C)}
SeveralLines(t) == tx[t].hand # <<>> /\ tx[t].pc \in {"lock", "flip", "write", "return"}
Reselects(t) == tx[t].pc = "lock" /\ tx[t].todo = {}

DeadlocksExplained ==
  \A C \in Circles : \E t \in C : SeveralLines(t) \/ tx[t].pc = "flip" \/ Reselects(t)

\* Every document is finished, committed or rolled back: whatever they wait for, the
\* transactions that are open come to an end.
DocumentsEnd == []<>(\A t \in Txs : tx[t].pc \in {"idle", "done"})

\* What docs/architecture/LOSS_QUARANTINE_INVARIANTS.md says of quarantined lots: they
\* cannot be sold without an override, and no document here carries one.
QuarantineHolds ==
  [][\A b \in Lots : lot[b].status = "QUARANTINED" => lot'[b].status # "ACTIVE"]_vars
=============================================================================
