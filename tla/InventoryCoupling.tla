-------------------------- MODULE InventoryCoupling --------------------------
(***************************************************************************)
(* The guard that keeps the inventory account of the general ledger (1300) *)
(* in step with the value of the stock                                     *)
(* (SamplePOS.Server/src/services/inventorySubledgerCoupling.ts and        *)
(* inventoryCouplingMath.ts).  A guarded document captures both totals,    *)
(* moves its lots, captures them again and posts the difference of the     *)
(* stock values, whoever made it; then it captures them a third time and   *)
(* rolls back if the gap between ledger and stock has moved.               *)
(*                                                                         *)
(* A capture is two plain SELECTs at READ COMMITTED over the whole shop:   *)
(* what other documents commit between the captures, or between the two    *)
(* statements of one, is in them.  Sales, goods receipts and stock         *)
(* write-offs are guarded.  A return (a void or a refund) is not: it       *)
(* restores lots at their cost and reverses what was posted.               *)
(*                                                                         *)
(* Lots are reduced to the value they add up to (FefoStock has their rows) *)
(* and values are integers: the tolerance of two cents is left out.        *)
(***************************************************************************)
EXTENDS Integers

CONSTANTS Txs,           \* database transactions
          Docs,          \* documents
          Kind,          \* of each document
          Worth,         \* the value of the lots it moves
          Credit,        \* what a return posts to account 1300
          OpeningLedger, \* account 1300 and the stock at the start: they need not agree
          OpeningStock,
          NoDoc

Kinds == {"sale", "receipt", "writeoff", "return"}

ASSUME DocsAssumption == /\ Kind \in [Docs -> Kinds]
                         /\ Worth \in [Docs -> Nat]
                         /\ Credit \in [Docs -> Nat]
                         /\ OpeningLedger \in Int /\ OpeningStock \in Int
                         /\ NoDoc \notin Docs

VARIABLES gl,      \* net of account 1300
          value,   \* sum of remaining_quantity * cost_price over inventory_batches
          done,    \* how often each document has been committed
          booked,  \* the journal of each document: what it posted to 1300
          tx,      \* one transaction each
          mixed    \* history: documents committed although a total had changed
                   \* under them

vars == <<gl, value, done, booked, tx, mixed>>

NoJournal == -1

Txns == [doc         : Docs \cup {NoDoc},
         pc          : {"idle", "lock", "ledger", "stock", "measure", "post", "check",
                        "assert", "done", "refused"},
         glBefore    : Int,
         valueBefore : Int,
         amount      : Nat,      \* what it posts
         journal     : BOOLEAN,  \* it wrote a journal and holds the lock of the numbers
         glAfter     : Int,
         crossed     : BOOLEAN]  \* history: a total has changed since glBefore

Idle == [doc |-> NoDoc, pc |-> "idle", glBefore |-> 0, valueBefore |-> 0, amount |-> 0,
         journal |-> FALSE, glAfter |-> 0, crossed |-> FALSE]

Init == /\ gl = OpeningLedger
        /\ value = OpeningStock
        /\ done = [d \in Docs |-> 0]
        /\ booked = [d \in Docs |-> NoJournal]
        /\ tx = [t \in Txs |-> Idle]
        /\ mixed = {}

-----------------------------------------------------------------------------
\* The direction of a document: into the stock or out of it.
Signed(d, amount) == IF Kind[d] \in {"receipt", "return"} THEN amount ELSE -amount

\* What t adds to the value of the stock and to account 1300; it sees both at once.
Moved(t) == Signed(tx[t].doc, Worth[tx[t].doc])
Posted(t) == IF tx[t].journal THEN Signed(tx[t].doc, tx[t].amount) ELSE 0

Ended == {"done", "refused"}
At(t, pc) == tx[t].pc = pc
LedgerFree(t) == \A u \in Txs \ {t} : tx[u].journal => tx[u].pc \in Ended
ReceiptFree(t) == \A u \in Txs \ {t} : /\ tx[u].doc = tx[t].doc
                                       /\ tx[u].pc \notin Ended
                                       => tx[u].pc = "lock"

Step(t, x) == /\ tx' = [tx EXCEPT ![t] = x]
              /\ UNCHANGED <<gl, value, done, booked, mixed>>

\* COMMIT: what t posted to 1300 and added to the stock is seen by the others.
Commit(t, posted, moved) ==
  /\ gl' = gl + posted
  /\ value' = value + moved
  /\ done' = [done EXCEPT ![tx[t].doc] = @ + 1]
  /\ booked' = [booked EXCEPT ![tx[t].doc] = IF tx[t].journal THEN tx[t].amount ELSE @]
  /\ mixed' = mixed \cup {d \in {tx[t].doc} : tx[t].crossed}
  /\ tx' = [u \in Txs |->
              IF u = t THEN [tx[u] EXCEPT !.pc = "done"]
              ELSE [tx[u] EXCEPT !.crossed = @ \/ posted # 0 \/ moved # 0]]

-----------------------------------------------------------------------------
\* A document is begun once, except a goods receipt: finalizeGR reads that it is
\* not COMPLETED, then locks its row, and does not look at it again.
Begin(t, d) ==
  /\ At(t, "idle")
  /\ done[d] = 0
  /\ Kind[d] = "receipt" \/ \A u \in Txs : tx[u].doc # d
  /\ Step(t, [Idle EXCEPT !.doc = d,
                          !.pc = CASE Kind[d] = "receipt" -> "lock"
                                   [] Kind[d] = "return" -> "post"
                                   [] OTHER -> "ledger"])

LockReceipt(t) == /\ At(t, "lock")
                  /\ ReceiptFree(t)
                  /\ Step(t, [tx[t] EXCEPT !.pc = "ledger"])

\* Mutant: the value of the stock comes from a cache.
CaptureStockFromCache(t) == /\ At(t, "stock")
                            /\ Step(t, [tx[t] EXCEPT !.valueBefore = OpeningStock,
                                                     !.pc = "measure"])

\* captureInventoryCoupling before the lots are moved: two statements.
CaptureLedger(t) == /\ At(t, "ledger")
                    /\ Step(t, [tx[t] EXCEPT !.glBefore = gl, !.crossed = FALSE,
                                             !.pc = "stock"])
CaptureStock(t) == /\ At(t, "stock")
                   /\ Step(t, [tx[t] EXCEPT !.valueBefore = value, !.pc = "measure"])

\* batchValuationReduction, batchValuationIncrease: the difference of the two captured
\* values in the direction of the document.
Delta(t) == Signed(tx[t].doc, value + Moved(t) - tx[t].valueBefore)

\* Mutant: a difference of the wrong sign is posted too.
AmountAnySign(t) == Delta(t)

\* resolveGl1300FromBatchSubledgerDelta posts it unless it has the wrong sign.  A
\* write-off falls back to its own quantity times cost.
Amount(t) == IF Delta(t) > 0 THEN Delta(t)
             ELSE IF Kind[tx[t].doc] = "writeoff" THEN Worth[tx[t].doc] ELSE 0

\* The lots are moved and the totals captured again.
Measure(t) == /\ At(t, "measure")
              /\ Step(t, [tx[t] EXCEPT !.amount = Amount(t), !.pc = "post"])

\* Mutant: the journal of a receipt carries no key.
WritesJournalAgain(t) == Kind[tx[t].doc] = "sale" \/ tx[t].amount > 0

\* A sale always has a journal, for its revenue; the others have one for an amount,
\* and createJournalEntry returns an earlier journal of the same receipt as it is.
WritesJournal(t) == \/ Kind[tx[t].doc] = "sale"
                    \/ tx[t].amount > 0 /\ booked[tx[t].doc] = NoJournal

Post(t) == /\ At(t, "post")
           /\ Kind[tx[t].doc] # "return"
           /\ WritesJournal(t) => LedgerFree(t)
           /\ Step(t, [tx[t] EXCEPT !.journal = WritesJournal(t), !.pc = "check"])

\* Mutant: the last capture goes through the pool.
CheckLedgerThroughPool(t) == /\ At(t, "check")
                             /\ Step(t, [tx[t] EXCEPT !.glAfter = gl, !.pc = "assert"])

\* The last capture, of t's own view, and assertInventoryCouplingUnchanged.
CheckLedger(t) == /\ At(t, "check")
                  /\ Step(t, [tx[t] EXCEPT !.glAfter = gl + Posted(t), !.pc = "assert"])

GapBefore(t) == tx[t].glBefore - tx[t].valueBefore
GapAfter(t) == tx[t].glAfter - (value + Moved(t))

\* Mutant: the gaps are not compared.
CommitUnguarded(t) == At(t, "assert") /\ Commit(t, Posted(t), Moved(t))

CommitGuarded(t) == /\ At(t, "assert")
                    /\ GapAfter(t) = GapBefore(t)
                    /\ Commit(t, Posted(t), Moved(t))

Refuse(t) == /\ At(t, "assert")
             /\ GapAfter(t) # GapBefore(t)
             /\ Step(t, [tx[t] EXCEPT !.pc = "refused"])

\* voidSale and refundSale capture nothing; their journal is the last they wait for.
CommitReturn(t) == /\ At(t, "post")
                   /\ Kind[tx[t].doc] = "return"
                   /\ LedgerFree(t)
                   /\ Commit(t, Credit[tx[t].doc], Worth[tx[t].doc])

Steps(t) == \/ LockReceipt(t) \/ CaptureLedger(t) \/ CaptureStock(t) \/ Measure(t)
            \/ Post(t) \/ CheckLedger(t) \/ CommitGuarded(t) \/ Refuse(t)
            \/ CommitReturn(t)

Next == \E t \in Txs : Steps(t) \/ \E d \in Docs : Begin(t, d)

Spec == Init /\ [][Next]_vars

-----------------------------------------------------------------------------
(* Properties *)

\* Type correctness.
TypeOK == /\ gl \in Int /\ value \in Int
          /\ done \in [Docs -> Nat]
          /\ booked \in [Docs -> Nat \cup {NoJournal}]
          /\ tx \in [Txs -> Txns]
          /\ mixed \subseteq Docs

Gap == gl - value

\* A guarded document leaves the gap between ledger and stock as it was, unless
\* another commit changed a total under it: then it may pass the check with a wrong
\* amount, when two changes cancel out.
GuardedKeepsGap ==
  [][\A t \in Txs : (CommitGuarded(t) /\ ~tx[t].crossed) => Gap' = Gap]_vars

\* What a document posts to 1300 is the value of its own lots, unless a total changed
\* under it: then another document's change may be in its cost.
AmountIsOwn ==
  \A d \in Docs : (Kind[d] # "return" /\ booked[d] # NoJournal /\ d \notin mixed)
                    => booked[d] = Worth[d]

\* The check turns away only documents under which a total changed, and the second
\* finalization of a receipt: a document that runs alone is never refused.
RefusalsExplained ==
  \A t \in Txs : tx[t].pc = "refused" =>
    tx[t].crossed \/ (Kind[tx[t].doc] = "receipt" /\ done[tx[t].doc] > 0)

\* finalizeGR finalizes a receipt once: the status it tests was read before the lock,
\* but the journal is written once, so a second set of lots moves the gap and is
\* refused.  Not so when the lots are worth nothing (bonus goods) or a change by
\* others makes up for it.
ReceiptOnce ==
  \A d \in Docs : (Kind[d] = "receipt" /\ done[d] > 1) => Worth[d] = 0 \/ d \in mixed
=============================================================================
