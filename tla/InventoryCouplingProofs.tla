---------------------- MODULE InventoryCouplingProofs ----------------------
(***************************************************************************)
(* Proofs about InventoryCoupling for any transactions, documents, values  *)
(* and opening totals.                                                     *)
(***************************************************************************)
EXTENDS InventoryCoupling, TLAPS

USE DocsAssumption

(* The stages between the first capture, or the lock, and the end. *)
Inside == {"ledger", "stock", "measure", "post", "check", "assert"}

(* Which stage goes with which document, and when a journal is written. *)
StageOf(x) ==
  /\ (x.pc = "idle") <=> (x.doc = NoDoc)
  /\ x.journal => x.pc \in {"check", "assert", "done", "refused"}
  /\ x.pc = "lock" => Kind[x.doc] = "receipt"
  /\ (x.pc # "idle" /\ Kind[x.doc] = "return") => x.pc \in {"post", "done"}

(* Only a receipt is worked on twice, and not by two transactions at once. *)
FirstOf(x) == (x.pc \in Inside /\ Kind[x.doc] # "receipt") => done[x.doc] = 0
Apart(x, y) == (x.doc = y.doc /\ x.doc # NoDoc) =>
                 /\ Kind[x.doc] = "receipt"
                 /\ ~(x.pc \in Inside /\ y.pc \in Inside)

(* What a document has measured is still so if no total has changed under it. *)
CaptureOf(x) ==
  (~x.crossed /\ x.pc \in Inside /\ Kind[x.doc] # "return") =>
    /\ x.pc # "ledger" => x.glBefore = gl
    /\ x.pc \in {"measure", "post", "check", "assert"} => x.valueBefore = value
    /\ x.pc \in {"post", "check", "assert"} => x.amount = Worth[x.doc]
    /\ x.pc = "assert" =>
         x.glAfter = gl + (IF x.journal THEN Signed(x.doc, x.amount) ELSE 0)

(* A document that was to post and has no journal found one, and nobody else writes
   the journal of a receipt meanwhile. *)
JournalOf(x) ==
  x.pc \in {"check", "assert"} =>
    /\ (~x.journal /\ (x.amount > 0 \/ Kind[x.doc] = "sale"))
         => (Kind[x.doc] # "sale" /\ booked[x.doc] # NoJournal)
    /\ (x.journal /\ Kind[x.doc] = "receipt") => booked[x.doc] = NoJournal

RefusalOf(x) == x.pc = "refused" =>
                  x.crossed \/ (Kind[x.doc] = "receipt" /\ done[x.doc] > 0)

TxInv == \A t \in Txs : /\ StageOf(tx[t]) /\ FirstOf(tx[t]) /\ CaptureOf(tx[t])
                        /\ JournalOf(tx[t]) /\ RefusalOf(tx[t])
PairInv == \A t, u \in Txs : t # u => Apart(tx[t], tx[u])

(* A journal belongs to a commit, and a receipt of value that was committed with no
   change under it has its journal. *)
BookInv ==
  \A d \in Docs :
    /\ booked[d] # NoJournal => done[d] > 0
    /\ (Kind[d] = "receipt" /\ done[d] > 0 /\ d \notin mixed /\ Worth[d] > 0)
         => booked[d] # NoJournal

Inv == TypeOK /\ TxInv /\ PairInv /\ BookInv /\ AmountIsOwn /\ ReceiptOnce

-----------------------------------------------------------------------------
(* Signed changes the sign of an amount, or not, and undoes itself. *)
LEMMA SignedFacts ==
  ASSUME NEW d \in Docs, NEW a \in Int
  PROVE  /\ Signed(d, a) \in Int
         /\ Signed(d, Signed(d, a)) = a
         /\ (Signed(d, a) = 0) <=> (a = 0)
BY DEF Signed

(* A transaction that has a document moves and posts whole amounts. *)
LEMMA MovedFacts ==
  ASSUME TypeOK, NEW t \in Txs, tx[t].doc \in Docs
  PROVE  /\ Moved(t) \in Int /\ Posted(t) \in Int
         /\ Amount(t) \in Nat
         /\ tx[t].valueBefore = value => Amount(t) = Worth[tx[t].doc]
<1> DEFINE d == tx[t].doc
           change == value + Moved(t) - tx[t].valueBefore
<1>1. tx[t] \in Txns /\ Worth[d] \in Nat /\ value \in Int
  BY DEF TypeOK
<1>2. Moved(t) \in Int /\ Posted(t) \in Int
  <2>1. tx[t].amount \in Int /\ Worth[d] \in Int
    BY <1>1 DEF Txns
  <2> QED BY <2>1, SignedFacts DEF Moved, Posted
<1>3. change \in Int /\ Delta(t) \in Int
  <2>1. change \in Int
    BY <1>1, <1>2 DEF Txns
  <2> QED BY <2>1, SignedFacts DEF Delta
<1>4. Amount(t) \in Nat
  BY <1>1, <1>3 DEF Amount
<1>5. ASSUME tx[t].valueBefore = value PROVE Amount(t) = Worth[d]
  <2>1. change = Moved(t)
    BY <1>1, <1>2, <1>5
  <2>2. Delta(t) = Worth[d]
    BY <2>1, <1>1, SignedFacts DEF Delta, Moved
  <2> QED BY <2>2, <1>1 DEF Amount
<1> QED BY <1>2, <1>4, <1>5

(* At the start nothing has happened. *)
LEMMA InitInv == Init => Inv
<1> SUFFICES ASSUME Init PROVE Inv
  OBVIOUS
<1>1. \A t \in Txs : tx[t] = Idle
  BY DEF Init
<1>2. Idle \in Txns
  BY DEF Idle, Txns
<1>3. TypeOK
  BY <1>1, <1>2 DEF Init, TypeOK
<1>4. TxInv
  <2>1. Idle.pc = "idle" /\ Idle.doc = NoDoc /\ Idle.journal = FALSE
    BY DEF Idle
  <2>2. StageOf(Idle)
    BY <2>1 DEF StageOf
  <2>3. FirstOf(Idle) /\ CaptureOf(Idle) /\ JournalOf(Idle) /\ RefusalOf(Idle)
    BY <2>1 DEF FirstOf, CaptureOf, JournalOf, RefusalOf, Inside
  <2> QED BY <1>1, <2>2, <2>3 DEF TxInv
<1>5. PairInv
  BY <1>1 DEF PairInv, Apart, Idle
<1>6. BookInv /\ AmountIsOwn /\ ReceiptOnce
  BY DEF Init, BookInv, AmountIsOwn, ReceiptOnce
<1> QED BY <1>3, <1>4, <1>5, <1>6 DEF Inv

(* A step that is no commit keeps the invariant if the changed transaction does. *)
LEMMA StepKeeps ==
  ASSUME Inv, NEW t \in Txs, NEW x \in Txns, Step(t, x),
         StageOf(x), FirstOf(x), CaptureOf(x), JournalOf(x), RefusalOf(x),
         \A u \in Txs \ {t} : Apart(x, tx[u]) /\ Apart(tx[u], x)
  PROVE  Inv'
<1>1. /\ tx' = [tx EXCEPT ![t] = x]
      /\ UNCHANGED <<gl, value, done, booked, mixed>>
  BY DEF Step
<1>2. tx'[t] = x /\ \A u \in Txs \ {t} : tx'[u] = tx[u]
  BY <1>1 DEF Inv, TypeOK
<1>3. TypeOK'
  BY <1>1 DEF Inv, TypeOK
<1>4. TxInv'
  <2> SUFFICES ASSUME NEW u \in Txs
               PROVE  (/\ StageOf(tx[u]) /\ FirstOf(tx[u]) /\ CaptureOf(tx[u])
                       /\ JournalOf(tx[u]) /\ RefusalOf(tx[u]))'
    BY DEF TxInv
  <2>1. /\ StageOf(tx'[u]) /\ FirstOf(tx'[u]) /\ CaptureOf(tx'[u])
        /\ JournalOf(tx'[u]) /\ RefusalOf(tx'[u])
    BY <1>2 DEF Inv, TxInv
  <2> QED BY <1>1, <2>1 DEF StageOf, FirstOf, CaptureOf, JournalOf, RefusalOf
<1>5. PairInv'
  BY <1>2 DEF Inv, PairInv, Apart
<1>6. BookInv' /\ AmountIsOwn' /\ ReceiptOnce'
  BY <1>1 DEF Inv, BookInv, AmountIsOwn, ReceiptOnce
<1> QED BY <1>3, <1>4, <1>5, <1>6 DEF Inv

(* A commit keeps the invariant if a receipt of value with no change under it has
   written its journal. *)
LEMMA CommitKeeps ==
  ASSUME Inv, NEW t \in Txs, NEW posted \in Int, NEW moved \in Int,
         Commit(t, posted, moved),
         tx[t].pc = "assert" \/ (tx[t].pc = "post" /\ Kind[tx[t].doc] = "return"),
         (Kind[tx[t].doc] = "receipt" /\ ~tx[t].crossed /\ Worth[tx[t].doc] > 0)
           => (tx[t].pc = "assert" /\ tx[t].journal)
  PROVE  Inv'
<1> DEFINE d == tx[t].doc
           moves == posted # 0 \/ moved # 0
<1>1. /\ gl' = gl + posted /\ value' = value + moved
      /\ done' = [done EXCEPT ![d] = @ + 1]
      /\ booked' = [booked EXCEPT ![d] = IF tx[t].journal THEN tx[t].amount ELSE @]
      /\ mixed' = mixed \cup {e \in {d} : tx[t].crossed}
      /\ tx'[t] = [tx[t] EXCEPT !.pc = "done"]
      /\ \A u \in Txs \ {t} : tx'[u] = [tx[u] EXCEPT !.crossed = @ \/ moves]
      /\ tx' = [u \in Txs |-> tx'[u]]
  BY Zenon DEF Commit
<1>2. /\ tx \in [Txs -> Txns] /\ tx[t] \in Txns
      /\ done \in [Docs -> Nat] /\ booked \in [Docs -> Nat \cup {NoJournal}]
      /\ gl \in Int /\ value \in Int /\ mixed \subseteq Docs
  BY DEF Inv, TypeOK
<1>3. d \in Docs /\ tx[t].pc \in Inside
  BY <1>2 DEF Inv, TxInv, StageOf, Txns, Inside
<1>4. TypeOK'
  <2>1. \A u \in Txs : tx'[u] \in Txns
    <3>1. \A x \in Txns, c \in BOOLEAN : [x EXCEPT !.crossed = c] \in Txns
      BY DEF Txns
    <3>2. \A x \in Txns : [x EXCEPT !.pc = "done"] \in Txns
      BY DEF Txns
    <3>3. ASSUME NEW u \in Txs \ {t} PROVE tx'[u] \in Txns
      <4>1. tx'[u] = [tx[u] EXCEPT !.crossed = @ \/ moves]
        BY Zenon, <1>1
      <4>2. tx[u] \in Txns
        BY <1>2
      <4>3. (tx[u].crossed \/ moves) \in BOOLEAN
        OBVIOUS
      <4> HIDE DEF moves
      <4> QED BY <3>1, <4>1, <4>2, <4>3
    <3>4. tx'[t] = [tx[t] EXCEPT !.pc = "done"]
      BY Zenon, <1>1
    <3> QED BY <1>2, <3>2, <3>3, <3>4
  <2>2. gl' \in Int /\ value' \in Int /\ mixed' \subseteq Docs
    BY <1>1, <1>2, <1>3
  <2>3. done' \in [Docs -> Nat]
    BY <1>1, <1>2, <1>3
  <2>4. booked' \in [Docs -> Nat \cup {NoJournal}]
    BY <1>1, <1>2, <1>3 DEF Txns
  <2> QED BY <1>1, <2>1, <2>2, <2>3, <2>4 DEF TypeOK
<1>5. ASSUME NEW u \in Txs \ {t}
      PROVE  /\ tx'[u].doc = tx[u].doc /\ tx'[u].pc = tx[u].pc
             /\ tx'[u].journal = tx[u].journal /\ tx'[u].amount = tx[u].amount
             /\ tx'[u].glBefore = tx[u].glBefore
             /\ tx'[u].valueBefore = tx[u].valueBefore
             /\ tx'[u].glAfter = tx[u].glAfter
             /\ tx'[u].crossed = (tx[u].crossed \/ moves)
  BY <1>1, <1>2 DEF Txns
<1>6. /\ tx'[t].doc = d /\ tx'[t].pc = "done"
      /\ tx'[t].journal = tx[t].journal
  BY <1>1, <1>2 DEF Txns
<1>7. TxInv'
  <2>1. ASSUME NEW u \in Txs \ {t}
        PROVE  (/\ StageOf(tx[u]) /\ FirstOf(tx[u]) /\ CaptureOf(tx[u])
                /\ JournalOf(tx[u]) /\ RefusalOf(tx[u]))'
    <3>1. /\ StageOf(tx[u]) /\ FirstOf(tx[u]) /\ CaptureOf(tx[u])
          /\ JournalOf(tx[u]) /\ RefusalOf(tx[u]) /\ Apart(tx[t], tx[u])
          /\ tx[u] \in Txns
      BY <1>2 DEF Inv, TxInv, PairInv
    <3>2. StageOf(tx[u])'
      BY <1>5, <3>1 DEF StageOf
    <3>3. tx[u].pc \in Inside => tx[u].doc # d \/ Kind[d] = "receipt"
      BY <1>3, <3>1 DEF Apart
    <3>4. tx[u].doc # d => done'[tx[u].doc] = done[tx[u].doc]
                            /\ booked'[tx[u].doc] = booked[tx[u].doc]
      BY <1>1, <1>2
    <3>5. FirstOf(tx[u])'
      BY <1>5, <3>1, <3>3, <3>4 DEF FirstOf
    <3>6. CaptureOf(tx[u])'
      <4>1. CASE moves
        BY <1>5, <4>1 DEF CaptureOf
      <4>2. CASE ~moves
        <5>1. gl' = gl /\ value' = value
          BY <1>1, <1>2, <4>2
        <5> QED BY <1>5, <3>1, <4>2, <5>1 DEF CaptureOf
      <4> QED BY <4>1, <4>2
    <3>7. JournalOf(tx[u])'
      <4>1. tx[u].pc \in {"check", "assert"} => tx[u].doc # d
        BY <1>3, <3>1 DEF Apart, Inside
      <4> QED BY <1>5, <3>1, <3>4, <4>1 DEF JournalOf
    <3>8. RefusalOf(tx[u])'
      <4>1. \A e \in Docs : done[e] > 0 => done'[e] > 0
        BY <1>1, <1>2, <1>3
      <4>2. tx[u].pc = "refused" => tx[u].doc \in Docs
        BY <3>1 DEF StageOf, Txns
      <4> QED BY <1>5, <3>1, <4>1, <4>2 DEF RefusalOf
    <3> QED BY <3>2, <3>5, <3>6, <3>7, <3>8
  <2>2. (/\ StageOf(tx[t]) /\ FirstOf(tx[t]) /\ CaptureOf(tx[t])
         /\ JournalOf(tx[t]) /\ RefusalOf(tx[t]))'
    <3>1. StageOf(tx[t])'
      BY <1>3, <1>6 DEF StageOf
    <3> QED BY <1>6, <3>1 DEF FirstOf, CaptureOf, JournalOf, RefusalOf, Inside
  <2> QED BY <2>1, <2>2 DEF TxInv
<1>8. PairInv'
  <2>1. \A u \in Txs : /\ tx'[u].doc = tx[u].doc
                       /\ tx'[u].pc \in Inside => tx[u].pc \in Inside
    BY <1>3, <1>5, <1>6 DEF Inside
  <2> QED BY <2>1 DEF Inv, PairInv, Apart
<1>9. ASSUME NEW e \in Docs \ {d}
      PROVE  /\ done'[e] = done[e] /\ booked'[e] = booked[e]
             /\ (e \in mixed') <=> (e \in mixed)
  BY <1>1, <1>2
<1>10. /\ done'[d] = done[d] + 1 /\ done[d] \in Nat
       /\ booked'[d] = (IF tx[t].journal THEN tx[t].amount ELSE booked[d])
       /\ d \notin mixed' => (d \notin mixed /\ ~tx[t].crossed)
  BY <1>1, <1>2, <1>3
<1>11. BookInv'
  <2>1. booked'[d] # NoJournal => done'[d] > 0
    BY <1>10
  <2>2. (Kind[d] = "receipt" /\ d \notin mixed' /\ Worth[d] > 0) => booked'[d] # NoJournal
    BY <1>2, <1>10 DEF Txns, NoJournal
  <2> QED BY <1>9, <2>1, <2>2 DEF Inv, BookInv
<1>12. AmountIsOwn'
  <2>1. (Kind[d] # "return" /\ booked'[d] # NoJournal /\ d \notin mixed')
          => booked'[d] = Worth[d]
    <3>1. Kind[d] # "return" /\ ~tx[t].crossed => tx[t].amount = Worth[d]
      BY <1>3 DEF Inv, TxInv, CaptureOf
    <3> QED BY <1>3, <1>10, <3>1 DEF Inv, AmountIsOwn
  <2> QED BY <1>9, <2>1 DEF Inv, AmountIsOwn
<1>13. ReceiptOnce'
  <2>1. ASSUME Kind[d] = "receipt", done'[d] > 1, d \notin mixed', Worth[d] > 0
        PROVE  FALSE
    <3>1. booked[d] # NoJournal
      BY <1>3, <1>10, <2>1 DEF Inv, BookInv
    <3>2. booked[d] = NoJournal
      BY <1>10, <2>1 DEF Inv, TxInv, JournalOf
    <3> QED BY <3>1, <3>2
  <2>2. Worth[d] \in Nat
    BY <1>3
  <2> QED BY <1>9, <2>1, <2>2 DEF Inv, ReceiptOnce
<1> QED BY <1>4, <1>7, <1>8, <1>11, <1>12, <1>13 DEF Inv

-----------------------------------------------------------------------------
(* The invariant of a transaction, of the others beside it, and its types. *)
(* A step changes a few fields of its transaction and leaves the others as they were. *)
WithLedger(x, g) == [x EXCEPT !.glBefore = g, !.crossed = FALSE, !.pc = "stock"]
WithStock(x, v) == [x EXCEPT !.valueBefore = v, !.pc = "measure"]
WithAmount(x, a) == [x EXCEPT !.amount = a, !.pc = "post"]
WithJournal(x, b) == [x EXCEPT !.journal = b, !.pc = "check"]
WithCheck(x, g) == [x EXCEPT !.glAfter = g, !.pc = "assert"]

LEMMA LedgerCaptured ==
  ASSUME NEW x \in Txns, NEW g \in Int
  PROVE  LET y == WithLedger(x, g) IN
         /\ y \in Txns /\ y.pc = "stock" /\ y.doc = x.doc
         /\ y.journal = x.journal /\ y.glBefore = g
<1> DEFINE y == WithLedger(x, g)
<1>1. y \in Txns
  BY DEF Txns, WithLedger
<1>2. y.pc = "stock" /\ y.doc = x.doc
  BY DEF Txns, WithLedger
<1>3. y.journal = x.journal
  BY DEF Txns, WithLedger
<1>4. y.glBefore = g
  BY DEF Txns, WithLedger
<1> QED BY <1>1, <1>2, <1>3, <1>4

LEMMA StockCaptured ==
  ASSUME NEW x \in Txns, NEW v \in Int
  PROVE  LET y == WithStock(x, v) IN
         /\ y \in Txns /\ y.pc = "measure" /\ y.doc = x.doc
         /\ y.journal = x.journal /\ y.crossed = x.crossed
         /\ y.glBefore = x.glBefore /\ y.valueBefore = v
<1> DEFINE y == WithStock(x, v)
<1>1. y \in Txns
  BY DEF Txns, WithStock
<1>2. y.pc = "measure" /\ y.doc = x.doc
  BY DEF Txns, WithStock
<1>3. y.journal = x.journal
  BY DEF Txns, WithStock
<1>4. y.crossed = x.crossed
  BY DEF Txns, WithStock
<1>5. y.glBefore = x.glBefore /\ y.valueBefore = v
  BY DEF Txns, WithStock
<1> QED BY <1>1, <1>2, <1>3, <1>4, <1>5

LEMMA AmountMeasured ==
  ASSUME NEW x \in Txns, NEW a \in Nat
  PROVE  LET y == WithAmount(x, a) IN
         /\ y \in Txns /\ y.pc = "post" /\ y.doc = x.doc
         /\ y.journal = x.journal /\ y.crossed = x.crossed
         /\ y.glBefore = x.glBefore /\ y.valueBefore = x.valueBefore
         /\ y.amount = a
<1> DEFINE y == WithAmount(x, a)
<1>1. y \in Txns
  BY DEF Txns, WithAmount
<1>2. y.pc = "post" /\ y.doc = x.doc
  BY DEF Txns, WithAmount
<1>3. y.journal = x.journal
  BY DEF Txns, WithAmount
<1>4. y.crossed = x.crossed
  BY DEF Txns, WithAmount
<1>5. y.glBefore = x.glBefore /\ y.valueBefore = x.valueBefore /\ y.amount = a
  BY DEF Txns, WithAmount
<1> QED BY <1>1, <1>2, <1>3, <1>4, <1>5

LEMMA JournalWritten ==
  ASSUME NEW x \in Txns, NEW b \in BOOLEAN
  PROVE  LET y == WithJournal(x, b) IN
         /\ y \in Txns /\ y.pc = "check" /\ y.doc = x.doc
         /\ y.journal = b /\ y.crossed = x.crossed
         /\ y.glBefore = x.glBefore /\ y.valueBefore = x.valueBefore
         /\ y.amount = x.amount
<1> DEFINE y == WithJournal(x, b)
<1>1. y \in Txns
  BY DEF Txns, WithJournal
<1>2. y.pc = "check" /\ y.doc = x.doc
  BY DEF Txns, WithJournal
<1>3. y.journal = b
  BY DEF Txns, WithJournal
<1>4. y.crossed = x.crossed
  BY DEF Txns, WithJournal
<1>5. y.glBefore = x.glBefore /\ y.valueBefore = x.valueBefore /\ y.amount = x.amount
  BY DEF Txns, WithJournal
<1> QED BY <1>1, <1>2, <1>3, <1>4, <1>5

LEMMA LedgerChecked ==
  ASSUME NEW x \in Txns, NEW g \in Int
  PROVE  LET y == WithCheck(x, g) IN
         /\ y \in Txns /\ y.pc = "assert" /\ y.doc = x.doc
         /\ y.journal = x.journal /\ y.crossed = x.crossed
         /\ y.glBefore = x.glBefore /\ y.valueBefore = x.valueBefore
         /\ y.amount = x.amount /\ y.glAfter = g
<1> DEFINE y == WithCheck(x, g)
<1>1. y \in Txns
  BY DEF Txns, WithCheck
<1>2. y.pc = "assert" /\ y.doc = x.doc
  BY DEF Txns, WithCheck
<1>3. y.journal = x.journal
  BY DEF Txns, WithCheck
<1>4. y.crossed = x.crossed
  BY DEF Txns, WithCheck
<1>5. y.glBefore = x.glBefore /\ y.valueBefore = x.valueBefore
  BY DEF Txns, WithCheck
<1>6. y.amount = x.amount /\ y.glAfter = g
  BY DEF Txns, WithCheck
<1> QED BY <1>1, <1>2, <1>3, <1>4, <1>5, <1>6

LEMMA AtWork ==
  ASSUME Inv, NEW t \in Txs, tx[t].pc # "idle"
  PROVE  /\ tx[t] \in Txns /\ tx[t].doc \in Docs
         /\ Kind[tx[t].doc] \in Kinds /\ Worth[tx[t].doc] \in Nat
         /\ booked[tx[t].doc] \in Nat \cup {NoJournal}
         /\ StageOf(tx[t]) /\ FirstOf(tx[t]) /\ CaptureOf(tx[t])
         /\ JournalOf(tx[t]) /\ RefusalOf(tx[t])
         /\ \A u \in Txs \ {t} : Apart(tx[t], tx[u]) /\ Apart(tx[u], tx[t])
         /\ Moved(t) \in Int /\ Posted(t) \in Int /\ Amount(t) \in Nat
         /\ tx[t].valueBefore = value => Amount(t) = Worth[tx[t].doc]
<1>1. tx[t] \in Txns /\ StageOf(tx[t])
  BY DEF Inv, TypeOK, TxInv
<1>2. tx[t].doc \in Docs
  BY <1>1 DEF StageOf, Txns
<1>3. booked[tx[t].doc] \in Nat \cup {NoJournal} /\ TypeOK
  BY <1>2 DEF Inv, TypeOK
<1>4. \A u \in Txs \ {t} : Apart(tx[t], tx[u]) /\ Apart(tx[u], tx[t])
  BY DEF Inv, PairInv
<1> QED BY <1>1, <1>2, <1>3, <1>4, MovedFacts DEF Inv, TxInv

LEMMA BeginKeeps ==
  ASSUME Inv, NEW t \in Txs, NEW d \in Docs, Begin(t, d)
  PROVE  Inv'
<1> DEFINE pc == CASE Kind[d] = "receipt" -> "lock"
                   [] Kind[d] = "return" -> "post"
                   [] OTHER -> "ledger"
           x == [Idle EXCEPT !.doc = d, !.pc = pc]
<1>1. /\ Kind[d] = "receipt" => pc = "lock"
      /\ Kind[d] = "return" => pc = "post"
      /\ Kind[d] \notin {"receipt", "return"} => pc = "ledger"
  <2>1. CASE Kind[d] = "receipt"
    BY <2>1
  <2>2. CASE Kind[d] = "return"
    BY <2>2
  <2>3. CASE Kind[d] \notin {"receipt", "return"}
    BY <2>3
  <2> QED BY <2>1, <2>2, <2>3
<1>2. Step(t, x) /\ done[d] = 0 /\ (Kind[d] = "receipt" \/ \A u \in Txs : tx[u].doc # d)
  BY DEF Begin
<1> HIDE DEF pc
<1>3. pc \in {"lock", "post", "ledger"} /\ d # NoDoc
  BY <1>1
<1>4. x \in Txns
  <2>1. \A y \in Txns, p \in {"lock", "post", "ledger"} :
           [y EXCEPT !.doc = d, !.pc = p] \in Txns
    BY DEF Txns
  <2>2. Idle \in Txns
    BY DEF Idle, Txns
  <2> QED BY <1>3, <2>1, <2>2
<1>5. x.doc = d /\ x.pc = pc
  BY DEF Idle
<1>6. x.journal = FALSE
  BY DEF Idle
<1> HIDE DEF x
<1>7. StageOf(x)
  BY <1>1, <1>3, <1>5, <1>6 DEF StageOf
<1>8. FirstOf(x)
  BY <1>2, <1>5 DEF FirstOf
<1>9. CaptureOf(x)
  <2>1. x.pc \in Inside /\ Kind[x.doc] # "return" => x.pc = "ledger"
    BY <1>1, <1>5 DEF Inside
  <2> QED BY <2>1 DEF CaptureOf
<1>10. JournalOf(x) /\ RefusalOf(x)
  <2>1. x.pc \notin {"check", "assert", "refused"}
    BY <1>3, <1>5
  <2> QED BY <2>1 DEF JournalOf, RefusalOf
<1>11. \A u \in Txs \ {t} : Apart(x, tx[u]) /\ Apart(tx[u], x)
  <2>1. Kind[d] = "receipt" => x.pc \notin Inside
    BY <1>1, <1>5 DEF Inside
  <2> QED BY <1>2, <1>5, <2>1 DEF Apart
<1>12. StageOf(x) /\ FirstOf(x) /\ CaptureOf(x) /\ JournalOf(x) /\ RefusalOf(x)
  BY <1>7, <1>8, <1>9, <1>10
<1>13. Step(t, x) /\ x \in Txns
  BY <1>2, <1>4
<1> QED BY <1>12, <1>13, <1>11, StepKeeps

LEMMA LockReceiptKeeps ==
  ASSUME Inv, NEW t \in Txs, LockReceipt(t)
  PROVE  Inv'
<1> DEFINE x == [tx[t] EXCEPT !.pc = "ledger"]
<1>1. tx[t].pc = "lock" /\ ReceiptFree(t) /\ Step(t, x)
  BY DEF LockReceipt, At
<1>2. tx[t] \in Txns /\ Kind[tx[t].doc] = "receipt" /\ StageOf(tx[t])
  BY <1>1, AtWork DEF StageOf
<1>3. x \in Txns /\ x.doc = tx[t].doc /\ x.pc = "ledger" /\ x.journal = tx[t].journal
  BY <1>2 DEF Txns
<1> HIDE DEF x
<1>4. StageOf(x) /\ FirstOf(x) /\ CaptureOf(x) /\ JournalOf(x) /\ RefusalOf(x)
  BY <1>1, <1>2, <1>3 DEF StageOf, FirstOf, CaptureOf, JournalOf, RefusalOf
<1>5. \A u \in Txs \ {t} : Apart(x, tx[u]) /\ Apart(tx[u], x)
  BY <1>1, <1>2, <1>3 DEF Apart, Inside, ReceiptFree, Ended
<1> QED BY <1>1, <1>3, <1>4, <1>5, StepKeeps

LEMMA CaptureLedgerKeeps ==
  ASSUME Inv, NEW t \in Txs, CaptureLedger(t)
  PROVE  Inv'
<1> DEFINE y == WithLedger(tx[t], gl)
<1>1. Step(t, y) /\ tx[t].pc = "ledger"
  BY DEF CaptureLedger, At, WithLedger
<1>2. /\ tx[t] \in Txns /\ StageOf(tx[t]) /\ FirstOf(tx[t]) /\ tx[t].doc \in Docs
      /\ \A u \in Txs \ {t} : Apart(tx[t], tx[u]) /\ Apart(tx[u], tx[t])
  BY <1>1, AtWork
<1>3. gl \in Int
  BY DEF Inv, TypeOK
<1>4. /\ y \in Txns /\ y.pc = "stock" /\ y.doc = tx[t].doc
      /\ y.journal = tx[t].journal /\ y.glBefore = gl
  BY <1>2, <1>3, LedgerCaptured
<1> HIDE DEF y
<1>5. ~y.journal
  BY <1>1, <1>2, <1>4 DEF StageOf
<1>6. StageOf(y) /\ FirstOf(y)
  BY <1>1, <1>2, <1>4, <1>5 DEF StageOf, FirstOf, Inside
<1>7. CaptureOf(y)
  BY <1>4 DEF CaptureOf
<1>8. JournalOf(y) /\ RefusalOf(y)
  BY <1>4 DEF JournalOf, RefusalOf
<1>9. \A u \in Txs \ {t} : Apart(y, tx[u]) /\ Apart(tx[u], y)
  BY <1>1, <1>2, <1>4 DEF Apart, Inside
<1>10. StageOf(y) /\ FirstOf(y) /\ CaptureOf(y) /\ JournalOf(y) /\ RefusalOf(y)
  BY <1>6, <1>7, <1>8
<1>11. Step(t, y) /\ y \in Txns
  BY <1>1, <1>4
<1> QED BY <1>10, <1>11, <1>9, StepKeeps

LEMMA CaptureStockKeeps ==
  ASSUME Inv, NEW t \in Txs, CaptureStock(t)
  PROVE  Inv'
<1> DEFINE y == WithStock(tx[t], value)
<1>1. Step(t, y) /\ tx[t].pc = "stock"
  BY DEF CaptureStock, At, WithStock
<1>2. /\ tx[t] \in Txns /\ StageOf(tx[t]) /\ FirstOf(tx[t]) /\ tx[t].doc \in Docs
      /\ CaptureOf(tx[t])
      /\ \A u \in Txs \ {t} : Apart(tx[t], tx[u]) /\ Apart(tx[u], tx[t])
  BY <1>1, AtWork
<1>3. value \in Int
  BY DEF Inv, TypeOK
<1>4. /\ y \in Txns /\ y.pc = "measure" /\ y.doc = tx[t].doc
      /\ y.journal = tx[t].journal /\ y.crossed = tx[t].crossed
      /\ y.glBefore = tx[t].glBefore /\ y.valueBefore = value
  BY <1>2, <1>3, StockCaptured
<1> HIDE DEF y
<1>5. ~y.journal
  BY <1>1, <1>2, <1>4 DEF StageOf
<1>6. StageOf(y) /\ FirstOf(y)
  BY <1>1, <1>2, <1>4, <1>5 DEF StageOf, FirstOf, Inside
<1>7. CaptureOf(y)
  <2>1. (~y.crossed /\ Kind[y.doc] # "return") => y.glBefore = gl
    BY <1>1, <1>2, <1>4 DEF CaptureOf, Inside
  <2> QED BY <1>4, <2>1 DEF CaptureOf
<1>8. JournalOf(y) /\ RefusalOf(y)
  BY <1>4 DEF JournalOf, RefusalOf
<1>9. \A u \in Txs \ {t} : Apart(y, tx[u]) /\ Apart(tx[u], y)
  BY <1>1, <1>2, <1>4 DEF Apart, Inside
<1>10. StageOf(y) /\ FirstOf(y) /\ CaptureOf(y) /\ JournalOf(y) /\ RefusalOf(y)
  BY <1>6, <1>7, <1>8
<1>11. Step(t, y) /\ y \in Txns
  BY <1>1, <1>4
<1> QED BY <1>10, <1>11, <1>9, StepKeeps

LEMMA MeasureKeeps ==
  ASSUME Inv, NEW t \in Txs, Measure(t)
  PROVE  Inv'
<1> DEFINE y == WithAmount(tx[t], Amount(t))
<1>1. Step(t, y) /\ tx[t].pc = "measure"
  BY DEF Measure, At, WithAmount
<1>2. /\ tx[t] \in Txns /\ StageOf(tx[t]) /\ FirstOf(tx[t]) /\ tx[t].doc \in Docs
      /\ CaptureOf(tx[t]) /\ Amount(t) \in Nat
      /\ tx[t].valueBefore = value => Amount(t) = Worth[tx[t].doc]
      /\ \A u \in Txs \ {t} : Apart(tx[t], tx[u]) /\ Apart(tx[u], tx[t])
  BY <1>1, AtWork
<1>3. /\ y \in Txns /\ y.pc = "post" /\ y.doc = tx[t].doc
      /\ y.journal = tx[t].journal /\ y.crossed = tx[t].crossed
      /\ y.glBefore = tx[t].glBefore /\ y.valueBefore = tx[t].valueBefore
      /\ y.amount = Amount(t)
  BY <1>2, AmountMeasured
<1> HIDE DEF y
<1>4. ~y.journal
  BY <1>1, <1>2, <1>3 DEF StageOf
<1>5. StageOf(y) /\ FirstOf(y)
  BY <1>1, <1>2, <1>3, <1>4 DEF StageOf, FirstOf, Inside
<1>6. CaptureOf(y)
  <2>1. (~y.crossed /\ Kind[y.doc] # "return") => y.glBefore = gl /\ y.valueBefore = value
    BY <1>1, <1>2, <1>3 DEF CaptureOf, Inside
  <2>2. (~y.crossed /\ Kind[y.doc] # "return") => y.amount = Worth[y.doc]
    BY <1>2, <1>3, <2>1
  <2> QED BY <1>3, <2>1, <2>2 DEF CaptureOf
<1>7. JournalOf(y) /\ RefusalOf(y)
  BY <1>3 DEF JournalOf, RefusalOf
<1>8. \A u \in Txs \ {t} : Apart(y, tx[u]) /\ Apart(tx[u], y)
  BY <1>1, <1>2, <1>3 DEF Apart, Inside
<1>9. StageOf(y) /\ FirstOf(y) /\ CaptureOf(y) /\ JournalOf(y) /\ RefusalOf(y)
  BY <1>5, <1>6, <1>7
<1>10. Step(t, y) /\ y \in Txns
  BY <1>1, <1>3
<1> QED BY <1>9, <1>10, <1>8, StepKeeps

LEMMA PostKeeps ==
  ASSUME Inv, NEW t \in Txs, Post(t)
  PROVE  Inv'
<1> DEFINE b == WritesJournal(t)
           y == WithJournal(tx[t], b)
<1>1. Step(t, y) /\ tx[t].pc = "post" /\ Kind[tx[t].doc] # "return"
  BY DEF Post, At, WithJournal
<1>2. /\ tx[t] \in Txns /\ StageOf(tx[t]) /\ FirstOf(tx[t]) /\ tx[t].doc \in Docs
      /\ CaptureOf(tx[t])
      /\ \A u \in Txs \ {t} : Apart(tx[t], tx[u]) /\ Apart(tx[u], tx[t])
  BY <1>1, AtWork
<1>3. b \in BOOLEAN
  BY DEF WritesJournal
<1>4. b <=> (\/ Kind[tx[t].doc] = "sale"
             \/ tx[t].amount > 0 /\ booked[tx[t].doc] = NoJournal)
  BY DEF WritesJournal
<1> HIDE DEF b
<1>5. /\ y \in Txns /\ y.pc = "check" /\ y.doc = tx[t].doc
      /\ y.journal = b /\ y.crossed = tx[t].crossed
      /\ y.glBefore = tx[t].glBefore /\ y.valueBefore = tx[t].valueBefore
      /\ y.amount = tx[t].amount
  BY <1>2, <1>3, JournalWritten
<1> HIDE DEF y
<1>6. StageOf(y) /\ FirstOf(y)
  BY <1>1, <1>2, <1>5 DEF StageOf, FirstOf, Inside
<1>7. CaptureOf(y)
  <2>1. (~y.crossed /\ Kind[y.doc] # "return") =>
           y.glBefore = gl /\ y.valueBefore = value /\ y.amount = Worth[y.doc]
    BY <1>1, <1>2, <1>5 DEF CaptureOf, Inside
  <2> QED BY <1>5, <2>1 DEF CaptureOf
<1>8. JournalOf(y)
  BY <1>1, <1>4, <1>5 DEF JournalOf
<1>9. RefusalOf(y)
  BY <1>5 DEF RefusalOf
<1>10. \A u \in Txs \ {t} : Apart(y, tx[u]) /\ Apart(tx[u], y)
  BY <1>1, <1>2, <1>5 DEF Apart, Inside
<1>11. StageOf(y) /\ FirstOf(y) /\ CaptureOf(y) /\ JournalOf(y) /\ RefusalOf(y)
  BY <1>6, <1>7, <1>8, <1>9
<1>12. Step(t, y) /\ y \in Txns
  BY <1>1, <1>5
<1> QED BY <1>11, <1>12, <1>10, StepKeeps

LEMMA CheckLedgerKeeps ==
  ASSUME Inv, NEW t \in Txs, CheckLedger(t)
  PROVE  Inv'
<1> DEFINE g == gl + Posted(t)
           y == WithCheck(tx[t], g)
<1>1. Step(t, y) /\ tx[t].pc = "check"
  BY DEF CheckLedger, At, WithCheck
<1>2. /\ tx[t] \in Txns /\ StageOf(tx[t]) /\ FirstOf(tx[t]) /\ tx[t].doc \in Docs
      /\ CaptureOf(tx[t]) /\ JournalOf(tx[t]) /\ Posted(t) \in Int
      /\ \A u \in Txs \ {t} : Apart(tx[t], tx[u]) /\ Apart(tx[u], tx[t])
  BY <1>1, AtWork
<1>3. g \in Int
  BY <1>2 DEF Inv, TypeOK
<1>4. g = gl + (IF tx[t].journal THEN Signed(tx[t].doc, tx[t].amount) ELSE 0)
  BY DEF Posted
<1> HIDE DEF g
<1>5. /\ y \in Txns /\ y.pc = "assert" /\ y.doc = tx[t].doc
      /\ y.journal = tx[t].journal /\ y.crossed = tx[t].crossed
      /\ y.glBefore = tx[t].glBefore /\ y.valueBefore = tx[t].valueBefore
      /\ y.amount = tx[t].amount /\ y.glAfter = g
  BY <1>2, <1>3, LedgerChecked
<1> HIDE DEF y
<1>6. StageOf(y) /\ FirstOf(y)
  BY <1>1, <1>2, <1>5 DEF StageOf, FirstOf, Inside
<1>7. CaptureOf(y)
  <2>1. (~y.crossed /\ Kind[y.doc] # "return") =>
           y.glBefore = gl /\ y.valueBefore = value /\ y.amount = Worth[y.doc]
    BY <1>1, <1>2, <1>5 DEF CaptureOf, Inside
  <2>2. y.glAfter = gl + (IF y.journal THEN Signed(y.doc, y.amount) ELSE 0)
    BY <1>4, <1>5
  <2> QED BY <1>5, <2>1, <2>2 DEF CaptureOf
<1>8. JournalOf(y)
  BY <1>1, <1>2, <1>5 DEF JournalOf
<1>9. RefusalOf(y)
  BY <1>5 DEF RefusalOf
<1>10. \A u \in Txs \ {t} : Apart(y, tx[u]) /\ Apart(tx[u], y)
  BY <1>1, <1>2, <1>5 DEF Apart, Inside
<1>11. StageOf(y) /\ FirstOf(y) /\ CaptureOf(y) /\ JournalOf(y) /\ RefusalOf(y)
  BY <1>6, <1>7, <1>8, <1>9
<1>12. Step(t, y) /\ y \in Txns
  BY <1>1, <1>5
<1> QED BY <1>11, <1>12, <1>10, StepKeeps

-----------------------------------------------------------------------------
(* At the check of a document under which no total has changed, the gaps differ by
   what it posted and did not move; with a journal it posted what it moved. *)
LEMMA Uncrossed ==
  ASSUME Inv, NEW t \in Txs, tx[t].pc = "assert", ~tx[t].crossed
  PROVE  /\ (GapAfter(t) = GapBefore(t)) <=> (Posted(t) = Moved(t))
         /\ tx[t].journal => Posted(t) = Moved(t)
         /\ ~tx[t].journal => Posted(t) = 0
         /\ tx[t].amount = Worth[tx[t].doc]
<1>1. /\ StageOf(tx[t]) /\ CaptureOf(tx[t]) /\ tx[t].doc \in Docs
      /\ Moved(t) \in Int /\ Posted(t) \in Int
  BY AtWork
<1>2. gl \in Int /\ value \in Int
  BY DEF Inv, TypeOK
<1>3. Kind[tx[t].doc] # "return"
  BY <1>1 DEF StageOf
<1>4. /\ tx[t].glBefore = gl /\ tx[t].valueBefore = value
      /\ tx[t].amount = Worth[tx[t].doc]
      /\ tx[t].glAfter = gl + Posted(t)
  BY <1>1, <1>3 DEF CaptureOf, Inside, Posted
<1>5. (GapAfter(t) = GapBefore(t)) <=> (Posted(t) = Moved(t))
  BY <1>1, <1>2, <1>4 DEF GapAfter, GapBefore
<1>6. tx[t].journal => Posted(t) = Moved(t)
  BY <1>4 DEF Posted, Moved
<1>7. ~tx[t].journal => Posted(t) = 0
  BY DEF Posted
<1> QED BY <1>4, <1>5, <1>6, <1>7

LEMMA CommitGuardedKeeps ==
  ASSUME Inv, NEW t \in Txs, CommitGuarded(t)
  PROVE  Inv'
<1>1. /\ tx[t].pc = "assert" /\ GapAfter(t) = GapBefore(t)
      /\ Commit(t, Posted(t), Moved(t))
  BY DEF CommitGuarded, At
<1>2. /\ tx[t].doc \in Docs /\ Worth[tx[t].doc] \in Nat
      /\ Moved(t) \in Int /\ Posted(t) \in Int
  BY <1>1, AtWork
<1>3. ASSUME ~tx[t].crossed, Worth[tx[t].doc] > 0
      PROVE  tx[t].journal
  <2>1. Posted(t) = Moved(t) /\ (~tx[t].journal => Posted(t) = 0)
    BY <1>1, <1>3, Uncrossed
  <2>2. Moved(t) # 0
    BY <1>2, <1>3, SignedFacts DEF Moved
  <2> QED BY <2>1, <2>2
<1> QED BY <1>1, <1>2, <1>3, CommitKeeps

LEMMA CommitReturnKeeps ==
  ASSUME Inv, NEW t \in Txs, CommitReturn(t)
  PROVE  Inv'
<1>1. /\ tx[t].pc = "post" /\ Kind[tx[t].doc] = "return"
      /\ Commit(t, Credit[tx[t].doc], Worth[tx[t].doc])
  BY DEF CommitReturn, At
<1>2. tx[t].doc \in Docs
  BY <1>1, AtWork
<1>3. Credit[tx[t].doc] \in Int /\ Worth[tx[t].doc] \in Int
  BY <1>2
<1> QED BY <1>1, <1>3, CommitKeeps

LEMMA RefuseKeeps ==
  ASSUME Inv, NEW t \in Txs, Refuse(t)
  PROVE  Inv'
<1> DEFINE y == [tx[t] EXCEPT !.pc = "refused"]
<1>1. Step(t, y) /\ tx[t].pc = "assert" /\ GapAfter(t) # GapBefore(t)
  BY DEF Refuse, At
<1>2. /\ tx[t] \in Txns /\ StageOf(tx[t]) /\ FirstOf(tx[t]) /\ JournalOf(tx[t])
      /\ tx[t].doc \in Docs /\ Worth[tx[t].doc] \in Nat
      /\ \A u \in Txs \ {t} : Apart(tx[t], tx[u]) /\ Apart(tx[u], tx[t])
  BY <1>1, AtWork
<1>3. y \in Txns /\ y.pc = "refused" /\ y.doc = tx[t].doc
  BY <1>2 DEF Txns
<1>4. y.crossed = tx[t].crossed
  BY <1>2 DEF Txns
<1> HIDE DEF y
<1>5. ASSUME ~tx[t].crossed
      PROVE  Kind[tx[t].doc] = "receipt" /\ done[tx[t].doc] > 0
  <2>1. /\ ~tx[t].journal /\ Moved(t) # 0
        /\ tx[t].amount = Worth[tx[t].doc]
    BY <1>1, <1>5, Uncrossed
  <2>2. Worth[tx[t].doc] > 0
    BY <1>2, <2>1, SignedFacts DEF Moved
  <2>3. booked[tx[t].doc] # NoJournal
    BY <1>1, <1>2, <2>1, <2>2 DEF JournalOf
  <2>4. done[tx[t].doc] > 0
    BY <1>2, <2>3 DEF Inv, BookInv
  <2> QED BY <1>1, <1>2, <2>4 DEF FirstOf, Inside
<1>6. StageOf(y)
  BY <1>1, <1>2, <1>3 DEF StageOf
<1>7. FirstOf(y) /\ CaptureOf(y) /\ JournalOf(y)
  BY <1>3 DEF FirstOf, CaptureOf, JournalOf, Inside
<1>8. RefusalOf(y)
  BY <1>3, <1>4, <1>5 DEF RefusalOf
<1>9. \A u \in Txs \ {t} : Apart(y, tx[u]) /\ Apart(tx[u], y)
  BY <1>1, <1>2, <1>3 DEF Apart, Inside
<1> QED BY <1>1, <1>3, <1>6, <1>7, <1>8, <1>9, StepKeeps

(* Every step of the shop keeps the invariant. *)
LEMMA NextKeeps == Inv /\ [Next]_vars => Inv'
<1> SUFFICES ASSUME Inv, [Next]_vars PROVE Inv'
  OBVIOUS
<1>1. ASSUME NEW t \in Txs, NEW d \in Docs, Begin(t, d) PROVE Inv'
  BY <1>1, BeginKeeps
<1>2. ASSUME NEW t \in Txs, Steps(t) PROVE Inv'
  BY <1>2, LockReceiptKeeps, CaptureLedgerKeeps, CaptureStockKeeps, MeasureKeeps,
     PostKeeps, CheckLedgerKeeps, CommitGuardedKeeps, RefuseKeeps, CommitReturnKeeps
     DEF Steps
<1>3. CASE UNCHANGED vars
  <2>1. UNCHANGED <<gl, value, done, booked, tx, mixed>>
    BY <1>3 DEF vars
  <2>2. TypeOK' /\ BookInv' /\ AmountIsOwn' /\ ReceiptOnce'
    BY <2>1 DEF Inv, TypeOK, BookInv, AmountIsOwn, ReceiptOnce
  <2>3. PairInv'
    BY <2>1 DEF Inv, PairInv, Apart
  <2>4. TxInv'
    BY <2>1 DEF Inv, TxInv, StageOf, FirstOf, CaptureOf, JournalOf, RefusalOf
  <2> QED BY <2>2, <2>3, <2>4 DEF Inv
<1> QED BY <1>1, <1>2, <1>3 DEF Next

LEMMA Invariant == Spec => []Inv
<1> QED BY InitInv, NextKeeps, PTL DEF Spec

-----------------------------------------------------------------------------
(* Totals, counts, journals and transactions keep their types. *)
THEOREM TypeCorrect == Spec => []TypeOK
<1>1. Inv => TypeOK
  BY DEF Inv
<1> QED BY Invariant, <1>1, PTL

(* A guarded document under which no total changed has posted the value of its own
   lots, whatever the shop does before and after it. *)
THEOREM AmountsAreOwn == Spec => []AmountIsOwn
<1>1. Inv => AmountIsOwn
  BY DEF Inv
<1> QED BY Invariant, <1>1, PTL

(* The guard refuses only a document under which a total changed, or the second
   finalization of a goods receipt. *)
THEOREM RefusalsAreExplained == Spec => []RefusalsExplained
<1>1. Inv => RefusalsExplained
  BY DEF Inv, TxInv, RefusalOf, RefusalsExplained
<1> QED BY Invariant, <1>1, PTL

(* A goods receipt of value is finalized once, unless a change by others makes up for
   the second set of lots. *)
THEOREM ReceiptsOnce == Spec => []ReceiptOnce
<1>1. Inv => ReceiptOnce
  BY DEF Inv
<1> QED BY Invariant, <1>1, PTL

(* A document that commits through the guard, with no total changed under it, leaves
   the gap between ledger and stock as it was. *)
THEOREM GuardKeepsGap == Spec => GuardedKeepsGap
<1>1. ASSUME Inv, NEW t \in Txs, CommitGuarded(t), ~tx[t].crossed
      PROVE  Gap' = Gap
  <2>1. /\ tx[t].pc = "assert" /\ GapAfter(t) = GapBefore(t)
        /\ gl' = gl + Posted(t) /\ value' = value + Moved(t)
    BY <1>1 DEF CommitGuarded, At, Commit
  <2>2. Posted(t) = Moved(t)
    BY <1>1, <2>1, Uncrossed
  <2>3. Moved(t) \in Int /\ gl \in Int /\ value \in Int
    BY <1>1, <2>1, AtWork DEF Inv, TypeOK
  <2> QED BY <2>1, <2>2, <2>3 DEF Gap
<1>2. Inv /\ [Next]_vars
        => [\A t \in Txs : (CommitGuarded(t) /\ ~tx[t].crossed) => Gap' = Gap]_vars
  BY <1>1
<1> QED BY Invariant, <1>2, PTL DEF Spec, GuardedKeepsGap
=============================================================================
