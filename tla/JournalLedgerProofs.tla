------------------------ MODULE JournalLedgerProofs ------------------------
(***************************************************************************)
(* Proofs about JournalLedger for any sessions, keys, accounts and bounds. *)
(***************************************************************************)
EXTENDS JournalLedger, FiniteSetTheorems, TLAPS

USE ConstantsAssumption DEF Ids, AllKeys

(* The stages in which a call is being executed. *)
Busy == Stages \ {"idle", "returned"}

(* What the fields of a row and of a transaction are made of. *)
LEMMA RowFacts ==
  ASSUME NEW r \in Rows
  PROVE  /\ r.state \in {"unused", "pending", "posted"}
         /\ r.key \in AllKeys \cup {None}
         /\ r.ref \in {RefOf[k] : k \in Keys} \cup {None}
         /\ r.sign \in {1, -1}
         /\ r.lines \in Orders \cup {<<>>}
         /\ r.reverses \in Ids \cup {None}
         /\ r.by \in Ids \cup {None}
         /\ r.number \in Nat
         /\ r.seen \subseteq Ids /\ r.own \subseteq Ids
BY DEF Rows

LEMMA TxFacts ==
  ASSUME NEW t \in Transactions
  PROVE  /\ t.stage \in Stages
         /\ t.calls \in 0 .. MaxCalls
         /\ t.key \in AllKeys \cup {None}
         /\ t.target \in Ids \cup {None}
         /\ t.id \in Ids \cup {None}
         /\ t.next \in 1 .. Cardinality(Accounts) + 1
         /\ t.number \in Nat
         /\ t.seen \subseteq Ids
         /\ t.inserted \subseteq Ids
         /\ t.marks \subseteq Ids \X Ids
BY DEF Transactions

LEMMA CountFacts == Cardinality(Accounts) \in Nat
BY FS_CardinalityType

(* What a call leaves alone as it moves from one stage to the next. *)
Kept(x, t) ==
  /\ x.inserted = t.inserted /\ x.marks = t.marks
  /\ x.id = t.id /\ x.target = t.target /\ x.key = t.key

LEMMA ReturnTyped ==
  ASSUME NEW t \in Transactions, NEW x,
         x = [t EXCEPT !.stage = "returned", !.id = None, !.next = 1, !.key = None,
                       !.target = None, !.number = 0, !.seen = {}]
  PROVE  /\ x \in Transactions
         /\ x.inserted = t.inserted /\ x.marks = t.marks
         /\ x.stage = "returned" /\ x.id = None /\ x.target = None /\ x.next = 1
<1>1. 1 \in 1 .. Cardinality(Accounts) + 1 /\ 0 \in Nat /\ "returned" \in Stages
  BY CountFacts DEF Stages
<1>2. x \in Transactions
  BY <1>1 DEF Transactions
<1>3. /\ x.inserted = t.inserted /\ x.marks = t.marks
      /\ x.stage = "returned" /\ x.id = None /\ x.target = None /\ x.next = 1
  BY DEF Transactions
<1> QED BY <1>2, <1>3

LEMMA NumberTyped ==
  ASSUME NEW t \in Transactions, NEW last \in Nat, NEW x,
         x = [t EXCEPT !.stage = "insert", !.number = last + 1]
  PROVE  x \in Transactions /\ x.stage = "insert" /\ Kept(x, t)
<1>1. last + 1 \in Nat /\ "insert" \in Stages
  BY DEF Stages
<1>2. x \in Transactions
  BY <1>1 DEF Transactions
<1>3. x.stage = "insert" /\ Kept(x, t)
  BY DEF Transactions, Kept
<1> QED BY <1>2, <1>3

LEMMA StageTyped ==
  ASSUME NEW t \in Transactions, NEW stage \in Stages, NEW x,
         x = [t EXCEPT !.stage = stage]
  PROVE  x \in Transactions /\ x.stage = stage /\ Kept(x, t)
<1>1. x \in Transactions
  BY DEF Transactions
<1>2. x.stage = stage /\ Kept(x, t)
  BY DEF Transactions, Kept
<1> QED BY <1>1, <1>2

LEMMA SeenTyped ==
  ASSUME NEW t \in Transactions, NEW S \in SUBSET Ids, NEW x,
         x = [t EXCEPT !.stage = "period", !.seen = S]
  PROVE  x \in Transactions /\ x.stage = "period" /\ Kept(x, t)
<1>1. "period" \in Stages
  BY DEF Stages
<1>2. x \in Transactions
  BY <1>1 DEF Transactions
<1>3. x.stage = "period" /\ Kept(x, t)
  BY DEF Transactions, Kept
<1> QED BY <1>2, <1>3

LEMMA UnusedTyped == Unused \in Rows
BY DEF Unused, Rows

LEMMA IdleTyped == Idle \in Transactions
BY CountFacts DEF Idle, Transactions, Stages

LEMMA CommittedFacts == Committed \subseteq Ids
BY DEF Committed

LEMMA TotalTyped ==
  ASSUME NEW S \in SUBSET Ids, NEW a \in Accounts
  PROVE  Total(a, S) \in Int
<1>1. IsFiniteSet(Ids)
  BY FS_Interval
<1>2. ASSUME NEW T \in SUBSET Ids PROVE Cardinality(T) \in Nat
  BY <1>1, FS_Subset, FS_CardinalityType
<1>3. {j \in S : rows[j].sign = 1} \in SUBSET Ids /\ {j \in S : rows[j].sign = -1} \in SUBSET Ids
  OBVIOUS
<1>4. Side[a] \in {1, -1}
  OBVIOUS
<1> DEFINE p == Cardinality({j \in S : rows[j].sign = 1})
           m == Cardinality({j \in S : rows[j].sign = -1})
<1>5. p \in Nat /\ m \in Nat
  BY <1>2, <1>3
<1>6. Total(a, S) = Side[a] * (p - m)
  BY DEF Total
<1> QED
  <2> HIDE DEF p, m
  <2>1. Side[a] * (p - m) \in Int
    BY <1>4, <1>5
  <2> QED BY <2>1, <1>6

(* An order names accounts. *)
LEMMA OrderFacts ==
  ASSUME NEW o \in Orders, NEW i \in 1 .. Cardinality(Accounts)
  PROVE  o[i] \in Accounts
BY DEF Orders

(* One transaction record is replaced. *)
LEMMA OneTxTyped ==
  ASSUME TypeOK, NEW s \in Sessions, NEW x \in Transactions, tx' = [tx EXCEPT ![s] = x]
  PROVE  /\ tx' \in [Sessions -> Transactions]
         /\ tx'[s] = x
         /\ \A t \in Sessions \ {s} : tx'[t] = tx[t]
BY DEF TypeOK


-----------------------------------------------------------------------------
(* The shape of the transactions: a call in progress has an identifier of its *)
(* own and a key, sees the journal it reverses, and what it inserted is       *)
(* pending and belongs to no other transaction.                               *)
CallShape(s) ==
  LET t == tx[s]
  IN /\ t.stage \in Busy => t.id \in Ids /\ t.key \in AllKeys
     /\ t.stage \in Busy /\ t.target = None => t.key \in Keys
     /\ t.stage \in {"reference", "lock"} => t.target = None
     /\ t.stage = "original" => t.target # None
     /\ t.target # None => t.target \in Sees(s)
     /\ t.stage \in Busy \ {"lines"} => rows[t.id].state = "unused"
     /\ t.stage = "lines" => t.id \in t.inserted
     /\ t.stage = "idle" => t.inserted = {} /\ t.marks = {}
     /\ t.stage \notin Busy => t.id = None /\ t.target = None /\ t.next = 1
     /\ \A j \in t.inserted : rows[j].state = "pending"

Apart(s, t) ==
  /\ tx[s].inserted \cap tx[t].inserted = {}
  /\ tx[s].id # None => tx[s].id # tx[t].id

ShapeInv ==
  /\ \A j \in Ids : rows[j].state # "unused" => rows[j].lines \in Orders
  /\ \A s \in Sessions : CallShape(s)
  /\ \A s, t \in Sessions : s # t => Apart(s, t)

TypeInv == TypeOK /\ ShapeInv

(* The variables beside the rows and the transactions. *)
RestOK ==
  /\ numberLock \in Sessions \cup {None}
  /\ held \in [Accounts -> Sessions \cup {None}]
  /\ draft \in [Accounts -> Int] /\ balance \in [Accounts -> Int]
  /\ healed \in [Accounts -> BOOLEAN]
  /\ heal \in [account : Accounts, sum : Int] \cup {None}
  /\ period \in {"OPEN", "LOCKED"}
  /\ overlapped \subseteq Sessions

LEMMA TypeParts ==
  /\ TypeOK <=> /\ rows \in [Ids -> Rows]
                /\ tx \in [Sessions -> Transactions]
                /\ RestOK
  /\ TypeOK' <=> /\ rows' \in [Ids -> Rows]
                 /\ tx' \in [Sessions -> Transactions]
                 /\ RestOK'
BY DEF TypeOK, RestOK

(* A statement that moves one call on and writes no row keeps the shape. *)
LEMMA CallStep ==
  ASSUME TypeInv, NEW s \in Sessions,
         rows' = rows, RestOK',
         tx' \in [Sessions -> Transactions],
         \A t \in Sessions \ {s} : tx'[t] = tx[t],
         tx'[s].inserted = tx[s].inserted,
         tx'[s].id = None \/ tx'[s].id = tx[s].id \/ tx'[s].id \in Free,
         CallShape(s)'
  PROVE  TypeInv'
<1>1. TypeOK'
  BY TypeParts DEF TypeInv
<1>2. ASSUME NEW t \in Sessions PROVE CallShape(t)'
  <2>1. CASE t = s
    BY <2>1
  <2>2. CASE t # s
    <3>1. tx'[t] = tx[t] /\ CallShape(t)
      BY <2>2 DEF TypeInv, ShapeInv
    <3> QED BY <3>1 DEF CallShape, Sees, Committed
  <2> QED BY <2>1, <2>2
<1>3. ASSUME NEW t \in Sessions, t # s PROVE Apart(s, t)' /\ Apart(t, s)'
  <2>1. tx'[t] = tx[t] /\ Apart(s, t) /\ Apart(t, s)
    BY <1>3 DEF TypeInv, ShapeInv
  <2>2. tx'[s].id \in Free => tx'[s].id # tx[t].id
    BY DEF Free, Reserved
  <2> QED BY <2>1, <2>2 DEF Apart
<1>4. ASSUME NEW t \in Sessions, NEW u \in Sessions, t # u PROVE Apart(t, u)'
  <2>1. CASE t = s \/ u = s
    BY <1>3, <1>4, <2>1
  <2>2. CASE t # s /\ u # s
    BY <1>4, <2>2 DEF Apart, TypeInv, ShapeInv
  <2> QED BY <2>1, <2>2
<1> QED BY <1>1, <1>2, <1>4 DEF TypeInv, ShapeInv

LEMMA StartShape ==
  ASSUME TypeInv, NEW s \in Sessions, NEW k \in AllKeys, NEW o \in Ids \cup {None},
         NEW stage \in {"reference", "original"},
         o = None => k \in Keys, o # None => o \in Sees(s),
         stage = "reference" <=> o = None,
         Start(s, k, o, stage)
  PROVE  TypeInv'
<1> DEFINE t == tx[s]
<1>0. t \in Transactions /\ TypeOK /\ CallShape(s)
  BY DEF TypeInv, TypeOK, ShapeInv
<1>1. /\ rows' = rows /\ RestOK' /\ t.calls + 1 \in 0 .. MaxCalls
  <2>1. RestOK /\ UNCHANGED <<rows, numberLock, held, draft, balance, healed, heal,
                              period, overlapped>>
    BY <1>0, TypeParts DEF Start
  <2> QED BY <1>0, <2>1, TxFacts DEF Start, RestOK
<1>2. CASE \E id \in Free :
             tx' = [tx EXCEPT ![s].stage = stage, ![s].calls = @ + 1, ![s].key = k,
                              ![s].target = o, ![s].id = id]
  <2>1. PICK id \in Free :
          tx' = [tx EXCEPT ![s].stage = stage, ![s].calls = @ + 1, ![s].key = k,
                           ![s].target = o, ![s].id = id]
    BY <1>2
  <2> DEFINE x == [t EXCEPT !.stage = stage, !.calls = @ + 1, !.key = k, !.target = o,
                            !.id = id]
  <2>4. stage \in Stages /\ id \in Ids
    BY DEF Stages, Free
  <2>5. x \in Transactions
    BY <1>0, <1>1, <2>4 DEF Transactions
  <2>6. /\ x.inserted = t.inserted /\ x.marks = t.marks
        /\ x.stage = stage /\ x.key = k /\ x.target = o /\ x.id = id
    BY <1>0 DEF Transactions
  <2>7. tx' = [tx EXCEPT ![s] = x]
    BY <1>0, <2>1 DEF TypeOK
  <2> HIDE DEF x
  <2>8. /\ \A u \in Sessions \ {s} : tx'[u] = tx[u]
        /\ tx' \in [Sessions -> Transactions]
        /\ tx'[s] = x
    BY <1>0, <2>5, <2>7, OneTxTyped
  <2>2. /\ \A u \in Sessions \ {s} : tx'[u] = tx[u]
        /\ tx' \in [Sessions -> Transactions]
        /\ tx'[s].inserted = t.inserted /\ tx'[s].marks = t.marks
        /\ tx'[s].stage = stage /\ tx'[s].key = k /\ tx'[s].target = o /\ tx'[s].id = id
    BY <2>6, <2>8
  <2>3. CallShape(s)'
    BY <1>0, <1>1, <2>2 DEF CallShape, Busy, Stages, Sees, Committed, Free
  <2> QED BY <1>1, <2>2, <2>3, CallStep
<1>3. CASE tx' = [tx EXCEPT ![s].stage = "returned", ![s].calls = @ + 1]
  <2> DEFINE x == [t EXCEPT !.stage = "returned", !.calls = @ + 1]
  <2>5. x \in Transactions
    BY <1>0, <1>1 DEF Transactions, Stages
  <2>6. /\ x.inserted = t.inserted /\ x.marks = t.marks
        /\ x.stage = "returned" /\ x.id = t.id /\ x.target = t.target /\ x.next = t.next
    BY <1>0 DEF Transactions
  <2>7. tx' = [tx EXCEPT ![s] = x]
    BY <1>0, <1>3 DEF TypeOK
  <2> HIDE DEF x
  <2>8. /\ \A u \in Sessions \ {s} : tx'[u] = tx[u]
        /\ tx' \in [Sessions -> Transactions]
        /\ tx'[s] = x
    BY <1>0, <2>5, <2>7, OneTxTyped
  <2>2. /\ \A u \in Sessions \ {s} : tx'[u] = tx[u]
        /\ tx' \in [Sessions -> Transactions]
        /\ tx'[s].inserted = t.inserted /\ tx'[s].marks = t.marks
        /\ tx'[s].stage = "returned" /\ tx'[s].id = t.id /\ tx'[s].target = t.target
        /\ tx'[s].next = t.next
    BY <2>6, <2>8
  <2>3. t.stage \in {"idle", "returned"}
    BY DEF Start
  <2>4. CallShape(s)'
    BY <1>0, <1>1, <2>2, <2>3 DEF CallShape, Busy, Stages, Sees, Committed
  <2> QED BY <1>1, <2>2, <2>4, CallStep
<1> QED BY <1>2, <1>3 DEF Start

LEMMA ReturnShape ==
  ASSUME TypeInv, NEW s \in Sessions, tx[s].stage \in Busy \ {"lines"},
         rows' = rows, RestOK', Return(s)
  PROVE  TypeInv'
<1> DEFINE t == tx[s]
<1>0. t \in Transactions /\ TypeOK /\ CallShape(s)
  BY DEF TypeInv, TypeOK, ShapeInv
<1> DEFINE x == [t EXCEPT !.stage = "returned", !.id = None, !.next = 1, !.key = None,
                         !.target = None, !.number = 0, !.seen = {}]
<1>1. /\ x \in Transactions
      /\ x.inserted = t.inserted /\ x.marks = t.marks
      /\ x.stage = "returned" /\ x.id = None /\ x.target = None /\ x.next = 1
  BY <1>0, ReturnTyped
<1>4. tx' = [tx EXCEPT ![s] = x]
  BY <1>0 DEF Return, TypeOK
<1>5. /\ tx'[s] = x
      /\ \A u \in Sessions \ {s} : tx'[u] = tx[u]
      /\ tx' \in [Sessions -> Transactions]
  <2> HIDE DEF x
  <2> QED BY <1>0, <1>1, <1>4, OneTxTyped
<1>2. /\ tx'[s].inserted = t.inserted /\ tx'[s].marks = t.marks
      /\ tx'[s].stage = "returned" /\ tx'[s].id = None /\ tx'[s].target = None
      /\ tx'[s].next = 1
  BY <1>1, <1>5
<1>3. CallShape(s)'
  BY <1>0, <1>2 DEF CallShape, Busy, Stages, Sees, Committed
<1> QED BY <1>2, <1>3, <1>5, CallStep

(* A call that goes on to another stage before its insert. *)
LEMMA MoveShape ==
  ASSUME TypeInv, NEW s \in Sessions,
         NEW stage \in Busy \ {"lines", "reference", "original"},
         tx[s].stage \in Busy \ {"lines"},
         stage = "lock" => tx[s].target = None,
         rows' = rows, RestOK',
         NEW x \in Transactions, x.stage = stage, Kept(x, tx[s]),
         tx' = [tx EXCEPT ![s] = x]
  PROVE  TypeInv'
<1>1. CallShape(s) /\ TypeOK
  BY DEF TypeInv, ShapeInv
<1>3. /\ tx' \in [Sessions -> Transactions]
      /\ tx'[s] = x
      /\ \A u \in Sessions \ {s} : tx'[u] = tx[u]
  BY <1>1, OneTxTyped
<1>4. tx'[s].stage = stage /\ Kept(tx'[s], tx[s])
  BY <1>3
<1>2. CallShape(s)'
  BY <1>1, <1>4 DEF CallShape, Kept, Busy, Stages, Sees, Committed
<1>5. tx'[s].inserted = tx[s].inserted /\ tx'[s].id = tx[s].id
  BY <1>4 DEF Kept
<1> QED BY <1>2, <1>3, <1>5, CallStep

LEMMA RestStays ==
  ASSUME TypeInv, UNCHANGED <<numberLock, held, draft, balance, healed, heal, period,
                              overlapped>>
  PROVE  RestOK'
BY TypeParts DEF TypeInv, RestOK

LEMMA CheckReferenceShape ==
  ASSUME TypeInv, NEW s \in Sessions, CheckReference(s)
  PROVE  TypeInv'
<1>1. rows' = rows /\ RestOK' /\ tx[s].stage \in Busy \ {"lines"}
  BY RestStays DEF CheckReference, Busy, Stages
<1>2. CASE Return(s)
  BY <1>1, <1>2, ReturnShape
<1>3. CASE tx' = [tx EXCEPT ![s].stage = "period", ![s].seen = Committed]
  <2> DEFINE x == [tx[s] EXCEPT !.stage = "period", !.seen = Committed]
  <2>3. tx[s] \in Transactions /\ TypeOK
    BY DEF TypeInv, TypeOK
  <2>4. x \in Transactions /\ x.stage = "period" /\ Kept(x, tx[s])
    BY <2>3, CommittedFacts, SeenTyped
  <2>5. tx' = [tx EXCEPT ![s] = x]
    BY <1>3, <2>3 DEF TypeOK
  <2>2. "period" \in Busy \ {"lines", "reference", "original"}
    BY DEF Busy, Stages
  <2> HIDE DEF x
  <2> QED BY <1>1, <2>2, <2>4, <2>5, MoveShape
<1> QED BY <1>2, <1>3 DEF CheckReference

LEMMA ReadOriginalShape ==
  ASSUME TypeInv, NEW s \in Sessions, ReadOriginal(s)
  PROVE  TypeInv'
<1>1. rows' = rows /\ RestOK' /\ tx[s].stage \in Busy \ {"lines"}
  BY RestStays DEF ReadOriginal, Busy, Stages
<1>2. CASE Return(s)
  BY <1>1, <1>2, ReturnShape
<1>3. CASE tx' = [tx EXCEPT ![s].stage = "period", ![s].seen = Committed]
  <2> DEFINE x == [tx[s] EXCEPT !.stage = "period", !.seen = Committed]
  <2>3. tx[s] \in Transactions /\ TypeOK
    BY DEF TypeInv, TypeOK
  <2>4. x \in Transactions /\ x.stage = "period" /\ Kept(x, tx[s])
    BY <2>3, CommittedFacts, SeenTyped
  <2>5. tx' = [tx EXCEPT ![s] = x]
    BY <1>3, <2>3 DEF TypeOK
  <2>2. "period" \in Busy \ {"lines", "reference", "original"}
    BY DEF Busy, Stages
  <2> HIDE DEF x
  <2> QED BY <1>1, <2>2, <2>4, <2>5, MoveShape
<1> QED BY <1>2, <1>3 DEF ReadOriginal

LEMMA CheckPeriodShape ==
  ASSUME TypeInv, NEW s \in Sessions, CheckPeriod(s)
  PROVE  TypeInv'
<1>1. rows' = rows /\ RestOK' /\ tx[s].stage \in Busy \ {"lines"}
  BY RestStays DEF CheckPeriod, Busy, Stages
<1>2. CASE Return(s)
  BY <1>1, <1>2, ReturnShape
<1>3. CASE Goto(s, IF tx[s].target = None THEN "lock" ELSE "number")
  <2> DEFINE stage == IF tx[s].target = None THEN "lock" ELSE "number"
             x == [tx[s] EXCEPT !.stage = stage]
  <2>3. tx[s] \in Transactions /\ TypeOK
    BY DEF TypeInv, TypeOK
  <2>2. /\ stage \in Busy \ {"lines", "reference", "original"}
        /\ stage = "lock" => tx[s].target = None
    BY DEF Busy, Stages
  <2>5. tx' = [tx EXCEPT ![s] = x]
    BY <1>3, <2>3 DEF TypeOK, Goto
  <2> HIDE DEF stage
  <2>4. x \in Transactions /\ x.stage = stage /\ Kept(x, tx[s])
    BY <2>2, <2>3, StageTyped DEF Busy
  <2> HIDE DEF x
  <2> QED BY <1>1, <2>2, <2>4, <2>5, MoveShape
<1> QED BY <1>2, <1>3 DEF CheckPeriod

LEMMA LockNumberShape ==
  ASSUME TypeInv, NEW s \in Sessions, LockNumber(s)
  PROVE  TypeInv'
<1>1. rows' = rows /\ RestOK' /\ tx[s].stage \in Busy \ {"lines"}
  BY TypeParts DEF TypeInv, RestOK, LockNumber, Busy, Stages
<1> DEFINE x == [tx[s] EXCEPT !.stage = "number"]
<1>4. tx[s] \in Transactions /\ TypeOK
  BY DEF TypeInv, TypeOK
<1>5. x \in Transactions /\ x.stage = "number" /\ Kept(x, tx[s])
  BY <1>4, StageTyped DEF Stages
<1>6. tx' = [tx EXCEPT ![s] = x]
  BY <1>4 DEF LockNumber, TypeOK, Goto
<1>3. "number" \in Busy \ {"lines", "reference", "original"}
  BY DEF Busy, Stages
<1> HIDE DEF x
<1> QED BY <1>1, <1>3, <1>5, <1>6, MoveShape

LEMMA ReadNumberShape ==
  ASSUME TypeInv, NEW s \in Sessions, ReadNumber(s)
  PROVE  TypeInv'
<1>1. rows' = rows /\ RestOK' /\ tx[s].stage \in Busy \ {"lines"}
  BY RestStays DEF ReadNumber, Busy, Stages
<1>2. PICK last \in {rows[j].number : j \in Sees(s)} \cup {0} :
        tx' = [tx EXCEPT ![s].stage = "insert", ![s].number = last + 1]
  BY DEF ReadNumber
<1>3. last \in Nat
  <2>1. tx[s] \in Transactions /\ rows \in [Ids -> Rows]
    BY DEF TypeInv, TypeOK
  <2>2. Sees(s) \subseteq Ids
    BY <2>1, TxFacts, CommittedFacts DEF Sees
  <2>3. \A j \in Sees(s) : rows[j].number \in Nat
    BY <2>1, <2>2, RowFacts
  <2> QED BY <2>3
<1> DEFINE x == [tx[s] EXCEPT !.stage = "insert", !.number = last + 1]
<1>6. tx[s] \in Transactions /\ TypeOK
  BY DEF TypeInv, TypeOK
<1>7. x \in Transactions /\ x.stage = "insert" /\ Kept(x, tx[s])
  BY <1>3, <1>6, NumberTyped
<1>8. tx' = [tx EXCEPT ![s] = x]
  BY <1>2, <1>6 DEF TypeOK
<1>5. "insert" \in Busy \ {"lines", "reference", "original"}
  BY DEF Busy, Stages
<1> HIDE DEF x
<1> QED BY <1>1, <1>5, <1>7, <1>8, MoveShape

LEMMA RollbackShape ==
  ASSUME TypeInv, NEW s \in Sessions, Rollback(s)
  PROVE  TypeInv'
<1>0. TypeOK /\ ShapeInv /\ rows \in [Ids -> Rows] /\ tx \in [Sessions -> Transactions]
  BY DEF TypeInv, TypeOK
<1>1. TypeOK'
  <2>1. rows' \in [Ids -> Rows]
    BY <1>0, UnusedTyped DEF Rollback
  <2>2. tx' \in [Sessions -> Transactions]
    BY <1>0, IdleTyped DEF Rollback
  <2>3. RestOK'
    BY <1>0 DEF Rollback, Unlocked, TypeOK, RestOK
  <2> QED BY <2>1, <2>2, <2>3, TypeParts
<1>2. tx'[s] = Idle /\ \A t \in Sessions \ {s} : tx'[t] = tx[t]
  BY <1>0 DEF Rollback
<1>3. /\ \A j \in tx[s].inserted : rows'[j] = Unused
      /\ \A j \in Ids \ tx[s].inserted : rows'[j] = rows[j]
  BY <1>0, TxFacts DEF Rollback
<1>8. \A j \in tx[s].inserted : rows[j].state = "pending"
  BY <1>0 DEF ShapeInv, CallShape
<1>9. Unused.state = "unused"
  BY DEF Unused
<1>10. ASSUME NEW j \in Ids PROVE rows'[j].state = "posted" <=> rows[j].state = "posted"
  BY <1>3, <1>8, <1>9
<1>4. Committed' = Committed
  BY <1>10 DEF Committed
<1>5. \A j \in Ids : rows'[j].state # "unused" => rows'[j].lines \in Orders
  BY <1>0, <1>3 DEF ShapeInv, Unused
<1>6. ASSUME NEW t \in Sessions PROVE CallShape(t)'
  <2>1. CASE t = s
    BY <1>2, <2>1 DEF CallShape, Idle, Busy, Stages
  <2>2. CASE t # s
    <3>1. /\ tx'[t] = tx[t] /\ CallShape(t) /\ tx[t] \in Transactions
          /\ tx[t].inserted \cap tx[s].inserted = {}
      BY <1>0, <1>2, <2>2 DEF ShapeInv, Apart
    <3>2. \A j \in tx[t].inserted : rows'[j] = rows[j]
      BY <1>3, <3>1, TxFacts
    <3>3. tx[t].id \in Ids /\ rows[tx[t].id].state = "unused"
            => rows'[tx[t].id].state = "unused"
      BY <1>3 DEF Unused
    <3>4. Sees(t)' = Sees(t)
      BY <1>4, <3>1 DEF Sees
    <3> QED BY <3>1, <3>2, <3>3, <3>4 DEF CallShape
  <2> QED BY <2>1, <2>2
<1>7. ASSUME NEW t \in Sessions, NEW u \in Sessions, t # u PROVE Apart(t, u)'
  <2>1. Apart(t, u)
    BY <1>0, <1>7 DEF ShapeInv
  <2> QED BY <1>2, <1>7, <2>1 DEF Apart, Idle
<1> QED BY <1>1, <1>5, <1>6, <1>7 DEF TypeInv, ShapeInv

(* Insert, when it writes its header with the lines in a given order. *)
Inserts(s, order) ==
  /\ \A j \in PostedFor(s) : rows[j].key # tx[s].key
  /\ rows' = [rows EXCEPT ![tx[s].id] = Header(s, order)]
  /\ tx' = [tx EXCEPT ![s].stage = "lines", ![s].inserted = @ \cup {tx[s].id}]
  /\ UNCHANGED <<numberLock, held, draft, balance, healed, heal, period, overlapped>>

LEMMA InsertCases ==
  ASSUME TypeInv, NEW s \in Sessions, Insert(s)
  PROVE  \/ Rollback(s)
         \/ \E order \in Orders : Inserts(s, order)
<1>0. TypeOK /\ ShapeInv /\ CallShape(s)
  BY DEF TypeInv, ShapeInv
<1>1. SUFFICES ASSUME ~Rollback(s)
               PROVE  \E order \in Orders : Inserts(s, order)
  OBVIOUS
<1>2. PICK order \in IF tx[s].target = None THEN Orders ELSE {rows[tx[s].target].lines} :
        rows' = [rows EXCEPT ![tx[s].id] = Header(s, order)]
  BY <1>1 DEF Insert, Header
<1>3. order \in Orders
  <2>1. CASE tx[s].target = None
    BY <1>2, <2>1
  <2>2. CASE tx[s].target # None
    <3>1. tx[s].target \in Sees(s)
      BY <1>0, <2>2 DEF CallShape
    <3>2. tx[s].target \in Ids /\ rows[tx[s].target].state # "unused"
      BY <1>0, <3>1, <2>2 DEF Sees, Committed, CallShape, TypeOK, Transactions
    <3> QED BY <1>0, <1>2, <2>2, <3>2 DEF ShapeInv
  <2> QED BY <2>1, <2>2
<1>4. Inserts(s, order)
  BY <1>1, <1>2 DEF Insert, Inserts
<1> QED BY <1>3, <1>4

LEMMA InsertsFacts ==
  ASSUME TypeInv, NEW s \in Sessions, tx[s].stage = "insert", NEW order \in Orders,
         Inserts(s, order)
  PROVE  /\ rows' \in [Ids -> Rows] /\ tx' \in [Sessions -> Transactions]
         /\ tx[s].id \in Ids /\ rows[tx[s].id].state = "unused"
         /\ rows'[tx[s].id] = Header(s, order)
         /\ \A j \in Ids \ {tx[s].id} : rows'[j] = rows[j]
         /\ \A t \in Sessions \ {s} : tx'[t] = tx[t]
         /\ tx'[s] = [tx[s] EXCEPT !.stage = "lines", !.inserted = @ \cup {tx[s].id}]
         /\ Committed' = Committed
<1>0. /\ TypeOK /\ ShapeInv /\ CallShape(s)
      /\ tx[s] \in Transactions /\ tx \in [Sessions -> Transactions]
      /\ rows \in [Ids -> Rows]
  BY DEF TypeInv, ShapeInv, TypeOK
<1>1. /\ tx[s].id \in Ids /\ tx[s].key \in AllKeys /\ rows[tx[s].id].state = "unused"
      /\ tx[s].target = None => tx[s].key \in Keys
  BY <1>0 DEF CallShape, Busy, Stages
<1>2. Header(s, order) \in Rows
  <2>1. (IF tx[s].target = None THEN RefOf[tx[s].key] ELSE None)
           \in {RefOf[k] : k \in Keys} \cup {None}
    BY <1>1
  <2>2. (IF tx[s].target = None THEN 1 ELSE -rows[tx[s].target].sign) \in {1, -1}
    <3>1. tx[s].target # None => rows[tx[s].target].sign \in {1, -1}
      BY <1>0, TxFacts, RowFacts
    <3> QED BY <3>1
  <2> QED BY <1>0, <1>1, <2>1, <2>2, TxFacts DEF Header, Rows
<1>3. [tx[s] EXCEPT !.stage = "lines", !.inserted = @ \cup {tx[s].id}] \in Transactions
  BY <1>0, <1>1 DEF Transactions, Stages
<1>4. tx' = [tx EXCEPT ![s] = [tx[s] EXCEPT !.stage = "lines",
                                            !.inserted = @ \cup {tx[s].id}]]
  BY <1>0 DEF Inserts
<1>5. /\ rows' \in [Ids -> Rows]
      /\ rows'[tx[s].id] = Header(s, order)
      /\ \A j \in Ids \ {tx[s].id} : rows'[j] = rows[j]
  BY <1>0, <1>1, <1>2 DEF Inserts
<1>6. Committed' = Committed
  BY <1>1, <1>5 DEF Committed, Header
<1> QED BY <1>0, <1>1, <1>3, <1>4, <1>5, <1>6, OneTxTyped

LEMMA InsertShape ==
  ASSUME TypeInv, NEW s \in Sessions, Insert(s)
  PROVE  TypeInv'
<1>1. CASE Rollback(s)
  BY <1>1, RollbackShape
<1>2. ASSUME NEW order \in Orders, Inserts(s, order)
      PROVE  TypeInv'
  <2>0. /\ ShapeInv /\ TypeOK /\ tx[s].stage = "insert"
        /\ tx[s] \in Transactions
    BY DEF TypeInv, TypeOK, Insert
  <2>1. /\ rows' \in [Ids -> Rows] /\ tx' \in [Sessions -> Transactions]
        /\ tx[s].id \in Ids /\ rows[tx[s].id].state = "unused"
        /\ rows'[tx[s].id] = Header(s, order)
        /\ \A j \in Ids \ {tx[s].id} : rows'[j] = rows[j]
        /\ \A t \in Sessions \ {s} : tx'[t] = tx[t]
        /\ tx'[s] = [tx[s] EXCEPT !.stage = "lines", !.inserted = @ \cup {tx[s].id}]
        /\ Committed' = Committed
    BY <1>2, <2>0, InsertsFacts
  <2>2. RestOK'
    BY <1>2, RestStays DEF Inserts
  <2>3. /\ tx'[s].stage = "lines" /\ tx'[s].inserted = tx[s].inserted \cup {tx[s].id}
        /\ tx'[s].id = tx[s].id /\ tx'[s].key = tx[s].key /\ tx'[s].target = tx[s].target
        /\ tx'[s].marks = tx[s].marks
    BY ONLY <2>0, <2>1 DEF Transactions
  <2>4. \A j \in Ids : rows'[j].state # "unused" => rows'[j].lines \in Orders
    BY <2>0, <2>1 DEF ShapeInv, Header
  <2>5. ASSUME NEW t \in Sessions PROVE CallShape(t)'
    <3>1. CASE t = s
      <4>1. CallShape(s)
        BY <2>0 DEF ShapeInv
      <4>2. \A j \in tx'[s].inserted : rows'[j].state = "pending"
        <5>1. rows'[tx[s].id].state = "pending"
          BY <2>1 DEF Header
        <5>2. \A j \in tx[s].inserted : j \in Ids /\ rows[j].state = "pending"
          BY <2>0, <4>1, TxFacts DEF CallShape
        <5> QED BY <2>1, <2>3, <5>1, <5>2
      <4>3. tx'[s].target # None => tx'[s].target \in Sees(s)'
        BY <2>1, <2>3, <4>1 DEF CallShape, Sees
      <4> QED BY <2>0, <2>1, <2>3, <3>1, <4>1, <4>2, <4>3 DEF CallShape, Busy, Stages
    <3>2. CASE t # s
      <4>1. /\ tx'[t] = tx[t] /\ CallShape(t) /\ tx[t] \in Transactions
            /\ tx[s].id # tx[t].id
        BY <2>0, <2>1, <3>2 DEF ShapeInv, Apart, TypeOK
      <4>2. \A j \in tx[t].inserted : rows'[j] = rows[j]
        BY <2>1, <4>1, TxFacts DEF CallShape
      <4>3. Sees(t)' = Sees(t)
        BY <2>1, <4>1 DEF Sees
      <4>4. tx[t].id \in Ids => rows'[tx[t].id] = rows[tx[t].id]
        BY <2>1, <4>1
      <4>5. tx[t].stage \in Busy \ {"lines"} => rows'[tx[t].id].state = "unused"
        BY <4>1, <4>4 DEF CallShape
      <4> QED BY <4>1, <4>2, <4>3, <4>5 DEF CallShape
    <3> QED BY <3>1, <3>2
  <2>6. ASSUME NEW t \in Sessions, t # s PROVE Apart(s, t)' /\ Apart(t, s)'
    <3>1. tx'[t] = tx[t] /\ Apart(s, t) /\ Apart(t, s) /\ CallShape(t)
      BY <2>0, <2>1, <2>6 DEF ShapeInv
    <3>2. tx[s].id \notin tx[t].inserted
      BY <2>1, <3>1 DEF CallShape
    <3> QED BY <2>3, <3>1, <3>2 DEF Apart
  <2>7. ASSUME NEW t \in Sessions, NEW u \in Sessions, t # u PROVE Apart(t, u)'
    <3>1. CASE t = s \/ u = s
      BY <2>6, <2>7, <3>1
    <3>2. CASE t # s /\ u # s
      BY <2>0, <2>1, <2>7, <3>2 DEF Apart, ShapeInv
    <3> QED BY <3>1, <3>2
  <2> QED BY <2>1, <2>2, <2>4, <2>5, <2>7, TypeParts DEF TypeInv, ShapeInv
<1> QED BY <1>1, <1>2, InsertCases

(* The account of the next line, and the lock on it. *)
LEMMA WriteLineFacts ==
  ASSUME TypeInv, NEW s \in Sessions, WriteLine(s)
  PROVE  /\ NextAccount(s) \in Accounts
         /\ held' \in [Accounts -> Sessions \cup {None}]
         /\ draft' \in [Accounts -> Int]
         /\ tx' \in [Sessions -> Transactions]
         /\ \A t \in Sessions \ {s} : tx'[t] = tx[t]
         /\ tx'[s] = [tx[s] EXCEPT !.next = @ + 1]
<1>0. /\ TypeOK /\ ShapeInv /\ CallShape(s) /\ tx[s] \in Transactions
      /\ tx[s].stage = "lines" /\ tx[s].next <= Cardinality(Accounts)
  BY DEF TypeInv, TypeOK, ShapeInv, WriteLine
<1>1. /\ tx[s].id \in Ids /\ rows[tx[s].id].lines \in Orders
      /\ rows[tx[s].id].sign \in {1, -1}
  BY <1>0, TxFacts, RowFacts DEF CallShape, ShapeInv, Busy, Stages, TypeOK
<1>2. tx[s].next \in 1 .. Cardinality(Accounts)
  BY <1>0, TxFacts, CountFacts
<1>3. NextAccount(s) \in Accounts
  BY <1>1, <1>2, OrderFacts DEF NextAccount
<1>4. Side[NextAccount(s)] * rows[tx[s].id].sign \in Int
  <2>1. Side[NextAccount(s)] \in {1, -1}
    BY <1>3
  <2> QED BY <1>1, <2>1
<1>5. [tx[s] EXCEPT !.next = @ + 1] \in Transactions
  <2>1. tx[s].next + 1 \in 1 .. Cardinality(Accounts) + 1
    BY <1>2, CountFacts
  <2> QED BY <1>0, <2>1 DEF Transactions
<1>6. tx' = [tx EXCEPT ![s] = [tx[s] EXCEPT !.next = @ + 1]]
  BY <1>0 DEF WriteLine
<1>7. /\ held' \in [Accounts -> Sessions \cup {None}]
      /\ draft' \in [Accounts -> Int]
  BY <1>0, <1>3, <1>4 DEF WriteLine, TypeOK
<1> QED BY <1>0, <1>3, <1>5, <1>6, <1>7, OneTxTyped

LEMMA WriteLineShape ==
  ASSUME TypeInv, NEW s \in Sessions, WriteLine(s)
  PROVE  TypeInv'
<1>0. /\ CallShape(s) /\ tx[s] \in Transactions /\ tx[s].stage = "lines" /\ rows' = rows
  BY DEF TypeInv, TypeOK, ShapeInv, WriteLine
<1>1. RestOK'
  BY WriteLineFacts DEF WriteLine, TypeInv, TypeOK, RestOK
<1>2. /\ tx'[s].stage = "lines" /\ tx'[s].inserted = tx[s].inserted
      /\ tx'[s].id = tx[s].id /\ tx'[s].key = tx[s].key /\ tx'[s].target = tx[s].target
      /\ tx'[s].marks = tx[s].marks
  <2>1. tx'[s] = [tx[s] EXCEPT !.next = @ + 1]
    BY WriteLineFacts
  <2> QED BY ONLY <1>0, <2>1 DEF Transactions
<1>3. CallShape(s)'
  BY <1>0, <1>2 DEF CallShape, Busy, Stages, Sees, Committed
<1> QED BY <1>0, <1>1, <1>2, <1>3, CallStep, WriteLineFacts

LEMMA FinishFacts ==
  ASSUME TypeInv, NEW s \in Sessions, Finish(s)
  PROVE  /\ tx' \in [Sessions -> Transactions]
         /\ \A t \in Sessions \ {s} : tx'[t] = tx[t]
         /\ tx'[s].stage = "returned" /\ tx'[s].calls = tx[s].calls
         /\ tx'[s].key = None /\ tx'[s].target = None /\ tx'[s].id = None
         /\ tx'[s].next = 1 /\ tx'[s].seen = {}
         /\ tx'[s].inserted = tx[s].inserted
         /\ tx'[s].marks = IF tx[s].target = None THEN tx[s].marks
                           ELSE tx[s].marks \cup {<<tx[s].target, tx[s].id>>}
         /\ draft' = [a \in Accounts |-> Total(a, PostedFor(s) \ {tx[s].target})]
         /\ draft' \in [Accounts -> Int]
<1> DEFINE marks == IF tx[s].target = None THEN tx[s].marks
                    ELSE tx[s].marks \cup {<<tx[s].target, tx[s].id>>}
           x == [Idle EXCEPT !.stage = "returned", !.calls = tx[s].calls,
                             !.inserted = tx[s].inserted, !.marks = marks]
<1>0. /\ TypeOK /\ ShapeInv /\ CallShape(s) /\ tx[s] \in Transactions
      /\ tx[s].stage = "lines"
  BY DEF TypeInv, TypeOK, ShapeInv, Finish
<1>1. tx[s].id \in Ids
  BY <1>0 DEF CallShape, Busy, Stages
<1>2. marks \in SUBSET (Ids \X Ids)
  BY <1>0, <1>1, TxFacts
<1>3. x \in Transactions
  <2> HIDE DEF marks
  <2>1. "returned" \in Stages /\ tx[s].calls \in 0 .. MaxCalls /\ tx[s].inserted \in SUBSET Ids
    BY <1>0, TxFacts DEF Stages
  <2> QED BY ONLY <1>2, <2>1, IdleTyped DEF Transactions
<1>4. tx' = [tx EXCEPT ![s] = x]
  BY DEF Finish
<1>5. /\ tx' \in [Sessions -> Transactions] /\ tx'[s] = x
      /\ \A t \in Sessions \ {s} : tx'[t] = tx[t]
  BY <1>0, <1>3, <1>4, OneTxTyped
<1>6. PostedFor(s) \ {tx[s].target} \in SUBSET Ids
  BY <1>0, TxFacts, CommittedFacts DEF PostedFor, Sees
<1>7. draft' = [a \in Accounts |-> Total(a, PostedFor(s) \ {tx[s].target})]
  BY DEF Finish
<1>8. draft' \in [Accounts -> Int]
  BY <1>6, <1>7, TotalTyped
<1>9. /\ x.stage = "returned" /\ x.calls = tx[s].calls
      /\ x.key = None /\ x.target = None /\ x.id = None
      /\ x.next = 1 /\ x.seen = {} /\ x.inserted = tx[s].inserted /\ x.marks = marks
  <2> HIDE DEF marks
  <2> QED BY DEF Idle
<1> HIDE DEF x
<1> QED BY <1>5, <1>7, <1>8, <1>9

LEMMA FinishShape ==
  ASSUME TypeInv, NEW s \in Sessions, Finish(s)
  PROVE  TypeInv'
<1>0. CallShape(s) /\ rows' = rows
  BY DEF TypeInv, ShapeInv, Finish
<1>1. RestOK'
  BY FinishFacts DEF Finish, TypeInv, TypeOK, RestOK
<1>2. CallShape(s)'
  BY <1>0, FinishFacts DEF CallShape, Busy, Stages
<1> QED BY <1>0, <1>1, <1>2, FinishFacts, CallStep

(* What a commit leaves in the tables. *)
LEMMA CommitFacts ==
  ASSUME TypeInv, NEW s \in Sessions, Commit(s)
  PROVE  /\ rows' \in [Ids -> Rows] /\ tx' \in [Sessions -> Transactions]
         /\ tx'[s] = Idle
         /\ \A t \in Sessions \ {s} : tx'[t] = tx[t]
         /\ Committed' = Committed \cup tx[s].inserted
         /\ \A j \in Ids :
              /\ rows'[j].state = IF j \in tx[s].inserted THEN "posted" ELSE rows[j].state
              /\ rows'[j].by = ByFor(s, j)
              /\ rows'[j].key = IF Marked(s, j) THEN None ELSE rows[j].key
              /\ rows'[j].ref = rows[j].ref /\ rows'[j].sign = rows[j].sign
              /\ rows'[j].lines = rows[j].lines /\ rows'[j].reverses = rows[j].reverses
              /\ rows'[j].number = rows[j].number /\ rows'[j].seen = rows[j].seen
              /\ rows'[j].own = rows[j].own
<1>0. /\ TypeOK /\ tx[s] \in Transactions /\ rows \in [Ids -> Rows]
      /\ tx \in [Sessions -> Transactions]
  BY DEF TypeInv, TypeOK
<1>1. ASSUME NEW j \in Ids
      PROVE  /\ rows'[j] \in Rows
             /\ rows'[j].state = IF j \in tx[s].inserted THEN "posted" ELSE rows[j].state
             /\ rows'[j].by = ByFor(s, j)
             /\ rows'[j].key = IF Marked(s, j) THEN None ELSE rows[j].key
             /\ rows'[j].ref = rows[j].ref /\ rows'[j].sign = rows[j].sign
             /\ rows'[j].lines = rows[j].lines /\ rows'[j].reverses = rows[j].reverses
             /\ rows'[j].number = rows[j].number /\ rows'[j].seen = rows[j].seen
             /\ rows'[j].own = rows[j].own
  <2> DEFINE state == IF j \in tx[s].inserted THEN "posted" ELSE rows[j].state
             key == IF Marked(s, j) THEN None ELSE rows[j].key
  <2>1. rows[j] \in Rows
    BY <1>0
  <2>2. state \in {"unused", "pending", "posted"} /\ key \in AllKeys \cup {None}
    BY <2>1, RowFacts
  <2>3. ByFor(s, j) \in Ids \cup {None}
    <3>1. CASE Marked(s, j)
      <4>1. (CHOOSE m \in tx[s].marks : m[1] = j) \in tx[s].marks
        BY <3>1 DEF Marked
      <4> QED BY <1>0, <3>1, <4>1, TxFacts DEF ByFor
    <3>2. CASE ~Marked(s, j)
      BY <2>1, <3>2, RowFacts DEF ByFor
    <3> QED BY <3>1, <3>2
  <2>4. rows'[j] = [rows[j] EXCEPT !.state = state, !.by = ByFor(s, j), !.key = key]
    BY DEF Commit
  <2> HIDE DEF state, key
  <2>5. /\ rows'[j] \in Rows
        /\ rows'[j].state = state /\ rows'[j].by = ByFor(s, j) /\ rows'[j].key = key
        /\ rows'[j].ref = rows[j].ref /\ rows'[j].sign = rows[j].sign
        /\ rows'[j].lines = rows[j].lines /\ rows'[j].reverses = rows[j].reverses
        /\ rows'[j].number = rows[j].number /\ rows'[j].seen = rows[j].seen
        /\ rows'[j].own = rows[j].own
    BY ONLY <2>1, <2>2, <2>3, <2>4 DEF Rows
  <2> QED BY <2>5 DEF state, key
<1>2. rows' \in [Ids -> Rows]
  <2>1. rows' = [j \in Ids |-> rows'[j]]
    BY DEF Commit
  <2> QED BY <1>1, <2>1
<1>3. /\ tx' \in [Sessions -> Transactions] /\ tx'[s] = Idle
      /\ \A t \in Sessions \ {s} : tx'[t] = tx[t]
  BY <1>0, IdleTyped, OneTxTyped DEF Commit
<1>4. Committed' = Committed \cup tx[s].inserted
  BY <1>0, <1>1, TxFacts DEF Committed
<1> QED BY <1>1, <1>2, <1>3, <1>4

LEMMA CommitShape ==
  ASSUME TypeInv, NEW s \in Sessions, Commit(s)
  PROVE  TypeInv'
<1>0. TypeOK /\ ShapeInv /\ rows \in [Ids -> Rows] /\ tx \in [Sessions -> Transactions]
  BY DEF TypeInv, TypeOK
<1>1. /\ rows' \in [Ids -> Rows] /\ tx' \in [Sessions -> Transactions]
      /\ tx'[s] = Idle
      /\ \A t \in Sessions \ {s} : tx'[t] = tx[t]
      /\ Committed' = Committed \cup tx[s].inserted
      /\ \A j \in Ids :
           /\ rows'[j].state = IF j \in tx[s].inserted THEN "posted" ELSE rows[j].state
           /\ rows'[j].lines = rows[j].lines
  BY CommitFacts
<1>2. RestOK'
  BY <1>0 DEF Commit, Unlocked, TypeOK, RestOK
<1>3. ASSUME NEW j \in Ids, rows'[j].state # "unused" PROVE rows'[j].lines \in Orders
  <2>1. rows[j].state # "unused"
    BY <1>0, <1>1, <1>3, TxFacts DEF ShapeInv, CallShape
  <2> QED BY <1>0, <1>1, <2>1 DEF ShapeInv
<1>4. ASSUME NEW t \in Sessions PROVE CallShape(t)'
  <2>1. CASE t = s
    BY <1>1, <2>1 DEF CallShape, Idle, Busy, Stages
  <2>2. CASE t # s
    <3>1. /\ tx'[t] = tx[t] /\ CallShape(t) /\ tx[t] \in Transactions
          /\ tx[t].inserted \cap tx[s].inserted = {}
      BY <1>0, <1>1, <2>2 DEF ShapeInv, Apart
    <3>2. \A j \in tx[t].inserted : rows'[j].state = rows[j].state
      BY <1>1, <3>1, TxFacts
    <3>3. tx[t].id \in Ids /\ rows[tx[t].id].state = "unused"
            => rows'[tx[t].id].state = "unused"
      BY <1>0, <1>1 DEF ShapeInv, CallShape
    <3>4. Sees(t) \subseteq Sees(t)'
      BY <1>1, <3>1 DEF Sees
    <3> QED BY <3>1, <3>2, <3>3, <3>4 DEF CallShape, Busy, Stages
  <2> QED BY <2>1, <2>2
<1>5. ASSUME NEW t \in Sessions, NEW u \in Sessions, t # u PROVE Apart(t, u)'
  <2>1. Apart(t, u)
    BY <1>0, <1>5 DEF ShapeInv
  <2> QED BY <1>1, <1>5, <2>1 DEF Apart, Idle
<1> QED BY <1>1, <1>2, <1>3, <1>4, <1>5, TypeParts DEF TypeInv, ShapeInv

(* The steps beside the sessions write neither rows nor transactions. *)
LEMMA BesideShape ==
  ASSUME TypeInv, rows' = rows, tx' = tx, RestOK'
  PROVE  TypeInv'
<1>1. TypeOK'
  BY TypeParts DEF TypeInv
<1>2. ShapeInv'
  BY DEF TypeInv, ShapeInv, CallShape, Apart, Sees, Committed
<1> QED BY <1>1, <1>2 DEF TypeInv

LEMMA BesideKeepsTypes ==
  ASSUME TypeInv, LockPeriod \/ HealRead \/ HealWrite \/ UNCHANGED vars
  PROVE  TypeInv'
<1>0. RestOK
  BY TypeParts DEF TypeInv
<1>1. CASE LockPeriod
  <2>1. RestOK'
    BY <1>0, <1>1 DEF LockPeriod, RestOK
  <2> QED BY <1>1, <2>1, BesideShape DEF LockPeriod
<1>2. CASE HealRead
  <2>1. NetActive \in SUBSET Ids
    BY CommittedFacts DEF NetActive
  <2>2. PICK a \in Accounts : heal' = [account |-> a, sum |-> Total(a, NetActive)]
    BY <1>2 DEF HealRead
  <2>3. Total(a, NetActive) \in Int
    BY <2>1, TotalTyped
  <2>4. RestOK'
    BY <1>0, <1>2, <2>2, <2>3 DEF HealRead, RestOK
  <2> QED BY <1>2, <2>4, BesideShape DEF HealRead
<1>3. CASE HealWrite
  <2>1. heal.account \in Accounts /\ heal.sum \in Int
    BY <1>0, <1>3 DEF HealWrite, RestOK
  <2>2. RestOK'
    BY <1>0, <1>3, <2>1 DEF HealWrite, RestOK
  <2> QED BY <1>3, <2>2, BesideShape DEF HealWrite
<1>4. CASE UNCHANGED vars
  BY <1>0, <1>4, BesideShape DEF vars, RestOK
<1> QED BY <1>1, <1>2, <1>3, <1>4

LEMMA StepKeepsTypes ==
  ASSUME TypeInv, NEW s \in Sessions, Step(s)
  PROVE  TypeInv'
<1>1. CASE StartPost(s)
  <2>1. PICK k \in Keys : Start(s, k, None, "reference")
    BY <1>1 DEF StartPost
  <2> QED BY <2>1, StartShape
<1>2. CASE StartReverse(s)
  <2>1. PICK k \in ReversalKeys, j \in Sees(s) : Start(s, k, j, "original")
    BY <1>2 DEF StartReverse
  <2>2. j \in Ids
    BY CommittedFacts, TxFacts DEF Sees, TypeInv, TypeOK
  <2>3. j # None
    BY <2>2
  <2> QED BY <2>1, <2>2, <2>3, StartShape
<1>3. CASE Abort(s)
  BY <1>3, RollbackShape DEF Abort
<1> QED BY <1>1, <1>2, <1>3, CheckReferenceShape, ReadOriginalShape, CheckPeriodShape,
           LockNumberShape, ReadNumberShape, InsertShape, WriteLineShape, FinishShape,
           CommitShape DEF Step

LEMMA TypesStart == Init => TypeInv
<1>1. Init => TypeOK
  BY UnusedTyped, IdleTyped DEF Init, TypeOK
<1>2. Init => ShapeInv
  BY DEF Init, ShapeInv, CallShape, Apart, Unused, Idle, Busy, Stages
<1> QED BY <1>1, <1>2 DEF TypeInv

LEMMA TypesStay == TypeInv /\ [Next]_vars => TypeInv'
BY StepKeepsTypes, BesideKeepsTypes DEF Next, Full

LEMMA TypesHold == Spec => []TypeInv
BY TypesStart, TypesStay, PTL DEF Spec

(* Every variable keeps its type whatever calls, commits, aborts and repairs cross:
   the sums and numbers that createJournalEntry and the repair write are integers,
   and a line always names an account. *)
THEOREM TypeCorrect == Spec => []TypeOK
<1>1. TypeInv => TypeOK
  BY DEF TypeInv
<1> QED BY <1>1, TypesHold, PTL

-----------------------------------------------------------------------------
(* What each statement does to the record of its session, field by field.  A   *)
(* quiet step writes no row and leaves what the transactions have written.      *)
Quiet(s) ==
  /\ rows' = rows
  /\ \A t \in Sessions \ {s} : tx'[t] = tx[t]
  /\ tx'[s].inserted = tx[s].inserted /\ tx'[s].marks = tx[s].marks

(* The call goes on with the next statement. *)
GoesOn(s, stage) ==
  /\ Quiet(s)
  /\ tx'[s].stage = stage
  /\ tx'[s].calls = tx[s].calls /\ tx'[s].key = tx[s].key
  /\ tx'[s].target = tx[s].target /\ tx'[s].id = tx[s].id

Others == <<held, draft, balance, healed, heal, period, overlapped>>

LEMMA StartFacts ==
  ASSUME TypeInv, NEW s \in Sessions, StartPost(s) \/ StartReverse(s)
  PROVE  /\ Quiet(s)
         /\ tx[s].stage \in {"idle", "returned"}
         /\ tx'[s].stage \in {"reference", "original", "returned"}
         /\ tx'[s].calls = tx[s].calls + 1 /\ tx'[s].seen = tx[s].seen
         /\ UNCHANGED numberLock /\ UNCHANGED Others
<1>0. tx \in [Sessions -> Transactions]
  BY DEF TypeInv, TypeOK
<1>1. ASSUME NEW k, NEW o, NEW stage \in {"reference", "original"}, Start(s, k, o, stage)
      PROVE  /\ Quiet(s)
             /\ tx[s].stage \in {"idle", "returned"}
             /\ tx'[s].stage \in {"reference", "original", "returned"}
             /\ tx'[s].calls = tx[s].calls + 1 /\ tx'[s].seen = tx[s].seen
             /\ UNCHANGED numberLock /\ UNCHANGED Others
  <2>1. /\ rows' = rows /\ tx[s].stage \in {"idle", "returned"}
        /\ UNCHANGED numberLock /\ UNCHANGED Others
    BY <1>1 DEF Start, Others
  <2>2. CASE \E id \in Free :
               tx' = [tx EXCEPT ![s].stage = stage, ![s].calls = @ + 1, ![s].key = k,
                                ![s].target = o, ![s].id = id]
    BY <1>0, <2>1, <2>2 DEF Quiet, Transactions
  <2>3. CASE tx' = [tx EXCEPT ![s].stage = "returned", ![s].calls = @ + 1]
    BY <1>0, <2>1, <2>3 DEF Quiet, Transactions
  <2> QED BY <1>1, <2>2, <2>3 DEF Start
<1> QED BY <1>1 DEF StartPost, StartReverse

LEMMA ReturnFacts ==
  ASSUME TypeInv, NEW s \in Sessions, rows' = rows, Return(s)
  PROVE  /\ Quiet(s) /\ tx'[s].stage = "returned" /\ tx'[s].target = None
         /\ tx'[s].calls = tx[s].calls /\ tx'[s].seen = {}
<1>0. tx \in [Sessions -> Transactions]
  BY DEF TypeInv, TypeOK
<1> QED BY <1>0 DEF Return, Quiet, Transactions

LEMMA CheckReferenceFacts ==
  ASSUME TypeInv, NEW s \in Sessions, CheckReference(s)
  PROVE  /\ tx[s].stage = "reference" /\ UNCHANGED numberLock /\ UNCHANGED Others
         /\ \/ /\ Quiet(s) /\ tx'[s].stage = "returned" /\ tx'[s].target = None
               /\ tx'[s].calls = tx[s].calls /\ tx'[s].seen = {}
            \/ /\ GoesOn(s, "period") /\ tx'[s].seen = Committed
               /\ \/ \A j \in ActiveFor(s) : rows[j].ref # RefOf[tx[s].key]
                  \/ \E j \in tx[s].inserted : rows[j].ref = RefOf[tx[s].key]
<1>0. tx \in [Sessions -> Transactions]
  BY DEF TypeInv, TypeOK
<1>1. tx[s].stage = "reference" /\ rows' = rows /\ UNCHANGED numberLock /\ UNCHANGED Others
  BY DEF CheckReference, Others
<1>2. CASE Return(s)
  BY <1>1, <1>2, ReturnFacts
<1>3. CASE ~Return(s)
  <2>1. /\ tx' = [tx EXCEPT ![s].stage = "period", ![s].seen = Committed]
        /\ \/ \A j \in ActiveFor(s) : rows[j].ref # RefOf[tx[s].key]
           \/ \E j \in tx[s].inserted : rows[j].ref = RefOf[tx[s].key]
    BY <1>3 DEF CheckReference
  <2>2. GoesOn(s, "period") /\ tx'[s].seen = Committed
    BY <1>0, <1>1, <2>1 DEF GoesOn, Quiet, Transactions
  <2> QED BY <1>1, <2>1, <2>2
<1> QED BY <1>2, <1>3

LEMMA ReadOriginalFacts ==
  ASSUME TypeInv, NEW s \in Sessions, ReadOriginal(s)
  PROVE  /\ tx[s].stage = "original" /\ UNCHANGED numberLock /\ UNCHANGED Others
         /\ \/ /\ Quiet(s) /\ tx'[s].stage = "returned" /\ tx'[s].target = None
               /\ tx'[s].calls = tx[s].calls /\ tx'[s].seen = {}
            \/ /\ GoesOn(s, "period") /\ tx'[s].seen = Committed
               /\ ByFor(s, tx[s].target) = None
<1>0. tx \in [Sessions -> Transactions]
  BY DEF TypeInv, TypeOK
<1>1. tx[s].stage = "original" /\ rows' = rows /\ UNCHANGED numberLock /\ UNCHANGED Others
  BY DEF ReadOriginal, Others
<1>2. CASE ByFor(s, tx[s].target) # None
  BY <1>1, <1>2, ReturnFacts DEF ReadOriginal
<1>3. CASE ByFor(s, tx[s].target) = None
  <2>1. tx' = [tx EXCEPT ![s].stage = "period", ![s].seen = Committed]
    BY <1>3 DEF ReadOriginal
  <2>2. GoesOn(s, "period") /\ tx'[s].seen = Committed
    BY <1>0, <1>1, <2>1 DEF GoesOn, Quiet, Transactions
  <2> QED BY <1>1, <1>3, <2>2
<1> QED BY <1>2, <1>3

LEMMA CheckPeriodFacts ==
  ASSUME TypeInv, NEW s \in Sessions, CheckPeriod(s)
  PROVE  /\ tx[s].stage = "period" /\ UNCHANGED numberLock /\ UNCHANGED Others
         /\ \/ /\ Quiet(s) /\ tx'[s].stage = "returned" /\ tx'[s].target = None
               /\ tx'[s].calls = tx[s].calls /\ tx'[s].seen = {}
            \/ /\ GoesOn(s, IF tx[s].target = None THEN "lock" ELSE "number")
               /\ tx'[s].seen = tx[s].seen /\ period = "OPEN"
<1>0. tx \in [Sessions -> Transactions]
  BY DEF TypeInv, TypeOK
<1>1. tx[s].stage = "period" /\ rows' = rows /\ UNCHANGED numberLock /\ UNCHANGED Others
  BY DEF CheckPeriod, Others
<1>2. CASE period # "OPEN"
  BY <1>1, <1>2, ReturnFacts DEF CheckPeriod
<1>3. CASE period = "OPEN"
  <2> DEFINE stage == IF tx[s].target = None THEN "lock" ELSE "number"
  <2>1. tx' = [tx EXCEPT ![s].stage = stage]
    BY <1>3 DEF CheckPeriod, Goto
  <2> HIDE DEF stage
  <2>2. GoesOn(s, stage) /\ tx'[s].seen = tx[s].seen
    BY <1>0, <1>1, <2>1 DEF GoesOn, Quiet, Transactions
  <2> QED BY <1>1, <1>3, <2>2 DEF stage
<1> QED BY <1>2, <1>3

LEMMA LockNumberFacts ==
  ASSUME TypeInv, NEW s \in Sessions, LockNumber(s)
  PROVE  /\ tx[s].stage = "lock" /\ GoesOn(s, "number") /\ tx'[s].seen = tx[s].seen
         /\ numberLock \in {None, s} /\ numberLock' = s /\ UNCHANGED Others
<1>0. tx \in [Sessions -> Transactions]
  BY DEF TypeInv, TypeOK
<1> QED BY <1>0 DEF LockNumber, Goto, GoesOn, Quiet, Transactions, Others

LEMMA ReadNumberFacts ==
  ASSUME TypeInv, NEW s \in Sessions, ReadNumber(s)
  PROVE  /\ tx[s].stage = "number" /\ GoesOn(s, "insert") /\ tx'[s].seen = tx[s].seen
         /\ UNCHANGED numberLock /\ UNCHANGED Others
         /\ \A j \in Sees(s) : rows[j].number < tx'[s].number
<1>0. tx \in [Sessions -> Transactions] /\ rows \in [Ids -> Rows]
  BY DEF TypeInv, TypeOK
<1>1. PICK last \in {rows[j].number : j \in Sees(s)} \cup {0} :
        /\ \A j \in Sees(s) : rows[j].number <= last
        /\ tx' = [tx EXCEPT ![s].stage = "insert", ![s].number = last + 1]
  BY DEF ReadNumber
<1>2. Sees(s) \subseteq Ids
  BY <1>0, TxFacts, CommittedFacts DEF Sees
<1>3. \A j \in Sees(s) : rows[j].number \in Nat
  BY <1>0, <1>2, RowFacts
<1>4. last \in Nat
  BY <1>3
<1>5. GoesOn(s, "insert") /\ tx'[s].seen = tx[s].seen /\ tx'[s].number = last + 1
  BY <1>0, <1>1 DEF ReadNumber, GoesOn, Quiet, Transactions
<1>6. \A j \in Sees(s) : rows[j].number < tx'[s].number
  <2>1. ASSUME NEW n \in Nat, n <= last PROVE n < last + 1
    BY <1>4, <2>1
  <2> QED BY <1>1, <1>3, <1>5, <2>1
<1> QED BY <1>5, <1>6 DEF ReadNumber, Others

LEMMA WriteLineMoves ==
  ASSUME TypeInv, NEW s \in Sessions, WriteLine(s)
  PROVE  /\ tx[s].stage = "lines" /\ GoesOn(s, "lines") /\ tx'[s].seen = tx[s].seen
         /\ tx'[s].next = tx[s].next + 1
         /\ UNCHANGED <<numberLock, balance, healed, heal, period, overlapped>>
<1>0. tx[s] \in Transactions /\ tx'[s] = [tx[s] EXCEPT !.next = @ + 1]
  BY WriteLineFacts DEF TypeInv, TypeOK
<1>1. /\ tx'[s].stage = tx[s].stage /\ tx'[s].calls = tx[s].calls
      /\ tx'[s].key = tx[s].key /\ tx'[s].target = tx[s].target /\ tx'[s].id = tx[s].id
      /\ tx'[s].seen = tx[s].seen /\ tx'[s].inserted = tx[s].inserted
      /\ tx'[s].marks = tx[s].marks /\ tx'[s].next = tx[s].next + 1
  BY ONLY <1>0 DEF Transactions
<1> QED BY <1>1, WriteLineFacts DEF WriteLine, GoesOn, Quiet

(* The steps that write rows or what a transaction has written. *)
LEMMA InsertsMoves ==
  ASSUME TypeInv, NEW s \in Sessions, tx[s].stage = "insert", NEW order \in Orders,
         Inserts(s, order)
  PROVE  /\ tx[s].id \in Ids /\ rows[tx[s].id].state = "unused"
         /\ rows'[tx[s].id] = Header(s, order)
         /\ \A j \in Ids \ {tx[s].id} : rows'[j] = rows[j]
         /\ \A t \in Sessions \ {s} : tx'[t] = tx[t]
         /\ Committed' = Committed
         /\ tx'[s].stage = "lines" /\ tx'[s].inserted = tx[s].inserted \cup {tx[s].id}
         /\ tx'[s].calls = tx[s].calls /\ tx'[s].key = tx[s].key
         /\ tx'[s].target = tx[s].target /\ tx'[s].id = tx[s].id
         /\ tx'[s].seen = tx[s].seen /\ tx'[s].marks = tx[s].marks
         /\ tx'[s].next = tx[s].next
         /\ UNCHANGED numberLock /\ UNCHANGED Others
<1>0. tx[s] \in Transactions
  BY DEF TypeInv, TypeOK
<1>1. tx'[s] = [tx[s] EXCEPT !.stage = "lines", !.inserted = @ \cup {tx[s].id}]
  BY InsertsFacts
<1>2. /\ tx'[s].stage = "lines" /\ tx'[s].inserted = tx[s].inserted \cup {tx[s].id}
      /\ tx'[s].calls = tx[s].calls /\ tx'[s].key = tx[s].key
      /\ tx'[s].target = tx[s].target /\ tx'[s].id = tx[s].id
      /\ tx'[s].seen = tx[s].seen /\ tx'[s].marks = tx[s].marks
      /\ tx'[s].next = tx[s].next
  BY ONLY <1>0, <1>1 DEF Transactions
<1>3. UNCHANGED numberLock /\ UNCHANGED Others
  BY DEF Inserts, Others
<1> QED BY <1>2, <1>3, InsertsFacts

LEMMA RollbackFacts ==
  ASSUME TypeInv, NEW s \in Sessions, Rollback(s)
  PROVE  /\ \A j \in tx[s].inserted : rows'[j] = Unused
         /\ \A j \in Ids \ tx[s].inserted : rows'[j] = rows[j]
         /\ tx'[s] = Idle
         /\ \A t \in Sessions \ {s} : tx'[t] = tx[t]
         /\ Committed' = Committed
<1>0. TypeOK /\ ShapeInv /\ tx \in [Sessions -> Transactions]
  BY DEF TypeInv, TypeOK
<1>1. tx'[s] = Idle /\ \A t \in Sessions \ {s} : tx'[t] = tx[t]
  BY <1>0 DEF Rollback
<1>2. /\ \A j \in tx[s].inserted : rows'[j] = Unused
      /\ \A j \in Ids \ tx[s].inserted : rows'[j] = rows[j]
  BY <1>0, TxFacts DEF Rollback
<1>3. Committed' = Committed
  BY <1>0, <1>2, TxFacts DEF Committed, ShapeInv, CallShape, Unused
<1> QED BY <1>1, <1>2, <1>3

(* Every step is one of these. *)
AllQuiet ==
  /\ rows' = rows
  /\ \A s \in Sessions : tx'[s].inserted = tx[s].inserted /\ tx'[s].marks = tx[s].marks

QuietStep(s) ==
  \/ StartPost(s) \/ StartReverse(s) \/ CheckReference(s) \/ ReadOriginal(s)
  \/ CheckPeriod(s) \/ LockNumber(s) \/ ReadNumber(s) \/ WriteLine(s)

InsertStep(s, order) ==
  tx[s].stage = "insert" /\ KeyHolders(s) = {} /\ Inserts(s, order)

Beside ==
  /\ LockPeriod \/ HealRead \/ HealWrite \/ UNCHANGED vars
  /\ rows' = rows /\ tx' = tx /\ numberLock' = numberLock /\ held' = held

LEMMA StepCases ==
  ASSUME TypeInv, [Next]_vars
  PROVE  \/ \E s \in Sessions :
              \/ QuietStep(s)
              \/ \E order \in Orders : InsertStep(s, order)
              \/ Finish(s) \/ Commit(s) \/ Rollback(s)
         \/ Beside
<1>1. ASSUME NEW s \in Sessions, Insert(s)
      PROVE  Rollback(s) \/ \E order \in Orders : InsertStep(s, order)
  <2>1. tx[s].stage = "insert" /\ KeyHolders(s) = {}
    BY <1>1 DEF Insert
  <2> QED BY <1>1, <2>1, InsertCases DEF InsertStep
<1>2. ASSUME LockPeriod \/ HealRead \/ HealWrite \/ UNCHANGED vars
      PROVE  Beside
  BY <1>2 DEF Beside, LockPeriod, HealRead, HealWrite, vars
<1> QED BY <1>1, <1>2 DEF Next, Step, QuietStep, Abort, Full

LEMMA QuietSteps ==
  ASSUME TypeInv, NEW s \in Sessions, QuietStep(s)
  PROVE  Quiet(s) /\ AllQuiet
<1>1. Quiet(s)
  BY StartFacts, CheckReferenceFacts, ReadOriginalFacts, CheckPeriodFacts, LockNumberFacts,
     ReadNumberFacts, WriteLineMoves DEF QuietStep, GoesOn
<1> QED BY <1>1 DEF Quiet, AllQuiet

LEMMA BesideQuiet == Beside => AllQuiet
BY DEF Beside, AllQuiet

(* The second half of a mark of journal j. *)
MarkOf(marks, j) == (CHOOSE m \in marks : m[1] = j)[2]

(* Quiet steps change nothing of what the invariants of the rows are about. *)
LEMMA QuietViews ==
  ASSUME AllQuiet, NEW s \in Sessions
  PROVE  /\ Committed' = Committed /\ Sees(s)' = Sees(s)
         /\ \A j \in Ids : Marked(s, j)' <=> Marked(s, j)
         /\ \A j \in Ids : ByFor(s, j)' = ByFor(s, j)
         /\ PostedFor(s)' = PostedFor(s)
<1>1. Committed' = Committed
  BY DEF AllQuiet, Committed
<1>2. Sees(s)' = Sees(s)
  BY <1>1 DEF AllQuiet, Sees
<1>3. ASSUME NEW j PROVE Marked(s, j)' <=> Marked(s, j)
  BY DEF AllQuiet, Marked
<1>4. ASSUME NEW j PROVE ByFor(s, j)' = ByFor(s, j)
  <2>1. /\ ByFor(s, j) = IF Marked(s, j) THEN MarkOf(tx[s].marks, j) ELSE rows[j].by
        /\ ByFor(s, j)' = IF Marked(s, j)' THEN MarkOf(tx'[s].marks, j) ELSE rows'[j].by
    BY DEF ByFor, MarkOf
  <2> QED BY <1>3, <2>1 DEF AllQuiet
<1>5. PostedFor(s)' = PostedFor(s)
  BY <1>2, <1>4 DEF PostedFor
<1> QED BY <1>1, <1>2, <1>3, <1>4, <1>5

-----------------------------------------------------------------------------
(* The rows: a journal is marked reversed only by a committed reversal, which    *)
(* has no business reference, and its key is renamed with the mark; a pending    *)
(* row is of some transaction; what a transaction marked, it saw, with a         *)
(* reversal that it inserted.                                                     *)
RowShape(j) ==
  /\ rows[j].by # None => /\ rows[j].state = "posted" /\ rows[j].key = None
                          /\ rows[j].by \in Committed
                          /\ rows[rows[j].by].reverses = j
  /\ rows[j].reverses # None => rows[j].ref = None
  /\ rows[j].state = "unused" => rows[j].key = None
  /\ rows[j].state = "pending" => \E s \in Sessions : j \in tx[s].inserted

MarkShape(s) ==
  /\ \A m \in tx[s].marks :
       /\ m[2] \in tx[s].inserted /\ m[1] \in Sees(s) /\ rows[m[2]].reverses = m[1]
  /\ tx[s].stage = "lines" =>
       /\ rows[tx[s].id].reverses = tx[s].target
       /\ rows[tx[s].id].seen = tx[s].seen

RowInv == /\ \A j \in Ids : RowShape(j)
          /\ \A s \in Sessions : MarkShape(s)

LEMMA ByForCases ==
  ASSUME TypeInv, NEW s \in Sessions, NEW j \in Ids
  PROVE  \/ /\ Marked(s, j)
            /\ \E m \in tx[s].marks : m[1] = j /\ ByFor(s, j) = m[2] /\ ByFor(s, j) \in Ids
         \/ ~Marked(s, j) /\ ByFor(s, j) = rows[j].by
<1>1. CASE Marked(s, j)
  <2> DEFINE m == CHOOSE m \in tx[s].marks : m[1] = j
  <2>1. m \in tx[s].marks /\ m[1] = j
    BY <1>1 DEF Marked
  <2>2. m[2] \in Ids
    BY <2>1, TxFacts DEF TypeInv, TypeOK
  <2>3. ByFor(s, j) = m[2]
    BY <1>1 DEF ByFor
  <2> QED BY <1>1, <2>1, <2>2, <2>3
<1>2. CASE ~Marked(s, j)
  BY <1>2 DEF ByFor
<1> QED BY <1>1, <1>2

LEMMA RowsQuiet ==
  ASSUME TypeInv, RowInv, NEW s \in Sessions, QuietStep(s)
  PROVE  RowInv'
<1>0. AllQuiet /\ Quiet(s) /\ Committed' = Committed
  BY QuietSteps, QuietViews
<1>1. ASSUME NEW j \in Ids PROVE RowShape(j)'
  BY <1>0 DEF RowInv, RowShape, AllQuiet
<1>2. ASSUME NEW t \in Sessions PROVE MarkShape(t)'
  <2>1. Sees(t)' = Sees(t) /\ MarkShape(t)
    BY <1>0, QuietViews DEF RowInv
  <2>2. tx'[t].stage = "lines" => /\ tx[t].stage = "lines" /\ tx'[t].id = tx[t].id
                                  /\ tx'[t].target = tx[t].target /\ tx'[t].seen = tx[t].seen
    <3>1. CASE t # s
      BY <1>0, <3>1 DEF Quiet
    <3>2. CASE t = s
      BY <3>2, StartFacts, CheckReferenceFacts, ReadOriginalFacts, CheckPeriodFacts,
         LockNumberFacts, ReadNumberFacts, WriteLineMoves DEF QuietStep, GoesOn
    <3> QED BY <3>1, <3>2
  <2> QED BY <1>0, <2>1, <2>2 DEF MarkShape, AllQuiet
<1> QED BY <1>1, <1>2 DEF RowInv

LEMMA RowsBeside ==
  ASSUME TypeInv, RowInv, Beside
  PROVE  RowInv'
<1>0. rows' = rows /\ tx' = tx /\ Committed' = Committed
  BY DEF Beside, Committed
<1> QED BY <1>0 DEF RowInv, RowShape, MarkShape, Sees

LEMMA RowsInsert ==
  ASSUME TypeInv, RowInv, NEW s \in Sessions, NEW order \in Orders, InsertStep(s, order)
  PROVE  RowInv'
<1> DEFINE id == tx[s].id
<1>0. /\ id \in Ids /\ rows[id].state = "unused" /\ rows'[id] = Header(s, order)
      /\ \A j \in Ids \ {id} : rows'[j] = rows[j]
      /\ \A t \in Sessions \ {s} : tx'[t] = tx[t]
      /\ Committed' = Committed
      /\ tx'[s].stage = "lines" /\ tx'[s].inserted = tx[s].inserted \cup {id}
      /\ tx'[s].target = tx[s].target /\ tx'[s].id = id
      /\ tx'[s].seen = tx[s].seen /\ tx'[s].marks = tx[s].marks
  BY InsertsMoves DEF InsertStep
<1>1. /\ rows'[id].by = None /\ rows'[id].state = "pending"
      /\ rows'[id].reverses = tx[s].target /\ rows'[id].seen = tx[s].seen
      /\ tx[s].target # None => rows'[id].ref = None
  BY <1>0 DEF Header
<1>2. \A t \in Sessions : tx[t].inserted \subseteq tx'[t].inserted
  BY <1>0
<1>3. ASSUME NEW j \in Ids PROVE RowShape(j)'
  <2>1. CASE j = id
    BY <1>0, <1>1, <2>1 DEF RowShape
  <2>2. CASE j # id
    <3>1. rows'[j] = rows[j] /\ RowShape(j)
      BY <1>0, <2>2 DEF RowInv
    <3>2. rows[j].by # None => rows'[rows[j].by] = rows[rows[j].by]
      BY <1>0, <3>1 DEF RowShape, Committed
    <3> QED BY <1>0, <1>2, <3>1, <3>2 DEF RowShape
  <2> QED BY <2>1, <2>2
<1>4. ASSUME NEW t \in Sessions PROVE MarkShape(t)'
  <2>1. MarkShape(t) /\ CallShape(t)
    BY DEF RowInv, TypeInv, ShapeInv
  <2>2. \A m \in tx[t].marks : rows'[m[2]] = rows[m[2]]
    <3>1. \A m \in tx[t].marks : m[2] \in Ids /\ rows[m[2]].state = "pending"
      BY <2>1, TxFacts DEF MarkShape, CallShape, TypeInv, TypeOK
    <3> QED BY <1>0, <3>1
  <2>3. Sees(t) \subseteq Sees(t)' /\ tx'[t].marks = tx[t].marks
    BY <1>0, <1>2 DEF Sees
  <2>4. CASE t = s
    BY <1>0, <1>1, <1>2, <2>1, <2>2, <2>3, <2>4 DEF MarkShape
  <2>5. CASE t # s
    <3>1. tx'[t] = tx[t]
      BY <1>0, <2>5
    <3>2. tx[t].stage = "lines" => rows'[tx[t].id] = rows[tx[t].id]
      <4>1. tx[t].stage = "lines" => tx[t].id \in Ids /\ rows[tx[t].id].state = "pending"
        BY <2>1, TxFacts DEF CallShape, Busy, Stages
      <4> QED BY <1>0, <4>1
    <3> QED BY <2>1, <2>2, <2>3, <3>1, <3>2 DEF MarkShape
  <2> QED BY <2>4, <2>5
<1> QED BY <1>3, <1>4 DEF RowInv

LEMMA RowsFinish ==
  ASSUME TypeInv, RowInv, NEW s \in Sessions, Finish(s)
  PROVE  RowInv'
<1>0. /\ rows' = rows /\ tx[s].stage = "lines" /\ tx'[s].stage = "returned"
      /\ tx'[s].inserted = tx[s].inserted
      /\ tx'[s].marks = IF tx[s].target = None THEN tx[s].marks
                        ELSE tx[s].marks \cup {<<tx[s].target, tx[s].id>>}
      /\ \A t \in Sessions \ {s} : tx'[t] = tx[t]
  BY FinishFacts DEF Finish
<1>1. Committed' = Committed
  BY <1>0 DEF Committed
<1>2. \A t \in Sessions : Sees(t)' = Sees(t) /\ tx'[t].inserted = tx[t].inserted
  BY <1>0, <1>1 DEF Sees
<1>3. ASSUME NEW j \in Ids PROVE RowShape(j)'
  BY <1>0, <1>1, <1>2 DEF RowInv, RowShape
<1>4. ASSUME NEW t \in Sessions PROVE MarkShape(t)'
  <2>1. MarkShape(t) /\ CallShape(t)
    BY DEF RowInv, TypeInv, ShapeInv
  <2>2. CASE t = s
    <3>1. tx[s].target # None => /\ tx[s].id \in tx[s].inserted /\ tx[s].target \in Sees(s)
                                 /\ rows[tx[s].id].reverses = tx[s].target
      BY <1>0, <2>1, <2>2 DEF CallShape, MarkShape
    <3> QED BY <1>0, <1>2, <2>1, <2>2, <3>1 DEF MarkShape
  <2>3. CASE t # s
    BY <1>0, <1>2, <2>1, <2>3 DEF MarkShape
  <2> QED BY <2>2, <2>3
<1> QED BY <1>3, <1>4 DEF RowInv

LEMMA RowsCommit ==
  ASSUME TypeInv, RowInv, NEW s \in Sessions, Commit(s)
  PROVE  RowInv'
<1>0. /\ tx'[s] = Idle
      /\ \A t \in Sessions \ {s} : tx'[t] = tx[t]
      /\ Committed' = Committed \cup tx[s].inserted
      /\ \A j \in Ids :
           /\ rows'[j].state = IF j \in tx[s].inserted THEN "posted" ELSE rows[j].state
           /\ rows'[j].by = ByFor(s, j)
           /\ rows'[j].key = IF Marked(s, j) THEN None ELSE rows[j].key
           /\ rows'[j].ref = rows[j].ref /\ rows'[j].reverses = rows[j].reverses
           /\ rows'[j].seen = rows[j].seen
  BY CommitFacts
<1>1. /\ tx \in [Sessions -> Transactions] /\ MarkShape(s) /\ CallShape(s) /\ ShapeInv
      /\ tx[s].inserted \subseteq Ids
  BY TxFacts DEF TypeInv, TypeOK, RowInv, ShapeInv
<1>3. ASSUME NEW j \in Ids PROVE RowShape(j)'
  <2>1. RowShape(j)
    BY DEF RowInv
  <2>2. CASE Marked(s, j)
    <3>1. PICK m \in tx[s].marks : m[1] = j /\ ByFor(s, j) = m[2] /\ ByFor(s, j) \in Ids
      BY <2>2, ByForCases
    <3>2. j \in Sees(s) /\ m[2] \in tx[s].inserted /\ rows[m[2]].reverses = j
      BY <1>1, <3>1 DEF MarkShape
    <3>3. rows'[j].state = "posted"
      BY <1>0, <3>2 DEF Sees, Committed
    <3> QED BY <1>0, <1>1, <2>1, <2>2, <3>1, <3>2, <3>3 DEF RowShape
  <2>3. CASE ~Marked(s, j)
    <3>1. rows'[j].by = rows[j].by
      BY <1>0, <2>3, ByForCases
    <3>2. rows[j].by # None => /\ rows[j].by \in Ids /\ rows'[rows[j].by].reverses = j
                               /\ rows'[j].state = "posted"
      BY <1>0, <2>1 DEF RowShape, Committed
    <3>3. rows'[j].state = "unused" => rows[j].state = "unused"
      BY <1>0
    <3>4. rows'[j].state = "pending" => \E t \in Sessions : j \in tx'[t].inserted
      <4>1. SUFFICES ASSUME rows'[j].state = "pending"
                     PROVE  \E t \in Sessions : j \in tx'[t].inserted
        OBVIOUS
      <4>2. j \notin tx[s].inserted /\ rows[j].state = "pending"
        BY <1>0, <4>1
      <4>3. PICK t \in Sessions : j \in tx[t].inserted
        BY <2>1, <4>2 DEF RowShape
      <4> QED BY <1>0, <4>2, <4>3
    <3> QED BY <1>0, <2>1, <2>3, <3>1, <3>2, <3>3, <3>4 DEF RowShape
  <2> QED BY <2>2, <2>3
<1>4. ASSUME NEW t \in Sessions PROVE MarkShape(t)'
  <2>1. CASE t = s
    BY <1>0, <2>1 DEF MarkShape, Idle
  <2>2. CASE t # s
    <3>1. tx'[t] = tx[t] /\ MarkShape(t) /\ CallShape(t) /\ tx[t] \in Transactions
      BY <1>0, <1>1, <2>2 DEF RowInv, ShapeInv
    <3>2. Sees(t) \subseteq Sees(t)'
      BY <1>0, <3>1 DEF Sees
    <3>3. \A m \in tx[t].marks : m[2] \in Ids
      BY <3>1, TxFacts
    <3>4. tx[t].stage = "lines" => tx[t].id \in Ids
      BY <3>1 DEF CallShape, Busy, Stages
    <3> QED BY <1>0, <3>1, <3>2, <3>3, <3>4 DEF MarkShape
  <2> QED BY <2>1, <2>2
<1> QED BY <1>3, <1>4 DEF RowInv

LEMMA RowsRollback ==
  ASSUME TypeInv, RowInv, NEW s \in Sessions, Rollback(s)
  PROVE  RowInv'
<1>0. /\ \A j \in tx[s].inserted : rows'[j] = Unused
      /\ \A j \in Ids \ tx[s].inserted : rows'[j] = rows[j]
      /\ tx'[s] = Idle
      /\ \A t \in Sessions \ {s} : tx'[t] = tx[t]
      /\ Committed' = Committed
  BY RollbackFacts
<1>1. ShapeInv /\ CallShape(s) /\ tx \in [Sessions -> Transactions]
  BY DEF TypeInv, TypeOK, ShapeInv
<1>2. \A j \in tx[s].inserted : rows[j].state = "pending"
  BY <1>1 DEF CallShape
<1>3. ASSUME NEW j \in Ids PROVE RowShape(j)'
  <2>1. CASE j \in tx[s].inserted
    BY <1>0, <2>1 DEF RowShape, Unused
  <2>2. CASE j \notin tx[s].inserted
    <3>1. rows'[j] = rows[j] /\ RowShape(j)
      BY <1>0, <2>2 DEF RowInv
    <3>2. rows[j].by # None => rows'[rows[j].by] = rows[rows[j].by]
      BY <1>0, <1>2, <3>1 DEF RowShape, Committed
    <3>3. \A t \in Sessions : j \in tx[t].inserted => j \in tx'[t].inserted
      BY <1>0, <2>2
    <3> QED BY <1>0, <3>1, <3>2, <3>3 DEF RowShape
  <2> QED BY <2>1, <2>2
<1>4. ASSUME NEW t \in Sessions PROVE MarkShape(t)'
  <2>1. CASE t = s
    BY <1>0, <2>1 DEF MarkShape, Idle
  <2>2. CASE t # s
    <3>1. /\ tx'[t] = tx[t] /\ MarkShape(t) /\ CallShape(t) /\ tx[t] \in Transactions
          /\ tx[t].inserted \cap tx[s].inserted = {}
      BY <1>0, <1>1, <2>2 DEF RowInv, ShapeInv, Apart
    <3>2. Sees(t)' = Sees(t)
      BY <1>0, <3>1 DEF Sees
    <3>3. \A j \in tx[t].inserted : rows'[j] = rows[j]
      BY <1>0, <3>1, TxFacts
    <3>4. tx[t].stage = "lines" => tx[t].id \in tx[t].inserted
      BY <3>1 DEF CallShape
    <3> QED BY <3>1, <3>2, <3>3, <3>4 DEF MarkShape
  <2> QED BY <2>1, <2>2
<1> QED BY <1>3, <1>4 DEF RowInv

LEMMA RowsStart == Init => RowInv
BY DEF Init, RowInv, RowShape, MarkShape, Unused, Idle

LEMMA RowsStay == TypeInv /\ RowInv /\ [Next]_vars => RowInv'
BY StepCases, RowsQuiet, RowsBeside, RowsInsert, RowsFinish, RowsCommit, RowsRollback

LEMMA RowsHold == Spec => [](TypeInv /\ RowInv)
<1>1. Init => TypeInv /\ RowInv
  BY TypesStart, RowsStart
<1>2. TypeInv /\ RowInv /\ [Next]_vars => (TypeInv /\ RowInv)'
  BY TypesStay, RowsStay
<1> QED BY <1>1, <1>2, PTL DEF Spec

-----------------------------------------------------------------------------
(* Two rows share a key only while a transaction that marked the first has       *)
(* inserted the second and has not ended.                                         *)
Renewed(i, j) ==
  \E s \in Sessions : \/ i \in tx[s].inserted /\ Marked(s, j)
                      \/ j \in tx[s].inserted /\ Marked(s, i)

KeyInv ==
  \A i, j \in Ids : rows[i].key = rows[j].key /\ rows[i].key # None /\ i # j
                      => Renewed(i, j)

(* A key is written by a transaction, or it is posted. *)
LEMMA KeyFree ==
  ASSUME TypeInv, RowInv, NEW s \in Sessions, KeyHolders(s) = {},
         \A j \in PostedFor(s) : rows[j].key # tx[s].key, tx[s].key # None,
         NEW j \in Ids, rows[j].key = tx[s].key
  PROVE  Marked(s, j)
<1>1. RowShape(j)
  BY DEF RowInv
<1>2. j \in Sees(s)
  <2>1. CASE rows[j].state = "pending"
    <3>1. PICK t \in Sessions : j \in tx[t].inserted
      BY <1>1, <2>1 DEF RowShape
    <3>2. t = s
      BY <3>1 DEF KeyHolders
    <3> QED BY <3>1, <3>2 DEF Sees
  <2>2. CASE rows[j].state = "posted"
    BY <2>2 DEF Sees, Committed
  <2>3. rows[j].state \in {"unused", "pending", "posted"}
    BY RowFacts DEF TypeInv, TypeOK
  <2> QED BY <1>1, <2>1, <2>2, <2>3 DEF RowShape
<1>3. ByFor(s, j) # None
  BY <1>2 DEF PostedFor
<1> QED BY <1>1, <1>3, ByForCases DEF RowShape

LEMMA KeysInsert ==
  ASSUME TypeInv, RowInv, KeyInv, NEW s \in Sessions, NEW order \in Orders,
         InsertStep(s, order)
  PROVE  KeyInv'
<1>9. PICK id \in Ids : id = tx[s].id
  BY InsertsMoves DEF InsertStep
<1>0. /\ id \in Ids /\ rows[id].state = "unused" /\ rows'[id] = Header(s, order)
      /\ \A j \in Ids \ {id} : rows'[j] = rows[j]
      /\ \A t \in Sessions \ {s} : tx'[t] = tx[t]
      /\ tx'[s].inserted = tx[s].inserted \cup {id}
      /\ tx'[s].marks = tx[s].marks
  BY <1>9, InsertsMoves DEF InsertStep
<1>1. /\ \A t \in Sessions : tx[t].inserted \subseteq tx'[t].inserted
      /\ \A t \in Sessions : tx'[t].marks = tx[t].marks
  BY <1>0
<1>2. \A t \in Sessions, j \in Ids : Marked(t, j)' <=> Marked(t, j)
  BY <1>1 DEF Marked
<1>3. rows'[id].key = tx[s].key /\ tx[s].key # None
  <2>1. tx[s].key \in AllKeys
    BY DEF InsertStep, TypeInv, ShapeInv, CallShape, Busy, Stages
  <2> QED BY <1>0, <2>1 DEF Header
<1>4. ASSUME NEW j \in Ids, j # id, rows'[j].key = rows'[id].key
      PROVE  Renewed(id, j)' /\ Renewed(j, id)'
  <2>1. Marked(s, j)
    <3>1. rows[j].key = tx[s].key
      BY <1>0, <1>3, <1>4
    <3>2. KeyHolders(s) = {} /\ \A i \in PostedFor(s) : rows[i].key # tx[s].key
      BY DEF InsertStep, Inserts
    <3> QED BY <1>3, <3>1, <3>2, KeyFree
  <2> QED BY <1>0, <1>2, <2>1 DEF Renewed
<1>5. ASSUME NEW i \in Ids, NEW j \in Ids, i # j,
             rows'[i].key = rows'[j].key, rows'[i].key # None
      PROVE  Renewed(i, j)'
  <2>1. CASE i = id \/ j = id
    BY <1>4, <1>5, <2>1
  <2>2. CASE i # id /\ j # id
    <3>1. Renewed(i, j)
      BY <1>0, <1>5, <2>2 DEF KeyInv
    <3> QED BY <1>1, <1>2, <3>1 DEF Renewed
  <2> QED BY <2>1, <2>2
<1> QED BY <1>5 DEF KeyInv

LEMMA KeysQuiet ==
  ASSUME KeyInv, AllQuiet
  PROVE  KeyInv'
<1>1. \A t \in Sessions, j \in Ids : Marked(t, j)' <=> Marked(t, j)
  BY DEF AllQuiet, Marked
<1>2. ASSUME NEW i \in Ids, NEW j \in Ids, Renewed(i, j) PROVE Renewed(i, j)'
  BY <1>1, <1>2 DEF Renewed, AllQuiet
<1> QED BY <1>2 DEF KeyInv, AllQuiet

LEMMA KeysFinish ==
  ASSUME TypeInv, KeyInv, NEW s \in Sessions, Finish(s)
  PROVE  KeyInv'
<1>0. /\ rows' = rows /\ tx'[s].inserted = tx[s].inserted
      /\ tx[s].marks \subseteq tx'[s].marks
      /\ \A t \in Sessions \ {s} : tx'[t] = tx[t]
  <2>1. tx'[s].marks = tx[s].marks \/ tx'[s].marks = tx[s].marks \cup {<<tx[s].target, tx[s].id>>}
    BY FinishFacts
  <2>2. rows' = rows
    BY DEF Finish
  <2> QED BY <2>1, <2>2, FinishFacts
<1>1. ASSUME NEW t \in Sessions, NEW j \in Ids, Marked(t, j) PROVE Marked(t, j)'
  BY <1>0, <1>1 DEF Marked
<1>2. ASSUME NEW i \in Ids, NEW j \in Ids, Renewed(i, j) PROVE Renewed(i, j)'
  BY <1>0, <1>1, <1>2 DEF Renewed
<1> QED BY <1>0, <1>2 DEF KeyInv

LEMMA KeysCommit ==
  ASSUME TypeInv, RowInv, KeyInv, NEW s \in Sessions, Commit(s)
  PROVE  KeyInv'
<1>0. /\ \A t \in Sessions \ {s} : tx'[t] = tx[t]
      /\ \A j \in Ids : rows'[j].key = IF Marked(s, j) THEN None ELSE rows[j].key
  BY CommitFacts
<1>1. ASSUME NEW i \in Ids, NEW j \in Ids, i # j,
             rows'[i].key = rows'[j].key, rows'[i].key # None
      PROVE  Renewed(i, j)'
  <2>1. ~Marked(s, i) /\ ~Marked(s, j) /\ rows[i].key = rows[j].key /\ rows[i].key # None
    BY <1>0, <1>1
  <2>2. PICK t \in Sessions : \/ i \in tx[t].inserted /\ Marked(t, j)
                              \/ j \in tx[t].inserted /\ Marked(t, i)
    BY <1>1, <2>1 DEF KeyInv, Renewed
  <2>3. tx'[t] = tx[t]
    BY <1>0, <2>1, <2>2
  <2> QED BY <2>2, <2>3 DEF Renewed, Marked
<1> QED BY <1>1 DEF KeyInv

LEMMA KeysRollback ==
  ASSUME TypeInv, RowInv, KeyInv, NEW s \in Sessions, Rollback(s)
  PROVE  KeyInv'
<1>0. /\ \A j \in tx[s].inserted : rows'[j] = Unused
      /\ \A j \in Ids \ tx[s].inserted : rows'[j] = rows[j]
      /\ \A t \in Sessions \ {s} : tx'[t] = tx[t]
  BY RollbackFacts
<1>1. ASSUME NEW i \in Ids, NEW j \in Ids, i # j,
             rows'[i].key = rows'[j].key, rows'[i].key # None
      PROVE  Renewed(i, j)'
  <2>1. /\ i \notin tx[s].inserted /\ j \notin tx[s].inserted
        /\ rows[i].key = rows[j].key /\ rows[i].key # None
    BY <1>0, <1>1 DEF Unused
  <2>2. PICK t \in Sessions : \/ i \in tx[t].inserted /\ Marked(t, j)
                              \/ j \in tx[t].inserted /\ Marked(t, i)
    BY <1>1, <2>1 DEF KeyInv, Renewed
  <2>3. tx'[t] = tx[t]
    BY <1>0, <2>1, <2>2
  <2> QED BY <2>2, <2>3 DEF Renewed, Marked
<1> QED BY <1>1 DEF KeyInv

LEMMA KeysStay == TypeInv /\ RowInv /\ KeyInv /\ [Next]_vars => KeyInv'
BY StepCases, QuietSteps, BesideQuiet, KeysQuiet, KeysInsert, KeysFinish, KeysCommit,
   KeysRollback

(* However calls with one key overlap, repeat or run again after a reversal, at
   most one committed journal carries the key. *)
THEOREM OneLiveJournalPerKey == Spec => []OneLivePerKey
<1>1. Init => KeyInv
  BY DEF Init, KeyInv, Unused
<1>2. TypeInv /\ KeyInv => OneLivePerKey
  <2>1. SUFFICES ASSUME TypeInv, KeyInv, NEW i \in Committed, NEW j \in Committed,
                        rows[i].key = rows[j].key, rows[i].key # None, i # j
                 PROVE  FALSE
    BY DEF OneLivePerKey
  <2>2. Renewed(i, j)
    BY <2>1, CommittedFacts DEF KeyInv
  <2>3. \A s \in Sessions : CallShape(s)
    BY <2>1 DEF TypeInv, ShapeInv
  <2> QED BY <2>2, <2>3 DEF Renewed, CallShape, Committed
<1> QED BY <1>1, <1>2, RowsHold, KeysStay, PTL DEF Spec

-----------------------------------------------------------------------------
(* A committed journal keeps what it is, and a mark of it stays.                *)
LEMMA CommittedStays ==
  ASSUME TypeInv, RowInv, [Next]_vars, NEW i \in Committed
  PROVE  /\ i \in Ids /\ i \in Committed'
         /\ rows'[i].reverses = rows[i].reverses /\ rows'[i].ref = rows[i].ref
         /\ rows'[i].seen = rows[i].seen /\ rows'[i].own = rows[i].own
         /\ rows[i].by # None => rows'[i].by # None
<1>0. i \in Ids /\ rows[i].state = "posted" /\ RowShape(i)
  BY DEF Committed, RowInv
<1>1. CASE AllQuiet
  BY <1>0, <1>1 DEF AllQuiet, Committed
<1>2. ASSUME NEW s \in Sessions, NEW order \in Orders, InsertStep(s, order)
      PROVE  rows'[i] = rows[i]
  BY <1>0, <1>2, InsertsMoves DEF InsertStep
<1>3. ASSUME NEW s \in Sessions, Finish(s) PROVE rows'[i] = rows[i]
  BY <1>3 DEF Finish
<1>4. ASSUME NEW s \in Sessions, Rollback(s) PROVE rows'[i] = rows[i]
  <2>1. i \notin tx[s].inserted
    BY <1>0 DEF TypeInv, ShapeInv, CallShape
  <2> QED BY <1>0, <1>4, <2>1, RollbackFacts
<1>5. ASSUME NEW s \in Sessions, Commit(s)
      PROVE  /\ rows'[i].state = "posted"
             /\ rows'[i].reverses = rows[i].reverses /\ rows'[i].ref = rows[i].ref
             /\ rows'[i].seen = rows[i].seen /\ rows'[i].own = rows[i].own
             /\ rows[i].by # None => rows'[i].by # None
  <2>1. rows[i].by # None => ByFor(s, i) # None
    BY <1>0, ByForCases
  <2> QED BY <1>0, <1>5, <2>1, CommitFacts
<1> QED BY <1>0, <1>1, <1>2, <1>3, <1>4, <1>5, StepCases, QuietSteps, BesideQuiet
    DEF Committed

(* A journal of a transaction keeps what it is until the transaction fails. *)
LEMMA PendingStays ==
  ASSUME TypeInv, RowInv, [Next]_vars, NEW t \in Sessions, NEW i \in tx[t].inserted,
         i \in tx'[t].inserted \cup Committed'
  PROVE  /\ i \in Ids
         /\ rows'[i].reverses = rows[i].reverses /\ rows'[i].ref = rows[i].ref
         /\ rows'[i].seen = rows[i].seen /\ rows'[i].own = rows[i].own
<1>0. i \in Ids /\ rows[i].state = "pending" /\ ShapeInv
  BY TxFacts DEF TypeInv, TypeOK, ShapeInv, CallShape
<1>1. CASE AllQuiet
  BY <1>0, <1>1 DEF AllQuiet
<1>2. ASSUME NEW s \in Sessions, NEW order \in Orders, InsertStep(s, order)
      PROVE  rows'[i] = rows[i]
  BY <1>0, <1>2, InsertsMoves DEF InsertStep
<1>3. ASSUME NEW s \in Sessions, Finish(s) PROVE rows'[i] = rows[i]
  BY <1>3 DEF Finish
<1>4. ASSUME NEW s \in Sessions, Rollback(s) PROVE rows'[i] = rows[i]
  <2>1. CASE i \in tx[s].inserted
    <3>1. t = s
      BY <1>0, <2>1 DEF ShapeInv, Apart
    <3>2. tx'[t].inserted = {} /\ Committed' = Committed /\ i \notin Committed
      BY <1>0, <1>4, <3>1, RollbackFacts DEF Idle, Committed
    <3> QED BY <3>2
  <2>2. CASE i \notin tx[s].inserted
    BY <1>0, <1>4, <2>2, RollbackFacts
  <2> QED BY <2>1, <2>2
<1>5. ASSUME NEW s \in Sessions, Commit(s)
      PROVE  /\ rows'[i].reverses = rows[i].reverses /\ rows'[i].ref = rows[i].ref
             /\ rows'[i].seen = rows[i].seen /\ rows'[i].own = rows[i].own
  BY <1>0, <1>5, CommitFacts
<1> QED BY <1>0, <1>1, <1>2, <1>3, <1>4, <1>5, StepCases, QuietSteps, BesideQuiet

(* A reversal is committed together with its mark on the original. *)
PendingMarked(s) ==
  \A i \in tx[s].inserted :
    rows[i].reverses # None => \/ <<rows[i].reverses, i>> \in tx[s].marks
                               \/ tx[s].stage = "lines" /\ tx[s].id = i

ReversedInv ==
  /\ \A i \in Committed : rows[i].reverses # None => rows[rows[i].reverses].by # None
  /\ \A s \in Sessions : PendingMarked(s)

LEMMA ReversedQuiet ==
  ASSUME TypeInv, ReversedInv, NEW s \in Sessions, QuietStep(s)
  PROVE  ReversedInv'
<1>1. AllQuiet /\ Quiet(s) /\ Committed' = Committed
  BY QuietSteps, QuietViews
<1>2. ASSUME NEW t \in Sessions PROVE PendingMarked(t)'
  <2>1. tx[t].stage = "lines" => tx'[t].stage = "lines" /\ tx'[t].id = tx[t].id
    <3>1. CASE t # s
      BY <1>1, <3>1 DEF Quiet
    <3>2. CASE t = s
      BY <3>2, StartFacts, CheckReferenceFacts, ReadOriginalFacts, CheckPeriodFacts,
         LockNumberFacts, ReadNumberFacts, WriteLineMoves DEF QuietStep, GoesOn
    <3> QED BY <3>1, <3>2
  <2> QED BY <1>1, <2>1 DEF ReversedInv, PendingMarked, AllQuiet
<1> QED BY <1>1, <1>2 DEF ReversedInv, AllQuiet

LEMMA ReversedInsert ==
  ASSUME TypeInv, RowInv, ReversedInv, NEW s \in Sessions, NEW order \in Orders,
         InsertStep(s, order)
  PROVE  ReversedInv'
<1>1. PICK id \in Ids : id = tx[s].id
  BY InsertsMoves DEF InsertStep
<1>2. /\ rows[id].state = "unused" /\ rows'[id] = Header(s, order)
      /\ \A j \in Ids \ {id} : rows'[j] = rows[j]
      /\ \A t \in Sessions \ {s} : tx'[t] = tx[t]
      /\ Committed' = Committed /\ tx'[s].stage = "lines" /\ tx'[s].id = id
      /\ tx'[s].inserted = tx[s].inserted \cup {id} /\ tx'[s].marks = tx[s].marks
      /\ tx[s].stage = "insert"
  BY <1>1, InsertsMoves DEF InsertStep
<1>3. ASSUME NEW i \in Committed', rows'[i].reverses # None
      PROVE  rows'[rows'[i].reverses].by # None
  <2>1. i \in Committed /\ i \in Ids /\ i # id
    BY <1>2, CommittedFacts DEF Committed
  <2>2. rows'[i] = rows[i]
    BY <1>2, <2>1
  <2>3. CASE rows[i].reverses = id
    <3>1. rows[id].by # None
      BY <1>3, <2>1, <2>2, <2>3 DEF ReversedInv
    <3> QED BY <1>2, <3>1 DEF RowInv, RowShape
  <2>4. CASE rows[i].reverses # id
    <3>1. rows[i].reverses \in Ids
      BY <1>3, <2>1, <2>2, RowFacts DEF TypeInv, TypeOK
    <3> QED BY <1>2, <1>3, <2>1, <2>2, <2>4, <3>1 DEF ReversedInv
  <2> QED BY <2>3, <2>4
<1>4. ASSUME NEW t \in Sessions PROVE PendingMarked(t)'
  <2>1. \A j \in tx[t].inserted : j \in Ids /\ j # id
    BY <1>2, TxFacts DEF TypeInv, TypeOK, ShapeInv, CallShape
  <2>2. \A j \in tx[t].inserted : rows'[j] = rows[j]
    BY <1>2, <2>1
  <2> QED BY <1>2, <2>2 DEF ReversedInv, PendingMarked
<1> QED BY <1>3, <1>4 DEF ReversedInv

LEMMA ReversedFinish ==
  ASSUME TypeInv, RowInv, ReversedInv, NEW s \in Sessions, Finish(s)
  PROVE  ReversedInv'
<1>1. /\ tx'[s].inserted = tx[s].inserted
      /\ tx'[s].marks = IF tx[s].target = None THEN tx[s].marks
                        ELSE tx[s].marks \cup {<<tx[s].target, tx[s].id>>}
      /\ \A t \in Sessions \ {s} : tx'[t] = tx[t]
  BY FinishFacts
<1>2. rows' = rows /\ Committed' = Committed /\ tx[s].stage = "lines"
  BY DEF Finish, Committed
<1>3. rows[tx[s].id].reverses = tx[s].target
  BY <1>2 DEF RowInv, MarkShape
<1>4. ASSUME NEW t \in Sessions PROVE PendingMarked(t)'
  <2>1. CASE t # s
    BY <1>1, <1>2, <2>1 DEF ReversedInv, PendingMarked
  <2>2. CASE t = s
    <3>1. tx[s].marks \subseteq tx'[s].marks
      BY <1>1
    <3>2. tx[s].target # None => <<tx[s].target, tx[s].id>> \in tx'[s].marks
      BY <1>1
    <3>3. ASSUME NEW i \in tx[s].inserted, rows[i].reverses # None
          PROVE  <<rows[i].reverses, i>> \in tx'[s].marks
      <4>1. CASE tx[s].id = i
        BY <1>3, <3>2, <3>3, <4>1
      <4>2. CASE tx[s].id # i
        BY <3>1, <3>3, <4>2 DEF ReversedInv, PendingMarked
      <4> QED BY <4>1, <4>2
    <3> QED BY <1>1, <1>2, <2>2, <3>3 DEF PendingMarked
  <2> QED BY <2>1, <2>2
<1> QED BY <1>2, <1>4 DEF ReversedInv

LEMMA ReversedCommit ==
  ASSUME TypeInv, RowInv, ReversedInv, NEW s \in Sessions, Commit(s)
  PROVE  ReversedInv'
<1>1. /\ tx'[s] = Idle
      /\ \A t \in Sessions \ {s} : tx'[t] = tx[t]
      /\ Committed' = Committed \cup tx[s].inserted
      /\ \A j \in Ids : rows'[j].by = ByFor(s, j) /\ rows'[j].reverses = rows[j].reverses
  BY CommitFacts
<1>2. /\ tx[s].inserted \subseteq Ids /\ tx[s].stage = "returned"
      /\ tx \in [Sessions -> Transactions] /\ rows \in [Ids -> Rows]
  BY TxFacts DEF TypeInv, TypeOK, Commit
<1>3. ASSUME NEW i \in Committed', rows'[i].reverses # None
      PROVE  rows'[rows'[i].reverses].by # None
  <2>1. i \in Ids /\ rows'[i].reverses = rows[i].reverses
    BY <1>1, <1>2, CommittedFacts
  <2>2. PICK o \in Ids : rows[i].reverses = o
    BY <1>2, <1>3, <2>1, RowFacts
  <2>3. CASE i \in Committed
    <3>1. rows[o].by # None
      BY <1>3, <2>1, <2>2, <2>3 DEF ReversedInv
    <3> QED BY <1>1, <2>1, <2>2, <3>1, ByForCases
  <2>4. CASE i \in tx[s].inserted
    <3>1. <<o, i>> \in tx[s].marks
      BY <1>2, <1>3, <2>1, <2>2, <2>4 DEF ReversedInv, PendingMarked
    <3>2. Marked(s, o)
      BY <3>1 DEF Marked
    <3> QED BY <1>1, <2>1, <2>2, <3>2, ByForCases
  <2> QED BY <1>1, <2>3, <2>4
<1>4. ASSUME NEW t \in Sessions PROVE PendingMarked(t)'
  <2>1. CASE t = s
    BY <1>1, <2>1 DEF PendingMarked, Idle
  <2>2. CASE t # s
    <3>1. tx[t].inserted \subseteq Ids
      BY <1>2, TxFacts
    <3> QED BY <1>1, <2>2, <3>1 DEF ReversedInv, PendingMarked
  <2> QED BY <2>1, <2>2
<1> QED BY <1>3, <1>4 DEF ReversedInv

LEMMA ReversedRollback ==
  ASSUME TypeInv, RowInv, ReversedInv, NEW s \in Sessions, Rollback(s)
  PROVE  ReversedInv'
<1>1. /\ \A j \in Ids \ tx[s].inserted : rows'[j] = rows[j]
      /\ tx'[s] = Idle
      /\ \A t \in Sessions \ {s} : tx'[t] = tx[t]
      /\ Committed' = Committed
  BY RollbackFacts
<1>2. /\ ShapeInv /\ tx \in [Sessions -> Transactions] /\ rows \in [Ids -> Rows]
  BY DEF TypeInv, TypeOK
<1>3. ASSUME NEW i \in Committed', rows'[i].reverses # None
      PROVE  rows'[rows'[i].reverses].by # None
  <2>1. i \in Committed /\ i \in Ids /\ i \notin tx[s].inserted
    BY <1>1, <1>2, CommittedFacts DEF ShapeInv, CallShape, Committed
  <2>2. rows'[i] = rows[i]
    BY <1>1, <2>1
  <2>3. PICK o \in Ids : rows[i].reverses = o
    BY <1>2, <1>3, <2>1, <2>2, RowFacts
  <2>4. rows[o].by # None
    BY <1>3, <2>1, <2>2, <2>3 DEF ReversedInv
  <2>5. o \notin tx[s].inserted
    BY <1>2, <2>4 DEF RowInv, RowShape, ShapeInv, CallShape
  <2> QED BY <1>1, <2>2, <2>3, <2>4, <2>5
<1>4. ASSUME NEW t \in Sessions PROVE PendingMarked(t)'
  <2>1. CASE t = s
    BY <1>1, <2>1 DEF PendingMarked, Idle
  <2>2. CASE t # s
    <3>1. tx[t].inserted \subseteq Ids /\ tx[t].inserted \cap tx[s].inserted = {}
      BY <1>2, <2>2, TxFacts DEF ShapeInv, Apart
    <3> QED BY <1>1, <2>2, <3>1 DEF ReversedInv, PendingMarked
  <2> QED BY <2>1, <2>2
<1> QED BY <1>3, <1>4 DEF ReversedInv

LEMMA ReversedBeside ==
  ASSUME ReversedInv, Beside
  PROVE  ReversedInv'
BY DEF Beside, ReversedInv, PendingMarked, Committed

LEMMA ReversedStays == TypeInv /\ RowInv /\ ReversedInv /\ [Next]_vars => ReversedInv'
BY StepCases, ReversedQuiet, ReversedInsert, ReversedFinish, ReversedCommit,
   ReversedRollback, ReversedBeside

-----------------------------------------------------------------------------
(* What the deciding reads saw.  `Past' are the stages after them.              *)
Past == {"period", "lock", "number", "insert", "lines"}

(* Session s knows journal i to be reversed. *)
Handled(s, i) == rows[i].by # None \/ Marked(s, i)

SeenByRow(j) ==
  /\ rows[j].seen \subseteq Committed
  /\ rows[j].reverses # None =>
       \A i \in rows[j].seen : rows[i].reverses # rows[j].reverses

SeenByCall(s) ==
  /\ tx[s].seen \subseteq Committed
  /\ tx[s].stage \in Past /\ tx[s].target # None =>
       /\ \A i \in tx[s].seen : rows[i].reverses # tx[s].target
       /\ ~Marked(s, tx[s].target)
  /\ tx[s].stage \in Past /\ tx[s].target = None =>
       \/ \A i \in tx[s].seen : rows[i].ref = RefOf[tx[s].key] => Handled(s, i)
       \/ \E k \in tx[s].inserted : rows[k].ref = RefOf[tx[s].key]

SeenInv ==
  /\ \A j \in Ids : SeenByRow(j)
  /\ \A s \in Sessions : SeenByCall(s)

(* The journals that a transaction had inserted before journal j end with it, and   *)
(* none of them reverses the same original.                                           *)
OwnRow(j, S) ==
  /\ rows[j].own \subseteq S
  /\ rows[j].reverses # None =>
       \A i \in rows[j].own : rows[i].reverses # rows[j].reverses

OwnInv ==
  /\ \A j \in Committed : OwnRow(j, Committed)
  /\ \A s \in Sessions : \A j \in tx[s].inserted : OwnRow(j, tx[s].inserted)

(* The transaction of journal j had posted to its reference before. *)
OwnPosting(j) == \E k \in rows[j].own : rows[k].ref = rows[j].ref

(* A posting saw no other journal of its reference that was not reversed, unless its *)
(* transaction had posted to the reference itself.                                    *)
FirstOfReference(s, j) ==
  rows[j].ref # None =>
    \/ \A i \in rows[j].seen : rows[i].ref = rows[j].ref => Handled(s, i)
    \/ OwnPosting(j)

Excused(j) ==
  rows[j].ref # None =>
    \/ \A i \in rows[j].seen : rows[i].ref = rows[j].ref => rows[i].by # None
    \/ OwnPosting(j)

ReferenceInv ==
  /\ \A j \in Committed : Excused(j)
  /\ \A s \in Sessions : \A j \in tx[s].inserted : FirstOfReference(s, j)

LEMMA SeenRowKept ==
  ASSUME TypeInv, RowInv, SeenInv, [Next]_vars, NEW j \in Ids,
         rows'[j].seen = rows[j].seen, rows'[j].reverses = rows[j].reverses
  PROVE  SeenByRow(j)'
<1>1. SeenByRow(j)
  BY DEF SeenInv
<1>2. \A i \in Committed : i \in Committed' /\ rows'[i].reverses = rows[i].reverses
  BY CommittedStays
<1> QED BY <1>1, <1>2 DEF SeenByRow

LEMMA SeenCallKept ==
  ASSUME TypeInv, RowInv, SeenInv, [Next]_vars, NEW t \in Sessions,
         tx'[t].seen = tx[t].seen, tx'[t].target = tx[t].target, tx'[t].key = tx[t].key,
         tx'[t].stage \in Past => tx[t].stage \in Past,
         tx'[t].stage \in Past =>
           tx'[t].marks = tx[t].marks /\ tx[t].inserted \subseteq tx'[t].inserted
  PROVE  SeenByCall(t)'
<1>1. SeenByCall(t)
  BY DEF SeenInv
<1>2. \A i \in Committed :
        /\ i \in Committed' /\ rows'[i].reverses = rows[i].reverses
        /\ rows'[i].ref = rows[i].ref /\ (rows[i].by # None => rows'[i].by # None)
  BY CommittedStays
<1>3. CASE tx'[t].stage \in Past
  <2>1. ASSUME NEW i \in Committed, Handled(t, i) PROVE Handled(t, i)'
    BY <1>2, <1>3, <2>1 DEF Handled, Marked
  <2>2. \A k \in tx[t].inserted : k \in tx'[t].inserted /\ rows'[k].ref = rows[k].ref
    BY <1>3, PendingStays
  <2>3. tx[t].stage \in Past /\ (Marked(t, tx[t].target)' <=> Marked(t, tx[t].target))
    BY <1>3 DEF Marked
  <2>4. CASE tx[t].target = None
    BY <1>1, <1>2, <2>1, <2>2, <2>3, <2>4 DEF SeenByCall
  <2>5. CASE tx[t].target # None
    BY <1>1, <1>2, <2>3, <2>5 DEF SeenByCall, Marked
  <2> QED BY <2>4, <2>5
<1>4. CASE tx'[t].stage \notin Past
  BY <1>1, <1>2, <1>4 DEF SeenByCall
<1> QED BY <1>3, <1>4

LEMMA SeenReference ==
  ASSUME TypeInv, RowInv, NEW s \in Sessions, CheckReference(s), GoesOn(s, "period"),
         tx'[s].seen = Committed,
         \/ \A j \in ActiveFor(s) : rows[j].ref # RefOf[tx[s].key]
         \/ \E j \in tx[s].inserted : rows[j].ref = RefOf[tx[s].key]
  PROVE  SeenByCall(s)'
<1>1. /\ rows' = rows /\ tx'[s].marks = tx[s].marks /\ tx'[s].target = tx[s].target
      /\ tx'[s].inserted = tx[s].inserted
      /\ tx'[s].key = tx[s].key /\ Committed' = Committed
  BY DEF GoesOn, Quiet, Committed
<1>2. tx[s].target = None /\ tx[s].key \in Keys /\ RefOf[tx[s].key] # None
  <2>1. tx[s].stage = "reference"
    BY DEF CheckReference
  <2>2. tx[s].target = None /\ tx[s].key \in Keys
    BY <2>1 DEF TypeInv, ShapeInv, CallShape, Busy, Stages
  <2> QED BY <2>2
<1>3. ASSUME \A j \in ActiveFor(s) : rows[j].ref # RefOf[tx[s].key],
             NEW i \in Committed, rows[i].ref = RefOf[tx[s].key]
      PROVE  Handled(s, i)
  <2>1. i \in Ids /\ i \in Sees(s) /\ i \notin ActiveFor(s) /\ RowShape(i)
    BY <1>3, CommittedFacts DEF Sees, RowInv
  <2>2. ASSUME NEW j \in Sees(s) PROVE ByFor(s, j) # i
    <3>1. j \in Ids
      BY CommittedFacts, TxFacts DEF Sees, TypeInv, TypeOK
    <3>2. j # None
      BY <3>1
    <3>3. ByFor(s, j) = i => rows[i].reverses = j
      BY <3>1, ByForCases, <2>1 DEF RowInv, MarkShape, RowShape
    <3> QED BY <1>2, <1>3, <2>1, <3>2, <3>3 DEF RowShape
  <2>3. ByFor(s, i) # None
    BY <2>1, <2>2 DEF ActiveFor, PostedFor
  <2> QED BY <2>1, <2>3, ByForCases DEF Handled
<1>4. ASSUME NEW i \in Committed, Handled(s, i) PROVE Handled(s, i)'
  BY <1>1, <1>4 DEF Handled, Marked
<1> QED BY <1>1, <1>2, <1>3, <1>4 DEF SeenByCall

LEMMA SeenOriginal ==
  ASSUME TypeInv, RowInv, ReversedInv, NEW s \in Sessions, ReadOriginal(s),
         GoesOn(s, "period"), tx'[s].seen = Committed, ByFor(s, tx[s].target) = None
  PROVE  SeenByCall(s)'
<1>1. /\ rows' = rows /\ tx'[s].target = tx[s].target /\ Committed' = Committed
  BY DEF GoesOn, Quiet, Committed
<1>2. tx[s].target # None /\ tx[s].target \in Ids
  BY TxFacts DEF ReadOriginal, TypeInv, TypeOK, ShapeInv, CallShape
<1>3. rows[tx[s].target].by = None /\ ~Marked(s, tx[s].target)
  BY <1>2, ByForCases
<1>4. \A i \in Committed : rows[i].reverses # tx[s].target
  BY <1>2, <1>3 DEF ReversedInv
<1>5. ~Marked(s, tx[s].target)'
  BY <1>1, <1>3 DEF GoesOn, Quiet, Marked
<1> QED BY <1>1, <1>2, <1>4, <1>5 DEF SeenByCall

LEMMA SeenQuiet ==
  ASSUME TypeInv, RowInv, ReversedInv, SeenInv, [Next]_vars, NEW s \in Sessions, QuietStep(s)
  PROVE  SeenInv'
<1>0. Quiet(s) /\ rows' = rows /\ Committed' = Committed
  BY QuietSteps, QuietViews DEF Quiet
<1>1. ASSUME NEW j \in Ids PROVE SeenByRow(j)'
  BY <1>0, SeenRowKept
<1>2. ASSUME NEW t \in Sessions, t # s PROVE SeenByCall(t)'
  <2>1. tx'[t] = tx[t]
    BY <1>0, <1>2 DEF Quiet
  <2> QED BY <2>1, SeenCallKept
<1>3. SeenByCall(s)'
  <2>0. SeenByCall(s)
    BY DEF SeenInv
  <2>1. CASE tx'[s].stage \notin Past /\ tx'[s].seen \subseteq Committed
    BY <1>0, <2>1 DEF SeenByCall
  <2>2. CASE StartPost(s) \/ StartReverse(s)
    BY <2>0, <2>1, <2>2, StartFacts DEF SeenByCall, Past
  <2>3. CASE CheckReference(s)
    BY <2>1, <2>3, CheckReferenceFacts, SeenReference DEF Past
  <2>4. CASE ReadOriginal(s)
    BY <2>1, <2>4, ReadOriginalFacts, SeenOriginal DEF Past
  <2>5. ASSUME NEW stage, GoesOn(s, stage), tx'[s].seen = tx[s].seen, tx[s].stage \in Past
        PROVE  SeenByCall(s)'
    BY <2>5, SeenCallKept DEF GoesOn, Quiet
  <2>6. CASE CheckPeriod(s)
    BY <2>1, <2>5, <2>6, CheckPeriodFacts DEF Past
  <2>7. CASE LockNumber(s) \/ ReadNumber(s) \/ WriteLine(s)
    BY <2>5, <2>7, LockNumberFacts, ReadNumberFacts, WriteLineMoves DEF Past
  <2> QED BY <2>2, <2>3, <2>4, <2>6, <2>7 DEF QuietStep
<1> QED BY <1>1, <1>2, <1>3 DEF SeenInv

LEMMA SeenInsert ==
  ASSUME TypeInv, RowInv, SeenInv, [Next]_vars, NEW s \in Sessions, NEW order \in Orders,
         InsertStep(s, order)
  PROVE  SeenInv'
<1>1. PICK id \in Ids : id = tx[s].id
  BY InsertsMoves DEF InsertStep
<1>2. /\ rows[id].state = "unused" /\ rows'[id] = Header(s, order)
      /\ \A j \in Ids \ {id} : rows'[j] = rows[j]
      /\ \A t \in Sessions \ {s} : tx'[t] = tx[t]
      /\ Committed' = Committed /\ tx'[s].stage = "lines"
      /\ tx'[s].marks = tx[s].marks /\ tx'[s].key = tx[s].key
      /\ tx'[s].target = tx[s].target /\ tx'[s].seen = tx[s].seen
      /\ tx'[s].inserted = tx[s].inserted \cup {id} /\ tx[s].stage = "insert"
  BY <1>1, InsertsMoves DEF InsertStep
<1>3. \A t \in Sessions : SeenByCall(t)'
  BY <1>2, SeenCallKept DEF Past
<1>4. ASSUME NEW j \in Ids, j # id PROVE SeenByRow(j)'
  BY <1>2, <1>4, SeenRowKept
<1>5. SeenByRow(id)'
  <2>1. rows'[id].seen = tx'[s].seen /\ rows'[id].reverses = tx'[s].target
    BY <1>2 DEF Header
  <2> QED BY <1>2, <1>3, <2>1 DEF SeenByCall, SeenByRow, Past
<1> QED BY <1>3, <1>4, <1>5 DEF SeenInv

LEMMA SeenEnds ==
  ASSUME TypeInv, RowInv, SeenInv, [Next]_vars, NEW s \in Sessions,
         Finish(s) \/ Commit(s) \/ Rollback(s)
  PROVE  SeenInv'
<1>1. /\ \A t \in Sessions \ {s} : tx'[t] = tx[t]
      /\ tx'[s].stage \notin Past /\ tx'[s].seen = {}
  <2>1. Idle.stage = "idle" /\ Idle.seen = {}
    BY DEF Idle
  <2>2. CASE Finish(s)
    BY <2>2, FinishFacts DEF Past
  <2>3. CASE Commit(s)
    BY <2>1, <2>3, CommitFacts DEF Past
  <2>4. CASE Rollback(s)
    BY <2>1, <2>4, RollbackFacts DEF Past
  <2> QED BY <2>2, <2>3, <2>4
<1>2. \A t \in Sessions : SeenByCall(t)'
  BY <1>1, SeenCallKept DEF SeenByCall
<1>3. ASSUME NEW j \in Ids PROVE SeenByRow(j)'
  <2>1. CASE rows'[j] = Unused
    BY <2>1 DEF SeenByRow, Unused
  <2>2. CASE rows'[j] # Unused
    <3>1. rows'[j].seen = rows[j].seen /\ rows'[j].reverses = rows[j].reverses
      BY <2>2, CommitFacts, RollbackFacts DEF Finish
    <3> QED BY <3>1, SeenRowKept
  <2> QED BY <2>1, <2>2
<1> QED BY <1>2, <1>3 DEF SeenInv

LEMMA SeenBeside ==
  ASSUME SeenInv, Beside
  PROVE  SeenInv'
BY DEF Beside, SeenInv, SeenByRow, SeenByCall, Handled, Marked, Committed

LEMMA SeenStays ==
  TypeInv /\ RowInv /\ ReversedInv /\ SeenInv /\ [Next]_vars => SeenInv'
BY StepCases, SeenQuiet, SeenInsert, SeenEnds, SeenBeside

LEMMA ReferenceQuiet ==
  ASSUME ReferenceInv, AllQuiet
  PROVE  ReferenceInv'
<1>1. Committed' = Committed
  BY DEF AllQuiet, Committed
<1> QED BY <1>1 DEF AllQuiet, ReferenceInv, FirstOfReference, Excused, OwnPosting, Handled, Marked

LEMMA OwnKept ==
  ASSUME TypeInv, RowInv, [Next]_vars, NEW j, NEW S, NEW T, OwnRow(j, S), S \subseteq T,
         rows'[j].own = rows[j].own, rows'[j].reverses = rows[j].reverses,
         \A i \in S : rows'[i].reverses = rows[i].reverses
  PROVE  /\ rows'[j].own \subseteq T
         /\ rows'[j].reverses # None =>
              \A i \in rows'[j].own : rows'[i].reverses # rows'[j].reverses
BY DEF OwnRow

(* A transaction that reversed a journal does not reverse it again. *)
LEMMA OwnInsert ==
  ASSUME TypeInv, RowInv, ReversedInv, SeenInv, [Next]_vars, NEW s \in Sessions,
         NEW order \in Orders, InsertStep(s, order)
  PROVE  /\ rows'[tx[s].id].own = tx[s].inserted
         /\ rows'[tx[s].id].reverses # None =>
              \A i \in tx[s].inserted : rows'[i].reverses # rows'[tx[s].id].reverses
<1>1. /\ rows'[tx[s].id] = Header(s, order) /\ tx[s].stage = "insert"
      /\ tx'[s].inserted = tx[s].inserted \cup {tx[s].id}
  BY InsertsMoves DEF InsertStep
<1>2. rows'[tx[s].id].own = tx[s].inserted /\ rows'[tx[s].id].reverses = tx[s].target
  BY <1>1 DEF Header
<1>3. ASSUME tx[s].target # None, NEW i \in tx[s].inserted
      PROVE  rows[i].reverses # tx[s].target
  <2>1. ~Marked(s, tx[s].target)
    BY <1>1, <1>3 DEF SeenInv, SeenByCall, Past
  <2>2. rows[i].reverses # None => <<rows[i].reverses, i>> \in tx[s].marks
    BY <1>1, <1>3 DEF ReversedInv, PendingMarked
  <2>3. rows[i].reverses # None => Marked(s, rows[i].reverses)
    BY <2>2 DEF Marked
  <2> QED BY <1>3, <2>1, <2>3
<1>4. \A i \in tx[s].inserted : rows'[i].reverses = rows[i].reverses
  BY <1>1, PendingStays
<1> QED BY <1>2, <1>3, <1>4

LEMMA OwnStays ==
  ASSUME TypeInv, RowInv, ReversedInv, SeenInv, OwnInv, [Next]_vars
  PROVE  OwnInv'
<1>1. ASSUME NEW j \in Committed PROVE OwnRow(j, Committed)'
  <2>1. /\ OwnRow(j, Committed) /\ Committed \subseteq Committed'
        /\ rows'[j].own = rows[j].own /\ rows'[j].reverses = rows[j].reverses
        /\ \A i \in Committed : rows'[i].reverses = rows[i].reverses
    BY CommittedStays DEF OwnInv
  <2> QED BY <2>1, OwnKept DEF OwnRow
<1>2. ASSUME NEW t \in Sessions, NEW j \in tx[t].inserted, NEW T,
             tx[t].inserted \subseteq T, T \subseteq tx'[t].inserted \cup Committed'
      PROVE  /\ rows'[j].own \subseteq T
             /\ rows'[j].reverses # None =>
                  \A i \in rows'[j].own : rows'[i].reverses # rows'[j].reverses
  <2>1. /\ OwnRow(j, tx[t].inserted)
        /\ rows'[j].own = rows[j].own /\ rows'[j].reverses = rows[j].reverses
        /\ \A i \in tx[t].inserted : rows'[i].reverses = rows[i].reverses
    BY <1>2, PendingStays DEF OwnInv
  <2> QED BY <1>2, <2>1, OwnKept
<1>3. ASSUME NEW t \in Sessions, tx'[t].inserted = tx[t].inserted, NEW j \in tx'[t].inserted
      PROVE  OwnRow(j, tx[t].inserted)'
  <2>1. /\ rows'[j].own \subseteq tx'[t].inserted
        /\ rows'[j].reverses # None =>
             \A i \in rows'[j].own : rows'[i].reverses # rows'[j].reverses
    BY <1>2, <1>3
  <2> QED BY <2>1 DEF OwnRow
<1>4. CASE AllQuiet
  <2>1. Committed' = Committed
    BY <1>4 DEF AllQuiet, Committed
  <2> QED BY <1>1, <1>3, <1>4, <2>1 DEF AllQuiet, OwnInv
<1>5. ASSUME NEW s \in Sessions, NEW order \in Orders, InsertStep(s, order)
      PROVE  OwnInv'
  <2>1. /\ Committed' = Committed /\ tx'[s].inserted = tx[s].inserted \cup {tx[s].id}
        /\ tx'[s].id = tx[s].id
        /\ \A t \in Sessions \ {s} : tx'[t] = tx[t]
    BY <1>5, InsertsMoves DEF InsertStep
  <2>2. OwnRow(tx[s].id, tx[s].inserted)'
    BY <1>5, <2>1, OwnInsert DEF OwnRow
  <2>3. ASSUME NEW j \in tx[s].inserted PROVE OwnRow(j, tx[s].inserted)'
    <3>1. /\ rows'[j].own \subseteq tx'[s].inserted
          /\ rows'[j].reverses # None =>
               \A i \in rows'[j].own : rows'[i].reverses # rows'[j].reverses
      BY <1>2, <2>1
    <3> QED BY <3>1 DEF OwnRow
  <2> QED BY <1>1, <1>3, <2>1, <2>2, <2>3 DEF OwnInv
<1>6. ASSUME NEW s \in Sessions, Finish(s) PROVE OwnInv'
  <2>1. /\ Committed' = Committed
        /\ \A t \in Sessions : tx'[t].inserted = tx[t].inserted
    BY <1>6, FinishFacts DEF Finish, Committed
  <2> QED BY <1>1, <1>3, <2>1 DEF OwnInv
<1>7. ASSUME NEW s \in Sessions, Commit(s) PROVE OwnInv'
  <2>1. /\ Committed' = Committed \cup tx[s].inserted /\ tx'[s].inserted = {}
        /\ \A t \in Sessions \ {s} : tx'[t] = tx[t]
    BY <1>7, CommitFacts DEF Idle
  <2>2. ASSUME NEW j \in tx[s].inserted PROVE OwnRow(j, Committed)'
    <3>1. /\ rows'[j].own \subseteq Committed'
          /\ rows'[j].reverses # None =>
               \A i \in rows'[j].own : rows'[i].reverses # rows'[j].reverses
      BY <1>2, <2>1
    <3> QED BY <3>1 DEF OwnRow
  <2> QED BY <1>1, <1>3, <2>1, <2>2 DEF OwnInv
<1>8. ASSUME NEW s \in Sessions, Rollback(s) PROVE OwnInv'
  <2>1. /\ Committed' = Committed /\ tx'[s].inserted = {}
        /\ \A t \in Sessions \ {s} : tx'[t] = tx[t]
    BY <1>8, RollbackFacts DEF Idle
  <2> QED BY <1>1, <1>3, <2>1 DEF OwnInv
<1> QED BY <1>4, <1>5, <1>6, <1>7, <1>8, StepCases, QuietSteps, BesideQuiet

(* What a transaction knew to be reversed stays so until it ends. *)
LEMMA FirstStays ==
  ASSUME TypeInv, RowInv, SeenInv, OwnInv, [Next]_vars, NEW t \in Sessions,
         NEW j \in tx[t].inserted, FirstOfReference(t, j),
         tx[t].inserted \subseteq tx'[t].inserted, tx[t].marks \subseteq tx'[t].marks
  PROVE  FirstOfReference(t, j)'
<1>1. /\ j \in Ids /\ rows'[j].ref = rows[j].ref
      /\ rows'[j].seen = rows[j].seen /\ rows'[j].own = rows[j].own
  BY PendingStays
<1>2. rows[j].seen \subseteq Committed /\ rows[j].own \subseteq tx[t].inserted
  BY <1>1 DEF SeenInv, SeenByRow, OwnInv, OwnRow
<1>3. ASSUME NEW i \in Committed, Handled(t, i) PROVE Handled(t, i)'
  BY <1>3, CommittedStays DEF Handled, Marked
<1>4. \A i \in Committed : rows'[i].ref = rows[i].ref
  BY CommittedStays
<1>5. OwnPosting(j) => OwnPosting(j)'
  BY <1>1, <1>2, PendingStays DEF OwnPosting
<1> QED BY <1>1, <1>2, <1>3, <1>4, <1>5 DEF FirstOfReference

LEMMA CommittedFirst ==
  ASSUME TypeInv, RowInv, SeenInv, OwnInv, ReferenceInv, [Next]_vars, NEW j \in Committed
  PROVE  Excused(j)'
<1>1. /\ j \in Ids /\ rows'[j].seen = rows[j].seen /\ rows'[j].ref = rows[j].ref
      /\ rows'[j].own = rows[j].own
  BY CommittedStays
<1>2. rows[j].seen \subseteq Committed /\ rows[j].own \subseteq Committed
  BY <1>1 DEF SeenInv, SeenByRow, OwnInv, OwnRow
<1>3. \A i \in Committed : /\ rows'[i].ref = rows[i].ref
                           /\ (rows[i].by # None => rows'[i].by # None)
  BY CommittedStays
<1>4. OwnPosting(j) => OwnPosting(j)'
  BY <1>1, <1>2, <1>3 DEF OwnPosting
<1> QED BY <1>1, <1>2, <1>3, <1>4 DEF ReferenceInv, Excused

LEMMA ReferenceInsert ==
  ASSUME TypeInv, RowInv, SeenInv, OwnInv, ReferenceInv, [Next]_vars, NEW s \in Sessions,
         NEW order \in Orders, InsertStep(s, order)
  PROVE  ReferenceInv'
<1>1. PICK id \in Ids : id = tx[s].id
  BY InsertsMoves DEF InsertStep
<1>2. /\ rows[id].state = "unused" /\ rows'[id] = Header(s, order)
      /\ \A j \in Ids \ {id} : rows'[j] = rows[j]
      /\ \A t \in Sessions \ {s} : tx'[t] = tx[t]
      /\ Committed' = Committed /\ tx'[s].inserted = tx[s].inserted \cup {id}
      /\ tx'[s].marks = tx[s].marks /\ tx[s].stage = "insert"
  BY <1>1, InsertsMoves DEF InsertStep
<1>3. ASSUME NEW t \in Sessions, NEW j \in tx[t].inserted PROVE FirstOfReference(t, j)'
  <2>1. tx[t].inserted \subseteq tx'[t].inserted /\ tx[t].marks \subseteq tx'[t].marks
    BY <1>2
  <2>2. FirstOfReference(t, j)
    BY DEF ReferenceInv
  <2> QED BY <2>1, <2>2, FirstStays
<1>4. FirstOfReference(s, id)'
  <2>1. rows'[id].seen = tx[s].seen /\ rows'[id].own = tx[s].inserted
    BY <1>2 DEF Header
  <2>2. rows'[id].ref = IF tx[s].target = None THEN RefOf[tx[s].key] ELSE None
    BY <1>2 DEF Header
  <2>3. \A i \in Committed : rows'[i].ref = rows[i].ref
    BY CommittedStays
  <2>4. \A k \in tx[s].inserted : rows'[k].ref = rows[k].ref
    BY <1>2, PendingStays
  <2>5. tx[s].seen \subseteq Committed
    BY DEF SeenInv, SeenByCall
  <2>6. ASSUME NEW i \in Committed, Handled(s, i) PROVE Handled(s, i)'
    BY <1>2, <2>6, CommittedStays DEF Handled, Marked
  <2>7. CASE tx[s].target = None
    <3>1. \/ \A i \in tx[s].seen : rows[i].ref = RefOf[tx[s].key] => Handled(s, i)
          \/ \E k \in tx[s].inserted : rows[k].ref = RefOf[tx[s].key]
      BY <1>2, <2>7 DEF SeenInv, SeenByCall, Past
    <3> QED BY <2>1, <2>2, <2>3, <2>4, <2>5, <2>6, <2>7, <3>1 DEF FirstOfReference, OwnPosting
  <2>8. CASE tx[s].target # None
    BY <2>2, <2>8 DEF FirstOfReference
  <2> QED BY <2>7, <2>8
<1>5. ASSUME NEW t \in Sessions, NEW j \in tx'[t].inserted PROVE FirstOfReference(t, j)'
  BY <1>2, <1>3, <1>4, <1>5
<1>6. ASSUME NEW j \in Committed' PROVE Excused(j)'
  BY <1>2, <1>6, CommittedFirst
<1> QED BY <1>5, <1>6 DEF ReferenceInv

LEMMA ReferenceFinish ==
  ASSUME TypeInv, RowInv, SeenInv, OwnInv, ReferenceInv, [Next]_vars, NEW s \in Sessions,
         Finish(s)
  PROVE  ReferenceInv'
<1>1. /\ Committed' = Committed
      /\ \A t \in Sessions : tx'[t].inserted = tx[t].inserted
  BY FinishFacts DEF Finish, Committed
<1>2. \A t \in Sessions : tx[t].marks \subseteq tx'[t].marks
  <2>1. tx'[s].marks = tx[s].marks \/ tx'[s].marks = tx[s].marks \cup {<<tx[s].target, tx[s].id>>}
    BY FinishFacts
  <2> QED BY <2>1, FinishFacts
<1>3. ASSUME NEW t \in Sessions, NEW j \in tx'[t].inserted PROVE FirstOfReference(t, j)'
  <2>1. FirstOfReference(t, j)
    BY <1>1 DEF ReferenceInv
  <2> QED BY <1>1, <1>2, <2>1, FirstStays
<1> QED BY <1>1, <1>3, CommittedFirst DEF ReferenceInv

LEMMA ReferenceCommit ==
  ASSUME TypeInv, RowInv, SeenInv, OwnInv, ReferenceInv, [Next]_vars, NEW s \in Sessions,
         Commit(s)
  PROVE  ReferenceInv'
<1>1. /\ tx'[s] = Idle
      /\ \A t \in Sessions \ {s} : tx'[t] = tx[t]
      /\ Committed' = Committed \cup tx[s].inserted
      /\ \A j \in Ids : /\ rows'[j].by = ByFor(s, j) /\ rows'[j].ref = rows[j].ref
                        /\ rows'[j].seen = rows[j].seen /\ rows'[j].own = rows[j].own
  BY CommitFacts
<1>2. ASSUME NEW t \in Sessions, NEW j \in tx'[t].inserted PROVE FirstOfReference(t, j)'
  <2>1. t # s
    BY <1>1, <1>2 DEF Idle
  <2>2. tx'[t] = tx[t] /\ FirstOfReference(t, j)
    BY <1>1, <1>2, <2>1 DEF ReferenceInv
  <2> QED BY <1>2, <2>2, FirstStays
<1>3. ASSUME NEW j \in tx[s].inserted PROVE Excused(j)'
  <2>1. j \in Ids /\ FirstOfReference(s, j)
    BY TxFacts DEF ReferenceInv, TypeInv, TypeOK
  <2>2. rows[j].seen \subseteq Committed /\ rows[j].own \subseteq tx[s].inserted
    BY <2>1 DEF SeenInv, SeenByRow, OwnInv, OwnRow
  <2>3. ASSUME NEW i \in Committed, Handled(s, i) PROVE rows'[i].by # None
    <3>1. i \in Ids
      BY CommittedFacts
    <3> QED BY <1>1, <2>3, <3>1, ByForCases DEF Handled
  <2>4. \A i \in Committed : rows'[i].ref = rows[i].ref
    BY CommittedStays
  <2>5. OwnPosting(j) => OwnPosting(j)'
    BY <1>1, <2>1, <2>2, TxFacts DEF OwnPosting, TypeInv, TypeOK
  <2> QED BY <1>1, <2>1, <2>2, <2>3, <2>4, <2>5 DEF FirstOfReference, Excused
<1> QED BY <1>1, <1>2, <1>3, CommittedFirst DEF ReferenceInv

LEMMA ReferenceRollback ==
  ASSUME TypeInv, RowInv, SeenInv, OwnInv, ReferenceInv, [Next]_vars, NEW s \in Sessions,
         Rollback(s)
  PROVE  ReferenceInv'
<1>1. /\ tx'[s] = Idle
      /\ \A t \in Sessions \ {s} : tx'[t] = tx[t]
      /\ Committed' = Committed
  BY RollbackFacts
<1>2. ASSUME NEW t \in Sessions, NEW j \in tx'[t].inserted PROVE FirstOfReference(t, j)'
  <2>1. t # s
    BY <1>1, <1>2 DEF Idle
  <2>2. tx'[t] = tx[t] /\ FirstOfReference(t, j)
    BY <1>1, <1>2, <2>1 DEF ReferenceInv
  <2> QED BY <1>2, <2>2, FirstStays
<1> QED BY <1>1, <1>2, CommittedFirst DEF ReferenceInv

LEMMA ReferenceStays ==
  TypeInv /\ RowInv /\ SeenInv /\ OwnInv /\ ReferenceInv /\ [Next]_vars => ReferenceInv'
BY StepCases, QuietSteps, BesideQuiet, ReferenceQuiet, ReferenceInsert, ReferenceFinish,
   ReferenceCommit, ReferenceRollback

SeenParts == ReversedInv /\ SeenInv /\ OwnInv /\ ReferenceInv

LEMMA SeenHolds == Spec => [](TypeInv /\ RowInv /\ SeenParts)
<1> DEFINE Inv == TypeInv /\ RowInv /\ SeenParts
<1>1. Init => SeenParts
  BY DEF Init, SeenParts, ReversedInv, PendingMarked, SeenInv, SeenByRow, SeenByCall, OwnInv,
         OwnRow, ReferenceInv, FirstOfReference, Excused, Committed, Unused, Idle, Past
<1>2. Inv /\ [Next]_vars => Inv'
  BY TypesStay, RowsStay, ReversedStays, SeenStays, OwnStays, ReferenceStays DEF SeenParts
<1> QED BY <1>1, <1>2, TypesStart, RowsStart, PTL DEF Spec

(* Two committed reversals of one journal were made by two transactions that each
   read the original before the other committed: reverseTransaction refuses a second
   reversal in every order that is not such an overlap, also inside a transaction. *)
THEOREM SecondReversalOverlaps == Spec => []DoubleReversalsOverlapped
<1>1. SeenParts => DoubleReversalsOverlapped
  BY CommittedFacts DEF SeenParts, SeenInv, SeenByRow, OwnInv, OwnRow, DoubleReversalsOverlapped
<1> QED BY <1>1, SeenHolds, PTL

(* Of two active journals of one business reference, the posting of the later one
   overlapped the earlier, or its transaction had posted to the reference itself:
   there is no third way past the guard of createJournalEntry. *)
THEOREM SecondPostingExplained == Spec => []DuplicatesExplained
<1>1. SeenParts => DuplicatesExplained
  <2>1. \A j \in NetActive : j \in Committed /\ rows[j].by = None
    BY DEF NetActive
  <2> QED BY <2>1 DEF SeenParts, ReferenceInv, Excused, OwnPosting, DuplicatesExplained
<1> QED BY <1>1, SeenHolds, PTL

-----------------------------------------------------------------------------
(* The locks.  A posting past its advisory lock, or with a journal inserted,     *)
(* holds the lock; a locked account belongs to a transaction with a journal; a    *)
(* transaction with a journal is in its last call unless it makes several; and    *)
(* in a locked period the transactions past the check are the overlapped ones.    *)
AfterCheck == {"lock", "number", "insert", "lines"}

LockShape(s) ==
  LET t == tx[s]
  IN /\ t.stage \in {"number", "insert", "lines"} /\ t.target = None => numberLock = s
     /\ \A i \in t.inserted : rows[i].reverses = None => numberLock = s
     /\ \A a \in Accounts : held[a] = s => t.inserted # {}
     /\ t.stage # "idle" => t.calls >= 1
     /\ t.inserted # {} /\ t.stage \notin {"lines", "returned"} => t.calls >= 2
     /\ period = "LOCKED" /\ (t.inserted # {} \/ t.stage \in AfterCheck) => s \in overlapped

LockInv == \A s \in Sessions : LockShape(s)

(* The end of a transaction frees its own locks only. *)
LEMMA EndFacts ==
  ASSUME TypeInv, NEW s \in Sessions, Commit(s) \/ Rollback(s)
  PROVE  /\ tx'[s] = Idle
         /\ \A t \in Sessions \ {s} : tx'[t] = tx[t]
         /\ numberLock' = IF numberLock = s THEN None ELSE numberLock
         /\ \A a \in Accounts : held'[a] = IF held[a] = s THEN None ELSE held[a]
         /\ overlapped' = overlapped \ {s}
         /\ period' = period /\ heal' = heal
<1>1. /\ numberLock' = IF numberLock = s THEN None ELSE numberLock
      /\ \A a \in Accounts : held'[a] = IF held[a] = s THEN None ELSE held[a]
      /\ overlapped' = overlapped \ {s}
      /\ period' = period /\ heal' = heal
  BY DEF Commit, Rollback, Unlocked
<1> QED BY <1>1, CommitFacts, RollbackFacts

LEMMA RowsOfOthers ==
  ASSUME TypeInv, NEW s \in Sessions, NEW t \in Sessions, t # s,
         Commit(s) \/ Rollback(s) \/ (\E order \in Orders : InsertStep(s, order))
  PROVE  \A i \in tx[t].inserted : /\ rows'[i].reverses = rows[i].reverses
                                   /\ rows'[i].number = rows[i].number
<1>0. ASSUME NEW i \in tx[t].inserted
      PROVE  i \in Ids /\ i \notin tx[s].inserted /\ rows[i].state = "pending"
  BY TxFacts DEF TypeInv, TypeOK, ShapeInv, Apart, CallShape
<1>1. CASE Commit(s)
  BY <1>0, <1>1, CommitFacts
<1>2. CASE Rollback(s)
  BY <1>0, <1>2, RollbackFacts
<1>3. ASSUME NEW order \in Orders, InsertStep(s, order)
      PROVE  \A i \in tx[t].inserted : rows'[i] = rows[i]
  BY <1>0, <1>3, InsertsMoves DEF InsertStep
<1> QED BY <1>1, <1>2, <1>3

LEMMA LockEnd ==
  ASSUME TypeInv, LockInv, NEW s \in Sessions, Commit(s) \/ Rollback(s)
  PROVE  LockInv'
<1>1. None # s
  OBVIOUS
<1>2. LockShape(s)'
  <2>1. Idle.stage = "idle" /\ Idle.inserted = {} /\ Idle.calls = 0
    BY DEF Idle
  <2> QED BY <1>1, <2>1, EndFacts DEF LockShape, AfterCheck
<1>3. ASSUME NEW t \in Sessions, t # s PROVE LockShape(t)'
  <2>1. tx'[t] = tx[t] /\ LockShape(t)
    BY <1>3, EndFacts DEF LockInv
  <2>2. \A i \in tx[t].inserted : rows'[i].reverses = rows[i].reverses
    BY <1>3, RowsOfOthers
  <2>3. /\ numberLock = t => numberLock' = t
        /\ \A a \in Accounts : held'[a] = t => held[a] = t
        /\ t \in overlapped => t \in overlapped'
        /\ period' = period
    BY <1>3, EndFacts
  <2> QED BY <2>1, <2>2, <2>3 DEF LockShape
<1> QED BY <1>2, <1>3 DEF LockInv

LEMMA LockInsert ==
  ASSUME TypeInv, LockInv, NEW s \in Sessions, NEW order \in Orders, InsertStep(s, order)
  PROVE  LockInv'
<1>1. PICK id \in Ids : id = tx[s].id
  BY InsertsMoves DEF InsertStep
<1>2. /\ rows'[id] = Header(s, order) /\ rows[id].state = "unused"
      /\ \A j \in Ids \ {id} : rows'[j] = rows[j]
      /\ \A t \in Sessions \ {s} : tx'[t] = tx[t]
      /\ tx'[s].stage = "lines" /\ tx'[s].inserted = tx[s].inserted \cup {id}
      /\ tx'[s].target = tx[s].target /\ tx'[s].calls = tx[s].calls
      /\ tx[s].stage = "insert"
      /\ numberLock' = numberLock /\ held' = held /\ period' = period
      /\ overlapped' = overlapped
  BY <1>1, InsertsMoves DEF InsertStep, Others
<1>3. LockShape(s)'
  <2>1. LockShape(s)
    BY DEF LockInv
  <2>2. rows'[id].reverses = tx[s].target
    BY <1>2 DEF Header
  <2>3. \A i \in tx[s].inserted : rows'[i] = rows[i]
    BY <1>2, TxFacts DEF TypeInv, TypeOK, ShapeInv, CallShape
  <2> QED BY <1>2, <2>1, <2>2, <2>3 DEF LockShape, AfterCheck
<1>4. ASSUME NEW t \in Sessions, t # s PROVE LockShape(t)'
  <2>1. tx'[t] = tx[t] /\ LockShape(t)
    BY <1>2, <1>4 DEF LockInv
  <2>2. \A i \in tx[t].inserted : rows'[i].reverses = rows[i].reverses
    BY <1>4, RowsOfOthers
  <2> QED BY <1>2, <2>1, <2>2 DEF LockShape
<1> QED BY <1>3, <1>4 DEF LockInv

(* The steps that write no row. *)
LEMMA LockMoves ==
  ASSUME TypeInv, LockInv, NEW s \in Sessions,
         rows' = rows,
         \A t \in Sessions \ {s} : tx'[t] = tx[t],
         \A t \in Sessions \ {s} : numberLock = t => numberLock' = t,
         \A t \in Sessions \ {s} : \A a \in Accounts : held'[a] = t => held[a] = t,
         period' = period, overlapped' = overlapped,
         LockShape(s)'
  PROVE  LockInv'
<1>1. ASSUME NEW t \in Sessions, t # s PROVE LockShape(t)'
  BY <1>1 DEF LockInv, LockShape
<1> QED BY <1>1 DEF LockInv

LEMMA LockQuiet ==
  ASSUME TypeInv, LockInv, NEW s \in Sessions, QuietStep(s)
  PROVE  LockInv'
<1>0. /\ Quiet(s) /\ rows' = rows /\ LockShape(s)
      /\ tx[s].calls \in Nat
  BY QuietSteps, TxFacts DEF Quiet, LockInv, TypeInv, TypeOK
<1>1. ASSUME numberLock' = numberLock, UNCHANGED Others, LockShape(s)'
      PROVE  LockInv'
  BY <1>0, <1>1, LockMoves DEF Quiet, Others
<1>2. ASSUME Quiet(s), tx[s].stage \in Busy \ {"lines"}, tx'[s].stage = "returned",
             tx'[s].calls = tx[s].calls, numberLock' = numberLock, UNCHANGED Others
      PROVE  LockInv'
  <2>1. LockShape(s)'
    BY <1>0, <1>2 DEF LockShape, Quiet, Others, AfterCheck, Busy, Stages
  <2> QED BY <1>1, <1>2, <2>1
<1>3. CASE StartPost(s) \/ StartReverse(s)
  <2>1. /\ tx[s].stage \in {"idle", "returned"}
        /\ tx'[s].stage \in {"reference", "original", "returned"}
        /\ tx'[s].calls = tx[s].calls + 1 /\ tx'[s].inserted = tx[s].inserted
        /\ numberLock' = numberLock /\ UNCHANGED Others
    BY <1>3, StartFacts DEF Quiet
  <2>2. tx[s].stage = "idle" => tx[s].inserted = {}
    BY DEF TypeInv, ShapeInv, CallShape
  <2>3. /\ tx[s].calls + 1 >= 1
        /\ tx[s].calls >= 1 => tx[s].calls + 1 >= 2
    BY <1>0
  <2>4. LockShape(s)'
    BY <1>0, <2>1, <2>2, <2>3 DEF LockShape, Others, AfterCheck
  <2> QED BY <1>1, <2>1, <2>4
<1>4. CASE CheckReference(s)
  <2>1. ASSUME GoesOn(s, "period") PROVE LockShape(s)'
    BY <1>0, <1>4, <2>1, CheckReferenceFacts
       DEF LockShape, GoesOn, Quiet, Others, AfterCheck
  <2> QED BY <1>1, <1>2, <1>4, <2>1, CheckReferenceFacts DEF Busy, Stages
<1>5. CASE ReadOriginal(s)
  <2>1. ASSUME GoesOn(s, "period") PROVE LockShape(s)'
    BY <1>0, <1>5, <2>1, ReadOriginalFacts
       DEF LockShape, GoesOn, Quiet, Others, AfterCheck
  <2> QED BY <1>1, <1>2, <1>5, <2>1, ReadOriginalFacts DEF Busy, Stages
<1>6. CASE CheckPeriod(s)
  <2>1. ASSUME GoesOn(s, IF tx[s].target = None THEN "lock" ELSE "number"), period = "OPEN"
        PROVE  LockShape(s)'
    <3>1. tx[s].stage = "period" /\ UNCHANGED Others /\ numberLock' = numberLock
      BY <1>6, CheckPeriodFacts
    <3>2. /\ tx'[s].stage = IF tx[s].target = None THEN "lock" ELSE "number"
          /\ tx'[s].calls = tx[s].calls /\ tx'[s].target = tx[s].target
          /\ tx'[s].inserted = tx[s].inserted
      BY <2>1 DEF GoesOn, Quiet
    <3> QED BY <1>0, <2>1, <3>1, <3>2 DEF LockShape, Others, AfterCheck
  <2> QED BY <1>1, <1>2, <1>6, <2>1, CheckPeriodFacts DEF Busy, Stages
<1>7. CASE LockNumber(s)
  <2>1. /\ tx[s].stage = "lock" /\ tx'[s].stage = "number" /\ numberLock' = s
        /\ tx'[s].calls = tx[s].calls /\ tx'[s].target = tx[s].target
        /\ tx'[s].inserted = tx[s].inserted
        /\ numberLock \in {None, s} /\ UNCHANGED Others
    BY <1>7, LockNumberFacts DEF GoesOn, Quiet
  <2>2. LockShape(s)'
    BY <1>0, <2>1 DEF LockShape, Others, AfterCheck
  <2>3. \A t \in Sessions \ {s} : t # None
    OBVIOUS
  <2> QED BY <1>0, <2>1, <2>2, <2>3, LockMoves DEF Quiet, Others
<1>8. CASE ReadNumber(s)
  <2>1. /\ tx[s].stage = "number" /\ tx'[s].stage = "insert" /\ numberLock' = numberLock
        /\ tx'[s].calls = tx[s].calls /\ tx'[s].target = tx[s].target
        /\ tx'[s].inserted = tx[s].inserted /\ UNCHANGED Others
    BY <1>8, ReadNumberFacts DEF GoesOn, Quiet
  <2>2. LockShape(s)'
    BY <1>0, <2>1 DEF LockShape, Others, AfterCheck
  <2> QED BY <1>1, <2>1, <2>2
<1>9. CASE WriteLine(s)
  <2>1. /\ tx[s].stage = "lines" /\ tx'[s].stage = "lines" /\ numberLock' = numberLock
        /\ tx'[s].calls = tx[s].calls /\ tx'[s].target = tx[s].target
        /\ tx'[s].inserted = tx[s].inserted
        /\ period' = period /\ overlapped' = overlapped
    BY <1>9, WriteLineMoves DEF GoesOn, Quiet
  <2>2. \A t \in Sessions \ {s} : \A a \in Accounts : held'[a] = t => held[a] = t
    <3>1. \A a \in Accounts : held'[a] \in {held[a], s}
      BY <1>9 DEF WriteLine, TypeInv, TypeOK
    <3> QED BY <3>1
  <2>3. tx[s].inserted # {}
    BY <2>1 DEF TypeInv, ShapeInv, CallShape
  <2>4. LockShape(s)'
    BY <1>0, <2>1, <2>3 DEF LockShape, AfterCheck
  <2> QED BY <1>0, <2>1, <2>2, <2>4, LockMoves DEF Quiet
<1> QED BY <1>3, <1>4, <1>5, <1>6, <1>7, <1>8, <1>9 DEF QuietStep

LEMMA LockFinish ==
  ASSUME TypeInv, LockInv, NEW s \in Sessions, Finish(s)
  PROVE  LockInv'
<1>1. /\ rows' = rows /\ \A t \in Sessions \ {s} : tx'[t] = tx[t]
      /\ tx[s].stage = "lines" /\ tx'[s].stage = "returned"
      /\ tx'[s].inserted = tx[s].inserted /\ tx'[s].calls = tx[s].calls
      /\ numberLock' = numberLock /\ held' = held
      /\ period' = period /\ overlapped' = overlapped
  BY FinishFacts DEF Finish
<1>2. LockShape(s)'
  BY <1>1 DEF LockInv, LockShape, AfterCheck
<1> QED BY <1>1, <1>2, LockMoves

LEMMA LockBeside ==
  ASSUME TypeInv, LockInv, Beside
  PROVE  LockInv'
<1>1. rows' = rows /\ tx' = tx /\ numberLock' = numberLock /\ held' = held
  BY DEF Beside
<1>2. CASE LockPeriod
  BY <1>1, <1>2 DEF LockPeriod, LockInv, LockShape, AfterCheck
<1>3. CASE period' = period /\ overlapped' = overlapped
  BY <1>1, <1>3 DEF LockInv, LockShape
<1> QED BY <1>2, <1>3 DEF Beside, HealRead, HealWrite, vars

LEMMA LocksStay == TypeInv /\ LockInv /\ [Next]_vars => LockInv'
BY StepCases, LockQuiet, LockInsert, LockFinish, LockEnd, LockBeside

LEMMA LocksHold == Spec => [](TypeInv /\ LockInv)
<1>1. Init => LockInv
  BY DEF Init, LockInv, LockShape, Idle, AfterCheck
<1>2. TypeInv /\ LockInv /\ [Next]_vars => (TypeInv /\ LockInv)'
  BY TypesStay, LocksStay
<1> QED BY <1>1, <1>2, TypesStart, PTL DEF Spec

(* A journal is committed into a locked period only by a transaction that was past
   its check of the period when lockPeriod ran. *)
THEOREM LateJournalsWerePastTheCheck == Spec => LateJournalsOverlapped
<1> DEFINE Late == \A s \in Sessions :
                     (period = "LOCKED" /\ tx[s].inserted # {} /\ rows' # rows
                        /\ \E j \in tx[s].inserted : rows'[j].state = "posted")
                       => s \in overlapped
<1>1. LockInv => [Late]_vars
  BY DEF LockInv, LockShape
<1> QED BY <1>1, LocksHold, PTL DEF LateJournalsOverlapped

LEMMA NextAccountTyped ==
  ASSUME TypeInv, NEW s \in Sessions, tx[s].stage = "lines",
         tx[s].next <= Cardinality(Accounts)
  PROVE  NextAccount(s) \in Accounts
<1>1. tx[s].id \in Ids /\ rows[tx[s].id].lines \in Orders
  BY TxFacts DEF TypeInv, TypeOK, ShapeInv, CallShape, Busy, Stages
<1>2. tx[s].next \in 1 .. Cardinality(Accounts)
  BY TxFacts, CountFacts DEF TypeInv, TypeOK
<1> QED BY <1>1, <1>2, OrderFacts DEF NextAccount

(* Transactions of one posting each never wait in a circle for the advisory lock,
   a key or an account, however many there are and whatever the order of their
   lines: of any set of them, one waits for none of the others. *)
THEOREM PostingsAvoidDeadlock == Spec => []PostingsNeverDeadlock
<1>1. ASSUME TypeInv, RowInv, LockInv,
             NEW C \in SUBSET {s \in Sessions : tx[s].calls = 1 /\ tx[s].target = None},
             C # {}
      PROVE  \E s \in C : \A t \in C : ~WaitsFor(s, t)
  <2>1. SUFFICES ASSUME \A s \in C : \E t \in C : WaitsFor(s, t)
                 PROVE  FALSE
    OBVIOUS
  <2>2. ASSUME NEW s \in C
        PROVE  /\ s \in Sessions /\ tx[s].calls = 1 /\ tx[s].target = None
               /\ LockShape(s) /\ MarkShape(s)
               /\ tx[s].stage \in {"lock", "insert", "lines"}
    BY <1>1, <2>1 DEF WaitsFor, LockInv, RowInv
  <2>3. ASSUME NEW s \in C, NEW t \in C, WaitsFor(s, t)
        PROVE  numberLock = t
    <3>1. tx[t].inserted # {} => numberLock = t
      BY <2>2 DEF LockShape
    <3>2. CASE tx[s].stage = "lock"
      BY <2>3, <3>2 DEF WaitsFor
    <3>3. CASE tx[s].stage = "insert" /\ t \in KeyHolders(s)
      BY <2>2, <3>1, <3>3 DEF KeyHolders, MarkShape
    <3>4. CASE /\ tx[s].stage = "lines" /\ tx[s].next <= Cardinality(Accounts)
               /\ held[NextAccount(s)] = t
      <4>1. NextAccount(s) \in Accounts
        BY <1>1, <2>2, <3>4, NextAccountTyped
      <4> QED BY <2>2, <3>1, <3>4, <4>1 DEF LockShape
    <3> QED BY <2>3, <3>2, <3>3, <3>4 DEF WaitsFor
  <2>4. PICK s \in C, t \in C : WaitsFor(s, t)
    BY <1>1, <2>1
  <2>5. PICK u \in C : WaitsFor(t, u)
    BY <2>1
  <2> QED BY <2>3, <2>4, <2>5 DEF WaitsFor
<1>2. TypeInv /\ RowInv /\ LockInv => PostingsNeverDeadlock
  <2> DEFINE single == {s \in Sessions : tx[s].calls = 1 /\ tx[s].target = None}
  <2>1. ASSUME TypeInv, RowInv, LockInv, NEW C \in (SUBSET single) \ {{}}
        PROVE  \E s \in C : \A t \in C : ~WaitsFor(s, t)
    <3>1. C \in SUBSET single /\ C # {}
      OBVIOUS
    <3> QED BY <1>1, <2>1, <3>1
  <2> QED BY <2>1 DEF PostingsNeverDeadlock
<1> QED BY <1>2, RowsHold, LocksHold, PTL

-----------------------------------------------------------------------------
(* The numbers of the postings.                                                  *)
NumberInv ==
  /\ \A s \in Sessions : tx[s].stage = "insert" /\ tx[s].target = None =>
       \A j \in Ids : rows[j].state # "unused" /\ rows[j].reverses = None
                       => rows[j].number < tx[s].number
  /\ \A i, j \in Ids :
       (/\ i # j /\ rows[i].state # "unused" /\ rows[j].state # "unused"
        /\ rows[i].reverses = None /\ rows[j].reverses = None)
         => rows[i].number # rows[j].number

LEMMA NumbersQuiet ==
  ASSUME TypeInv, RowInv, LockInv, NumberInv, NEW s \in Sessions, QuietStep(s)
  PROVE  NumberInv'
<1>0. /\ rows' = rows /\ \A t \in Sessions \ {s} : tx'[t] = tx[t]
  BY QuietSteps DEF Quiet
<1>1. ASSUME tx'[s].stage = "insert", tx'[s].target = None,
             NEW j \in Ids, rows[j].state # "unused", rows[j].reverses = None
      PROVE  rows[j].number < tx'[s].number
  <2>1. ReadNumber(s)
    BY <1>1, StartFacts, CheckReferenceFacts, ReadOriginalFacts, CheckPeriodFacts,
       LockNumberFacts, WriteLineMoves DEF QuietStep, GoesOn
  <2>2. /\ tx[s].stage = "number" /\ tx[s].target = None
        /\ \A i \in Sees(s) : rows[i].number < tx'[s].number
    BY <1>1, <2>1, ReadNumberFacts DEF GoesOn
  <2>3. j \in Sees(s)
    <3>1. CASE rows[j].state = "pending"
      <4>1. PICK t \in Sessions : j \in tx[t].inserted
        BY <3>1 DEF RowInv, RowShape
      <4>2. numberLock = s /\ numberLock = t
        BY <1>1, <2>2, <4>1 DEF LockInv, LockShape
      <4> QED BY <4>1, <4>2 DEF Sees
    <3>2. CASE rows[j].state # "pending"
      BY <1>1, <3>2, RowFacts DEF Sees, Committed, TypeInv, TypeOK
    <3> QED BY <3>1, <3>2
  <2> QED BY <2>2, <2>3
<1> QED BY <1>0, <1>1 DEF NumberInv

LEMMA NumbersInsert ==
  ASSUME TypeInv, RowInv, LockInv, NumberInv, NEW s \in Sessions, NEW order \in Orders,
         InsertStep(s, order)
  PROVE  NumberInv'
<1>1. PICK id \in Ids : id = tx[s].id
  BY InsertsMoves DEF InsertStep
<1>2. /\ rows'[id] = Header(s, order) /\ rows[id].state = "unused"
      /\ \A j \in Ids \ {id} : rows'[j] = rows[j]
      /\ \A t \in Sessions \ {s} : tx'[t] = tx[t]
      /\ tx'[s].stage = "lines" /\ tx[s].stage = "insert"
  BY <1>1, InsertsMoves DEF InsertStep
<1>3. rows'[id].number = tx[s].number /\ rows'[id].reverses = tx[s].target
  BY <1>2 DEF Header
<1>4. tx[s].number \in Nat /\ \A j \in Ids : rows[j].number \in Nat
  BY TxFacts, RowFacts DEF TypeInv, TypeOK
<1>5. ASSUME NEW j \in Ids, j # id, rows[j].state # "unused", rows[j].reverses = None,
             tx[s].target = None
      PROVE  rows'[j].number # rows'[id].number
  <2>1. rows[j].number < tx[s].number
    BY <1>2, <1>5 DEF NumberInv
  <2> QED BY <1>2, <1>3, <1>4, <1>5, <2>1
<1>6. ASSUME NEW i \in Ids, NEW j \in Ids, i # j,
             rows'[i].state # "unused", rows'[j].state # "unused",
             rows'[i].reverses = None, rows'[j].reverses = None
      PROVE  rows'[i].number # rows'[j].number
  <2>1. CASE i = id
    BY <1>2, <1>3, <1>5, <1>6, <2>1
  <2>2. CASE j = id
    BY <1>2, <1>3, <1>5, <1>6, <2>2
  <2>3. CASE i # id /\ j # id
    BY <1>2, <1>6, <2>3 DEF NumberInv
  <2> QED BY <2>1, <2>2, <2>3
<1>7. ASSUME NEW t \in Sessions, tx'[t].stage = "insert", tx'[t].target = None,
             NEW j \in Ids, rows'[j].state # "unused", rows'[j].reverses = None
      PROVE  rows'[j].number < tx'[t].number
  <2>1. t # s /\ tx'[t] = tx[t]
    BY <1>2, <1>7
  <2>2. CASE j = id
    <3>1. numberLock = s /\ numberLock = t
      BY <1>2, <1>3, <1>7, <2>1, <2>2 DEF LockInv, LockShape
    <3> QED BY <2>1, <3>1
  <2>3. CASE j # id
    BY <1>2, <1>7, <2>1, <2>3 DEF NumberInv
  <2> QED BY <2>2, <2>3
<1> QED BY <1>6, <1>7 DEF NumberInv

(* The rows that stay keep their numbers, and no other row appears. *)
LEMMA NumbersElse ==
  ASSUME NumberInv,
         \A j \in Ids : rows'[j].state # "unused" =>
           /\ rows[j].state # "unused" /\ rows'[j].reverses = rows[j].reverses
           /\ rows'[j].number = rows[j].number,
         \A t \in Sessions : tx'[t].stage = "insert" => tx'[t] = tx[t]
  PROVE  NumberInv'
BY DEF NumberInv

LEMMA NumbersStay ==
  TypeInv /\ RowInv /\ LockInv /\ NumberInv /\ [Next]_vars => NumberInv'
<1> SUFFICES ASSUME TypeInv, RowInv, LockInv, NumberInv, [Next]_vars
             PROVE  NumberInv'
  OBVIOUS
<1>1. CASE Beside
  BY <1>1, NumbersElse DEF Beside
<1>2. ASSUME NEW s \in Sessions, Finish(s) PROVE NumberInv'
  <2>1. \A t \in Sessions : tx'[t].stage = "insert" => tx'[t] = tx[t]
    BY <1>2, FinishFacts
  <2>2. rows' = rows
    BY <1>2 DEF Finish
  <2> QED BY <2>1, <2>2, NumbersElse
<1>3. ASSUME NEW s \in Sessions, Commit(s) PROVE NumberInv'
  <2>1. \A t \in Sessions : tx'[t].stage = "insert" => tx'[t] = tx[t]
    BY <1>3, CommitFacts DEF Idle
  <2>2. \A j \in tx[s].inserted : rows[j].state = "pending"
    BY DEF TypeInv, ShapeInv, CallShape
  <2>3. ASSUME NEW j \in Ids, rows'[j].state # "unused"
        PROVE  /\ rows[j].state # "unused" /\ rows'[j].reverses = rows[j].reverses
               /\ rows'[j].number = rows[j].number
    BY <1>3, <2>2, <2>3, CommitFacts
  <2> QED BY <2>1, <2>3, NumbersElse
<1>4. ASSUME NEW s \in Sessions, Rollback(s) PROVE NumberInv'
  <2>1. \A t \in Sessions : tx'[t].stage = "insert" => tx'[t] = tx[t]
    BY <1>4, RollbackFacts DEF Idle
  <2>2. ASSUME NEW j \in Ids, rows'[j].state # "unused" PROVE rows'[j] = rows[j]
    BY <1>4, <2>2, RollbackFacts DEF Unused
  <2> QED BY <2>1, <2>2, NumbersElse
<1> QED BY <1>1, <1>2, <1>3, <1>4, StepCases, NumbersQuiet, NumbersInsert

(* The advisory lock makes the numbers of postings unique: of two journals with one
   number, one is a reversal, which reads the last number without the lock. *)
THEOREM PostingNumbersUnique == Spec => []RepeatedNumbersAreReversals
<1>1. Init => NumberInv
  BY DEF Init, NumberInv, Unused, Idle
<1>2. NumberInv => RepeatedNumbersAreReversals
  BY DEF NumberInv, RepeatedNumbersAreReversals, Committed
<1> QED BY <1>1, <1>2, NumbersStay, RowsHold, LocksHold, PTL DEF Spec

-----------------------------------------------------------------------------
(* The cache.  Between its calls a transaction that has a journal holds every    *)
(* account and has set each to the sum it sees; within a call it holds the        *)
(* accounts of the lines it wrote.                                                *)
Posted == {j \in Committed : rows[j].by = None}

CacheShape(s) ==
  LET t == tx[s]
  IN /\ t.inserted # {} /\ t.stage # "lines" =>
          \A a \in Accounts : held[a] = s /\ draft[a] = Total(a, PostedFor(s))
     /\ t.stage = "lines" =>
          \A i \in 1 .. Cardinality(Accounts) :
            i < t.next => held[rows[t.id].lines[i]] = s
     /\ t.stage # "lines" => t.next = 1

CacheInv ==
  /\ \A s \in Sessions : CacheShape(s)
  /\ \A a \in Accounts : ~healed[a] => balance[a] = Total(a, Posted)

(* The sum over a set of rows whose signs stay, whichever set it is afterwards. *)
LEMMA TotalKept ==
  ASSUME NEW a \in Accounts, NEW S, \A j \in S : rows'[j].sign = rows[j].sign
  PROVE  /\ \A s \in Sessions : PostedFor(s)' = S => Total(a, PostedFor(s))' = Total(a, S)
         /\ Posted' = S => Total(a, Posted)' = Total(a, S)
<1>1. /\ {j \in S : rows'[j].sign = 1} = {j \in S : rows[j].sign = 1}
      /\ {j \in S : rows'[j].sign = -1} = {j \in S : rows[j].sign = -1}
  OBVIOUS
<1>2. ASSUME NEW s \in Sessions, PostedFor(s)' = S
      PROVE  Total(a, PostedFor(s))' = Total(a, S)
  <2>1. Total(a, PostedFor(s))'
          = Side[a] * (Cardinality({j \in PostedFor(s)' : rows'[j].sign = 1})
                       - Cardinality({j \in PostedFor(s)' : rows'[j].sign = -1}))
    BY DEF Total
  <2> QED BY <1>1, <1>2, <2>1 DEF Total
<1>3. ASSUME Posted' = S
      PROVE  Total(a, Posted)' = Total(a, S)
  <2>1. Total(a, Posted)'
          = Side[a] * (Cardinality({j \in Posted' : rows'[j].sign = 1})
                       - Cardinality({j \in Posted' : rows'[j].sign = -1}))
    BY DEF Total
  <2> QED BY <1>1, <1>3, <2>1 DEF Total
<1> QED BY <1>2, <1>3

LEMMA PostedForKept ==
  ASSUME NEW t \in Sessions, Sees(t)' = Sees(t), tx'[t].marks = tx[t].marks,
         \A j \in Sees(t) : rows'[j].by = rows[j].by
  PROVE  PostedFor(t)' = PostedFor(t)
<1>1. ASSUME NEW j \in Sees(t) PROVE ByFor(t, j)' = ByFor(t, j)
  <2>1. /\ ByFor(t, j) = IF Marked(t, j) THEN MarkOf(tx[t].marks, j) ELSE rows[j].by
        /\ ByFor(t, j)' = IF Marked(t, j)' THEN MarkOf(tx'[t].marks, j) ELSE rows'[j].by
    BY DEF ByFor, MarkOf
  <2>2. Marked(t, j)' <=> Marked(t, j)
    BY DEF Marked
  <2> QED BY <2>1, <2>2
<1> QED BY <1>1 DEF PostedFor

(* Nothing that the cache of transaction t depends on has changed. *)
LEMMA CacheKept ==
  ASSUME NEW t \in Sessions, CacheShape(t), tx'[t] = tx[t],
         Sees(t)' = Sees(t), \A j \in Sees(t) : rows'[j].by = rows[j].by,
         \A j \in Sees(t) : rows'[j].sign = rows[j].sign,
         tx[t].stage = "lines" => rows'[tx[t].id].lines = rows[tx[t].id].lines,
         \A a \in Accounts : held[a] = t => held'[a] = t /\ draft'[a] = draft[a],
         tx[t].stage = "lines" =>
           \A i \in 1 .. Cardinality(Accounts) : rows[tx[t].id].lines[i] \in Accounts
  PROVE  CacheShape(t)'
<1>1. PostedFor(t)' = PostedFor(t)
  BY PostedForKept
<1>2. \A j \in PostedFor(t) : rows'[j].sign = rows[j].sign
  BY DEF PostedFor
<1>3. \A a \in Accounts : Total(a, PostedFor(t))' = Total(a, PostedFor(t))
  BY <1>1, <1>2, TotalKept
<1> QED BY <1>3 DEF CacheShape

LEMMA LinesTyped ==
  ASSUME TypeInv, NEW t \in Sessions, tx[t].stage = "lines"
  PROVE  \A i \in 1 .. Cardinality(Accounts) : rows[tx[t].id].lines[i] \in Accounts
<1>1. tx[t].id \in Ids /\ rows[tx[t].id].lines \in Orders
  BY TxFacts DEF TypeInv, TypeOK, ShapeInv, CallShape, Busy, Stages
<1> QED BY <1>1, OrderFacts

BalanceOK == \A a \in Accounts : ~healed[a] => balance[a] = Total(a, Posted)

LEMMA BalanceKept ==
  ASSUME BalanceOK, balance' = balance, healed' = healed, Committed' = Committed,
         \A j \in Committed : rows'[j].by = rows[j].by /\ rows'[j].sign = rows[j].sign
  PROVE  BalanceOK'
<1>1. Posted' = Posted
  BY DEF Posted
<1>2. \A a \in Accounts : Total(a, Posted)' = Total(a, Posted)
  <2>1. \A j \in Posted : rows'[j].sign = rows[j].sign
    BY DEF Posted
  <2> QED BY <1>1, <2>1, TotalKept
<1> QED BY <1>2 DEF BalanceOK

(* A quiet step moves the line counter only when it writes a line. *)
LEMMA QuietNext ==
  ASSUME TypeInv, NEW s \in Sessions, QuietStep(s), ~WriteLine(s), tx[s].next = 1
  PROVE  tx'[s].next = 1
<1>0. tx \in [Sessions -> Transactions]
  BY DEF TypeInv, TypeOK
<1>1. ASSUME NEW k, NEW o, NEW stage, Start(s, k, o, stage)
      PROVE  tx'[s].next = 1
  <2>1. CASE \E id \in Free :
               tx' = [tx EXCEPT ![s].stage = stage, ![s].calls = @ + 1, ![s].key = k,
                                ![s].target = o, ![s].id = id]
    BY <1>0, <2>1 DEF Transactions
  <2>2. CASE tx' = [tx EXCEPT ![s].stage = "returned", ![s].calls = @ + 1]
    BY <1>0, <2>2 DEF Transactions
  <2> QED BY <1>1, <2>1, <2>2 DEF Start
<1>2. CASE StartPost(s) \/ StartReverse(s)
  BY <1>1, <1>2 DEF StartPost, StartReverse
<1>3. CASE Return(s)
  BY <1>0, <1>3 DEF Return, Transactions
<1>4. ASSUME NEW stage, Goto(s, stage) PROVE tx'[s].next = 1
  BY <1>0, <1>4 DEF Goto, Transactions
<1>5. CASE tx' = [tx EXCEPT ![s].stage = "period", ![s].seen = Committed]
  BY <1>0, <1>5 DEF Transactions
<1>6. CASE CheckReference(s) \/ ReadOriginal(s)
  BY <1>3, <1>5, <1>6 DEF CheckReference, ReadOriginal
<1>7. CASE CheckPeriod(s) \/ LockNumber(s)
  BY <1>3, <1>4, <1>7 DEF CheckPeriod, LockNumber
<1>8. CASE ReadNumber(s)
  BY <1>0, <1>8 DEF ReadNumber, Transactions
<1> QED BY <1>2, <1>6, <1>7, <1>8 DEF QuietStep

LEMMA CacheQuiet ==
  ASSUME TypeInv, RowInv, LockInv, CacheInv, NEW s \in Sessions, QuietStep(s)
  PROVE  CacheInv'
<1>0. /\ Quiet(s) /\ AllQuiet /\ rows' = rows /\ Committed' = Committed
      /\ \A t \in Sessions : Sees(t)' = Sees(t) /\ CacheShape(t)
      /\ BalanceOK
  BY QuietSteps, QuietViews DEF Quiet, CacheInv, BalanceOK
<1>1. BalanceOK'
  <2>1. balance' = balance /\ healed' = healed
    BY StartFacts, CheckReferenceFacts, ReadOriginalFacts, CheckPeriodFacts,
       LockNumberFacts, ReadNumberFacts, WriteLineMoves DEF QuietStep, Others
  <2> QED BY <1>0, <2>1, BalanceKept
<1>2. CASE WriteLine(s)
  <2>1. PICK a \in Accounts : a = NextAccount(s)
    BY <1>2, WriteLineFacts
  <2>2. /\ held[a] \in {None, s} /\ held'[a] = s
        /\ \A b \in Accounts \ {a} : held'[b] = held[b] /\ draft'[b] = draft[b]
        /\ tx[s].stage = "lines" /\ tx[s].next <= Cardinality(Accounts)
    BY <1>2, <2>1 DEF WriteLine, TypeInv, TypeOK
  <2>3. ASSUME NEW t \in Sessions, t # s PROVE CacheShape(t)'
    <3>1. t # None /\ tx'[t] = tx[t]
      BY <1>0, <2>3 DEF Quiet
    <3>2. \A b \in Accounts : held[b] = t => held'[b] = t /\ draft'[b] = draft[b]
      BY <2>2, <2>3, <3>1
    <3> QED BY <1>0, <3>1, <3>2, CacheKept, LinesTyped
  <2>4. CacheShape(s)'
    <3>1. /\ tx'[s].stage = "lines" /\ tx'[s].id = tx[s].id /\ tx'[s].next = tx[s].next + 1
      BY <1>2, WriteLineMoves DEF GoesOn
    <3>2. ASSUME NEW i \in 1 .. Cardinality(Accounts), i < tx[s].next + 1
          PROVE  held'[rows[tx[s].id].lines[i]] = s
      <4>1. CASE i = tx[s].next
        BY <2>1, <2>2, <4>1 DEF NextAccount
      <4>2. CASE i # tx[s].next
        <5>1. i < tx[s].next
          <6>1. tx[s].next \in Nat /\ i \in Nat
            BY TxFacts, CountFacts DEF TypeInv, TypeOK
          <6> QED BY <3>2, <4>2, <6>1
        <5>2. held[rows[tx[s].id].lines[i]] = s /\ rows[tx[s].id].lines[i] \in Accounts
          BY <1>0, <2>2, <5>1, LinesTyped DEF CacheShape
        <5> QED BY <2>2, <5>2
      <4> QED BY <4>1, <4>2
    <3> QED BY <1>0, <3>1, <3>2 DEF CacheShape
  <2> QED BY <1>1, <2>3, <2>4 DEF CacheInv, BalanceOK
<1>3. CASE ~WriteLine(s)
  <2>1. /\ UNCHANGED Others
        /\ tx[s].stage # "lines" /\ tx'[s].stage # "lines"
    BY <1>3, StartFacts, CheckReferenceFacts, ReadOriginalFacts, CheckPeriodFacts,
       LockNumberFacts, ReadNumberFacts DEF QuietStep, GoesOn
  <2>2. held' = held /\ draft' = draft
    BY <2>1 DEF Others
  <2>3. ASSUME NEW t \in Sessions, t # s PROVE CacheShape(t)'
    BY <1>0, <2>2, <2>3, CacheKept, LinesTyped DEF Quiet
  <2>4. CacheShape(s)'
    <3>1. tx'[s].next = 1
      BY <1>0, <1>3, <2>1, QuietNext DEF CacheShape
    <3>2. PostedFor(s)' = PostedFor(s)
      BY <1>0, QuietViews
    <3>3. \A a \in Accounts : Total(a, PostedFor(s))' = Total(a, PostedFor(s))
      BY <1>0, <3>2, TotalKept
    <3> QED BY <1>0, <2>1, <2>2, <3>1, <3>3 DEF CacheShape, Quiet
  <2> QED BY <1>1, <2>3, <2>4 DEF CacheInv, BalanceOK
<1> QED BY <1>2, <1>3

LEMMA CacheInsert ==
  ASSUME TypeInv, RowInv, LockInv, CacheInv, NEW s \in Sessions, NEW order \in Orders,
         InsertStep(s, order)
  PROVE  CacheInv'
<1>1. PICK id \in Ids : id = tx[s].id
  BY InsertsMoves DEF InsertStep
<1>2. /\ rows[id].state = "unused"
      /\ \A j \in Ids \ {id} : rows'[j] = rows[j]
      /\ \A t \in Sessions \ {s} : tx'[t] = tx[t]
      /\ Committed' = Committed /\ tx'[s].stage = "lines" /\ tx'[s].next = tx[s].next
      /\ tx[s].stage = "insert" /\ UNCHANGED Others
  BY <1>1, InsertsMoves DEF InsertStep
<1>3. \A j \in Committed : rows'[j] = rows[j]
  BY <1>2, CommittedFacts DEF Committed
<1>4. BalanceOK'
  BY <1>2, <1>3, BalanceKept DEF Others, CacheInv, BalanceOK
<1>5. ASSUME NEW t \in Sessions, t # s PROVE CacheShape(t)'
  <2>1. \A j \in tx[t].inserted : j \in Ids /\ j # id
    BY <1>2, TxFacts DEF TypeInv, TypeOK, ShapeInv, CallShape
  <2>2. tx'[t] = tx[t] /\ Sees(t)' = Sees(t)
    BY <1>2, <1>5 DEF Sees
  <2>3. \A j \in Sees(t) : rows'[j] = rows[j]
    BY <1>2, <1>3, <2>1 DEF Sees
  <2>4. tx[t].stage = "lines" => rows'[tx[t].id] = rows[tx[t].id]
    <3>1. tx[t].stage = "lines" => tx[t].id \in tx[t].inserted
      BY DEF TypeInv, ShapeInv, CallShape
    <3> QED BY <1>2, <2>1, <3>1
  <2>5. CacheShape(t) /\ held' = held /\ draft' = draft
    BY <1>2 DEF CacheInv, Others
  <2> QED BY <2>2, <2>3, <2>4, <2>5, CacheKept, LinesTyped
<1>6. CacheShape(s)'
  <2>1. tx[s].next = 1
    BY <1>2 DEF CacheInv, CacheShape
  <2> QED BY <1>2, <2>1, CountFacts DEF CacheShape
<1> QED BY <1>4, <1>5, <1>6 DEF CacheInv, BalanceOK

(* All the lines of a journal written, its transaction holds every account. *)
LEMMA AllHeld ==
  ASSUME TypeInv, CacheInv, NEW s \in Sessions, Finish(s), NEW a \in Accounts
  PROVE  held[a] = s
<1>1. /\ tx[s].stage = "lines" /\ tx[s].next > Cardinality(Accounts)
      /\ tx[s].next \in Nat /\ Cardinality(Accounts) \in Nat
  BY TxFacts, CountFacts DEF Finish, TypeInv, TypeOK
<1>2. rows[tx[s].id].lines \in Orders
  BY <1>1, TxFacts DEF TypeInv, TypeOK, ShapeInv, CallShape, Busy, Stages
<1>3. PICK i \in 1 .. Cardinality(Accounts) : rows[tx[s].id].lines[i] = a
  BY <1>2 DEF Orders
<1>4. i < tx[s].next
  BY <1>1
<1> QED BY <1>1, <1>3, <1>4 DEF CacheInv, CacheShape

LEMMA CacheFinish ==
  ASSUME TypeInv, RowInv, LockInv, CacheInv, NEW s \in Sessions, Finish(s)
  PROVE  CacheInv'
<1>1. /\ rows' = rows /\ held' = held /\ balance' = balance /\ healed' = healed
      /\ Committed' = Committed
  BY DEF Finish, Committed
<1>2. /\ \A t \in Sessions \ {s} : tx'[t] = tx[t]
      /\ tx'[s].stage = "returned" /\ tx'[s].next = 1
      /\ tx'[s].inserted = tx[s].inserted
      /\ tx'[s].marks = IF tx[s].target = None THEN tx[s].marks
                        ELSE tx[s].marks \cup {<<tx[s].target, tx[s].id>>}
      /\ draft' = [a \in Accounts |-> Total(a, PostedFor(s) \ {tx[s].target})]
  BY FinishFacts
<1>3. BalanceOK'
  BY <1>1, BalanceKept DEF CacheInv, BalanceOK
<1>4. ASSUME NEW t \in Sessions, t # s PROVE CacheShape(t)'
  <2>1. CacheShape(t) /\ tx'[t] = tx[t]
    BY <1>2, <1>4 DEF CacheInv
  <2>2. Sees(t)' = Sees(t)
    BY <1>1, <2>1 DEF Sees
  <2>3. \A a \in Accounts : held[a] # t
    BY <1>4, AllHeld
  <2> QED BY <1>1, <2>1, <2>2, <2>3, CacheKept, LinesTyped
<1>5. CacheShape(s)'
  <2>1. Sees(s)' = Sees(s)
    BY <1>1, <1>2 DEF Sees
  <2>2. ASSUME NEW j \in Sees(s)
        PROVE  ByFor(s, j)' = None <=> ByFor(s, j) = None /\ j # tx[s].target
    <3>0. j \in Ids /\ j # None
      BY CommittedFacts, TxFacts DEF Sees, TypeInv, TypeOK
    <3>1. TypeInv'
      BY FinishShape
    <3>2. \/ Marked(s, j) /\ ByFor(s, j) \in Ids
          \/ ~Marked(s, j) /\ ByFor(s, j) = rows[j].by
      BY <3>0, ByForCases
    <3>3. \/ Marked(s, j)' /\ ByFor(s, j)' # None
          \/ ~Marked(s, j)' /\ ByFor(s, j)' = rows[j].by
      <4>1. CASE Marked(s, j)'
        <5>1. (CHOOSE m \in tx'[s].marks : m[1] = j) \in tx'[s].marks
          BY <4>1 DEF Marked
        <5>2. tx'[s].marks \subseteq Ids \X Ids
          BY <3>1, TxFacts DEF TypeInv, TypeOK
        <5>3. (CHOOSE m \in tx'[s].marks : m[1] = j)[2] \in Ids
          BY <5>1, <5>2
        <5>4. ByFor(s, j)' = (CHOOSE m \in tx'[s].marks : m[1] = j)[2]
          BY <4>1 DEF ByFor
        <5> QED BY <4>1, <5>3, <5>4
      <4>2. CASE ~Marked(s, j)'
        BY <1>1, <4>2 DEF ByFor
      <4> QED BY <4>1, <4>2
    <3>4. Marked(s, j)' <=> Marked(s, j) \/ j = tx[s].target
      <4>1. CASE tx[s].target = None
        BY <1>2, <3>0, <4>1 DEF Marked
      <4>2. CASE tx[s].target # None
        <5>1. tx'[s].marks = tx[s].marks \cup {<<tx[s].target, tx[s].id>>}
          BY <1>2, <4>2
        <5> DEFINE n == <<tx[s].target, tx[s].id>>
        <5>2. n[1] = tx[s].target
          OBVIOUS
        <5> HIDE DEF n
        <5>3. \A m : m \in tx'[s].marks <=> m \in tx[s].marks \/ m = n
          BY <5>1 DEF n
        <5> QED BY <5>2, <5>3 DEF Marked
      <4> QED BY <4>1, <4>2
    <3> QED BY <3>0, <3>2, <3>3, <3>4
  <2>3. PostedFor(s)' = PostedFor(s) \ {tx[s].target}
    BY <2>1, <2>2 DEF PostedFor
  <2>4. \A a \in Accounts :
          Total(a, PostedFor(s))' = Total(a, PostedFor(s) \ {tx[s].target})
    BY <1>1, <2>3, TotalKept
  <2> QED BY <1>1, <1>2, <2>4, AllHeld DEF CacheShape
<1> QED BY <1>3, <1>4, <1>5 DEF CacheInv, BalanceOK

LEMMA CacheCommit ==
  ASSUME TypeInv, RowInv, LockInv, CacheInv, NEW s \in Sessions, Commit(s)
  PROVE  CacheInv'
<1>1. /\ tx'[s] = Idle
      /\ \A t \in Sessions \ {s} : tx'[t] = tx[t]
      /\ Committed' = Committed \cup tx[s].inserted
      /\ \A j \in Ids : /\ rows'[j].by = ByFor(s, j) /\ rows'[j].sign = rows[j].sign
                        /\ rows'[j].lines = rows[j].lines
  BY CommitFacts
<1>2. /\ draft' = draft /\ tx[s].stage = "returned"
      /\ \A a \in Accounts :
           /\ held'[a] = IF held[a] = s THEN None ELSE held[a]
           /\ balance'[a] = IF held[a] = s THEN draft[a] ELSE balance[a]
           /\ healed'[a] <=> healed[a] /\ held[a] # s
  BY DEF Commit, Unlocked
<1>3. /\ \A t \in Sessions : CacheShape(t) /\ MarkShape(t) /\ LockShape(t)
      /\ BalanceOK
      /\ \A t \in Sessions : Sees(t) \subseteq Ids
      /\ \A a \in Accounts : balance'[a] = balance[a] \/ held[a] = s
  BY <1>2, CommittedFacts, TxFacts
     DEF CacheInv, BalanceOK, RowInv, LockInv, Sees, TypeInv, TypeOK
<1>4. ASSUME tx[s].inserted = {}
      PROVE  /\ Committed' = Committed
             /\ \A j \in Ids : rows'[j].by = rows[j].by
             /\ \A a \in Accounts : held[a] # s
  <2>1. \A j \in Ids : ~Marked(s, j)
    BY <1>3, <1>4 DEF MarkShape, Marked
  <2> QED BY <1>1, <1>3, <1>4, <2>1, ByForCases DEF LockShape
<1>5. ASSUME NEW t \in Sessions, t # s PROVE CacheShape(t)'
  <2>1. CASE tx[s].inserted = {} \/ Accounts = {}
    <3>1. CASE tx[s].inserted = {}
      <4>1. Sees(t)' = Sees(t)
        BY <1>1, <1>4, <1>5, <3>1 DEF Sees
      <4>2. \A a \in Accounts : held[a] = t => held'[a] = t /\ draft'[a] = draft[a]
        BY <1>2, <1>5
      <4>3. tx[t].stage = "lines" => rows'[tx[t].id].lines = rows[tx[t].id].lines
        <5>1. tx[t].stage = "lines" => tx[t].id \in Ids
          BY DEF TypeInv, ShapeInv, CallShape, Busy, Stages
        <5> QED BY <1>1, <5>1
      <4> QED BY <1>1, <1>3, <1>4, <1>5, <3>1, <4>1, <4>2, <4>3, CacheKept, LinesTyped
    <3>2. CASE Accounts = {}
      <4>1. tx'[t] = tx[t] /\ CacheShape(t)
        BY <1>1, <1>3, <1>5
      <4>2. Cardinality(Accounts) = 0
        BY <3>2, FS_EmptySet
      <4> QED BY <3>2, <4>1, <4>2 DEF CacheShape
    <3> QED BY <2>1, <3>1, <3>2
  <2>2. CASE tx[s].inserted # {} /\ Accounts # {}
    <3>1. \A a \in Accounts : held[a] = s
      BY <1>2, <1>3, <2>2 DEF CacheShape
    <3>2. tx[t].inserted = {} \/ tx[t].stage = "lines"
      BY <1>3, <1>5, <2>2, <3>1 DEF CacheShape
    <3>3. tx'[t] = tx[t] /\ t # None
      BY <1>1, <1>5
    <3>4. tx[t].stage = "lines" =>
            \A i \in 1 .. Cardinality(Accounts) : ~(i < tx[t].next)
      BY <1>3, <1>5, <3>1, LinesTyped DEF CacheShape
    <3> QED BY <1>3, <3>2, <3>3, <3>4 DEF CacheShape
  <2> QED BY <2>1, <2>2
<1>6. CacheShape(s)'
  <2>1. Idle.stage = "idle" /\ Idle.inserted = {} /\ Idle.next = 1
    BY DEF Idle
  <2> QED BY <1>1, <2>1 DEF CacheShape
<1>7. BalanceOK'
  <2>1. CASE tx[s].inserted = {}
    <3>1. Posted' = Posted
      BY <1>4, <2>1, CommittedFacts DEF Posted
    <3>2. \A a \in Accounts : Total(a, Posted)' = Total(a, Posted)
      <4>1. \A j \in Posted : rows'[j].sign = rows[j].sign
        BY <1>1, CommittedFacts DEF Posted
      <4> QED BY <3>1, <4>1, TotalKept
    <3> QED BY <1>2, <1>3, <1>4, <2>1, <3>2 DEF BalanceOK
  <2>2. CASE tx[s].inserted # {}
    <3>1. Posted' = PostedFor(s)
      <4>1. Committed' = Sees(s)
        BY <1>1 DEF Sees
      <4>2. \A j \in Sees(s) : rows'[j].by = ByFor(s, j)
        BY <1>1, <1>3
      <4>3. Posted' = {j \in Committed' : rows'[j].by = None}
        BY DEF Posted
      <4> QED BY <4>1, <4>2, <4>3 DEF PostedFor
    <3>2. \A a \in Accounts : Total(a, Posted)' = Total(a, PostedFor(s))
      <4>1. \A j \in PostedFor(s) : rows'[j].sign = rows[j].sign
        BY <1>1, <1>3 DEF PostedFor
      <4> QED BY <3>1, <4>1, TotalKept
    <3>3. \A a \in Accounts : held[a] = s /\ draft[a] = Total(a, PostedFor(s))
      BY <1>2, <1>3, <2>2 DEF CacheShape
    <3> QED BY <1>2, <3>2, <3>3 DEF BalanceOK
  <2> QED BY <2>1, <2>2
<1> QED BY <1>5, <1>6, <1>7 DEF CacheInv, BalanceOK

LEMMA CacheRollback ==
  ASSUME TypeInv, RowInv, LockInv, CacheInv, NEW s \in Sessions, Rollback(s)
  PROVE  CacheInv'
<1>1. /\ \A j \in Ids \ tx[s].inserted : rows'[j] = rows[j]
      /\ tx'[s] = Idle
      /\ \A t \in Sessions \ {s} : tx'[t] = tx[t]
      /\ Committed' = Committed
  BY RollbackFacts
<1>2. /\ balance' = balance /\ healed' = healed
      /\ \A a \in Accounts : /\ held'[a] = IF held[a] = s THEN None ELSE held[a]
                             /\ draft'[a] = IF held[a] = s THEN balance[a] ELSE draft[a]
  BY DEF Rollback, Unlocked
<1>3. \A j \in Committed : rows'[j] = rows[j]
  <2>1. \A j \in Committed : j \in Ids /\ j \notin tx[s].inserted
    BY DEF Committed, TypeInv, ShapeInv, CallShape
  <2> QED BY <1>1, <2>1
<1>4. BalanceOK'
  BY <1>1, <1>2, <1>3, BalanceKept DEF CacheInv, BalanceOK
<1>5. ASSUME NEW t \in Sessions, t # s PROVE CacheShape(t)'
  <2>1. CacheShape(t) /\ tx'[t] = tx[t] /\ Sees(t)' = Sees(t)
    BY <1>1, <1>5 DEF CacheInv, Sees
  <2>2. \A j \in tx[t].inserted : rows'[j] = rows[j]
    <3>1. tx[t].inserted \subseteq Ids /\ tx[s].inserted \cap tx[t].inserted = {}
      BY <1>5, TxFacts DEF TypeInv, TypeOK, ShapeInv, Apart
    <3> QED BY <1>1, <3>1
  <2>3. \A j \in Sees(t) : rows'[j] = rows[j]
    BY <1>3, <2>2 DEF Sees
  <2>4. tx[t].stage = "lines" => rows'[tx[t].id] = rows[tx[t].id]
    BY <2>2 DEF TypeInv, ShapeInv, CallShape
  <2>5. \A a \in Accounts : held[a] = t => held'[a] = t /\ draft'[a] = draft[a]
    BY <1>2, <1>5
  <2> QED BY <2>1, <2>3, <2>4, <2>5, CacheKept, LinesTyped
<1>6. CacheShape(s)'
  <2>1. Idle.stage = "idle" /\ Idle.inserted = {} /\ Idle.next = 1
    BY DEF Idle
  <2> QED BY <1>1, <2>1 DEF CacheShape
<1> QED BY <1>4, <1>5, <1>6 DEF CacheInv, BalanceOK

LEMMA CacheBeside ==
  ASSUME TypeInv, CacheInv, Beside
  PROVE  CacheInv'
<1>1. rows' = rows /\ tx' = tx /\ held' = held /\ Committed' = Committed
  BY DEF Beside, Committed
<1>2. ASSUME \A a \in Accounts : held[a] # None => draft'[a] = draft[a],
             NEW t \in Sessions
      PROVE  CacheShape(t)'
  <2>1. CacheShape(t) /\ Sees(t)' = Sees(t) /\ t # None
    BY <1>1 DEF CacheInv, Sees
  <2> QED BY <1>1, <1>2, <2>1, CacheKept, LinesTyped
<1>3. ASSUME draft' = draft, balance' = balance, healed' = healed
      PROVE  CacheInv'
  <2>1. BalanceOK'
    BY <1>1, <1>3, BalanceKept DEF CacheInv, BalanceOK
  <2> QED BY <1>2, <1>3, <2>1 DEF CacheInv, BalanceOK
<1>4. CASE LockPeriod \/ HealRead \/ UNCHANGED vars
  BY <1>3, <1>4 DEF LockPeriod, HealRead, vars
<1>5. CASE HealWrite
  <2>1. /\ heal.account \in Accounts /\ held[heal.account] = None
        /\ draft \in [Accounts -> Int] /\ balance \in [Accounts -> Int]
        /\ healed \in [Accounts -> BOOLEAN]
    BY <1>5 DEF HealWrite, TypeInv, TypeOK
  <2>2. \/ draft' = draft /\ balance' = balance /\ healed' = healed
        \/ /\ healed'[heal.account]
           /\ \A a \in Accounts \ {heal.account} :
                /\ draft'[a] = draft[a] /\ balance'[a] = balance[a]
                /\ healed'[a] <=> healed[a]
    BY <1>5, <2>1 DEF HealWrite
  <2>3. CASE /\ healed'[heal.account]
             /\ \A a \in Accounts \ {heal.account} :
                  /\ draft'[a] = draft[a] /\ balance'[a] = balance[a]
                  /\ healed'[a] <=> healed[a]
    <3>1. Posted' = Posted
      BY <1>1 DEF Posted
    <3>2. \A a \in Accounts : Total(a, Posted)' = Total(a, Posted)
      BY <1>1, <3>1, TotalKept
    <3>3. BalanceOK'
      BY <2>3, <3>2 DEF CacheInv, BalanceOK
    <3> QED BY <1>2, <2>1, <2>3, <3>3 DEF CacheInv, BalanceOK
  <2> QED BY <1>3, <2>2, <2>3
<1> QED BY <1>4, <1>5 DEF Beside

LEMMA CacheStays ==
  TypeInv /\ RowInv /\ LockInv /\ CacheInv /\ [Next]_vars => CacheInv'
BY StepCases, CacheQuiet, CacheInsert, CacheFinish, CacheCommit, CacheRollback, CacheBeside

LEMMA CacheStarts == Init => CacheInv
<1> SUFFICES ASSUME Init PROVE CacheInv
  OBVIOUS
<1>1. Posted = {}
  BY DEF Init, Posted, Committed, Unused
<1>2. ASSUME NEW a \in Accounts PROVE Total(a, Posted) = 0
  <2>1. {j \in Posted : rows[j].sign = 1} = {} /\ {j \in Posted : rows[j].sign = -1} = {}
    BY <1>1
  <2>2. Side[a] * (0 - 0) = 0
    <3>1. Side[a] \in {1, -1}
      OBVIOUS
    <3> QED BY <3>1
  <2> QED BY <2>1, <2>2, FS_EmptySet DEF Total
<1>3. \A s \in Sessions : CacheShape(s)
  BY DEF Init, CacheShape, Idle
<1> QED BY <1>2, <1>3 DEF Init, CacheInv

(* Whatever journals, reversals, rollbacks and repairs cross, and in whatever order
   they lock their accounts, the committed balance of an account that a journal
   wrote last is the sum of its POSTED journals: no increment is lost or counted
   twice. *)
THEOREM CacheFollowsPostedJournals == Spec => []CacheIsPostedSum
<1>1. CacheInv => CacheIsPostedSum
  BY DEF CacheInv, CacheIsPostedSum, Posted
<1> QED BY <1>1, RowsHold, LocksHold, CacheStarts, CacheStays, PTL DEF Spec
===========================================================================
