---------------------------- MODULE JournalLedger ----------------------------
(***************************************************************************)
(* The general ledger under concurrent transactions:                       *)
(* AccountingCore.createJournalEntry and reverseTransaction                *)
(* (SamplePOS.Server/src/services/accountingCore.ts), the account cache    *)
(* that apBalanceGovernance.ts writes after every journal, and the repair  *)
(* rebaseAccountBalances of modules/system/glRepairService.ts.             *)
(*                                                                         *)
(* A session runs one database transaction at a time, of one call or of    *)
(* several (a caller that passes its client).  The isolation is READ       *)
(* COMMITTED: a statement sees what was committed when it starts and what  *)
(* its own transaction wrote.  Each statement that decides something or    *)
(* takes a lock is an action; locks are kept until the transaction ends.   *)
(*                                                                         *)
(* Amounts are one unit: a journal moves +1 or -1 on every account, times  *)
(* the side of the account.  Period balances are modelled in PeriodBalance.*)
(***************************************************************************)
EXTENDS Integers, FiniteSets, Sequences

CONSTANTS Sessions,     \* connections with a transaction of their own
          Keys,         \* idempotency keys of business postings
          RefOf,        \* the business reference each of those keys stands for
          ReversalKeys, \* idempotency keys of reversals
          Accounts,     \* the accounts every journal touches
          Side,         \* +1 for the debited account, -1 for the credited one
          MaxJournals,  \* bound: journals committed or in progress
          MaxCalls,     \* bound: calls of one transaction
          MayHeal,      \* whether rebaseAccountBalances is run
          None

Ids == 1 .. MaxJournals
AllKeys == Keys \cup ReversalKeys

\* The order of a journal's lines.
Orders == {o \in [1 .. Cardinality(Accounts) -> Accounts] :
             \A a \in Accounts : \E i \in DOMAIN o : o[i] = a}

ASSUME ConstantsAssumption ==
  /\ IsFiniteSet(Sessions) /\ IsFiniteSet(Accounts)
  /\ MaxJournals \in Nat /\ MaxCalls \in Nat \ {0}
  /\ Side \in [Accounts -> {1, -1}]
  /\ MayHeal \in BOOLEAN
  /\ Keys \subseteq DOMAIN RefOf
  /\ Keys \cap ReversalKeys = {}
  /\ None \notin AllKeys \cup Sessions \cup Ids \cup {RefOf[k] : k \in Keys}

VARIABLES rows,       \* table ledger_transactions with its entries
          tx,         \* the transaction of each session
          numberLock, \* holder of the advisory lock on transaction numbers
          held,       \* holder of the lock on each row of accounts
          draft,      \* CurrentBalance as the holder of that lock has written it
          balance,    \* CurrentBalance as committed
          healed,     \* history: the repair wrote this balance last
          heal,       \* the running repair: an account and the sum read for it
          period,     \* the status of the financial period
          overlapped  \* history: transactions past the period check at its lock

vars == <<rows, tx, numberLock, held, draft, balance, healed, heal, period, overlapped>>

(***************************************************************************)
(* A row of ledger_transactions.  `key' None is a key renamed              *)
(* '::REVERSED::'; `by' is ReversedByTransactionId, and a row has Status   *)
(* REVERSED and IsReversed exactly when it is set.  `seen' and `own' are    *)
(* history, of the read that decided the call: the journals committed then *)
(* and those that the same transaction had inserted before.                *)
(***************************************************************************)
Rows == [state    : {"unused", "pending", "posted"},
         key      : AllKeys \cup {None},
         ref      : {RefOf[k] : k \in Keys} \cup {None},
         sign     : {1, -1},
         lines    : Orders \cup {<<>>},
         reverses : Ids \cup {None},
         by       : Ids \cup {None},
         number   : Nat,
         seen     : SUBSET Ids,
         own      : SUBSET Ids]

Unused == [state |-> "unused", key |-> None, ref |-> None, sign |-> 1, lines |-> <<>>,
           reverses |-> None, by |-> None, number |-> 0, seen |-> {}, own |-> {}]

Stages == {"idle", "reference", "original", "period", "lock", "number",
           "insert", "lines", "returned"}

(***************************************************************************)
(* `calls' counts the calls of the transaction, the fields up to `seen'    *)
(* describe the current one, and `inserted' and `marks' are the rows it    *)
(* inserted and the pairs <<original, reversal>> it marked.                *)
(***************************************************************************)
Transactions == [stage    : Stages,
                 calls    : 0 .. MaxCalls,
                 key      : AllKeys \cup {None},
                 target   : Ids \cup {None},
                 id       : Ids \cup {None},
                 next     : 1 .. Cardinality(Accounts) + 1,
                 number   : Nat,
                 seen     : SUBSET Ids,
                 inserted : SUBSET Ids,
                 marks    : SUBSET (Ids \X Ids)]

Idle == [stage |-> "idle", calls |-> 0, key |-> None, target |-> None, id |-> None,
         next |-> 1, number |-> 0, seen |-> {}, inserted |-> {}, marks |-> {}]

Init ==
  /\ rows = [j \in Ids |-> Unused]
  /\ tx = [s \in Sessions |-> Idle]
  /\ numberLock = None
  /\ held = [a \in Accounts |-> None]
  /\ draft = [a \in Accounts |-> 0]
  /\ balance = [a \in Accounts |-> 0]
  /\ healed = [a \in Accounts |-> FALSE]
  /\ heal = None
  /\ period = "OPEN"
  /\ overlapped = {}

---------------------------------------------------------------------------
(* What a statement sees. *)

Committed == {j \in Ids : rows[j].state = "posted"}

Sees(s) == Committed \cup tx[s].inserted

\* Session s has updated journal j to REVERSED.
Marked(s, j) == \E m \in tx[s].marks : m[1] = j

\* ReversedByTransactionId, as session s sees it: its own update covers another's.
ByFor(s, j) == IF Marked(s, j)
                 THEN (CHOOSE m \in tx[s].marks : m[1] = j)[2]
                 ELSE rows[j].by

\* Status POSTED, as session s sees it.
PostedFor(s) == {j \in Sees(s) : ByFor(s, j) = None}

\* ACTIVE_GL_REFERENCE_PREDICATE_BARE.
ActiveFor(s) == PostedFor(s) \ {ByFor(s, j) : j \in Sees(s)}

\* LEDGER_NET_ACTIVE_SQL, outside of every transaction.
NetActive == {j \in Committed : rows[j].by = None} \ {rows[j].by : j \in Committed}

\* SUM(DebitAmount) - SUM(CreditAmount) of the journals in S on account a.
Total(a, S) == Side[a] * (Cardinality({j \in S : rows[j].sign = 1})
                          - Cardinality({j \in S : rows[j].sign = -1}))

\* A mutant of KeyHolders: the key is looked up but not unique in the table.
NobodyHolds(s) == {}

\* A row with the key is being written by another transaction: the unique index
\* makes the insert wait for its end.
KeyHolders(s) == {t \in Sessions \ {s} :
                    \/ \E j \in tx[t].inserted : rows[j].key = tx[s].key
                    \/ \E m \in tx[t].marks : rows[m[1]].key = tx[s].key}

Reserved == {tx[s].id : s \in Sessions}
Free == {j \in Ids : rows[j].state = "unused" /\ j \notin Reserved}

---------------------------------------------------------------------------
(* Ends of a call and of a transaction. *)

Goto(s, stage) == tx' = [tx EXCEPT ![s].stage = stage]

\* The call is over, with a result or an error that no statement of the database
\* raised: the caller may commit, go on with another call, or roll back (Abort).
Return(s) == tx' = [tx EXCEPT ![s].stage = "returned", ![s].id = None, ![s].next = 1,
                              ![s].key = None, ![s].target = None, ![s].number = 0,
                              ![s].seen = {}]

Unlocked(s) == [a \in Accounts |-> IF held[a] = s THEN None ELSE held[a]]

\* ROLLBACK: what the transaction inserted is gone and its locks are free.
Rollback(s) ==
  /\ rows' = [j \in Ids |-> IF j \in tx[s].inserted THEN Unused ELSE rows[j]]
  /\ tx' = [tx EXCEPT ![s] = Idle]
  /\ numberLock' = IF numberLock = s THEN None ELSE numberLock
  /\ held' = Unlocked(s)
  /\ draft' = [a \in Accounts |-> IF held[a] = s THEN balance[a] ELSE draft[a]]
  /\ overlapped' = overlapped \ {s}
  /\ UNCHANGED <<balance, healed, heal, period>>

---------------------------------------------------------------------------
(* Mutants: plausible mistakes in the statements below, each of which one of
   the properties must expose. *)

\* The guard looks at the key's own journal only.
CheckNoReference(s) ==
  /\ tx[s].stage = "reference"
  /\ tx' = [tx EXCEPT ![s].stage = "period", ![s].seen = Committed]
  /\ UNCHANGED <<rows, numberLock, held, draft, balance, healed, heal, period, overlapped>>

\* The status of the original is not looked at.
ReadOriginalOnly(s) ==
  /\ tx[s].stage = "original"
  /\ tx' = [tx EXCEPT ![s].stage = "period", ![s].seen = Committed]
  /\ UNCHANGED <<rows, numberLock, held, draft, balance, healed, heal, period, overlapped>>

\* No check of the period: the reader trusts the caller's.
CheckNoPeriod(s) ==
  /\ tx[s].stage = "period"
  /\ Goto(s, IF tx[s].target = None THEN "lock" ELSE "number")
  /\ UNCHANGED <<rows, numberLock, held, draft, balance, healed, heal, period, overlapped>>

\* No advisory lock.
LockNothing(s) ==
  /\ tx[s].stage = "lock"
  /\ Goto(s, "number")
  /\ UNCHANGED <<rows, numberLock, held, draft, balance, healed, heal, period, overlapped>>

\* The journal is over after its lines: the cache keeps the increments.
FinishWithoutSnap(s) ==
  /\ tx[s].stage = "lines"
  /\ tx[s].next > Cardinality(Accounts)
  /\ LET t == tx[s]
         marks == IF t.target = None THEN t.marks ELSE t.marks \cup {<<t.target, t.id>>}
     IN tx' = [tx EXCEPT ![s] = [Idle EXCEPT !.stage = "returned", !.calls = t.calls,
                                   !.inserted = t.inserted, !.marks = marks]]
  /\ UNCHANGED <<rows, numberLock, held, draft, balance, healed, heal, period, overlapped>>

---------------------------------------------------------------------------
(* The statements of createJournalEntry and reverseTransaction. *)

\* checkIdempotencyKey, first statement of both: a journal of the key ends the call,
\* which returns it, or, when it is of this transaction and getTransaction does not
\* find it through the pool, throws a conflict.
Start(s, key, target, stage) ==
  LET found == {j \in PostedFor(s) : rows[j].key = key}
  IN /\ tx[s].stage \in {"idle", "returned"}
     /\ tx[s].calls < MaxCalls
     /\ Free # {}
     /\ \/ /\ found = {}
           /\ \E id \in Free :
                /\ \A j \in Free : id <= j
                /\ tx' = [tx EXCEPT ![s].stage = stage, ![s].calls = @ + 1, ![s].key = key,
                                    ![s].target = target, ![s].id = id]
           /\ UNCHANGED <<rows, numberLock, held, draft, balance, healed, heal, period,
                          overlapped>>
        \/ /\ found # {}
           /\ tx' = [tx EXCEPT ![s].stage = "returned", ![s].calls = @ + 1]
           /\ UNCHANGED <<rows, numberLock, held, draft, balance, healed, heal, period,
                          overlapped>>

StartPost(s) == \E k \in Keys : Start(s, k, None, "reference")

StartReverse(s) ==
  \E k \in ReversalKeys, j \in Sees(s) : Start(s, k, j, "original")

\* The guard "one active FI document per business reference": of the active journals
\* of the reference in sight, the one that LIMIT 1 happens to return is looked up
\* through the pool.  A committed one is the answer of the call; one of this very
\* transaction is not found there, and is no obstacle.
CheckReference(s) ==
  LET active == {j \in ActiveFor(s) : rows[j].ref = RefOf[tx[s].key]}
  IN /\ tx[s].stage = "reference"
     /\ \/ active \cap Committed # {} /\ Return(s)
        \/ /\ active = {} \/ active \cap tx[s].inserted # {}
           /\ tx' = [tx EXCEPT ![s].stage = "period", ![s].seen = Committed]
     /\ UNCHANGED <<rows, numberLock, held, draft, balance, healed, heal, period, overlapped>>

\* The original and its status, read without a lock.
ReadOriginal(s) ==
  /\ tx[s].stage = "original"
  /\ IF ByFor(s, tx[s].target) # None
       THEN Return(s)
       ELSE tx' = [tx EXCEPT ![s].stage = "period", ![s].seen = Committed]
  /\ UNCHANGED <<rows, numberLock, held, draft, balance, healed, heal, period, overlapped>>

\* isPeriodOpen.  A posting goes on to the advisory lock, a reversal does not.
CheckPeriod(s) ==
  /\ tx[s].stage = "period"
  /\ IF period # "OPEN"
       THEN Return(s)
       ELSE Goto(s, IF tx[s].target = None THEN "lock" ELSE "number")
  /\ UNCHANGED <<rows, numberLock, held, draft, balance, healed, heal, period, overlapped>>

\* pg_advisory_xact_lock: a session may take it again, the others wait.
LockNumber(s) ==
  /\ tx[s].stage = "lock"
  /\ numberLock \in {None, s}
  /\ numberLock' = s
  /\ Goto(s, "number")
  /\ UNCHANGED <<rows, held, draft, balance, healed, heal, period, overlapped>>

\* MAX(TransactionNumber) + 1.
ReadNumber(s) ==
  /\ tx[s].stage = "number"
  /\ \E last \in {rows[j].number : j \in Sees(s)} \cup {0} :
       /\ \A j \in Sees(s) : rows[j].number <= last
       /\ tx' = [tx EXCEPT ![s].stage = "insert", ![s].number = last + 1]
  /\ UNCHANGED <<rows, numberLock, held, draft, balance, healed, heal, period, overlapped>>

\* The header: a posting's lines come in the caller's order, those of a reversal in
\* the order of the original.
Header(s, order) ==
  LET t == tx[s]
      o == t.target
  IN [state |-> "pending", key |-> t.key,
      ref |-> IF o = None THEN RefOf[t.key] ELSE None,
      sign |-> IF o = None THEN 1 ELSE -rows[o].sign,
      lines |-> order, reverses |-> o, by |-> None,
      number |-> t.number, seen |-> t.seen, own |-> t.inserted]

\* INSERT of the header under the unique key: it waits for a transaction that is
\* writing the key, and is refused when the key is taken.
Insert(s) ==
  /\ tx[s].stage = "insert"
  /\ KeyHolders(s) = {}
  /\ IF \E j \in PostedFor(s) : rows[j].key = tx[s].key
       THEN Rollback(s)
       ELSE /\ \E order \in IF tx[s].target = None THEN Orders
                                                   ELSE {rows[tx[s].target].lines} :
                 rows' = [rows EXCEPT ![tx[s].id] = Header(s, order)]
            /\ tx' = [tx EXCEPT ![s].stage = "lines",
                                ![s].inserted = @ \cup {tx[s].id}]
            /\ UNCHANGED <<numberLock, held, draft, balance, healed, heal,
                           period, overlapped>>

\* One line: its entry and the UPDATE of its account, whose row stays locked.
NextAccount(s) == rows[tx[s].id].lines[tx[s].next]

WriteLine(s) ==
  /\ tx[s].stage = "lines"
  /\ tx[s].next <= Cardinality(Accounts)
  /\ LET a == NextAccount(s)
     IN /\ held[a] \in {None, s}
        /\ held' = [held EXCEPT ![a] = s]
        /\ draft' = [draft EXCEPT ![a] = @ + Side[a] * rows[tx[s].id].sign]
  /\ tx' = [tx EXCEPT ![s].next = @ + 1]
  /\ UNCHANGED <<rows, numberLock, balance, healed, heal, period, overlapped>>

\* The rest of the call: a reversal marks its original, whatever its status has
\* become, and both set the cache of their accounts to the sum of the POSTED
\* journals (rebaseAccountCachesFromPostedLedger).
Finish(s) ==
  /\ tx[s].stage = "lines"
  /\ tx[s].next > Cardinality(Accounts)
  /\ LET t == tx[s]
         marks == IF t.target = None THEN t.marks ELSE t.marks \cup {<<t.target, t.id>>}
         posted == PostedFor(s) \ {t.target}
     IN /\ draft' = [a \in Accounts |-> Total(a, posted)]
        /\ tx' = [tx EXCEPT ![s] = [Idle EXCEPT !.stage = "returned", !.calls = t.calls,
                                      !.inserted = t.inserted, !.marks = marks]]
  /\ UNCHANGED <<rows, numberLock, held, balance, healed, heal, period, overlapped>>

\* COMMIT.
Commit(s) ==
  /\ tx[s].stage = "returned"
  /\ rows' = [j \in Ids |->
                [rows[j] EXCEPT
                   !.state = IF j \in tx[s].inserted THEN "posted" ELSE @,
                   !.by    = ByFor(s, j),
                   !.key   = IF Marked(s, j) THEN None ELSE @]]
  /\ tx' = [tx EXCEPT ![s] = Idle]
  /\ numberLock' = IF numberLock = s THEN None ELSE numberLock
  /\ held' = Unlocked(s)
  /\ balance' = [a \in Accounts |-> IF held[a] = s THEN draft[a] ELSE balance[a]]
  /\ healed' = [a \in Accounts |-> healed[a] /\ held[a] # s]
  /\ overlapped' = overlapped \ {s}
  /\ UNCHANGED <<draft, heal, period>>

\* The transaction fails at any point: an error of its caller, a lost connection,
\* a deadlock that the database resolves.
Abort(s) ==
  /\ tx[s].stage # "idle"
  /\ Rollback(s)

---------------------------------------------------------------------------
(* Beside the sessions. *)

\* AccountingCore.lockPeriod.
LockPeriod ==
  /\ period = "OPEN"
  /\ period' = "LOCKED"
  /\ overlapped' = {s \in Sessions : \/ tx[s].stage \in {"lock", "number", "insert", "lines"}
                                     \/ tx[s].inserted # {}}
  /\ UNCHANGED <<rows, tx, numberLock, held, draft, balance, healed, heal>>

\* rebaseAccountBalances for one account: the statement reads the net-active sum
\* in its snapshot, ...
HealRead ==
  /\ MayHeal /\ heal = None
  /\ \E a \in Accounts : heal' = [account |-> a, sum |-> Total(a, NetActive)]
  /\ UNCHANGED <<rows, tx, numberLock, held, draft, balance, healed, period, overlapped>>

\* ... and writes it once the row of the account is free, where it differs.
HealWrite ==
  /\ heal # None
  /\ held[heal.account] = None
  /\ IF balance[heal.account] = heal.sum
       THEN UNCHANGED <<balance, draft, healed>>
       ELSE /\ balance' = [balance EXCEPT ![heal.account] = heal.sum]
            /\ draft' = [draft EXCEPT ![heal.account] = heal.sum]
            /\ healed' = [healed EXCEPT ![heal.account] = TRUE]
  /\ heal' = None
  /\ UNCHANGED <<rows, tx, numberLock, held, period, overlapped>>

Step(s) ==
  \/ StartPost(s) \/ StartReverse(s)
  \/ CheckReference(s) \/ ReadOriginal(s) \/ CheckPeriod(s)
  \/ LockNumber(s) \/ ReadNumber(s) \/ Insert(s)
  \/ WriteLine(s) \/ Finish(s) \/ Commit(s) \/ Abort(s)

\* Nothing is left to do within the bounds.
Full == /\ Free = {}
        /\ \A s \in Sessions : tx[s].stage = "idle"
        /\ UNCHANGED vars

Next == \/ \E s \in Sessions : Step(s)
        \/ LockPeriod \/ HealRead \/ HealWrite
        \/ Full

Spec == Init /\ [][Next]_vars

---------------------------------------------------------------------------
(* Properties. *)

TypeOK ==
  /\ rows \in [Ids -> Rows]
  /\ tx \in [Sessions -> Transactions]
  /\ numberLock \in Sessions \cup {None}
  /\ held \in [Accounts -> Sessions \cup {None}]
  /\ draft \in [Accounts -> Int] /\ balance \in [Accounts -> Int]
  /\ healed \in [Accounts -> BOOLEAN]
  /\ heal \in [account : Accounts, sum : Int] \cup {None}
  /\ period \in {"OPEN", "LOCKED"}
  /\ overlapped \subseteq Sessions

(* A key has one live journal: it is posted again only after a reversal has
   renamed the key of the one before. *)
OneLivePerKey ==
  \A i, j \in Committed : rows[i].key = rows[j].key /\ rows[i].key # None => i = j

(* The cached balance of an account that a journal wrote last is the sum of its
   POSTED journals, whatever increments, snaps and repairs crossed. *)
CacheIsPostedSum ==
  \A a \in Accounts :
    ~healed[a] => balance[a] = Total(a, {j \in Committed : rows[j].by = None})

(* Two active journals of one business reference: the later call did not have the
   earlier journal before it, because the two overlapped, or its transaction had
   posted to the reference itself, which the lookup through the pool does not find.
   In no other order does "one active FI document per business reference" fail. *)
DuplicatesExplained ==
  \A i, j \in NetActive :
    (i # j /\ rows[i].ref # None /\ rows[i].ref = rows[j].ref)
      => \/ i \notin rows[j].seen
         \/ \E k \in rows[j].own : rows[k].ref = rows[j].ref

(* Two reversals of one journal come from two transactions that overlapped: a
   second one is refused when the first is committed, or of its own transaction. *)
DoubleReversalsOverlapped ==
  \A i, j \in Committed :
    (i # j /\ rows[i].reverses # None /\ rows[i].reverses = rows[j].reverses)
      => i \notin rows[j].seen \cup rows[j].own /\ j \notin rows[i].seen \cup rows[i].own

(* Two journals share a transaction number only when one of them is a reversal,
   which reads the last number without the lock. *)
RepeatedNumbersAreReversals ==
  \A i, j \in Committed :
    (i # j /\ rows[i].number = rows[j].number)
      => rows[i].reverses # None \/ rows[j].reverses # None

\* Session s waits for a lock that session t holds.
WaitsFor(s, t) ==
  /\ s # t
  /\ \/ tx[s].stage = "lock" /\ numberLock = t
     \/ tx[s].stage = "insert" /\ t \in KeyHolders(s)
     \/ /\ tx[s].stage = "lines" /\ tx[s].next <= Cardinality(Accounts)
        /\ held[NextAccount(s)] = t

(* Transactions that post one journal each never wait for one another in a
   circle, in whatever order their lines touch the accounts: the lock on the
   transaction number keeps them apart.  Reversals do not take it. *)
PostingsNeverDeadlock ==
  LET single == {s \in Sessions : tx[s].calls = 1 /\ tx[s].target = None}
  IN \A C \in (SUBSET single) \ {{}} :
       \E s \in C : \A t \in C : ~WaitsFor(s, t)

(* A journal enters a locked period only from a transaction that was past its
   check of the period when the lock came. *)
LateJournalsOverlapped ==
  [][\A s \in Sessions :
       (period = "LOCKED" /\ tx[s].inserted # {} /\ rows' # rows
          /\ \E j \in tx[s].inserted : rows'[j].state = "posted")
         => s \in overlapped]_vars

(* The proof of the liquidity repair: "CurrentBalance = net-active". *)
CacheIsNetActive == \A a \in Accounts : balance[a] = Total(a, NetActive)
===========================================================================
