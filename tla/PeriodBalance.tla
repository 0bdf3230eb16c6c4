--------------------------- MODULE PeriodBalance ---------------------------
(***************************************************************************)
(* The projection of the ledger into gl_period_balances                    *)
(* (SamplePOS.Server/src/services/periodBalanceWorker.ts,                  *)
(* glPeriodRebuildService.ts, and the posting and reversal paths of        *)
(* accountingCore.ts).                                                     *)
(*                                                                         *)
(* One tenant database.  A tuple is an (account, year, month), a number    *)
(* that stands for its place in the worker's lock order.  Amounts are      *)
(* abstracted to the journals they come from: a balance is the set of      *)
(* journals it sums, {} when there is no row, and the right balance is     *)
(* the set of net-active journals that touch the tuple.                    *)
(*                                                                         *)
(* A session runs one thing at a time: a poll of the outbox (one           *)
(* transaction), a direct rebuild (each statement its own transaction), or *)
(* a journal posted or reversed inside its caller's transaction, with its  *)
(* rebuilds.  Every statement is one action and sees what was committed    *)
(* before it (READ COMMITTED).                                             *)
(***************************************************************************)
EXTENDS Integers, FiniteSets

CONSTANTS Journals,      \* journals that may be posted
          Tuples,        \* the rows of gl_period_balances, numbered
          Periods,       \* financial periods
          PeriodOf,      \* the period of each tuple
          Touches,       \* the tuples a journal's lines fall in
          Sessions,      \* database sessions
          None,          \* no journal, no tuple
          BatchSize,     \* BATCH_SIZE
          MaxRetries,    \* MAX_RETRIES
          MaxFaults,     \* bound: crashes, lost connections and failed rebuilds
          Swept,         \* does the 30 second sweep poll this database?
          Ways           \* the ways the ledger is written, a subset of AllWays

AllWays == {"own",         \* createJournalEntry in its own transaction
            "inline",      \* createJournalEntry, reverseTransaction in the caller's
            "reversal",    \* reverseTransaction in its own transaction
            "close"}       \* periods are closed and reopened

ASSUME TuplesAssumption == Tuples \subseteq Nat /\ None \notin Tuples \cup Journals
ASSUME PeriodOfAssumption == PeriodOf \in [Tuples -> Periods]
ASSUME TouchesAssumption == Touches \in [Journals -> SUBSET Tuples]
ASSUME BoundsAssumption == /\ BatchSize \in Nat \ {0}
                           /\ MaxRetries \in Nat \ {0}
                           /\ MaxFaults \in Nat
                           /\ Swept \in BOOLEAN
                           /\ Ways \subseteq AllWays

Events == {e \in Journals \X Tuples : e[2] \in Touches[e[1]]}

VARIABLES ledger,    \* the state of each journal
          event,     \* gl_projection_events: status and retry_count
          balance,   \* gl_period_balances, committed
          closed,    \* the periods that are closed or locked
          conn,      \* what each session is doing
          jobs,      \* rebuilds waiting in setImmediate
          polls,     \* polls waiting in setImmediate
          faults,    \* faults so far
          excused    \* history: tuples left wrong by an owned-up cause

vars == <<ledger, event, balance, closed, conn, jobs, polls, faults, excused>>

\* A rebuild waiting to run: the journal that asked for it, and whether an
\* event in the outbox stands behind it.
Jobs == [journal : Journals, tuple : Tuples, durable : BOOLEAN]

\* The uncommitted writes of a session: a function from the rows it has locked.
Writes == UNION {[rows -> SUBSET Journals] : rows \in SUBSET Tuples}

Conns == [kind    : {"idle", "poll", "direct", "post", "reverse"},
          own     : Journals \cup {None},  \* the journal it writes
          durable : BOOLEAN,               \* see Jobs
          claimed : SUBSET Events,         \* the events locked by the poll
          todo    : SUBSET Tuples,         \* the tuples still to rebuild
          at      : Tuples \cup {None},    \* the tuple being rebuilt
          stage   : {"check", "sum", "write"},  \* its next statement
          sum     : SUBSET Journals,       \* what its SUM returned
          writes  : Writes,
          skipped : SUBSET Tuples,         \* skipped, the period is closed
          failed  : SUBSET Tuples,         \* rolled back to the savepoint
          stale   : SUBSET Tuples]         \* history: rebuilt by another since its SUM

Idle == [kind |-> "idle", own |-> None, durable |-> TRUE, claimed |-> {}, todo |-> {},
         at |-> None, stage |-> "check", sum |-> {}, writes |-> [t \in {} |-> {}],
         skipped |-> {}, failed |-> {}, stale |-> {}]

Init ==
  /\ ledger = [j \in Journals |-> "new"]
  /\ event = [e \in Events |-> [status |-> "none", retries |-> 0]]
  /\ balance = [t \in Tuples |-> {}]
  /\ closed = {}
  /\ conn = [c \in Sessions |-> Idle]
  /\ jobs = {}
  /\ polls = 0
  /\ faults = 0
  /\ excused = {}

-----------------------------------------------------------------------------
(* What the statements see.                                                *)

\* LEDGER_NET_ACTIVE_SQL over the committed ledger.
NetActive(t) == {j \in Journals : t \in Touches[j] /\ ledger[j] = "posted"}

\* The same for session c, which also sees its own journal posted or reversed.
Visible(c, t) ==
  {j \in Journals :
     /\ t \in Touches[j]
     /\ \/ ledger[j] = "posted" /\ ~(conn[c].kind = "reverse" /\ conn[c].own = j)
        \/ conn[c].kind = "post" /\ conn[c].own = j}

Closed(t) == PeriodOf[t] \in closed

Claimed(e) == \E c \in Sessions : e \in conn[c].claimed

\* Mutant: events past their retries are claimed again.
ClaimableForEver == {e \in Events : event[e].status \in {"PENDING", "FAILED"} /\ ~Claimed(e)}

\* Mutant: failed events are never claimed again.
ClaimableOnce == {e \in Events : event[e].status = "PENDING" /\ ~Claimed(e)}

\* Events the claim's WHERE selects and SKIP LOCKED lets through.
Claimable == {e \in Events : /\ event[e].status \in {"PENDING", "FAILED"}
                             /\ event[e].retries < MaxRetries
                             /\ ~Claimed(e)}

\* The row of t has an uncommitted write of session d.
Locks(d, t) == t \in DOMAIN conn[d].writes

\* Journal j can be written: the account rows of its lines are free, and for a
\* posting the advisory lock on the transaction number too.
MayWrite(j, posting) ==
  \A d \in Sessions : conn[d].kind \in {"post", "reverse"} =>
     /\ Touches[conn[d].own] \cap Touches[j] = {}
     /\ ~(posting /\ conn[d].kind = "post")

\* Mutant: a poll takes its tuples as the claim returned them.
UnsortedTuples(c) == conn[c].todo

\* The tuples session c may rebuild next: a poll goes through them in sorted order.
NextTuples(c) == IF conn[c].kind = "poll"
                   THEN {t \in conn[c].todo : \A u \in conn[c].todo : t <= u}
                   ELSE conn[c].todo

\* The tuples session c was to rebuild and has not failed to.
Scope(c) == ({e[2] : e \in conn[c].claimed} \cup conn[c].skipped
             \cup (IF conn[c].own = None THEN {} ELSE Touches[conn[c].own])
             \cup ({conn[c].at} \ {None})) \ conn[c].failed

\* Those of them it has summed.
Summed(c) == Scope(c) \ (conn[c].todo \cup conn[c].skipped
                         \cup {t \in {conn[c].at} : conn[c].stage = "sum"})

\* Session c ends, leaving the rebuilds of `passed' behind it: what others have
\* summed for those tuples and not committed yet is now out of date.
EndConn(c, passed) ==
  conn' = [d \in Sessions |->
             IF d = c THEN Idle
             ELSE [conn[d] EXCEPT !.stale = @ \cup (passed \cap Summed(d))]]

\* The causes of drift the code has and we know of.  A tuple is excused while it
\* is wrong and one of them has struck since it was last right.
Excuse(tuples) ==
  excused' = {t \in excused \cup tuples :
                balance'[t] # {j \in Journals : t \in Touches[j] /\ ledger'[j] = "posted"}}

-----------------------------------------------------------------------------
(* Writing the ledger.                                                     *)

\* createJournalEntry in its own transaction, up to the period check.
CheckPeriod(j) ==
  /\ "own" \in Ways
  /\ ledger[j] = "new"
  /\ \A t \in Touches[j] : ~Closed(t)
  /\ \A c \in Sessions : conn[c].own # j
  /\ ledger' = [ledger EXCEPT ![j] = "checked"]
  /\ UNCHANGED <<event, balance, closed, conn, jobs, polls, faults, excused>>

\* Mutant: the outbox events are not written with the journal.
CommitPostWithoutEvents(j) ==
  /\ ledger[j] = "checked"
  /\ MayWrite(j, TRUE)
  /\ ledger' = [ledger EXCEPT ![j] = "posted"]
  /\ jobs' = jobs \cup {[journal |-> j, tuple |-> t, durable |-> TRUE] : t \in Touches[j]}
  /\ polls' = polls + 1
  /\ UNCHANGED <<event, balance, closed, conn, faults, excused>>

\* The rest of it: the journal commits with its events, then the jobs and a poll
\* are scheduled.
CommitPost(j) ==
  /\ ledger[j] = "checked"
  /\ MayWrite(j, TRUE)
  /\ ledger' = [ledger EXCEPT ![j] = "posted"]
  /\ event' = [e \in Events |-> IF e[1] = j THEN [status |-> "PENDING", retries |-> 0]
                                            ELSE event[e]]
  /\ jobs' = jobs \cup {[journal |-> j, tuple |-> t, durable |-> TRUE] : t \in Touches[j]}
  /\ polls' = polls + 1
  /\ UNCHANGED <<balance, closed, conn, faults, excused>>

\* reverseTransaction in its own transaction: no event, only jobs in memory.  The
\* period that must be open is the reversal's, not the original's.
CommitReversal(j) ==
  /\ "reversal" \in Ways
  /\ ledger[j] = "posted"
  /\ MayWrite(j, FALSE)
  /\ ledger' = [ledger EXCEPT ![j] = "reversed"]
  /\ jobs' = jobs \cup {[journal |-> j, tuple |-> t, durable |-> FALSE] : t \in Touches[j]}
  /\ UNCHANGED <<event, balance, closed, conn, polls, faults, excused>>

\* createJournalEntry and reverseTransaction on the caller's client: the journal is
\* written in session c and its tuples are then rebuilt there, before the commit.
BeginPost(c, j) ==
  /\ "inline" \in Ways
  /\ conn[c] = Idle
  /\ ledger[j] = "new"
  /\ \A t \in Touches[j] : ~Closed(t)
  /\ MayWrite(j, TRUE)
  /\ conn' = [conn EXCEPT ![c] = [Idle EXCEPT !.kind = "post", !.own = j,
                                              !.todo = Touches[j]]]
  /\ UNCHANGED <<ledger, event, balance, closed, jobs, polls, faults, excused>>

BeginReverse(c, j) ==
  /\ "inline" \in Ways
  /\ conn[c] = Idle
  /\ ledger[j] = "posted"
  /\ MayWrite(j, FALSE)
  /\ conn' = [conn EXCEPT ![c] = [Idle EXCEPT !.kind = "reverse", !.own = j,
                                              !.todo = Touches[j]]]
  /\ UNCHANGED <<ledger, event, balance, closed, jobs, polls, faults, excused>>

\* The caller's transaction commits: the journal and the rebuilt rows together.
CommitInline(c) ==
  /\ conn[c].kind \in {"post", "reverse"}
  /\ conn[c].todo = {}
  /\ conn[c].at = None
  /\ ledger' = [ledger EXCEPT ![conn[c].own] =
                  IF conn[c].kind = "post" THEN "posted" ELSE "reversed"]
  /\ balance' = [t \in Tuples |-> IF Locks(c, t) THEN conn[c].writes[t] ELSE balance[t]]
  /\ EndConn(c, Scope(c))
  /\ Excuse(conn[c].skipped \cup conn[c].stale)
  /\ UNCHANGED <<event, closed, jobs, polls, faults>>

-----------------------------------------------------------------------------
(* A rebuild: lock check, SUM, write.                                      *)

\* The lock check of the next tuple: a closed one is skipped.
SkipClosed(c) ==
  \E t \in NextTuples(c) :
    /\ conn[c].at = None
    /\ Closed(t)
    /\ conn' = [conn EXCEPT ![c].todo = @ \ {t}, ![c].skipped = @ \cup {t}]
    /\ UNCHANGED <<ledger, event, balance, closed, jobs, polls, faults, excused>>

BeginTuple(c) ==
  \E t \in NextTuples(c) :
    /\ conn[c].at = None
    /\ ~Closed(t)
    /\ conn' = [conn EXCEPT ![c].todo = @ \ {t}, ![c].at = t, ![c].stage = "sum"]
    /\ UNCHANGED <<ledger, event, balance, closed, jobs, polls, faults, excused>>

ReadSum(c) ==
  /\ conn[c].stage = "sum"
  /\ conn' = [conn EXCEPT ![c].sum = Visible(c, conn[c].at), ![c].stage = "write"]
  /\ UNCHANGED <<ledger, event, balance, closed, jobs, polls, faults, excused>>

\* The DELETE of a row that is not there touches and waits for nothing.
NothingToDelete(c) == conn[c].sum = {} /\ balance[conn[c].at] = {}

\* The writes w and one more, of total s to row t.
Put(w, t, s) == [x \in DOMAIN w \cup {t} |-> IF x = t THEN s ELSE w[x]]

\* Mutant: the rebuild inside a caller's transaction writes through the pool.
WriteThroughPool(c) ==
  /\ conn[c].stage = "write"
  /\ conn[c].kind # "direct"
  /\ balance' = [balance EXCEPT ![conn[c].at] = conn[c].sum]
  /\ conn' = [conn EXCEPT ![c].at = None, ![c].stage = "check", ![c].sum = {}]
  /\ UNCHANGED <<ledger, event, closed, jobs, polls, faults, excused>>

\* The write in a transaction is held back until the commit.  A row locked by another
\* session is waited for.
WriteHeld(c) ==
  /\ conn[c].stage = "write"
  /\ conn[c].kind # "direct"
  /\ NothingToDelete(c) \/ \A d \in Sessions \ {c} : ~Locks(d, conn[c].at)
  /\ conn' = [conn EXCEPT
       ![c].at = None, ![c].stage = "check", ![c].sum = {},
       ![c].writes = IF NothingToDelete(c) THEN @
                     ELSE Put(@, conn[c].at, conn[c].sum)]
  /\ UNCHANGED <<ledger, event, balance, closed, jobs, polls, faults, excused>>

\* The write of a direct rebuild commits at once.
WriteDirect(c) ==
  /\ conn[c].stage = "write"
  /\ conn[c].kind = "direct"
  /\ NothingToDelete(c) \/ \A d \in Sessions \ {c} : ~Locks(d, conn[c].at)
  /\ balance' = [balance EXCEPT ![conn[c].at] = conn[c].sum]
  /\ EndConn(c, Scope(c))
  /\ UNCHANGED <<ledger, event, closed, jobs, polls, faults>>
  /\ Excuse(conn[c].stale)

\* A direct rebuild that found the period closed is over.
EndDirect(c) ==
  /\ conn[c].kind = "direct"
  /\ conn[c].todo = {}
  /\ conn[c].at = None
  /\ EndConn(c, Scope(c))
  /\ UNCHANGED <<ledger, event, balance, closed, jobs, polls, faults>>
  /\ Excuse(conn[c].skipped)

\* setImmediate of scheduleGlRebuildJobs starts rebuildSingleAccountPeriod.
BeginDirect(c) ==
  \E job \in jobs :
    /\ conn[c] = Idle
    /\ jobs' = jobs \ {job}
    /\ conn' = [conn EXCEPT ![c] = [Idle EXCEPT !.kind = "direct", !.todo = {job.tuple},
                                                !.durable = job.durable]]
    /\ UNCHANGED <<ledger, event, balance, closed, polls, faults, excused>>

-----------------------------------------------------------------------------
(* A poll cycle of the worker.                                             *)

\* Claim a batch and order its tuples.  Which of the waiting events are oldest is
\* left open: created_at is the start of the posting transaction.
Claim(c) ==
  \E batch \in SUBSET Claimable :
    /\ conn[c] = Idle
    /\ batch # {}
    /\ \/ Cardinality(batch) = BatchSize
       \/ Cardinality(batch) < BatchSize /\ batch = Claimable
    /\ conn' = [conn EXCEPT ![c] = [Idle EXCEPT !.kind = "poll", !.claimed = batch,
                                                !.todo = {e[2] : e \in batch}]]
    /\ UNCHANGED <<ledger, event, balance, closed, jobs, faults, excused>>

\* scheduleImmediateRebuild's poll, and the one that claims nothing.
KickedPoll(c) == polls > 0 /\ polls' = polls - 1 /\ Claim(c)

EmptyPoll(c) ==
  /\ polls > 0
  /\ conn[c] = Idle
  /\ Claimable = {}
  /\ polls' = polls - 1
  /\ UNCHANGED <<ledger, event, balance, closed, conn, jobs, faults, excused>>

\* The repeating Bull job.
SweepPoll(c) == Swept /\ Claim(c) /\ UNCHANGED polls

\* Mutant: every claimed event is marked DONE.
CommitPollAllDone(c) ==
  /\ conn[c].kind = "poll"
  /\ conn[c].todo = {}
  /\ conn[c].at = None
  /\ event' = [e \in Events |-> IF e \notin conn[c].claimed THEN event[e]
                                ELSE [status |-> "DONE", retries |-> event[e].retries]]
  /\ balance' = [t \in Tuples |-> IF Locks(c, t) THEN conn[c].writes[t] ELSE balance[t]]
  /\ EndConn(c, Scope(c))
  /\ UNCHANGED <<ledger, closed, jobs, polls, faults>>
  /\ Excuse(conn[c].skipped \cup conn[c].stale)

\* The outcomes are recorded and commit with the rebuilt rows.
CommitPoll(c) ==
  /\ conn[c].kind = "poll"
  /\ conn[c].todo = {}
  /\ conn[c].at = None
  /\ event' = [e \in Events |->
       IF e \notin conn[c].claimed THEN event[e]
       ELSE IF e[2] \in conn[c].failed
              THEN [status |-> "FAILED", retries |-> event[e].retries + 1]
              ELSE [status |-> "DONE", retries |-> event[e].retries]]
  /\ balance' = [t \in Tuples |-> IF Locks(c, t) THEN conn[c].writes[t] ELSE balance[t]]
  /\ EndConn(c, Scope(c))
  /\ UNCHANGED <<ledger, closed, jobs, polls, faults>>
  /\ Excuse(conn[c].skipped \cup conn[c].stale)

-----------------------------------------------------------------------------
(* Periods and faults.                                                     *)

ClosePeriod(p) ==
  /\ "close" \in Ways
  /\ p \notin closed
  /\ closed' = closed \cup {p}
  /\ UNCHANGED <<ledger, event, balance, conn, jobs, polls, faults, excused>>

OpenPeriod(p) ==
  /\ p \in closed
  /\ closed' = closed \ {p}
  /\ UNCHANGED <<ledger, event, balance, conn, jobs, polls, faults, excused>>

\* A statement of a poll's rebuild fails: back to the savepoint, the poll keeps the
\* rows it has written and goes on with the next tuple.
TupleFails(c) ==
  /\ conn[c].kind = "poll"
  /\ conn[c].at # None
  /\ conn' = [conn EXCEPT ![c].at = None, ![c].stage = "check", ![c].sum = {},
                          ![c].failed = @ \cup {conn[c].at},
                          ![c].stale = @ \ {conn[c].at}]
  /\ UNCHANGED <<ledger, event, balance, closed, jobs, polls, excused>>

RebuildFails(c) ==
  /\ faults < MaxFaults
  /\ faults' = faults + 1
  /\ TupleFails(c)

\* The tuples nothing else will rebuild if session c stops here.
Forgone(c) == {t \in conn[c].todo \cup conn[c].skipped \cup ({conn[c].at} \ {None}) :
                 conn[c].kind = "direct" /\ ~conn[c].durable}

\* Session c is rolled back.  The failure of a direct rebuild is only logged.
RollBack(c) ==
  /\ EndConn(c, Forgone(c))
  /\ UNCHANGED <<ledger, event, balance, closed, jobs, polls>>
  /\ Excuse(Forgone(c))

Abort(c) ==
  /\ faults < MaxFaults
  /\ conn[c] # Idle
  /\ faults' = faults + 1
  /\ RollBack(c)

\* c waits for a row that d holds.
WaitsFor(c, d) == /\ c # d
                  /\ conn[c].stage = "write"
                  /\ ~NothingToDelete(c)
                  /\ Locks(d, conn[c].at)

\* The sessions of a cycle of waits.
Cycle(S) == S # {} /\ \A c \in S : (\E d \in S : WaitsFor(c, d)) /\ \E d \in S : WaitsFor(d, c)

InCycle(c) == \E S \in SUBSET Sessions : c \in S /\ Cycle(S)

\* PostgreSQL breaks a cycle of waits by failing the statement of one of its sessions,
\* which undoes the whole transaction, but of a poll only the tuple.
DeadlockAbort(c) ==
  /\ InCycle(c)
  /\ conn[c].kind # "poll"
  /\ RollBack(c)
  /\ UNCHANGED faults

DeadlockFails(c) == InCycle(c) /\ TupleFails(c) /\ UNCHANGED faults

\* The process stops: every session is rolled back and what waits in memory is gone.
Crash ==
  /\ faults < MaxFaults
  /\ faults' = faults + 1
  /\ ledger' = [j \in Journals |-> IF ledger[j] = "checked" THEN "new" ELSE ledger[j]]
  /\ conn' = [c \in Sessions |-> Idle]
  /\ jobs' = {}
  /\ polls' = 0
  /\ UNCHANGED <<event, balance, closed>>
  /\ Excuse({job.tuple : job \in {x \in jobs : ~x.durable}}
            \cup UNION {Forgone(c) : c \in Sessions})

-----------------------------------------------------------------------------
Write(c) == WriteHeld(c) \/ WriteDirect(c)
Commit(c) == CommitInline(c) \/ CommitPoll(c) \/ EndDirect(c)
Rebuild(c) == SkipClosed(c) \/ BeginTuple(c) \/ ReadSum(c) \/ Write(c) \/ Commit(c)
              \/ DeadlockAbort(c) \/ DeadlockFails(c)
Start(c) == BeginDirect(c) \/ KickedPoll(c) \/ EmptyPoll(c)

Next ==
  \/ \E j \in Journals : CheckPeriod(j) \/ CommitPost(j) \/ CommitReversal(j)
  \/ \E c \in Sessions :
       \/ \E j \in Journals : BeginPost(c, j) \/ BeginReverse(c, j)
       \/ Start(c) \/ SweepPoll(c) \/ Rebuild(c) \/ RebuildFails(c) \/ Abort(c)
  \/ \E p \in Periods : ClosePeriod(p) \/ OpenPeriod(p)
  \/ Crash

Spec == Init /\ [][Next]_vars

\* Statements return, setImmediate callbacks run and the sweep comes round.
Fairness == /\ \A c \in Sessions : WF_vars(Rebuild(c))
            /\ WF_vars(\E c \in Sessions : BeginDirect(c))
            /\ WF_vars(\E c \in Sessions : KickedPoll(c) \/ EmptyPoll(c))
            /\ WF_vars(\E c \in Sessions : SweepPoll(c))

FairSpec == Spec /\ Fairness

-----------------------------------------------------------------------------
(* Properties.                                                             *)

\* Types.  A session at a tuple is past its lock check; only a poll claims events.
TypeOK ==
  /\ ledger \in [Journals -> {"new", "checked", "posted", "reversed"}]
  /\ event \in [Events -> [status : {"none", "PENDING", "FAILED", "DONE"},
                           retries : 0..MaxRetries]]
  /\ balance \in [Tuples -> SUBSET Journals]
  /\ closed \subseteq Periods
  /\ conn \in [Sessions -> Conns]
  /\ jobs \subseteq Jobs
  /\ polls \in Nat
  /\ faults \in 0..MaxFaults
  /\ excused \subseteq Tuples

\* A committed balance sums only journals that were really committed, and that touch
\* its row: what a caller's transaction rebuilt for its own journal is rolled back with
\* it, and no poll or job writes the sum of one row into another.
NoPhantoms ==
  \A t \in Tuples, j \in Journals :
    j \in balance[t] => t \in Touches[j] /\ ledger[j] \in {"posted", "reversed"}

\* An event becomes DONE only when the row its commit leaves behind sums its journal,
\* or the journal was reversed meanwhile, or the period was found closed.
DoneMeansCounted ==
  [][\A e \in Events :
       event[e].status # "DONE" /\ event'[e].status = "DONE" =>
         \/ e[1] \in balance'[e[2]]
         \/ ledger[e[1]] = "reversed"
         \/ \E c \in Sessions : e \in conn[c].claimed /\ e[2] \in conn[c].skipped]_vars

\* Nothing that would still rebuild tuple t is left.
Settled(t) ==
  /\ \A e \in Events : e[2] = t => event[e].status \in {"none", "DONE"}
  /\ \A job \in jobs : job.tuple # t
  /\ \A c \in Sessions : /\ t \notin conn[c].todo \cup conn[c].skipped
                         /\ conn[c].at # t
                         /\ ~Locks(c, t)

\* Once nothing is left that would rebuild it, a balance is the net-active total,
\* unless one of three things struck: another session's rebuild of it ended between
\* this one's SUM and its commit, the period was found closed, or the job of a
\* reversal, which no event stands behind, was lost.
DriftIsExcused == \A t \in Tuples : Settled(t) /\ t \notin excused => balance[t] = NetActive(t)

\* "Tuples are rebuilt in sorted order, so concurrent workers that share tuples always
\* acquire gl_period_balances row locks in the same order": polls never wait for one
\* another in a circle.
WorkersNeverDeadlock ==
  \A S \in SUBSET {c \in Sessions : conn[c].kind = "poll"} : ~Cycle(S)

\* An event is delivered, or fails until its retries are used up.
EventsSettle ==
  \A e \in Events : event[e].status = "PENDING" ~>
                      \/ event[e].status = "DONE"
                      \/ event[e].status = "FAILED" /\ event[e].retries = MaxRetries
=============================================================================
