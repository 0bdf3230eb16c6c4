------------------------ MODULE PeriodBalanceProofs ------------------------
(***************************************************************************)
(* Proofs about PeriodBalance for any journals, tuples, sessions and       *)
(* faults.                                                                 *)
(***************************************************************************)
EXTENDS PeriodBalance, WellFoundedInduction, TLAPS

(* A set of numbers has a least one. *)
LEMMA NatMin == ASSUME NEW S \in SUBSET Nat, S # {} PROVE \E a \in S : \A b \in S : a <= b
<1> DEFINE R == OpToRel(<, Nat)
<1>1. IsWellFoundedOn(R, Nat)
  BY NatLessThanWellFounded
<1>2. \A a, b \in Nat : b < a => <<b, a>> \in R
  BY DEF OpToRel
<1> HIDE DEF R
<1>3. PICK a \in S : \A b \in S : <<b, a>> \notin R
  BY <1>1, WFMin
<1>4. \A b \in S : ~(b < a)
  BY <1>2, <1>3
<1> QED
  BY <1>3, <1>4

(* Tuples are numbered, and None is not one. *)
LEMMA TuplesAreNumbers == None \notin Tuples /\ \A t \in Tuples : t \in Nat
BY TuplesAssumption

USE TuplesAssumption, PeriodOfAssumption, TouchesAssumption, BoundsAssumption

(* What a session's record is made of. *)
LEMMA ConnFacts ==
  ASSUME NEW x \in Conns
  PROVE  /\ x.kind \in {"idle", "poll", "direct", "post", "reverse"}
         /\ x.own \in Journals \cup {None}
         /\ x.claimed \subseteq Events
         /\ x.todo \subseteq Tuples
         /\ x.at \in Tuples \cup {None}
         /\ x.stage \in {"check", "sum", "write"}
         /\ x.sum \subseteq Journals
         /\ x.writes \in Writes
         /\ x.skipped \subseteq Tuples
         /\ x.failed \subseteq Tuples
         /\ x.stale \subseteq Tuples
BY DEF Conns

(* The events are journals and tuples they touch. *)
LEMMA EventFacts ==
  /\ Events \subseteq Journals \X Tuples
  /\ \A e \in Events : e[1] \in Journals /\ e[2] \in Tuples
  /\ \A j \in Journals : Touches[j] \subseteq Tuples
BY DEF Events

(* The writes of a session are a function from tuples to sets of journals. *)
LEMMA WritesIntro ==
  ASSUME NEW rows \in SUBSET Tuples, NEW w \in [rows -> SUBSET Journals]
  PROVE  w \in Writes
BY Zenon DEF Writes

LEMMA WritesFacts ==
  ASSUME NEW w \in Writes
  PROVE  /\ DOMAIN w \subseteq Tuples
         /\ \A t \in DOMAIN w : w[t] \subseteq Journals
         /\ \A t \in Tuples, s \in SUBSET Journals :
              Put(w, t, s) \in Writes
<1>1. PICK rows \in SUBSET Tuples : w \in [rows -> SUBSET Journals]
  BY DEF Writes
<1>2. ASSUME NEW t \in Tuples, NEW s \in SUBSET Journals
      PROVE  Put(w, t, s) \in Writes
  <2>1. Put(w, t, s) \in [rows \cup {t} -> SUBSET Journals]
    BY <1>1 DEF Put
  <2> QED BY <2>1, WritesIntro, rows \cup {t} \in SUBSET Tuples
<1>3. DOMAIN w \subseteq Tuples
  BY <1>1
<1>4. \A t \in DOMAIN w : w[t] \subseteq Journals
  BY <1>1
<1> QED BY <1>2, <1>3, <1>4

LEMMA IdleTyped == Idle \in Conns
<1>1. [t \in {} |-> {}] \in Writes
  <2>1. [t \in {} |-> {}] \in [{} -> SUBSET Journals]
    OBVIOUS
  <2> QED BY <2>1 DEF Writes
<1> QED BY <1>1 DEF Idle, Conns

LEMMA ScopeTyped ==
  ASSUME TypeOK, NEW c \in Sessions
  PROVE  Scope(c) \subseteq Tuples /\ Forgone(c) \subseteq Tuples
<1>1. conn[c] \in Conns
  BY DEF TypeOK
<1> QED BY <1>1, ConnFacts, EventFacts DEF Scope, Forgone

(* The end of a session leaves it idle and tells the others no more than that *)
(* their sums may be out of date. *)
LEMMA EndConnFacts ==
  ASSUME TypeOK, NEW c \in Sessions, NEW P \in SUBSET Tuples, EndConn(c, P)
  PROVE  /\ conn' \in [Sessions -> Conns]
         /\ conn'[c] = Idle
         /\ \A d \in Sessions \ {c} :
              /\ conn'[d].kind = conn[d].kind
              /\ conn'[d].own = conn[d].own
              /\ conn'[d].claimed = conn[d].claimed
              /\ conn'[d].todo = conn[d].todo
              /\ conn'[d].at = conn[d].at
              /\ conn'[d].stage = conn[d].stage
              /\ conn'[d].sum = conn[d].sum
              /\ conn'[d].writes = conn[d].writes
              /\ conn'[d].skipped = conn[d].skipped
              /\ conn'[d].failed = conn[d].failed
<1>1. ASSUME NEW d \in Sessions, NEW s \in SUBSET Tuples
      PROVE  [conn[d] EXCEPT !.stale = @ \cup s] \in Conns
  <2>1. conn[d] \in Conns
    BY DEF TypeOK
  <2> QED BY <2>1 DEF Conns
<1>2. \A d \in Sessions : P \cap Summed(d) \in SUBSET Tuples
  OBVIOUS
<1>3. conn' \in [Sessions -> Conns]
  BY <1>1, <1>2, IdleTyped DEF EndConn
<1>4. ASSUME NEW d \in Sessions \ {c}
      PROVE  conn'[d] = [conn[d] EXCEPT !.stale = @ \cup (P \cap Summed(d))]
  BY <1>4 DEF EndConn
<1>5. ASSUME NEW d \in Sessions \ {c}
      PROVE  /\ conn'[d].kind = conn[d].kind
             /\ conn'[d].own = conn[d].own
             /\ conn'[d].claimed = conn[d].claimed
             /\ conn'[d].todo = conn[d].todo
             /\ conn'[d].at = conn[d].at
             /\ conn'[d].stage = conn[d].stage
             /\ conn'[d].sum = conn[d].sum
             /\ conn'[d].writes = conn[d].writes
             /\ conn'[d].skipped = conn[d].skipped
             /\ conn'[d].failed = conn[d].failed
  <2>1. conn[d] \in Conns
    BY DEF TypeOK
  <2> QED BY ONLY <1>4, <2>1 DEF Conns
<1> QED BY <1>3, <1>5 DEF EndConn

-----------------------------------------------------------------------------
(* A session past its lock check is at a tuple; an event claimed by a poll has *)
(* retries left and is claimed by no other. *)
ConnInv ==
  \A c \in Sessions :
    /\ conn[c].stage # "check" => conn[c].at # None
    /\ \A e \in conn[c].claimed : event[e].retries < MaxRetries
    /\ \A d \in Sessions : d # c => conn[c].claimed \cap conn[d].claimed = {}

TypeInv == TypeOK /\ ConnInv

LEMMA IdleFacts ==
  /\ Idle.kind = "idle"
  /\ Idle.own = None
  /\ Idle.stage = "check"
  /\ Idle.at = None
  /\ Idle.claimed = {}
  /\ Idle.skipped = {}
  /\ Idle.sum = {}
  /\ DOMAIN Idle.writes = {}
BY DEF Idle

LEMMA EventStates ==
  ASSUME TypeOK, NEW e \in Events
  PROVE  /\ event[e].retries \in 0..MaxRetries
         /\ event[e].status \in {"none", "PENDING", "FAILED", "DONE"}
BY DEF TypeOK

(* One session's record is replaced. *)
LEMMA OneConnTyped ==
  ASSUME TypeOK, NEW c \in Sessions, NEW x \in Conns, conn' = [conn EXCEPT ![c] = x]
  PROVE  /\ conn' \in [Sessions -> Conns]
         /\ conn'[c] = x
         /\ \A d \in Sessions \ {c} : conn'[d] = conn[d]
BY DEF TypeOK

(* It keeps the invariant when it claims nothing new and is at a tuple where it *)
(* must be. *)
LEMMA OneConnKeeps ==
  ASSUME TypeInv, NEW c \in Sessions, NEW x \in Conns, conn' = [conn EXCEPT ![c] = x],
         x.stage # "check" => x.at # None,
         x.claimed \subseteq conn[c].claimed, UNCHANGED event
  PROVE  conn' \in [Sessions -> Conns] /\ ConnInv'
<1>1. /\ conn' \in [Sessions -> Conns]
      /\ conn'[c] = x
      /\ \A d \in Sessions \ {c} : conn'[d] = conn[d]
  BY OneConnTyped DEF TypeInv
<1> QED BY <1>1 DEF ConnInv, TypeInv

(* So it does when the session ends and no event that another holds changes. *)
LEMMA EndConnKeeps ==
  ASSUME TypeInv, NEW c \in Sessions, NEW P \in SUBSET Tuples, EndConn(c, P),
         \A e \in Events : e \notin conn[c].claimed => event'[e] = event[e]
  PROVE  conn' \in [Sessions -> Conns] /\ ConnInv'
<1>1. /\ conn' \in [Sessions -> Conns]
      /\ conn'[c] = Idle
      /\ \A d \in Sessions \ {c} :
           /\ conn'[d].claimed = conn[d].claimed
           /\ conn'[d].at = conn[d].at
           /\ conn'[d].stage = conn[d].stage
  BY EndConnFacts DEF TypeInv
<1>2. \A d \in Sessions : conn[d].claimed \subseteq Events
  BY ConnFacts DEF TypeInv, TypeOK
<1> QED BY <1>1, <1>2, IdleFacts DEF ConnInv, TypeInv

LEMMA ExcuseTyped ==
  ASSUME TypeOK, NEW P \in SUBSET Tuples, Excuse(P)
  PROVE  excused' \subseteq Tuples
BY DEF Excuse, TypeOK

LEMMA NewJobs ==
  ASSUME TypeOK, NEW j \in Journals, NEW b \in BOOLEAN
  PROVE  jobs \cup {[journal |-> j, tuple |-> t, durable |-> b] : t \in Touches[j]}
           \subseteq Jobs
<1>1. \A t \in Touches[j] : [journal |-> j, tuple |-> t, durable |-> b] \in Jobs
  BY EventFacts DEF Jobs
<1>2. jobs \subseteq Jobs
  BY DEF TypeOK
<1> QED BY ONLY <1>1, <1>2

LEMMA LedgerStepsTyped ==
  ASSUME TypeInv, NEW j \in Journals, CheckPeriod(j) \/ CommitPost(j) \/ CommitReversal(j)
  PROVE  TypeInv'
<1> USE EventFacts DEF TypeInv, TypeOK
<1>1. CASE CheckPeriod(j)
  BY <1>1 DEF CheckPeriod, ConnInv
<1>2. CASE CommitPost(j)
  <2>1. event' \in [Events -> [status : {"none", "PENDING", "FAILED", "DONE"},
                               retries : 0..MaxRetries]]
    BY <1>2 DEF CommitPost
  <2>2. \A e \in Events : event'[e] = event[e] \/ event'[e].retries = 0
    BY <1>2 DEF CommitPost
  <2>3. \A c \in Sessions : conn[c].claimed \subseteq Events
    BY ConnFacts
  <2>4. ConnInv'
    <3>1. UNCHANGED conn
      BY <1>2 DEF CommitPost
    <3>2. ASSUME NEW c \in Sessions, NEW e \in conn[c].claimed
          PROVE  event'[e].retries < MaxRetries
      BY <2>2, <2>3 DEF ConnInv
    <3> QED BY <3>1, <3>2 DEF ConnInv
  <2>5. jobs' \subseteq Jobs
    BY <1>2, NewJobs DEF CommitPost
  <2> QED BY <1>2, <2>1, <2>4, <2>5 DEF CommitPost
<1>3. CASE CommitReversal(j)
  <2>1. jobs' \subseteq Jobs
    BY <1>3, NewJobs DEF CommitReversal
  <2> QED BY <1>3, <2>1 DEF CommitReversal, ConnInv
<1> QED BY <1>1, <1>2, <1>3

LEMMA BeginStepsTyped ==
  ASSUME TypeInv, NEW c \in Sessions,
         BeginDirect(c) \/ \E j \in Journals : BeginPost(c, j) \/ BeginReverse(c, j)
  PROVE  TypeInv'
<1>1. CASE BeginDirect(c)
  <2>1. PICK job \in jobs :
          /\ conn' = [conn EXCEPT ![c] = [Idle EXCEPT !.kind = "direct",
                                            !.todo = {job.tuple}, !.durable = job.durable]]
          /\ jobs' = jobs \ {job}
          /\ UNCHANGED <<ledger, event, balance, closed, polls, faults, excused>>
    BY <1>1 DEF BeginDirect
  <2>2. job.tuple \in Tuples /\ job.durable \in BOOLEAN
    BY DEF TypeInv, TypeOK, Jobs
  <2> DEFINE x == [Idle EXCEPT !.kind = "direct", !.todo = {job.tuple},
                               !.durable = job.durable]
  <2>3. x \in Conns /\ x.stage = "check" /\ x.claimed = {}
    BY <2>2, IdleTyped DEF Idle, Conns
  <2>4. conn' \in [Sessions -> Conns] /\ ConnInv'
    BY <2>1, <2>3, OneConnKeeps
  <2> QED BY <2>1, <2>4 DEF TypeInv, TypeOK
<1>2. ASSUME NEW j \in Journals, BeginPost(c, j) \/ BeginReverse(c, j) PROVE TypeInv'
  <2>1. \E k \in {"post", "reverse"} :
          conn' = [conn EXCEPT ![c] = [Idle EXCEPT !.kind = k, !.own = j,
                                                   !.todo = Touches[j]]]
    <3>1. CASE BeginPost(c, j)
      BY <3>1 DEF BeginPost
    <3>2. CASE BeginReverse(c, j)
      BY <3>2 DEF BeginReverse
    <3> QED BY <1>2, <3>1, <3>2
  <2> PICK k \in {"post", "reverse"} :
          conn' = [conn EXCEPT ![c] = [Idle EXCEPT !.kind = k, !.own = j,
                                                   !.todo = Touches[j]]]
    BY <2>1
  <2> DEFINE x == [Idle EXCEPT !.kind = k, !.own = j, !.todo = Touches[j]]
  <2>2. x \in Conns /\ x.stage = "check" /\ x.claimed = {}
    BY IdleTyped, EventFacts DEF Idle, Conns
  <2>3. UNCHANGED <<ledger, event, balance, closed, jobs, polls, faults, excused>>
    BY <1>2 DEF BeginPost, BeginReverse
  <2>4. conn' \in [Sessions -> Conns] /\ ConnInv'
    BY <2>2, <2>3, OneConnKeeps
  <2> QED BY <2>3, <2>4 DEF TypeInv, TypeOK
<1> QED BY <1>1, <1>2

LEMMA ClaimTyped ==
  ASSUME TypeInv, NEW c \in Sessions, Claim(c), polls' \in Nat
  PROVE  TypeInv'
<1>1. PICK batch \in SUBSET Claimable :
        /\ conn' = [conn EXCEPT ![c] = [Idle EXCEPT !.kind = "poll", !.claimed = batch,
                                                    !.todo = {e[2] : e \in batch}]]
        /\ UNCHANGED <<ledger, event, balance, closed, jobs, faults, excused>>
  BY DEF Claim
<1> DEFINE x == [Idle EXCEPT !.kind = "poll", !.claimed = batch,
                             !.todo = {e[2] : e \in batch}]
<1>2. batch \subseteq Events /\ \A e \in batch : event[e].retries < MaxRetries /\ ~Claimed(e)
  BY DEF Claimable
<1>3. x \in Conns /\ x.stage = "check" /\ x.claimed = batch
  <2>1. ASSUME NEW ts \in SUBSET Tuples
        PROVE  LET y == [Idle EXCEPT !.kind = "poll", !.claimed = batch, !.todo = ts]
               IN  y \in Conns /\ y.stage = "check" /\ y.claimed = batch
    BY <1>2, IdleTyped DEF Idle, Conns
  <2>2. {e[2] : e \in batch} \in SUBSET Tuples
    BY <1>2, EventFacts
  <2> QED BY <2>1, <2>2
<1>4. /\ conn' \in [Sessions -> Conns]
      /\ conn'[c] = x
      /\ \A d \in Sessions \ {c} : conn'[d] = conn[d]
  BY <1>1, <1>3, OneConnTyped DEF TypeInv
<1>5. UNCHANGED event
  BY <1>1
<1>6. \A d \in Sessions : batch \cap conn[d].claimed = {}
  BY <1>2 DEF Claimed
<1>7. ConnInv'
  <2>1. ASSUME NEW d \in Sessions, d # c
        PROVE  /\ conn'[d].stage # "check" => conn'[d].at # None
               /\ \A e \in conn'[d].claimed : event'[e].retries < MaxRetries
               /\ \A b \in Sessions : b # d => conn'[d].claimed \cap conn'[b].claimed = {}
    BY <2>1, <1>3, <1>4, <1>5, <1>6 DEF ConnInv, TypeInv
  <2>2. /\ conn'[c].stage # "check" => conn'[c].at # None
        /\ \A e \in conn'[c].claimed : event'[e].retries < MaxRetries
        /\ \A b \in Sessions : b # c => conn'[c].claimed \cap conn'[b].claimed = {}
    BY <1>2, <1>3, <1>4, <1>5, <1>6
  <2> QED BY <2>1, <2>2 DEF ConnInv
<1> QED BY <1>1, <1>4, <1>7 DEF TypeInv, TypeOK

(* The steps of a rebuild. *)
LEMMA RebuildStepsTyped ==
  ASSUME TypeInv, NEW c \in Sessions,
         SkipClosed(c) \/ BeginTuple(c) \/ ReadSum(c) \/ WriteHeld(c)
         \/ RebuildFails(c) \/ DeadlockFails(c)
  PROVE  TypeInv'
<1> DEFINE y == conn[c]
<1>1. y \in Conns /\ (y.stage # "check" => y.at \in Tuples)
  BY ConnFacts DEF TypeInv, TypeOK, ConnInv
<1>2. NextTuples(c) \subseteq y.todo /\ y.todo \subseteq Tuples
  BY <1>1, ConnFacts DEF NextTuples
<1>3. Visible(c, y.at) \subseteq Journals
  BY DEF Visible
<1>4. ASSUME NEW x \in Conns, conn' = [conn EXCEPT ![c] = x],
             x.stage # "check" => x.at # None, x.claimed = y.claimed, faults' \in 0..MaxFaults,
             UNCHANGED <<ledger, event, balance, closed, jobs, polls, excused>>
      PROVE  TypeInv'
  <2>1. conn' \in [Sessions -> Conns] /\ ConnInv'
    BY <1>4, OneConnKeeps
  <2> QED BY <1>4, <2>1 DEF TypeInv, TypeOK
<1>5. CASE SkipClosed(c)
  <2>1. PICK t \in NextTuples(c) :
          conn' = [conn EXCEPT ![c].todo = @ \ {t}, ![c].skipped = @ \cup {t}]
    BY <1>5 DEF SkipClosed
  <2> DEFINE x == [y EXCEPT !.todo = @ \ {t}, !.skipped = @ \cup {t}]
  <2>2. x \in Conns /\ x.stage = y.stage /\ x.at = y.at /\ x.claimed = y.claimed
    BY <1>1, <1>2 DEF Conns
  <2>3. conn' = [conn EXCEPT ![c] = x]
    BY <2>1
  <2>4. UNCHANGED <<ledger, event, balance, closed, jobs, polls, faults, excused>>
    BY <1>5 DEF SkipClosed
  <2>5. faults' \in 0..MaxFaults
    BY <2>4 DEF TypeInv, TypeOK
  <2>6. x.stage # "check" => x.at # None
    BY <1>1, <2>2
  <2> QED BY <1>4, <2>2, <2>3, <2>4, <2>5, <2>6
<1>6. CASE BeginTuple(c)
  <2>1. PICK t \in NextTuples(c) :
          conn' = [conn EXCEPT ![c].todo = @ \ {t}, ![c].at = t, ![c].stage = "sum"]
    BY <1>6 DEF BeginTuple
  <2> DEFINE x == [y EXCEPT !.todo = @ \ {t}, !.at = t, !.stage = "sum"]
  <2>2. t \in Tuples
    BY <1>2
  <2>3. x \in Conns /\ x.at = t /\ x.claimed = y.claimed
    BY <1>1, <2>2 DEF Conns
  <2>4. conn' = [conn EXCEPT ![c] = x]
    BY <2>1
  <2>5. UNCHANGED <<ledger, event, balance, closed, jobs, polls, faults, excused>>
    BY <1>6 DEF BeginTuple
  <2>6. faults' \in 0..MaxFaults
    BY <2>5 DEF TypeInv, TypeOK
  <2> QED BY <1>4, <2>2, <2>3, <2>4, <2>5, <2>6
<1>7. CASE ReadSum(c)
  <2> DEFINE x == [y EXCEPT !.sum = Visible(c, y.at), !.stage = "write"]
  <2>1. x \in Conns /\ x.at = y.at /\ x.claimed = y.claimed
    BY <1>1, <1>3 DEF Conns
  <2>2. conn' = [conn EXCEPT ![c] = x]
    BY <1>7 DEF ReadSum
  <2>3. y.stage = "sum"
    BY <1>7 DEF ReadSum
  <2>4. UNCHANGED <<ledger, event, balance, closed, jobs, polls, faults, excused>>
    BY <1>7 DEF ReadSum
  <2>5. faults' \in 0..MaxFaults
    BY <2>4 DEF TypeInv, TypeOK
  <2>6. x.at # None
    BY <1>1, <2>1, <2>3
  <2> QED BY <1>4, <2>1, <2>2, <2>4, <2>5, <2>6
<1>8. CASE WriteHeld(c)
  <2>1. PICK w \in Writes :
          conn' = [conn EXCEPT ![c].at = None, ![c].stage = "check", ![c].sum = {},
                               ![c].writes = w]
    <3>1. y.at \in Tuples /\ y.sum \in SUBSET Journals /\ y.writes \in Writes
      BY <1>1, <1>8, ConnFacts DEF WriteHeld
    <3>2. Put(y.writes, y.at, y.sum) \in Writes
      BY <3>1, WritesFacts
    <3> QED BY <1>8, <3>1, <3>2 DEF WriteHeld
  <2> DEFINE x == [y EXCEPT !.at = None, !.stage = "check", !.sum = {}, !.writes = w]
  <2>2. x \in Conns /\ x.stage = "check" /\ x.claimed = y.claimed
    BY <1>1 DEF Conns
  <2>3. conn' = [conn EXCEPT ![c] = x]
    BY <2>1
  <2>4. UNCHANGED <<ledger, event, balance, closed, jobs, polls, faults, excused>>
    BY <1>8 DEF WriteHeld
  <2>5. faults' \in 0..MaxFaults
    BY <2>4 DEF TypeInv, TypeOK
  <2> QED BY <1>4, <2>2, <2>3, <2>4, <2>5
<1>9. CASE RebuildFails(c) \/ DeadlockFails(c)
  <2>1. y.at \in Tuples
    BY <1>1, <1>9, ConnFacts DEF RebuildFails, DeadlockFails, TupleFails
  <2> DEFINE x == [y EXCEPT !.at = None, !.stage = "check", !.sum = {},
                            !.failed = @ \cup {y.at}, !.stale = @ \ {y.at}]
  <2>2. x \in Conns /\ x.stage = "check" /\ x.claimed = y.claimed
    BY <1>1, <2>1 DEF Conns
  <2>3. conn' = [conn EXCEPT ![c] = x]
    BY <1>9 DEF RebuildFails, DeadlockFails, TupleFails
  <2>4. UNCHANGED <<ledger, event, balance, closed, jobs, polls, excused>>
    BY <1>9 DEF RebuildFails, DeadlockFails, TupleFails
  <2>5. faults' \in 0..MaxFaults
    BY <1>9 DEF RebuildFails, DeadlockFails, TupleFails, TypeInv, TypeOK
  <2> QED BY <1>4, <2>2, <2>3, <2>4, <2>5
<1> QED BY <1>5, <1>6, <1>7, <1>8, <1>9

(* The steps that end a session. *)
LEMMA EndStepsTyped ==
  ASSUME TypeInv, NEW c \in Sessions,
         CommitInline(c) \/ WriteDirect(c) \/ EndDirect(c) \/ Abort(c) \/ DeadlockAbort(c)
  PROVE  TypeInv'
<1>1. conn[c] \in Conns /\ Scope(c) \subseteq Tuples /\ Forgone(c) \subseteq Tuples
  BY ScopeTyped DEF TypeInv, TypeOK
<1>2. /\ conn[c].sum \subseteq Journals
      /\ conn[c].skipped \cup conn[c].stale \subseteq Tuples
      /\ \A t \in DOMAIN conn[c].writes : conn[c].writes[t] \subseteq Journals
  BY <1>1, ConnFacts, WritesFacts
<1>3. ASSUME NEW P \in SUBSET Tuples, EndConn(c, P), NEW Q \in SUBSET Tuples, Excuse(Q),
             ledger' \in [Journals -> {"new", "checked", "posted", "reversed"}],
             balance' \in [Tuples -> SUBSET Journals], faults' \in 0..MaxFaults,
             UNCHANGED <<event, closed, jobs, polls>>
      PROVE  TypeInv'
  <2>1. conn' \in [Sessions -> Conns] /\ ConnInv'
    BY <1>3, EndConnKeeps
  <2>2. excused' \subseteq Tuples
    BY <1>3, ExcuseTyped DEF TypeInv
  <2> QED BY <1>3, <2>1, <2>2 DEF TypeInv, TypeOK
<1>4. CASE CommitInline(c)
  <2>1. ledger' \in [Journals -> {"new", "checked", "posted", "reversed"}]
    BY <1>4 DEF CommitInline, TypeInv, TypeOK
  <2>2. balance' \in [Tuples -> SUBSET Journals]
    BY <1>2, <1>4 DEF CommitInline, TypeInv, TypeOK, Locks
  <2>3. /\ EndConn(c, Scope(c))
        /\ Excuse(conn[c].skipped \cup conn[c].stale)
        /\ UNCHANGED <<event, closed, jobs, polls, faults>>
    BY <1>4 DEF CommitInline
  <2>4. faults' \in 0..MaxFaults
    BY <2>3 DEF TypeInv, TypeOK
  <2> QED BY <1>1, <1>2, <1>3, <2>1, <2>2, <2>3, <2>4
<1>5. CASE WriteDirect(c)
  <2>1. balance' \in [Tuples -> SUBSET Journals]
    BY <1>2, <1>5 DEF WriteDirect, TypeInv, TypeOK
  <2>2. /\ EndConn(c, Scope(c))
        /\ Excuse(conn[c].stale)
        /\ UNCHANGED <<ledger, event, closed, jobs, polls, faults>>
    BY <1>5 DEF WriteDirect
  <2>3. /\ faults' \in 0..MaxFaults
        /\ ledger' \in [Journals -> {"new", "checked", "posted", "reversed"}]
        /\ conn[c].stale \subseteq Tuples
    BY <1>2, <2>2 DEF TypeInv, TypeOK
  <2> QED BY <1>1, <1>3, <2>1, <2>2, <2>3
<1>6. CASE EndDirect(c)
  <2>1. /\ EndConn(c, Scope(c))
        /\ Excuse(conn[c].skipped)
        /\ UNCHANGED <<ledger, event, balance, closed, jobs, polls, faults>>
    BY <1>6 DEF EndDirect
  <2>2. /\ faults' \in 0..MaxFaults
        /\ ledger' \in [Journals -> {"new", "checked", "posted", "reversed"}]
        /\ balance' \in [Tuples -> SUBSET Journals]
        /\ conn[c].skipped \subseteq Tuples
    BY <1>2, <2>1 DEF TypeInv, TypeOK
  <2> QED BY <1>1, <1>3, <2>1, <2>2
<1>7. CASE Abort(c) \/ DeadlockAbort(c)
  <2>1. /\ EndConn(c, Forgone(c))
        /\ Excuse(Forgone(c))
        /\ UNCHANGED <<ledger, event, balance, closed, jobs, polls>>
    BY <1>7 DEF Abort, DeadlockAbort, RollBack
  <2>2. /\ faults' \in 0..MaxFaults
        /\ ledger' \in [Journals -> {"new", "checked", "posted", "reversed"}]
        /\ balance' \in [Tuples -> SUBSET Journals]
    BY <1>7, <2>1 DEF TypeInv, TypeOK, Abort, DeadlockAbort
  <2> QED BY <1>1, <1>3, <2>1, <2>2
<1> QED BY <1>4, <1>5, <1>6, <1>7

LEMMA CommitPollTyped ==
  ASSUME TypeInv, NEW c \in Sessions, CommitPoll(c)
  PROVE  TypeInv'
<1>1. /\ conn[c].claimed \subseteq Events
      /\ Scope(c) \subseteq Tuples
      /\ conn[c].skipped \cup conn[c].stale \subseteq Tuples
      /\ \A t \in DOMAIN conn[c].writes : conn[c].writes[t] \subseteq Journals
  BY ScopeTyped, ConnFacts, WritesFacts DEF TypeInv, TypeOK
<1>2. \A e \in conn[c].claimed : event[e].retries + 1 \in 0..MaxRetries
  BY <1>1, EventStates DEF TypeInv, ConnInv
<1>3. event' \in [Events -> [status : {"none", "PENDING", "FAILED", "DONE"},
                             retries : 0..MaxRetries]]
  <2>1. ASSUME NEW e \in Events
        PROVE  event'[e] \in [status : {"none", "PENDING", "FAILED", "DONE"},
                              retries : 0..MaxRetries]
    BY <1>1, <1>2, EventStates DEF CommitPoll, TypeInv, TypeOK
  <2>2. event' = [e \in Events |-> event'[e]]
    BY DEF CommitPoll
  <2> QED BY <2>1, <2>2
<1>4. balance' \in [Tuples -> SUBSET Journals]
  BY <1>1 DEF CommitPoll, TypeInv, TypeOK, Locks
<1>5. /\ EndConn(c, Scope(c))
      /\ Excuse(conn[c].skipped \cup conn[c].stale)
      /\ UNCHANGED <<ledger, closed, jobs, polls, faults>>
  BY DEF CommitPoll
<1>6. \A e \in Events : e \notin conn[c].claimed => event'[e] = event[e]
  BY DEF CommitPoll
<1>7. conn' \in [Sessions -> Conns] /\ ConnInv'
  BY <1>1, <1>5, <1>6, EndConnKeeps
<1>8. excused' \subseteq Tuples
  BY <1>1, <1>5, ExcuseTyped DEF TypeInv
<1> QED BY <1>3, <1>4, <1>5, <1>7, <1>8 DEF TypeInv, TypeOK

LEMMA CrashTyped ==
  ASSUME TypeInv, Crash
  PROVE  TypeInv'
<1>1. ledger' \in [Journals -> {"new", "checked", "posted", "reversed"}]
  BY DEF Crash, TypeInv, TypeOK
<1>2. conn' \in [Sessions -> Conns] /\ \A c \in Sessions : conn'[c] = Idle
  BY IdleTyped DEF Crash
<1>3. ConnInv'
  BY <1>2, IdleFacts DEF ConnInv
<1>4. {job.tuple : job \in {x \in jobs : ~x.durable}}
        \cup UNION {Forgone(c) : c \in Sessions} \subseteq Tuples
  <2>1. \A job \in jobs : job.tuple \in Tuples
    BY DEF TypeInv, TypeOK, Jobs
  <2>2. \A c \in Sessions : Forgone(c) \subseteq Tuples
    BY ScopeTyped DEF TypeInv
  <2> QED BY <2>1, <2>2
<1>5. excused' \subseteq Tuples
  BY <1>4, ExcuseTyped DEF Crash, TypeInv
<1>6. faults' \in 0..MaxFaults /\ jobs' = {} /\ polls' = 0
      /\ UNCHANGED <<event, balance, closed>>
  BY DEF Crash, TypeInv, TypeOK
<1> QED BY <1>1, <1>2, <1>3, <1>5, <1>6 DEF TypeInv, TypeOK

LEMMA PeriodStepsTyped ==
  ASSUME TypeInv, NEW p \in Periods, ClosePeriod(p) \/ OpenPeriod(p)
  PROVE  TypeInv'
BY DEF ClosePeriod, OpenPeriod, TypeInv, TypeOK, ConnInv

LEMMA EmptyPollTyped ==
  ASSUME TypeInv, NEW c \in Sessions, EmptyPoll(c)
  PROVE  TypeInv'
BY DEF EmptyPoll, TypeInv, TypeOK, ConnInv

(* Next, action by action. *)
LEMMA NextCases ==
  ASSUME [Next]_vars
  PROVE  \/ \E j \in Journals : CheckPeriod(j) \/ CommitPost(j) \/ CommitReversal(j)
         \/ \E c \in Sessions :
              \/ BeginDirect(c) \/ \E j \in Journals : BeginPost(c, j) \/ BeginReverse(c, j)
              \/ KickedPoll(c) \/ SweepPoll(c)
              \/ EmptyPoll(c)
              \/ SkipClosed(c) \/ BeginTuple(c) \/ ReadSum(c) \/ WriteHeld(c)
              \/ RebuildFails(c) \/ DeadlockFails(c)
              \/ CommitInline(c) \/ WriteDirect(c) \/ EndDirect(c) \/ Abort(c)
                 \/ DeadlockAbort(c)
              \/ CommitPoll(c)
         \/ \E p \in Periods : ClosePeriod(p) \/ OpenPeriod(p)
         \/ Crash
         \/ UNCHANGED vars
BY DEF Next, Start, Rebuild, Write, Commit

LEMMA TypeInvInvariant == Spec => []TypeInv
<1>1. Init => TypeInv
  BY IdleTyped, IdleFacts DEF Init, TypeInv, TypeOK, ConnInv
<1>2. TypeInv /\ [Next]_vars => TypeInv'
  <2> SUFFICES ASSUME TypeInv, [Next]_vars PROVE TypeInv'
    OBVIOUS
  <2>1. ASSUME NEW c \in Sessions, KickedPoll(c) \/ SweepPoll(c) PROVE TypeInv'
    <3>1. Claim(c) /\ polls' \in Nat
      BY <2>1 DEF KickedPoll, SweepPoll, TypeInv, TypeOK
    <3> QED BY <3>1, ClaimTyped
  <2>2. CASE UNCHANGED vars
    BY <2>2 DEF vars, TypeInv, TypeOK, ConnInv
  <2> QED BY <2>1, <2>2, NextCases, LedgerStepsTyped, BeginStepsTyped, EmptyPollTyped,
             RebuildStepsTyped, EndStepsTyped, CommitPollTyped, PeriodStepsTyped, CrashTyped
<1> QED BY <1>1, <1>2, PTL DEF Spec

(* The variables keep their types, and no event is failed past its retries. *)
THEOREM TypeCorrect == Spec => []TypeOK
BY TypeInvInvariant, PTL DEF TypeInv

-----------------------------------------------------------------------------
(***************************************************************************)
(* What a balance sums.  A journal is real once it has been committed; it  *)
(* stays real, and a reversed one stays reversed, because the one session  *)
(* that may be posting a journal works on a new one.                       *)
(***************************************************************************)
Real(j) == ledger[j] \in {"posted", "reversed"}

LedgerInv ==
  /\ \A e \in Events : event[e].status # "none" => Real(e[1])
  /\ \A c \in Sessions : conn[c].kind = "post" =>
       /\ conn[c].own \in Journals
       /\ ledger[conn[c].own] = "new"
       /\ \A d \in Sessions : conn[d].kind = "post" => d = c
  /\ \A c \in Sessions : conn[c].kind = "reverse" => /\ conn[c].own \in Journals
                                                     /\ Real(conn[c].own)
  /\ \A c \in Sessions : /\ conn[c].kind # "poll" => conn[c].claimed = {}
                         /\ \A e \in conn[c].claimed : event[e].status # "none"

(* What a step does to the records of the sessions, for the properties below. *)
LEMMA OneConnFields ==
  ASSUME TypeInv, NEW c \in Sessions,
         SkipClosed(c) \/ BeginTuple(c) \/ ReadSum(c) \/ WriteHeld(c)
         \/ RebuildFails(c) \/ DeadlockFails(c)
  PROVE  /\ \A d \in Sessions \ {c} : conn'[d] = conn[d]
         /\ conn'[c].kind = conn[c].kind
         /\ conn'[c].own = conn[c].own
         /\ conn'[c].claimed = conn[c].claimed
         /\ UNCHANGED <<ledger, event, balance>>
<1>1. conn[c] \in Conns
  BY DEF TypeInv, TypeOK
<1>2. DOMAIN conn = Sessions
  BY DEF TypeInv, TypeOK
<1>3. CASE SkipClosed(c)
  <2>1. PICK t \in NextTuples(c) :
          /\ conn' = [conn EXCEPT ![c].todo = @ \ {t}, ![c].skipped = @ \cup {t}]
          /\ UNCHANGED <<ledger, event, balance>>
    BY <1>3 DEF SkipClosed
  <2> QED BY <1>1, <1>2, <2>1 DEF Conns
<1>4. CASE BeginTuple(c)
  <2>1. PICK t \in NextTuples(c) :
          /\ conn' = [conn EXCEPT ![c].todo = @ \ {t}, ![c].at = t, ![c].stage = "sum"]
          /\ UNCHANGED <<ledger, event, balance>>
    BY <1>4 DEF BeginTuple
  <2> QED BY <1>1, <1>2, <2>1 DEF Conns
<1>5. CASE ReadSum(c)       BY <1>1, <1>2, <1>5 DEF ReadSum, Conns
<1>6. CASE WriteHeld(c)     BY <1>1, <1>2, <1>6 DEF WriteHeld, Conns
<1>7. CASE RebuildFails(c) \/ DeadlockFails(c)  BY <1>1, <1>2, <1>7 DEF RebuildFails,
                                                                        DeadlockFails,
                                                                        TupleFails, Conns
<1> QED BY <1>3, <1>4, <1>5, <1>6, <1>7

LEMMA BeginFields ==
  ASSUME TypeInv, NEW c \in Sessions,
         \/ BeginDirect(c) \/ KickedPoll(c) \/ SweepPoll(c)
         \/ \E j \in Journals : BeginPost(c, j) \/ BeginReverse(c, j)
  PROVE  /\ \A d \in Sessions \ {c} : conn'[d] = conn[d]
         /\ conn'[c].kind # "idle"
         /\ conn'[c].stage = "check"
         /\ conn'[c].at = None
         /\ conn'[c].todo \subseteq Tuples
         /\ conn'[c].sum = {}
         /\ DOMAIN conn'[c].writes = {}
         /\ UNCHANGED <<ledger, event, balance>>
         /\ conn'[c].kind = "poll" => /\ conn'[c].claimed \subseteq Claimable
                                      /\ conn'[c].todo = {e[2] : e \in conn'[c].claimed}
         /\ conn'[c].kind # "poll" => conn'[c].claimed = {}
         /\ conn'[c].kind = "post" => \E j \in Journals : BeginPost(c, j) /\ conn'[c].own = j
         /\ conn'[c].kind = "reverse" => \E j \in Journals : BeginReverse(c, j) /\ conn'[c].own = j
<1>1. DOMAIN conn = Sessions
  BY DEF TypeInv, TypeOK
<1>7. \A job \in jobs : job.tuple \in Tuples
  BY DEF TypeInv, TypeOK, Jobs
<1>2. CASE BeginDirect(c)
  <2>1. PICK job \in jobs :
          /\ conn' = [conn EXCEPT ![c] = [Idle EXCEPT !.kind = "direct",
                                            !.todo = {job.tuple}, !.durable = job.durable]]
          /\ UNCHANGED <<ledger, event, balance>>
    BY <1>2 DEF BeginDirect
  <2> QED BY <1>7, <1>1, <2>1 DEF Idle
<1>3. CASE KickedPoll(c) \/ SweepPoll(c)
  <2>1. PICK batch \in SUBSET Claimable :
          /\ conn' = [conn EXCEPT ![c] = [Idle EXCEPT !.kind = "poll", !.claimed = batch,
                                                      !.todo = {e[2] : e \in batch}]]
          /\ UNCHANGED <<ledger, event, balance>>
    BY <1>3 DEF KickedPoll, SweepPoll, Claim
  <2>2. {e[2] : e \in batch} \subseteq Tuples
    BY EventFacts DEF Claimable
  <2> QED BY <1>1, <2>1, <2>2 DEF Idle
<1>4. ASSUME NEW j \in Journals, BeginPost(c, j) \/ BeginReverse(c, j)
      PROVE  \E k \in {"post", "reverse"} :
               /\ conn' = [conn EXCEPT ![c] = [Idle EXCEPT !.kind = k, !.own = j,
                                                           !.todo = Touches[j]]]
               /\ UNCHANGED <<ledger, event, balance>>
               /\ k = "post" => BeginPost(c, j)
               /\ k = "reverse" => BeginReverse(c, j)
  <2>1. CASE BeginPost(c, j)
    BY <2>1 DEF BeginPost
  <2>2. CASE BeginReverse(c, j)
    BY <2>2 DEF BeginReverse
  <2> QED BY <1>4, <2>1, <2>2
<1>5. ASSUME NEW j \in Journals, NEW k \in {"post", "reverse"},
             conn' = [conn EXCEPT ![c] = [Idle EXCEPT !.kind = k, !.own = j,
                                                      !.todo = Touches[j]]]
      PROVE  /\ \A d \in Sessions \ {c} : conn'[d] = conn[d]
             /\ conn'[c].kind = k
             /\ conn'[c].own = j
             /\ conn'[c].stage = "check"
             /\ conn'[c].at = None
             /\ conn'[c].todo \subseteq Tuples
             /\ conn'[c].sum = {}
             /\ DOMAIN conn'[c].writes = {}
             /\ conn'[c].claimed = {}
  BY <1>1, <1>5, EventFacts DEF Idle
<1>6. ASSUME NEW j \in Journals, BeginPost(c, j) \/ BeginReverse(c, j)
      PROVE  /\ \A d \in Sessions \ {c} : conn'[d] = conn[d]
             /\ conn'[c].kind \in {"post", "reverse"}
             /\ conn'[c].own = j
             /\ conn'[c].stage = "check"
             /\ conn'[c].at = None
             /\ conn'[c].todo \subseteq Tuples
             /\ conn'[c].sum = {}
             /\ DOMAIN conn'[c].writes = {}
             /\ conn'[c].claimed = {}
             /\ UNCHANGED <<ledger, event, balance>>
             /\ conn'[c].kind = "post" => BeginPost(c, j)
             /\ conn'[c].kind = "reverse" => BeginReverse(c, j)
  BY <1>4, <1>5, <1>6
<1> QED BY <1>2, <1>3, <1>6

(* The end of a session: all but the ledger and the events of CommitInline and *)
(* CommitPoll. *)
LEMMA EndFields ==
  ASSUME TypeInv, NEW c \in Sessions,
         \/ CommitInline(c) \/ WriteDirect(c) \/ EndDirect(c)
         \/ Abort(c) \/ DeadlockAbort(c) \/ CommitPoll(c)
  PROVE  /\ conn'[c] = Idle
         /\ \A d \in Sessions \ {c} :
              /\ conn'[d].kind = conn[d].kind
              /\ conn'[d].own = conn[d].own
              /\ conn'[d].claimed = conn[d].claimed
              /\ conn'[d].todo = conn[d].todo
              /\ conn'[d].at = conn[d].at
              /\ conn'[d].stage = conn[d].stage
              /\ conn'[d].sum = conn[d].sum
              /\ conn'[d].writes = conn[d].writes
              /\ conn'[d].skipped = conn[d].skipped
              /\ conn'[d].failed = conn[d].failed
<1>1. EndConn(c, Scope(c)) \/ EndConn(c, Forgone(c))
  BY DEF CommitInline, WriteDirect, EndDirect, Abort, DeadlockAbort, RollBack, CommitPoll
<1>2. Scope(c) \in SUBSET Tuples /\ Forgone(c) \in SUBSET Tuples
  BY ScopeTyped DEF TypeInv
<1>3. CASE EndConn(c, Scope(c))
  BY <1>2, <1>3, EndConnFacts DEF TypeInv
<1>4. CASE EndConn(c, Forgone(c))
  BY <1>2, <1>4, EndConnFacts DEF TypeInv
<1> QED BY <1>1, <1>3, <1>4

LEMMA LedgerInvInit == Init => LedgerInv
BY IdleFacts DEF Init, LedgerInv

(* A real journal stays real, a reversed one stays reversed. *)
LEMMA LedgerGrows ==
  ASSUME TypeInv, LedgerInv, [Next]_vars, NEW j \in Journals
  PROVE  /\ Real(j) => Real(j)'
         /\ ledger[j] = "reversed" => ledger'[j] = "reversed"
<1> USE DEF Real
<1>1. ledger \in [Journals -> {"new", "checked", "posted", "reversed"}]
  BY DEF TypeInv, TypeOK
<1>2. ASSUME NEW i \in Journals, CheckPeriod(i) \/ CommitPost(i) \/ CommitReversal(i)
      PROVE  /\ Real(j) => Real(j)'
             /\ ledger[j] = "reversed" => ledger'[j] = "reversed"
  BY <1>1, <1>2 DEF CheckPeriod, CommitPost, CommitReversal
<1>3. ASSUME NEW c \in Sessions, CommitInline(c)
      PROVE  /\ Real(j) => Real(j)'
             /\ ledger[j] = "reversed" => ledger'[j] = "reversed"
  BY <1>1, <1>3 DEF CommitInline, LedgerInv
<1>4. ASSUME NEW c \in Sessions,
             \/ BeginDirect(c) \/ KickedPoll(c) \/ SweepPoll(c) \/ EmptyPoll(c)
             \/ \E i \in Journals : BeginPost(c, i) \/ BeginReverse(c, i)
      PROVE  UNCHANGED ledger
  <2>1. CASE EmptyPoll(c)
    BY <2>1 DEF EmptyPoll
  <2> QED BY <1>4, <2>1, BeginFields
<1>5. ASSUME NEW c \in Sessions,
             \/ SkipClosed(c) \/ BeginTuple(c) \/ ReadSum(c) \/ WriteHeld(c)
             \/ RebuildFails(c) \/ DeadlockFails(c)
             \/ WriteDirect(c) \/ EndDirect(c) \/ Abort(c) \/ DeadlockAbort(c) \/ CommitPoll(c)
      PROVE  UNCHANGED ledger
  BY <1>5 DEF SkipClosed, BeginTuple, ReadSum, WriteHeld, RebuildFails, DeadlockFails,
              TupleFails, WriteDirect, EndDirect,
              Abort, DeadlockAbort, RollBack, CommitPoll
<1>6. ASSUME NEW p \in Periods, ClosePeriod(p) \/ OpenPeriod(p)
      PROVE  UNCHANGED ledger
  BY <1>6 DEF ClosePeriod, OpenPeriod
<1>7. CASE Crash
  BY <1>1, <1>7 DEF Crash
<1>8. CASE UNCHANGED vars
  BY <1>8 DEF vars
<1> QED BY <1>2, <1>3, <1>4, <1>5, <1>6, <1>7, <1>8, NextCases

LEMMA LedgerInvKept ==
  ASSUME TypeInv, LedgerInv, [Next]_vars
  PROVE  LedgerInv'
<1> USE DEF LedgerInv
<1>1. \A j \in Journals : Real(j) => Real(j)'
  BY LedgerGrows
<1>2. \A c \in Sessions : conn[c].claimed \subseteq Events
  BY ConnFacts DEF TypeInv, TypeOK
<1>3. ASSUME NEW j \in Journals, CheckPeriod(j) \/ CommitPost(j) \/ CommitReversal(j)
      PROVE  LedgerInv'
  <2>1. UNCHANGED conn
    BY <1>3 DEF CheckPeriod, CommitPost, CommitReversal
  <2>2. \A e \in Events : \/ event'[e] = event[e]
                          \/ event'[e].status = "PENDING" /\ Real(e[1])'
    <3>1. CASE CommitPost(j)
      <4>1. ledger'[j] = "posted"
        BY <3>1 DEF CommitPost, TypeInv, TypeOK
      <4>2. ASSUME NEW e \in Events, e[1] # j PROVE event'[e] = event[e]
        BY <3>1, <4>2 DEF CommitPost
      <4>3. ASSUME NEW e \in Events, e[1] = j PROVE event'[e].status = "PENDING"
        BY <3>1, <4>3 DEF CommitPost
      <4> QED BY <4>1, <4>2, <4>3 DEF Real
    <3>2. CASE CheckPeriod(j) \/ CommitReversal(j)
      <4>1. UNCHANGED event
        BY <3>2 DEF CheckPeriod, CommitReversal
      <4> QED BY <4>1
    <3> QED BY <1>3, <3>1, <3>2
  <2>3. \A c \in Sessions : conn[c].kind = "post" => ledger'[conn[c].own] = "new"
    BY <1>3 DEF CheckPeriod, CommitPost, CommitReversal, TypeInv, TypeOK
  <2>4. \A e \in Events : event'[e].status # "none" => Real(e[1])'
    BY <1>1, <2>2, EventFacts
  <2>5. \A c \in Sessions : \A e \in conn[c].claimed : event'[e].status # "none"
    BY <1>2, <2>2
  <2> QED BY <1>1, <2>1, <2>3, <2>4, <2>5
<1>4. ASSUME NEW c \in Sessions,
             \/ BeginDirect(c) \/ KickedPoll(c) \/ SweepPoll(c)
             \/ \E i \in Journals : BeginPost(c, i) \/ BeginReverse(c, i)
      PROVE  LedgerInv'
  <2>1. /\ \A d \in Sessions \ {c} : conn'[d] = conn[d]
        /\ UNCHANGED <<ledger, event, balance>>
        /\ conn'[c].kind = "poll" => conn'[c].claimed \subseteq Claimable
        /\ conn'[c].kind # "poll" => conn'[c].claimed = {}
        /\ conn'[c].kind = "post" => \E j \in Journals : BeginPost(c, j) /\ conn'[c].own = j
        /\ conn'[c].kind = "reverse" => \E j \in Journals : BeginReverse(c, j) /\ conn'[c].own = j
    BY <1>4, BeginFields
  <2>2. \A e \in Claimable : event[e].status # "none"
    BY DEF Claimable
  <2>3. conn'[c].kind = "post" => /\ conn'[c].own \in Journals
                                  /\ ledger[conn'[c].own] = "new"
                                  /\ \A d \in Sessions \ {c} : conn[d].kind # "post"
    <3>1. ASSUME NEW j \in Journals, BeginPost(c, j)
          PROVE  ledger[j] = "new" /\ \A d \in Sessions : conn[d].kind # "post"
      BY <3>1 DEF BeginPost, MayWrite
    <3> QED BY <2>1, <3>1
  <2>4. conn'[c].kind = "reverse" => conn'[c].own \in Journals /\ Real(conn'[c].own)
    <3>1. ASSUME NEW j \in Journals, BeginReverse(c, j) PROVE Real(j)
      BY <3>1 DEF BeginReverse, Real
    <3> QED BY <2>1, <3>1
  <2> QED BY <2>1, <2>2, <2>3, <2>4 DEF Real
<1>5. ASSUME NEW c \in Sessions, EmptyPoll(c) PROVE LedgerInv'
  BY <1>5 DEF EmptyPoll, Real
<1>6. ASSUME NEW c \in Sessions,
             SkipClosed(c) \/ BeginTuple(c) \/ ReadSum(c) \/ WriteHeld(c)
             \/ RebuildFails(c) \/ DeadlockFails(c)
      PROVE  LedgerInv'
  <2>1. /\ \A d \in Sessions : /\ conn'[d].kind = conn[d].kind
                               /\ conn'[d].own = conn[d].own
                               /\ conn'[d].claimed = conn[d].claimed
        /\ UNCHANGED <<ledger, event>>
    BY <1>6, OneConnFields
  <2> QED BY <2>1 DEF Real
<1>7. ASSUME NEW c \in Sessions,
             \/ CommitInline(c) \/ WriteDirect(c) \/ EndDirect(c)
             \/ Abort(c) \/ DeadlockAbort(c) \/ CommitPoll(c)
      PROVE  LedgerInv'
  <2>1. /\ conn'[c].kind = "idle" /\ conn'[c].claimed = {}
        /\ \A d \in Sessions \ {c} : /\ conn'[d].kind = conn[d].kind
                                     /\ conn'[d].own = conn[d].own
                                     /\ conn'[d].claimed = conn[d].claimed
    BY <1>7, EndFields, IdleFacts
  <2>2. \A e \in Events : event'[e].status # "none" => event[e].status # "none"
    <3>1. CASE CommitPoll(c)
      BY <3>1 DEF CommitPoll
    <3>2. CASE ~CommitPoll(c)
      BY <1>7, <3>2 DEF CommitInline, WriteDirect, EndDirect, Abort, DeadlockAbort, RollBack
    <3> QED BY <3>1, <3>2
  <2>3. \A e \in Events : event[e].status # "none" => event'[e].status # "none"
    <3>1. CASE CommitPoll(c)
      BY <3>1 DEF CommitPoll
    <3>2. CASE ~CommitPoll(c)
      BY <1>7, <3>2 DEF CommitInline, WriteDirect, EndDirect, Abort, DeadlockAbort, RollBack
    <3> QED BY <3>1, <3>2
  <2>4. \A d \in Sessions \ {c} : conn[d].kind = "post" => ledger'[conn[d].own] = "new"
    <3>1. CASE CommitInline(c)
      BY <3>1 DEF CommitInline, TypeInv, TypeOK, Real
    <3>2. CASE ~CommitInline(c)
      BY <1>7, <3>2 DEF CommitPoll, WriteDirect, EndDirect, Abort, DeadlockAbort, RollBack
    <3> QED BY <3>1, <3>2
  <2>5. \A e \in Events : event'[e].status # "none" => Real(e[1])'
    BY <1>1, <2>2, EventFacts
  <2> QED BY <1>1, <1>2, <2>1, <2>3, <2>4, <2>5
<1>8. ASSUME NEW p \in Periods, ClosePeriod(p) \/ OpenPeriod(p) PROVE LedgerInv'
  BY <1>8 DEF ClosePeriod, OpenPeriod, Real
<1>9. CASE Crash
  <2>1. \A c \in Sessions : conn'[c].kind = "idle" /\ conn'[c].claimed = {}
    BY <1>9, IdleFacts DEF Crash
  <2>2. UNCHANGED event
    BY <1>9 DEF Crash
  <2> QED BY <1>1, <2>1, <2>2, EventFacts
<1>10. CASE UNCHANGED vars
  BY <1>10 DEF vars, Real
<1> QED BY <1>3, <1>4, <1>5, <1>6, <1>7, <1>8, <1>9, <1>10, NextCases

LEMMA LedgerInvariant == Spec => [](TypeInv /\ LedgerInv)
BY TypeInvInvariant, LedgerInvInit, LedgerInvKept, PTL DEF Spec

(* Session c may hold totals of real journals, and of the one it is posting. *)
MayHold(c, t) ==
  {j \in Journals :
     /\ t \in Touches[j]
     /\ Real(j) \/ (conn[c].kind = "post" /\ conn[c].own = j)}

HeldInv ==
  \A c \in Sessions :
    /\ conn[c].stage = "write" => conn[c].sum \subseteq MayHold(c, conn[c].at)
    /\ \A t \in DOMAIN conn[c].writes : conn[c].writes[t] \subseteq MayHold(c, t)

PhantomInv == NoPhantoms /\ HeldInv

(* A session whose record keeps what it holds may go on holding it. *)
LEMMA HeldStays ==
  ASSUME HeldInv, NEW c \in Sessions, \A j \in Journals : Real(j) => Real(j)',
         conn'[c].kind = conn[c].kind, conn'[c].own = conn[c].own,
         conn'[c].sum = conn[c].sum, conn'[c].writes = conn[c].writes,
         conn'[c].stage = "write" => conn[c].stage = "write" /\ conn'[c].at = conn[c].at
  PROVE  /\ conn'[c].stage = "write" => conn'[c].sum \subseteq MayHold(c, conn[c].at)'
         /\ \A t \in DOMAIN conn'[c].writes : conn'[c].writes[t] \subseteq MayHold(c, t)'
<1>1. ASSUME NEW t PROVE MayHold(c, t) \subseteq MayHold(c, t)'
  BY DEF MayHold
<1>2. ASSUME conn'[c].stage = "write" PROVE conn'[c].sum \subseteq MayHold(c, conn[c].at)'
  <2>1. MayHold(c, conn[c].at) \subseteq MayHold(c, conn[c].at)'
    BY <1>2 DEF MayHold
  <2> QED BY <1>2, <2>1 DEF HeldInv
<1> QED BY <1>1, <1>2 DEF HeldInv

LEMMA HeldEmpty ==
  ASSUME NEW c \in Sessions, conn'[c].sum = {}, DOMAIN conn'[c].writes = {}
  PROVE  /\ conn'[c].stage = "write" => conn'[c].sum \subseteq MayHold(c, conn[c].at)'
         /\ \A t \in DOMAIN conn'[c].writes : conn'[c].writes[t] \subseteq MayHold(c, t)'
OBVIOUS

LEMMA HeldKept ==
  ASSUME TypeInv, LedgerInv, HeldInv, [Next]_vars
  PROVE  HeldInv'
<1> DEFINE Held(c) ==
      /\ conn[c].stage = "write" => conn[c].sum \subseteq MayHold(c, conn[c].at)
      /\ \A t \in DOMAIN conn[c].writes : conn[c].writes[t] \subseteq MayHold(c, t)
<1>1. \A j \in Journals : Real(j) => Real(j)'
  BY LedgerGrows
<1>2. \A c \in Sessions : conn'[c] = conn[c] => Held(c)'
  BY <1>1, HeldStays
<1>3. ASSUME NEW c \in Sessions,
             \/ BeginDirect(c) \/ KickedPoll(c) \/ SweepPoll(c)
             \/ \E i \in Journals : BeginPost(c, i) \/ BeginReverse(c, i)
      PROVE  HeldInv'
  <2>1. /\ \A d \in Sessions \ {c} : conn'[d] = conn[d]
        /\ conn'[c].sum = {}
        /\ DOMAIN conn'[c].writes = {}
    BY <1>3, BeginFields
  <2>2. Held(c)'
    BY <2>1, HeldEmpty
  <2> QED BY <1>2, <2>1, <2>2 DEF HeldInv
<1>4. ASSUME NEW c \in Sessions,
             SkipClosed(c) \/ BeginTuple(c) \/ ReadSum(c) \/ WriteHeld(c)
             \/ RebuildFails(c) \/ DeadlockFails(c)
      PROVE  HeldInv'
  <2>1. /\ \A d \in Sessions \ {c} : conn'[d] = conn[d]
        /\ conn'[c].kind = conn[c].kind
        /\ conn'[c].own = conn[c].own
        /\ UNCHANGED ledger
    BY <1>4, OneConnFields
  <2>2. ASSUME NEW t PROVE MayHold(c, t)' = MayHold(c, t)
    BY <2>1 DEF MayHold, Real
  <2>3. conn[c] \in Conns /\ DOMAIN conn = Sessions
    BY DEF TypeInv, TypeOK
  <2>4. CASE SkipClosed(c)
    <3>1. PICK t \in NextTuples(c) :
            conn' = [conn EXCEPT ![c].todo = @ \ {t}, ![c].skipped = @ \cup {t}]
      BY <2>4 DEF SkipClosed
    <3>2. /\ conn'[c].sum = conn[c].sum /\ conn'[c].writes = conn[c].writes
          /\ conn'[c].stage = conn[c].stage /\ conn'[c].at = conn[c].at
      BY <2>3, <3>1 DEF Conns
    <3> QED BY <1>1, <1>2, <2>1, <3>2, HeldStays DEF HeldInv
  <2>5. CASE BeginTuple(c)
    <3>1. PICK t \in NextTuples(c) :
            conn' = [conn EXCEPT ![c].todo = @ \ {t}, ![c].at = t, ![c].stage = "sum"]
      BY <2>5 DEF BeginTuple
    <3>2. /\ conn'[c].sum = conn[c].sum /\ conn'[c].writes = conn[c].writes
          /\ conn'[c].stage = "sum"
      BY <2>3, <3>1 DEF Conns
    <3> QED BY <1>1, <1>2, <2>1, <3>2, HeldStays DEF HeldInv
  <2>6. CASE ReadSum(c)
    <3>1. /\ conn'[c].sum = Visible(c, conn[c].at) /\ conn'[c].writes = conn[c].writes
          /\ conn'[c].at = conn[c].at
      BY <2>3, <2>6 DEF ReadSum, Conns
    <3>2. Visible(c, conn[c].at) \subseteq MayHold(c, conn[c].at)
      BY DEF Visible, MayHold, Real
    <3>3. MayHold(c, conn[c].at)' = MayHold(c, conn[c].at)
      BY <2>1, <3>1 DEF MayHold, Real
    <3>4. Held(c)'
      BY <2>2, <3>1, <3>2, <3>3 DEF HeldInv
    <3> QED BY <1>2, <2>1, <3>4 DEF HeldInv
  <2>7. CASE WriteHeld(c)
    <3>1. /\ conn[c].stage = "write" /\ conn'[c].stage = "check"
          /\ \/ conn'[c].writes = conn[c].writes
             \/ conn'[c].writes = Put(conn[c].writes, conn[c].at, conn[c].sum)
      BY <2>3, <2>7 DEF WriteHeld, Conns
    <3>2. \A t \in DOMAIN conn'[c].writes : conn'[c].writes[t] \subseteq MayHold(c, t)
      BY <3>1 DEF HeldInv, Put
    <3>3. Held(c)'
      BY <2>2, <3>1, <3>2
    <3> QED BY <1>2, <2>1, <3>3 DEF HeldInv
  <2>8. CASE RebuildFails(c) \/ DeadlockFails(c)
    <3>1. conn'[c].stage = "check" /\ conn'[c].writes = conn[c].writes
      BY <2>3, <2>8 DEF RebuildFails, DeadlockFails, TupleFails, Conns
    <3>2. Held(c)'
      BY <2>2, <3>1 DEF HeldInv
    <3> QED BY <1>2, <2>1, <3>2 DEF HeldInv
  <2> QED BY <1>4, <2>4, <2>5, <2>6, <2>7, <2>8
<1>5. ASSUME NEW c \in Sessions,
             \/ CommitInline(c) \/ WriteDirect(c) \/ EndDirect(c)
             \/ Abort(c) \/ DeadlockAbort(c) \/ CommitPoll(c)
      PROVE  HeldInv'
  <2>1. Held(c)'
    BY <1>5, EndFields, IdleFacts, HeldEmpty
  <2>2. \A d \in Sessions \ {c} : Held(d)'
    BY <1>1, <1>5, EndFields, HeldStays
  <2> QED BY <2>1, <2>2 DEF HeldInv
<1>6. CASE Crash
  <2>1. \A c \in Sessions : conn'[c] = Idle
    BY <1>6 DEF Crash
  <2> QED BY <2>1, IdleFacts, HeldEmpty DEF HeldInv
<1>7. ASSUME UNCHANGED conn PROVE HeldInv'
  BY <1>2, <1>7 DEF HeldInv
<1>8. ASSUME NEW j \in Journals, CheckPeriod(j) \/ CommitPost(j) \/ CommitReversal(j)
      PROVE  UNCHANGED conn
  BY <1>8 DEF CheckPeriod, CommitPost, CommitReversal
<1>9. ASSUME NEW c \in Sessions, EmptyPoll(c) PROVE UNCHANGED conn
  BY <1>9 DEF EmptyPoll
<1>10. ASSUME NEW p \in Periods, ClosePeriod(p) \/ OpenPeriod(p) PROVE UNCHANGED conn
  BY <1>10 DEF ClosePeriod, OpenPeriod
<1>11. UNCHANGED vars => UNCHANGED conn
  BY DEF vars
<1> QED BY <1>3, <1>4, <1>5, <1>6, <1>7, <1>8, <1>9, <1>10, <1>11, NextCases

LEMMA PhantomsKept ==
  ASSUME TypeInv, LedgerInv, PhantomInv, [Next]_vars
  PROVE  NoPhantoms'
<1>1. \A j \in Journals : Real(j) => Real(j)'
  BY LedgerGrows
<1>2. ASSUME balance' = balance PROVE NoPhantoms'
  BY <1>1, <1>2 DEF NoPhantoms, PhantomInv, Real
<1>3. ASSUME \A t \in Tuples : \/ balance'[t] = balance[t]
                               \/ \A j \in balance'[t] : Real(j)' /\ t \in Touches[j]
      PROVE  NoPhantoms'
  BY <1>1, <1>3 DEF NoPhantoms, PhantomInv, Real
<1>4. ASSUME NEW c \in Sessions, CommitInline(c) PROVE NoPhantoms'
  <2>1. /\ conn[c].kind \in {"post", "reverse"}
        /\ balance' = [t \in Tuples |-> IF Locks(c, t) THEN conn[c].writes[t] ELSE balance[t]]
        /\ ledger' = [ledger EXCEPT ![conn[c].own] =
                        IF conn[c].kind = "post" THEN "posted" ELSE "reversed"]
    BY <1>4 DEF CommitInline
  <2>4. ledger \in [Journals -> {"new", "checked", "posted", "reversed"}]
    BY DEF TypeInv, TypeOK
  <2>5. ASSUME NEW j \in Journals, conn[c].kind = "post", conn[c].own = j PROVE Real(j)'
    BY <2>1, <2>4, <2>5 DEF Real
  <2>2. ASSUME NEW t \in Tuples, NEW j \in MayHold(c, t) PROVE Real(j)' /\ t \in Touches[j]
    <3>1. /\ j \in Journals /\ t \in Touches[j]
          /\ Real(j) \/ (conn[c].kind = "post" /\ conn[c].own = j)
      BY DEF MayHold
    <3> QED BY <1>1, <2>5, <3>1
  <2>3. \A t \in Tuples :
          Locks(c, t) => \A j \in conn[c].writes[t] : Real(j)' /\ t \in Touches[j]
    BY <2>2 DEF PhantomInv, HeldInv, Locks
  <2> QED BY <1>3, <2>1, <2>3
<1>5. ASSUME NEW c \in Sessions, CommitPoll(c) PROVE NoPhantoms'
  <2>1. /\ conn[c].kind = "poll"
        /\ balance' = [t \in Tuples |-> IF Locks(c, t) THEN conn[c].writes[t] ELSE balance[t]]
    BY <1>5 DEF CommitPoll
  <2>2. \A t \in Tuples : \A j \in MayHold(c, t) : Real(j)' /\ t \in Touches[j]
    BY <1>1, <2>1 DEF MayHold
  <2>3. \A t \in Tuples :
          Locks(c, t) => \A j \in conn[c].writes[t] : Real(j)' /\ t \in Touches[j]
    BY <2>2 DEF PhantomInv, HeldInv, Locks
  <2> QED BY <1>3, <2>1, <2>3
<1>6. ASSUME NEW c \in Sessions, WriteDirect(c) PROVE NoPhantoms'
  <2>1. /\ conn[c].kind = "direct" /\ conn[c].stage = "write"
        /\ balance' = [balance EXCEPT ![conn[c].at] = conn[c].sum]
    BY <1>6 DEF WriteDirect
  <2>2. \A j \in conn[c].sum : Real(j)' /\ conn[c].at \in Touches[j]
    BY <1>1, <2>1 DEF PhantomInv, HeldInv, MayHold
  <2>3. balance \in [Tuples -> SUBSET Journals]
    BY DEF TypeInv, TypeOK
  <2> QED BY <1>3, <2>1, <2>2, <2>3
<1>7. ASSUME NEW c \in Sessions,
             \/ SkipClosed(c) \/ BeginTuple(c) \/ ReadSum(c) \/ WriteHeld(c)
             \/ RebuildFails(c) \/ DeadlockFails(c)
             \/ EndDirect(c) \/ Abort(c) \/ DeadlockAbort(c) \/ EmptyPoll(c)
      PROVE  UNCHANGED balance
  BY <1>7 DEF SkipClosed, BeginTuple, ReadSum, WriteHeld, RebuildFails, DeadlockFails,
              TupleFails, EndDirect, Abort,
              DeadlockAbort, RollBack, EmptyPoll
<1>8. ASSUME NEW c \in Sessions,
             \/ BeginDirect(c) \/ KickedPoll(c) \/ SweepPoll(c)
             \/ \E i \in Journals : BeginPost(c, i) \/ BeginReverse(c, i)
      PROVE  UNCHANGED balance
  BY <1>8, BeginFields
<1>9. ASSUME NEW j \in Journals, CheckPeriod(j) \/ CommitPost(j) \/ CommitReversal(j)
      PROVE  UNCHANGED balance
  BY <1>9 DEF CheckPeriod, CommitPost, CommitReversal
<1>10. ASSUME NEW p \in Periods, ClosePeriod(p) \/ OpenPeriod(p) PROVE UNCHANGED balance
  BY <1>10 DEF ClosePeriod, OpenPeriod
<1>11. Crash \/ UNCHANGED vars => UNCHANGED balance
  BY DEF Crash, vars
<1> QED BY <1>2, <1>4, <1>5, <1>6, <1>7, <1>8, <1>9, <1>10, <1>11, NextCases

(* A committed balance never sums a journal that was not committed, nor one that
   does not touch its row. *)
THEOREM BalancesAreReal == Spec => []NoPhantoms
<1>1. Init => PhantomInv
  BY IdleFacts DEF Init, PhantomInv, NoPhantoms, HeldInv
<1>2. (TypeInv /\ LedgerInv) /\ PhantomInv /\ [Next]_vars => PhantomInv'
  BY HeldKept, PhantomsKept DEF PhantomInv
<1>3. PhantomInv => NoPhantoms
  BY DEF PhantomInv
<1> QED BY <1>1, <1>2, <1>3, LedgerInvariant, PTL DEF Spec

-----------------------------------------------------------------------------
(***************************************************************************)
(* DoneMeansCounted.  Until its commit, a poll accounts for every event it *)
(* has claimed: the tuple is still to rebuild, was skipped or has failed,  *)
(* or the journal is in the total it holds, or has been reversed.          *)
(***************************************************************************)
Accounted(c, e) ==
  \/ e[2] \in conn[c].todo
  \/ e[2] \in conn[c].skipped
  \/ e[2] \in conn[c].failed
  \/ conn[c].at = e[2] /\ conn[c].stage = "sum"
  \/ conn[c].at = e[2] /\ conn[c].stage = "write" /\ e[1] \in conn[c].sum
  \/ e[2] \in DOMAIN conn[c].writes /\ e[1] \in conn[c].writes[e[2]]
  \/ ledger[e[1]] = "reversed"

CountInv ==
  \A c \in Sessions :
    /\ \A e \in conn[c].claimed : Accounted(c, e)
    /\ conn[c].at \notin conn[c].todo
    /\ \A t \in DOMAIN conn[c].writes : t \notin conn[c].todo /\ t # conn[c].at
    /\ conn[c].at # None => conn[c].stage # "check"

CountOf(c) == /\ \A e \in conn[c].claimed : Accounted(c, e)
              /\ conn[c].at \notin conn[c].todo
              /\ \A t \in DOMAIN conn[c].writes : t \notin conn[c].todo /\ t # conn[c].at
              /\ conn[c].at # None => conn[c].stage # "check"

LEMMA CountStays ==
  ASSUME TypeInv, CountInv, NEW c \in Sessions,
         \A j \in Journals : ledger[j] = "reversed" => ledger'[j] = "reversed",
         conn'[c].claimed = conn[c].claimed, conn'[c].todo = conn[c].todo,
         conn'[c].at = conn[c].at, conn'[c].stage = conn[c].stage,
         conn'[c].sum = conn[c].sum, conn'[c].writes = conn[c].writes,
         conn'[c].skipped = conn[c].skipped, conn'[c].failed = conn[c].failed
  PROVE  CountOf(c)'
<1>1. \A e \in conn[c].claimed : e[1] \in Journals
  BY ConnFacts, EventFacts DEF TypeInv, TypeOK
<1> QED BY <1>1 DEF CountInv, CountOf, Accounted

LEMMA CountIdle ==
  ASSUME NEW c \in Sessions, conn'[c] = Idle
  PROVE  CountOf(c)'
BY DEF CountOf, Idle

LEMMA RebuildStepsCount ==
  ASSUME TypeInv, LedgerInv, CountInv, NEW c \in Sessions,
         SkipClosed(c) \/ BeginTuple(c) \/ ReadSum(c) \/ WriteHeld(c)
         \/ RebuildFails(c) \/ DeadlockFails(c)
  PROVE  CountOf(c)'
<1> DEFINE y == conn[c]
<1>1. y \in Conns /\ DOMAIN conn = Sessions
  BY DEF TypeInv, TypeOK
<1>2. UNCHANGED ledger
  BY OneConnFields
<1>3. /\ \A e \in y.claimed : Accounted(c, e) /\ e[1] \in Journals /\ e[2] \in Tuples
      /\ y.at \notin y.todo
      /\ \A t \in DOMAIN y.writes : t \notin y.todo /\ t # y.at
      /\ y.at # None => y.stage # "check"
      /\ y.todo \subseteq Tuples
  BY <1>1, ConnFacts, EventFacts DEF CountInv
<1>4. \A t \in NextTuples(c) : t \in y.todo
  BY DEF NextTuples
<1>5. CASE SkipClosed(c)
  <2>1. PICK t \in NextTuples(c) :
          conn' = [conn EXCEPT ![c].todo = @ \ {t}, ![c].skipped = @ \cup {t}]
    BY <1>5 DEF SkipClosed
  <2>2. /\ conn'[c].claimed = y.claimed /\ conn'[c].todo = y.todo \ {t}
        /\ conn'[c].at = y.at /\ conn'[c].stage = y.stage
        /\ conn'[c].sum = y.sum /\ conn'[c].writes = y.writes
        /\ conn'[c].skipped = y.skipped \cup {t} /\ conn'[c].failed = y.failed
    BY <1>1, <2>1 DEF Conns
  <2> QED BY <1>2, <1>3, <2>2 DEF CountOf, Accounted
<1>6. CASE BeginTuple(c)
  <2>1. PICK t \in NextTuples(c) :
          /\ conn[c].at = None
          /\ conn' = [conn EXCEPT ![c].todo = @ \ {t}, ![c].at = t, ![c].stage = "sum"]
    BY <1>6 DEF BeginTuple
  <2>2. /\ conn'[c].claimed = y.claimed /\ conn'[c].todo = y.todo \ {t}
        /\ conn'[c].at = t /\ conn'[c].stage = "sum"
        /\ conn'[c].sum = y.sum /\ conn'[c].writes = y.writes
        /\ conn'[c].skipped = y.skipped /\ conn'[c].failed = y.failed
    BY <1>1, <2>1 DEF Conns
  <2>3. t \in y.todo /\ y.at = None
    BY <1>4, <2>1
  <2> QED BY <1>2, <1>3, <2>2, <2>3 DEF CountOf, Accounted
<1>7. CASE ReadSum(c)
  <2>1. /\ conn'[c].claimed = y.claimed /\ conn'[c].todo = y.todo
        /\ conn'[c].at = y.at /\ conn'[c].stage = "write" /\ y.stage = "sum"
        /\ conn'[c].sum = Visible(c, y.at) /\ conn'[c].writes = y.writes
        /\ conn'[c].skipped = y.skipped /\ conn'[c].failed = y.failed
    BY <1>1, <1>7 DEF ReadSum, Conns
  <2>2. ASSUME NEW e \in y.claimed, e[2] = y.at
        PROVE  e[1] \in Visible(c, y.at) \/ ledger[e[1]] = "reversed"
    <3>1. y.kind = "poll" /\ e \in Events /\ Real(e[1])
      BY <1>1, ConnFacts DEF LedgerInv
    <3> QED BY <1>3, <2>2, <3>1 DEF Visible, Events, Real
  <2> QED BY <1>2, <1>3, <2>1, <2>2 DEF CountOf, Accounted
<1>8. CASE WriteHeld(c)
  <2>1. /\ conn'[c].claimed = y.claimed /\ conn'[c].todo = y.todo
        /\ conn'[c].at = None /\ conn'[c].stage = "check" /\ y.stage = "write"
        /\ conn'[c].skipped = y.skipped /\ conn'[c].failed = y.failed
        /\ conn'[c].writes = IF NothingToDelete(c) THEN y.writes
                             ELSE Put(y.writes, y.at, y.sum)
    BY <1>1, <1>8 DEF WriteHeld, Conns
  <2>2. NothingToDelete(c) => y.sum = {}
    BY DEF NothingToDelete
  <2>3. y.at \in Tuples /\ None \notin Tuples
    BY <2>1, <1>1, ConnFacts DEF TypeInv, ConnInv
  <2>4. /\ DOMAIN Put(y.writes, y.at, y.sum) = DOMAIN y.writes \cup {y.at}
        /\ Put(y.writes, y.at, y.sum)[y.at] = y.sum
        /\ \A t \in DOMAIN y.writes : t # y.at => Put(y.writes, y.at, y.sum)[t] = y.writes[t]
    BY DEF Put
  <2>5. DOMAIN y.writes \subseteq Tuples
    BY <1>1, ConnFacts, WritesFacts
  <2>6. ASSUME NEW e \in y.claimed PROVE Accounted(c, e)'
    <3>1. CASE NothingToDelete(c)
      BY <1>2, <1>3, <2>1, <2>2, <3>1 DEF Accounted
    <3>2. CASE ~NothingToDelete(c)
      <4>1. conn'[c].writes = Put(y.writes, y.at, y.sum)
        BY <2>1, <3>2
      <4>2. CASE e[2] = y.at
        BY <1>2, <1>3, <2>1, <2>4, <4>1, <4>2 DEF Accounted
      <4>3. CASE e[2] # y.at
        BY <1>2, <1>3, <2>1, <2>4, <4>1, <4>3 DEF Accounted
      <4> QED BY <4>2, <4>3
    <3> QED BY <3>1, <3>2
  <2>7. \A t \in DOMAIN conn'[c].writes : t \notin y.todo /\ t # None
    BY <1>3, <2>1, <2>3, <2>4, <2>5
  <2> QED BY <1>3, <2>1, <2>3, <2>6, <2>7 DEF CountOf
<1>9. CASE RebuildFails(c) \/ DeadlockFails(c)
  <2>1. /\ conn'[c].claimed = y.claimed /\ conn'[c].todo = y.todo
        /\ conn'[c].at = None /\ conn'[c].stage = "check"
        /\ conn'[c].sum = {} /\ conn'[c].writes = y.writes
        /\ conn'[c].skipped = y.skipped /\ conn'[c].failed = y.failed \cup {y.at}
    BY <1>1, <1>9 DEF RebuildFails, DeadlockFails, TupleFails, Conns
  <2>2. DOMAIN y.writes \subseteq Tuples /\ None \notin Tuples
    BY <1>1, ConnFacts, WritesFacts
  <2> QED BY <1>2, <1>3, <2>1, <2>2 DEF CountOf, Accounted
<1> QED BY <1>5, <1>6, <1>7, <1>8, <1>9

LEMMA CountKept ==
  ASSUME TypeInv, LedgerInv, CountInv, [Next]_vars
  PROVE  CountInv'
<1>1. \A j \in Journals : ledger[j] = "reversed" => ledger'[j] = "reversed"
  BY LedgerGrows
<1>2. \A c \in Sessions : conn'[c] = conn[c] => CountOf(c)'
  BY <1>1, CountStays
<1>3. SUFFICES \A c \in Sessions : CountOf(c)'
  BY DEF CountOf, CountInv
<1>4. ASSUME NEW c \in Sessions,
             \/ BeginDirect(c) \/ KickedPoll(c) \/ SweepPoll(c)
             \/ \E i \in Journals : BeginPost(c, i) \/ BeginReverse(c, i)
      PROVE  \A d \in Sessions : CountOf(d)'
  <2>1. /\ \A d \in Sessions \ {c} : conn'[d] = conn[d]
        /\ conn'[c].at = None
        /\ conn'[c].todo \subseteq Tuples
        /\ DOMAIN conn'[c].writes = {}
        /\ conn'[c].kind = "poll" => conn'[c].todo = {e[2] : e \in conn'[c].claimed}
        /\ conn'[c].kind # "poll" => conn'[c].claimed = {}
    BY <1>4, BeginFields
  <2>2. \A e \in conn'[c].claimed : e[2] \in conn'[c].todo
    BY <2>1
  <2>3. CountOf(c)'
    BY <2>1, <2>2 DEF CountOf, Accounted
  <2> QED BY <1>2, <2>1, <2>3
<1>5. ASSUME NEW c \in Sessions,
             SkipClosed(c) \/ BeginTuple(c) \/ ReadSum(c) \/ WriteHeld(c)
             \/ RebuildFails(c) \/ DeadlockFails(c)
      PROVE  \A d \in Sessions : CountOf(d)'
  <2>1. \A d \in Sessions \ {c} : conn'[d] = conn[d]
    BY <1>5, OneConnFields
  <2>2. CountOf(c)'
    BY <1>5, RebuildStepsCount
  <2> QED BY <1>2, <2>1, <2>2
<1>6. ASSUME NEW c \in Sessions,
             \/ CommitInline(c) \/ WriteDirect(c) \/ EndDirect(c)
             \/ Abort(c) \/ DeadlockAbort(c) \/ CommitPoll(c)
      PROVE  \A d \in Sessions : CountOf(d)'
  <2>1. CountOf(c)'
    BY <1>6, EndFields, CountIdle
  <2>2. \A d \in Sessions \ {c} : CountOf(d)'
    BY <1>1, <1>6, EndFields, CountStays
  <2> QED BY <2>1, <2>2
<1>7. CASE Crash
  BY <1>7, CountIdle DEF Crash
<1>8. ASSUME UNCHANGED conn PROVE \A c \in Sessions : CountOf(c)'
  BY <1>2, <1>8
<1>9. ASSUME NEW j \in Journals, CheckPeriod(j) \/ CommitPost(j) \/ CommitReversal(j)
      PROVE  UNCHANGED conn
  BY <1>9 DEF CheckPeriod, CommitPost, CommitReversal
<1>10. ASSUME NEW c \in Sessions, EmptyPoll(c) PROVE UNCHANGED conn
  BY <1>10 DEF EmptyPoll
<1>11. ASSUME NEW p \in Periods, ClosePeriod(p) \/ OpenPeriod(p) PROVE UNCHANGED conn
  BY <1>11 DEF ClosePeriod, OpenPeriod
<1>12. UNCHANGED vars => UNCHANGED conn
  BY DEF vars
<1> QED BY <1>4, <1>5, <1>6, <1>7, <1>8, <1>9, <1>10, <1>11, <1>12, NextCases

(* Every step that marks an event DONE counts its journal. *)
LEMMA StepCounts ==
  ASSUME TypeInv, LedgerInv, CountInv, [Next]_vars, NEW e \in Events,
         event[e].status # "DONE", event'[e].status = "DONE"
  PROVE  \/ e[1] \in balance'[e[2]]
         \/ ledger[e[1]] = "reversed"
         \/ \E c \in Sessions : e \in conn[c].claimed /\ e[2] \in conn[c].skipped
<1>1. ASSUME NEW c \in Sessions, CommitPoll(c)
      PROVE  \/ e[1] \in balance'[e[2]]
             \/ ledger[e[1]] = "reversed"
             \/ e \in conn[c].claimed /\ e[2] \in conn[c].skipped
  <2>1. e \in conn[c].claimed /\ e[2] \notin conn[c].failed
    BY <1>1 DEF CommitPoll
  <2>2. Accounted(c, e) /\ conn[c].todo = {} /\ conn[c].at = None /\ e[2] \in Tuples
    BY <1>1, <2>1, EventFacts DEF CommitPoll, CountInv
  <2>3. CASE e[2] \in DOMAIN conn[c].writes /\ e[1] \in conn[c].writes[e[2]]
    BY <1>1, <2>2, <2>3 DEF CommitPoll, Locks
  <2> QED BY <2>1, <2>2, <2>3 DEF Accounted
<1>2. ASSUME NEW j \in Journals, CheckPeriod(j) \/ CommitPost(j) \/ CommitReversal(j)
      PROVE  FALSE
  <2>1. CASE CheckPeriod(j) \/ CommitReversal(j)
    BY <2>1 DEF CheckPeriod, CommitReversal
  <2>2. CASE CommitPost(j)
    <3>1. event'[e] = IF e[1] = j THEN [status |-> "PENDING", retries |-> 0] ELSE event[e]
      BY <2>2 DEF CommitPost
    <3>2. CASE e[1] = j
      <4>1. event'[e] = [status |-> "PENDING", retries |-> 0]
        BY <3>1, <3>2
      <4> QED BY <4>1
    <3>3. CASE e[1] # j
      <4>1. event'[e] = event[e]
        BY <3>1, <3>3
      <4> QED BY <4>1
    <3> QED BY <3>2, <3>3
  <2> QED BY <1>2, <2>1, <2>2
<1>3. ASSUME UNCHANGED event PROVE FALSE
  BY <1>3
<1>4. ASSUME NEW c \in Sessions,
             \/ BeginDirect(c) \/ KickedPoll(c) \/ SweepPoll(c)
             \/ \E i \in Journals : BeginPost(c, i) \/ BeginReverse(c, i)
      PROVE  UNCHANGED event
  BY <1>4, BeginFields
<1>5. ASSUME NEW c \in Sessions,
             \/ SkipClosed(c) \/ BeginTuple(c) \/ ReadSum(c) \/ WriteHeld(c)
             \/ RebuildFails(c) \/ DeadlockFails(c)
             \/ CommitInline(c) \/ WriteDirect(c) \/ EndDirect(c) \/ Abort(c) \/ DeadlockAbort(c)
             \/ EmptyPoll(c)
      PROVE  UNCHANGED event
  BY <1>5 DEF SkipClosed, BeginTuple, ReadSum, WriteHeld, RebuildFails, DeadlockFails,
              TupleFails, CommitInline,
              WriteDirect, EndDirect, Abort, DeadlockAbort, RollBack, EmptyPoll
<1>6. ASSUME NEW p \in Periods, ClosePeriod(p) \/ OpenPeriod(p) PROVE UNCHANGED event
  BY <1>6 DEF ClosePeriod, OpenPeriod
<1>7. Crash \/ UNCHANGED vars => UNCHANGED event
  BY DEF Crash, vars
<1> QED BY <1>1, <1>2, <1>3, <1>4, <1>5, <1>6, <1>7, NextCases

(* DONE means counted, reversed or skipped, for any batches, faults and sessions. *)
THEOREM DoneEventsAreCounted == Spec => DoneMeansCounted
<1>1. Init => CountInv
  BY IdleFacts DEF Init, CountInv, Idle
<1>2. (TypeInv /\ LedgerInv) /\ CountInv /\ [Next]_vars => CountInv'
  BY CountKept
<1>3. (TypeInv /\ LedgerInv) /\ CountInv /\ [Next]_vars =>
        [\A e \in Events :
           event[e].status # "DONE" /\ event'[e].status = "DONE" =>
             \/ e[1] \in balance'[e[2]]
             \/ ledger[e[1]] = "reversed"
             \/ \E c \in Sessions : e \in conn[c].claimed /\ e[2] \in conn[c].skipped]_vars
  BY StepCounts
<1> QED BY <1>1, <1>2, <1>3, LedgerInvariant, PTL DEF Spec, DoneMeansCounted
-----------------------------------------------------------------------------
(***************************************************************************)
(* WorkersNeverDeadlock.  A poll has written only tuples that come before  *)
(* the one it is at, and is at one that comes before those still to do.    *)
(* So in a circle of polls the one at the least tuple is waited for by one *)
(* that is at a smaller one.                                               *)
(***************************************************************************)
SortedOf(c) ==
  conn[c].kind = "poll" =>
    /\ \A t \in DOMAIN conn[c].writes : /\ \A u \in conn[c].todo : t < u
                                        /\ conn[c].at # None => t < conn[c].at
    /\ conn[c].at # None => \A u \in conn[c].todo : conn[c].at < u

SortedInv == \A c \in Sessions : SortedOf(c)

LEMMA SortedStays ==
  ASSUME SortedInv, NEW c \in Sessions,
         conn'[c].kind = conn[c].kind, conn'[c].todo = conn[c].todo,
         conn'[c].at = conn[c].at, conn'[c].writes = conn[c].writes
  PROVE  SortedOf(c)'
BY DEF SortedInv, SortedOf

LEMMA RebuildStepsSorted ==
  ASSUME TypeInv, SortedInv, NEW c \in Sessions,
         SkipClosed(c) \/ BeginTuple(c) \/ ReadSum(c) \/ WriteHeld(c)
         \/ RebuildFails(c) \/ DeadlockFails(c)
  PROVE  SortedOf(c)'
<1> DEFINE y == conn[c]
<1>1. y \in Conns /\ DOMAIN conn = Sessions
  BY DEF TypeInv, TypeOK
<1>2. SUFFICES ASSUME y.kind = "poll" PROVE SortedOf(c)'
  BY OneConnFields DEF SortedOf
<1>3. /\ \A t \in DOMAIN y.writes : /\ \A u \in y.todo : t < u
                                    /\ y.at # None => t < y.at
      /\ y.at # None => \A u \in y.todo : y.at < u
  BY <1>2 DEF SortedInv, SortedOf
<1>4. DOMAIN y.writes \subseteq Tuples /\ y.todo \subseteq Tuples /\ y.at \in Tuples \cup {None}
  BY <1>1, ConnFacts, WritesFacts
<1>5. NextTuples(c) = {t \in y.todo : \A u \in y.todo : t <= u}
  BY <1>2 DEF NextTuples
<1>6. CASE SkipClosed(c)
  <2>1. PICK t \in NextTuples(c) :
          conn' = [conn EXCEPT ![c].todo = @ \ {t}, ![c].skipped = @ \cup {t}]
    BY <1>6 DEF SkipClosed
  <2>2. /\ conn'[c].todo = y.todo \ {t} /\ conn'[c].at = y.at
        /\ conn'[c].writes = y.writes /\ conn'[c].kind = y.kind
    BY <1>1, <2>1 DEF Conns
  <2> QED BY <1>3, <2>2 DEF SortedOf
<1>7. CASE BeginTuple(c)
  <2>1. PICK t \in NextTuples(c) :
          /\ y.at = None
          /\ conn' = [conn EXCEPT ![c].todo = @ \ {t}, ![c].at = t, ![c].stage = "sum"]
    BY <1>7 DEF BeginTuple
  <2>2. /\ conn'[c].todo = y.todo \ {t} /\ conn'[c].at = t
        /\ conn'[c].writes = y.writes /\ conn'[c].kind = y.kind
    BY <1>1, <2>1 DEF Conns
  <2>3. t \in y.todo /\ \A u \in y.todo : t <= u
    BY <1>5, <2>1
  <2>4. \A u \in y.todo \ {t} : t < u
    <3>1. t \in Nat /\ \A u \in y.todo : u \in Nat
      BY <1>4, <2>3, TuplesAreNumbers
    <3> QED BY ONLY <2>3, <3>1
  <2> QED BY <1>3, <2>2, <2>3, <2>4 DEF SortedOf
<1>8. CASE ReadSum(c)
  <2>1. /\ conn'[c].todo = y.todo /\ conn'[c].at = y.at
        /\ conn'[c].writes = y.writes /\ conn'[c].kind = y.kind
    BY <1>1, <1>8 DEF ReadSum, Conns
  <2> QED BY <2>1, SortedStays
<1>9. CASE WriteHeld(c)
  <2>1. /\ conn'[c].todo = y.todo /\ conn'[c].at = None /\ conn'[c].kind = y.kind
        /\ y.stage = "write"
        /\ \/ conn'[c].writes = y.writes
           \/ conn'[c].writes = Put(y.writes, y.at, y.sum)
    BY <1>1, <1>9 DEF WriteHeld, Conns
  <2>2. y.at # None
    BY <2>1 DEF TypeInv, ConnInv
  <2>3. DOMAIN conn'[c].writes \subseteq DOMAIN y.writes \cup {y.at}
    BY <2>1 DEF Put
  <2> QED BY <1>3, <2>1, <2>2, <2>3 DEF SortedOf
<1>10. CASE RebuildFails(c) \/ DeadlockFails(c)
  <2>1. /\ conn'[c].todo = y.todo /\ conn'[c].at = None
        /\ conn'[c].writes = y.writes /\ conn'[c].kind = y.kind
    BY <1>1, <1>10 DEF RebuildFails, DeadlockFails, TupleFails, Conns
  <2> QED BY <1>3, <2>1 DEF SortedOf
<1> QED BY <1>6, <1>7, <1>8, <1>9, <1>10

LEMMA SortedKept ==
  ASSUME TypeInv, SortedInv, [Next]_vars
  PROVE  SortedInv'
<1>1. SUFFICES \A c \in Sessions : SortedOf(c)'
  BY DEF SortedInv
<1>2. \A c \in Sessions : conn'[c] = conn[c] => SortedOf(c)'
  BY SortedStays
<1>3. ASSUME NEW c \in Sessions,
             \/ BeginDirect(c) \/ KickedPoll(c) \/ SweepPoll(c)
             \/ \E i \in Journals : BeginPost(c, i) \/ BeginReverse(c, i)
      PROVE  \A d \in Sessions : SortedOf(d)'
  <2>1. /\ \A d \in Sessions \ {c} : conn'[d] = conn[d]
        /\ conn'[c].at = None /\ DOMAIN conn'[c].writes = {}
    BY <1>3, BeginFields
  <2> QED BY <1>2, <2>1 DEF SortedOf
<1>4. ASSUME NEW c \in Sessions,
             SkipClosed(c) \/ BeginTuple(c) \/ ReadSum(c) \/ WriteHeld(c)
             \/ RebuildFails(c) \/ DeadlockFails(c)
      PROVE  \A d \in Sessions : SortedOf(d)'
  BY <1>2, <1>4, OneConnFields, RebuildStepsSorted
<1>5. ASSUME NEW c \in Sessions,
             \/ CommitInline(c) \/ WriteDirect(c) \/ EndDirect(c)
             \/ Abort(c) \/ DeadlockAbort(c) \/ CommitPoll(c)
      PROVE  \A d \in Sessions : SortedOf(d)'
  <2>1. SortedOf(c)'
    BY <1>5, EndFields, IdleFacts DEF SortedOf
  <2> QED BY <1>5, <2>1, EndFields, SortedStays
<1>6. CASE Crash
  <2>1. \A c \in Sessions : conn'[c] = Idle
    BY <1>6 DEF Crash
  <2> QED BY <2>1, IdleFacts DEF SortedOf
<1>7. ASSUME UNCHANGED conn PROVE \A c \in Sessions : SortedOf(c)'
  BY <1>2, <1>7
<1>8. ASSUME NEW j \in Journals, CheckPeriod(j) \/ CommitPost(j) \/ CommitReversal(j)
      PROVE  UNCHANGED conn
  BY <1>8 DEF CheckPeriod, CommitPost, CommitReversal
<1>9. ASSUME NEW c \in Sessions, EmptyPoll(c) PROVE UNCHANGED conn
  BY <1>9 DEF EmptyPoll
<1>10. ASSUME NEW p \in Periods, ClosePeriod(p) \/ OpenPeriod(p) PROVE UNCHANGED conn
  BY <1>10 DEF ClosePeriod, OpenPeriod
<1>11. UNCHANGED vars => UNCHANGED conn
  BY DEF vars
<1> QED BY <1>3, <1>4, <1>5, <1>6, <1>7, <1>8, <1>9, <1>10, <1>11, NextCases

LEMMA SortedPollsWaitUpwards ==
  ASSUME TypeInv, SortedInv
  PROVE  WorkersNeverDeadlock
<1>1. SUFFICES ASSUME NEW S \in SUBSET {c \in Sessions : conn[c].kind = "poll"}, Cycle(S)
               PROVE  FALSE
  BY DEF WorkersNeverDeadlock
<1>2. \A c \in S : c \in Sessions /\ conn[c].kind = "poll"
  OBVIOUS
<1> DEFINE places == {conn[c].at : c \in S}
<1>3. ASSUME NEW c \in S PROVE conn[c].at \in Tuples /\ \E d \in S : WaitsFor(d, c)
  <2>1. PICK d \in S : WaitsFor(c, d)
    BY <1>1 DEF Cycle
  <2>2. conn[c].stage = "write" /\ conn[c] \in Conns
    BY <1>2, <2>1 DEF WaitsFor, TypeInv, TypeOK
  <2>3. conn[c].at \in Tuples
    BY <1>2, <2>2, ConnFacts DEF TypeInv, ConnInv
  <2> QED BY <1>1, <2>3 DEF Cycle
<1>4. places \subseteq Nat /\ places # {}
  <2>1. S # {}
    BY <1>1 DEF Cycle
  <2> QED BY ONLY <1>3, <2>1, TuplesAreNumbers
<1>5. PICK a \in places : \A b \in places : a <= b
  BY <1>4, NatMin
<1>6. PICK c \in S : a = conn[c].at
  BY <1>5
<1>7. PICK d \in S : WaitsFor(d, c)
  BY <1>3
<1>8. conn[d].at \in DOMAIN conn[c].writes /\ conn[c].at # None
  BY <1>3, <1>7, TuplesAssumption DEF WaitsFor, Locks
<1>9. conn[d].at < conn[c].at
  BY <1>2, <1>8 DEF SortedInv, SortedOf
<1> HIDE DEF places
<1>10. conn[c].at <= conn[d].at
  BY <1>5, <1>6 DEF places
<1>11. conn[c].at \in Nat /\ conn[d].at \in Nat
  BY <1>3, TuplesAreNumbers
<1> QED BY ONLY <1>9, <1>10, <1>11

(* However many polls and tuples there are, polls never wait for one another in a *)
(* circle. *)
THEOREM PollsNeverDeadlock == Spec => []WorkersNeverDeadlock
<1>1. Init => SortedInv
  BY IdleFacts DEF Init, SortedInv, SortedOf
<1>2. TypeInv /\ SortedInv /\ [Next]_vars => SortedInv'
  BY SortedKept
<1>3. TypeInv /\ SortedInv => WorkersNeverDeadlock
  BY SortedPollsWaitUpwards
<1> QED BY <1>1, <1>2, <1>3, TypeInvInvariant, PTL DEF Spec
-----------------------------------------------------------------------------
(***************************************************************************)
(* DriftIsExcused.  What a balance will be follows from what is known of   *)
(* the rebuilds under way:                                                 *)
(*   - a tuple is due while an event that is not DONE, or the job or the   *)
(*     rebuild of a reversal, stands for it (these alone, because any      *)
(*     other session may end and leave nothing behind);                    *)
(*   - what a session leaves in a tuple it has summed is what it would sum *)
(*     now, or out of date and known to be, or the tuple is due besides;   *)
(*   - a balance is right, or the tuple is excused, or it is due.          *)
(***************************************************************************)
ClaimedTuples(c) == {e[2] : e \in conn[c].claimed}
Underway(c) == conn[c].todo \cup conn[c].skipped \cup ({conn[c].at} \ {None})

(* The tuples a session works on are those of its events, of its journal or of its *)
(* job. *)
ShapeOf(c) ==
  /\ conn[c].kind \in {"idle", "direct"} =>
       /\ conn[c].own = None /\ conn[c].claimed = {} /\ conn[c].failed = {}
       /\ DOMAIN conn[c].writes = {}
  /\ conn[c].kind = "idle" => Underway(c) = {}
  /\ conn[c].kind = "direct" =>
       /\ conn[c].at # None => conn[c].todo \cup conn[c].skipped = {}
       /\ conn[c].todo # {} => conn[c].skipped = {} /\ \E t : conn[c].todo = {t}
  /\ conn[c].kind = "poll" =>
       /\ conn[c].own = None
       /\ Underway(c) \cup conn[c].failed \cup DOMAIN conn[c].writes \subseteq ClaimedTuples(c)
       /\ \A e \in conn[c].claimed : event[e].status \in {"PENDING", "FAILED"}
  /\ conn[c].kind \in {"post", "reverse"} =>
       /\ conn[c].claimed = {} /\ conn[c].failed = {}
       /\ Underway(c) \cup DOMAIN conn[c].writes \subseteq Touches[conn[c].own]

ShapeInv == \A c \in Sessions : ShapeOf(c)

(* What the row of t will hold when session c has committed. *)
Outcome(c, t) == IF t \in DOMAIN conn[c].writes THEN conn[c].writes[t]
                 ELSE IF t = conn[c].at THEN conn[c].sum ELSE balance[t]

Awaited(e) == event[e].status \in {"PENDING", "FAILED"}
Volatile(c) == conn[c].kind = "direct" /\ ~conn[c].durable

DueByEvent(t)       == \E e \in Events : e[2] = t /\ Awaited(e)
DueByJob(t)         == \E job \in jobs : job.tuple = t /\ ~job.durable
DueByRebuild(t)     == \E d \in Sessions : Volatile(d) /\ t \in Underway(d)
Due(t)              == DueByEvent(t) \/ DueByJob(t) \/ DueByRebuild(t)

(* The same without session c. *)
DueBesides(c, t) ==
  \/ \E e \in Events : e[2] = t /\ Awaited(e) /\ e \notin conn[c].claimed
  \/ DueByJob(t)
  \/ \E d \in Sessions \ {c} : Volatile(d) /\ t \in Underway(d)

SumOf(c, t) == \/ t \in conn[c].stale
               \/ Outcome(c, t) = Visible(c, t)
               \/ DueBesides(c, t)
SumInv == \A c \in Sessions : \A t \in Summed(c) : SumOf(c, t)

DriftOf(t) == t \in excused \/ balance[t] = NetActive(t) \/ Due(t)
DriftInv == \A t \in Tuples : DriftOf(t)

(* A session that ended, or has not: its record but for what it remembers. *)
SameWork(c) ==
  /\ conn'[c].kind = conn[c].kind       /\ conn'[c].own = conn[c].own
  /\ conn'[c].durable = conn[c].durable /\ conn'[c].claimed = conn[c].claimed
  /\ conn'[c].todo = conn[c].todo       /\ conn'[c].at = conn[c].at
  /\ conn'[c].stage = conn[c].stage     /\ conn'[c].sum = conn[c].sum
  /\ conn'[c].writes = conn[c].writes   /\ conn'[c].skipped = conn[c].skipped
  /\ conn'[c].failed = conn[c].failed

LEMMA SameWorkFacts ==
  ASSUME NEW c \in Sessions, SameWork(c)
  PROVE  /\ Scope(c)' = Scope(c) /\ Summed(c)' = Summed(c)
         /\ Underway(c)' = Underway(c) /\ Volatile(c)' = Volatile(c)
         /\ ClaimedTuples(c)' = ClaimedTuples(c)
<1>1. Scope(c)' = Scope(c)
  BY DEF SameWork, Scope
<1>2. Summed(c)' = Summed(c)
  BY <1>1 DEF SameWork, Summed
<1>3. Underway(c)' = Underway(c) /\ Volatile(c)' = Volatile(c)
  BY DEF SameWork, Underway, Volatile
<1>4. ClaimedTuples(c)' = ClaimedTuples(c)
  BY DEF SameWork, ClaimedTuples
<1> QED BY <1>1, <1>2, <1>3, <1>4

LEMMA EndConnOthers ==
  ASSUME TypeInv, NEW c \in Sessions, NEW P, EndConn(c, P), NEW d \in Sessions \ {c}
  PROVE  SameWork(d) /\ conn'[d].stale = conn[d].stale \cup (P \cap Summed(d))
<1>1. conn'[d] = [conn[d] EXCEPT !.stale = @ \cup (P \cap Summed(d))]
  BY DEF EndConn
<1>2. conn[d] \in Conns
  BY DEF TypeInv, TypeOK
<1> QED BY ONLY <1>1, <1>2 DEF Conns, SameWork

LEMMA IdleSumsNothing ==
  ASSUME NEW c \in Sessions, conn'[c] = Idle
  PROVE  Summed(c)' = {} /\ Underway(c)' = {} /\ ~Volatile(c)' /\ ShapeOf(c)'
<1>1. Scope(c)' = {}
  BY DEF Idle, Scope
<1>2. Summed(c)' = {}
  BY <1>1 DEF Summed
<1>3. Underway(c)' = {} /\ ~Volatile(c)'
  BY DEF Idle, Underway, Volatile
<1> QED BY <1>2, <1>3 DEF ShapeOf, Idle

(* A session that begins has summed nothing, and the job of a reversal goes on as *)
(* its rebuild. *)
LEMMA BeginsUnsummed ==
  ASSUME TypeInv, NEW c \in Sessions,
         \/ BeginDirect(c) \/ KickedPoll(c) \/ SweepPoll(c)
         \/ \E j \in Journals : BeginPost(c, j) \/ BeginReverse(c, j)
  PROVE  /\ Summed(c)' = {} /\ ShapeOf(c)' /\ ~Volatile(c)
         /\ \A t \in Tuples : DueByJob(t) => DueByJob(t)' \/ (Volatile(c)' /\ t \in Underway(c)')
         /\ excused' = excused
<1>1. DOMAIN conn = Sessions
  BY DEF TypeInv, TypeOK
<1>2. CASE BeginDirect(c)
  <2>1. PICK job \in jobs :
          /\ conn[c] = Idle
          /\ jobs' = jobs \ {job}
          /\ conn' = [conn EXCEPT ![c] = [Idle EXCEPT !.kind = "direct",
                                            !.todo = {job.tuple}, !.durable = job.durable]]
          /\ excused' = excused
    BY <1>2 DEF BeginDirect
  <2>2. /\ conn'[c].kind = "direct" /\ conn'[c].own = None /\ conn'[c].claimed = {}
        /\ conn'[c].failed = {} /\ DOMAIN conn'[c].writes = {} /\ conn'[c].at = None
        /\ conn'[c].todo = {job.tuple} /\ conn'[c].skipped = {}
        /\ conn'[c].durable = job.durable
    BY <1>1, <2>1 DEF Idle
  <2>3. Scope(c)' = {}
    BY <2>2 DEF Scope
  <2>4. Summed(c)' = {}
    BY <2>3 DEF Summed
  <2>5. ShapeOf(c)'
    BY <2>2 DEF ShapeOf
  <2>6. ~Volatile(c)
    BY <2>1 DEF Volatile, Idle
  <2>7. ASSUME NEW t \in Tuples, DueByJob(t)
        PROVE  DueByJob(t)' \/ (Volatile(c)' /\ t \in Underway(c)')
    BY <2>1, <2>2, <2>7 DEF DueByJob, Volatile, Underway
  <2> QED BY <2>1, <2>4, <2>5, <2>6, <2>7
<1>3. CASE KickedPoll(c) \/ SweepPoll(c)
  <2>1. PICK batch \in SUBSET Claimable :
          /\ conn[c] = Idle
          /\ conn' = [conn EXCEPT ![c] = [Idle EXCEPT !.kind = "poll", !.claimed = batch,
                                                      !.todo = {e[2] : e \in batch}]]
          /\ UNCHANGED <<event, jobs, excused>>
    BY <1>3 DEF KickedPoll, SweepPoll, Claim
  <2>2. /\ conn'[c].kind = "poll" /\ conn'[c].own = None /\ conn'[c].claimed = batch
        /\ conn'[c].failed = {} /\ DOMAIN conn'[c].writes = {} /\ conn'[c].at = None
        /\ conn'[c].todo = {e[2] : e \in batch} /\ conn'[c].skipped = {}
    BY <1>1, <2>1 DEF Idle
  <2>3. Scope(c)' = conn'[c].todo
    BY <2>2 DEF Scope
  <2>4. Summed(c)' = {}
    BY <2>3 DEF Summed
  <2>5. \A e \in batch : event'[e].status \in {"PENDING", "FAILED"}
    BY <2>1 DEF Claimable
  <2>6. Underway(c)' = ClaimedTuples(c)'
    BY <2>2 DEF Underway, ClaimedTuples
  <2>7. ShapeOf(c)'
    BY <2>2, <2>5, <2>6 DEF ShapeOf
  <2>8. ~Volatile(c)
    BY <2>1 DEF Volatile, Idle
  <2> QED BY <2>1, <2>4, <2>7, <2>8 DEF DueByJob
<1>4. ASSUME NEW j \in Journals, BeginPost(c, j) \/ BeginReverse(c, j)
      PROVE  /\ Summed(c)' = {} /\ ShapeOf(c)' /\ ~Volatile(c)
             /\ \A t \in Tuples : DueByJob(t) => DueByJob(t)'
             /\ excused' = excused
  <2>1. /\ conn[c] = Idle /\ UNCHANGED <<jobs, excused>>
        /\ \E k \in {"post", "reverse"} :
             conn' = [conn EXCEPT ![c] = [Idle EXCEPT !.kind = k, !.own = j,
                                                      !.todo = Touches[j]]]
    <3>1. CASE BeginPost(c, j)
      BY <3>1 DEF BeginPost
    <3>2. CASE BeginReverse(c, j)
      BY <3>2 DEF BeginReverse
    <3> QED BY <1>4, <3>1, <3>2
  <2>2. /\ conn'[c].kind \in {"post", "reverse"} /\ conn'[c].own = j /\ conn'[c].claimed = {}
        /\ conn'[c].failed = {} /\ DOMAIN conn'[c].writes = {} /\ conn'[c].at = None
        /\ conn'[c].todo = Touches[j] /\ conn'[c].skipped = {}
    BY <1>1, <2>1 DEF Idle
  <2>3. Scope(c)' = conn'[c].todo
    BY <2>2, TuplesAssumption DEF Scope
  <2>4. Summed(c)' = {}
    BY <2>3 DEF Summed
  <2>5. Underway(c)' = Touches[j]
    BY <2>2 DEF Underway
  <2>6. ShapeOf(c)'
    BY <2>2, <2>5 DEF ShapeOf
  <2>7. ~Volatile(c)
    BY <2>1 DEF Volatile, Idle
  <2> QED BY <2>1, <2>4, <2>6, <2>7 DEF DueByJob
<1> QED BY <1>2, <1>3, <1>4

(* The steps of a rebuild go through the tuples of the session. *)
LEMMA RebuildFields ==
  ASSUME TypeInv, NEW c \in Sessions,
         SkipClosed(c) \/ BeginTuple(c) \/ ReadSum(c) \/ WriteHeld(c)
         \/ RebuildFails(c) \/ DeadlockFails(c)
  PROVE  /\ conn'[c].durable = conn[c].durable
         /\ Underway(c)' \subseteq Underway(c)
         /\ UNCHANGED <<jobs, excused>>
         /\ SkipClosed(c) =>
               /\ \E t \in conn[c].todo :
                    /\ conn'[c].todo = conn[c].todo \ {t}
                    /\ conn'[c].skipped = conn[c].skipped \cup {t}
               /\ conn[c].at = None /\ conn'[c].at = None /\ conn'[c].stage = conn[c].stage
               /\ conn'[c].sum = conn[c].sum /\ conn'[c].writes = conn[c].writes
               /\ conn'[c].failed = conn[c].failed /\ conn'[c].stale = conn[c].stale
               /\ Underway(c)' = Underway(c)
         /\ BeginTuple(c) =>
               /\ conn'[c].at \in conn[c].todo /\ conn'[c].todo = conn[c].todo \ {conn'[c].at}
               /\ conn[c].at = None /\ conn'[c].stage = "sum"
               /\ conn'[c].skipped = conn[c].skipped
               /\ conn'[c].sum = conn[c].sum /\ conn'[c].writes = conn[c].writes
               /\ conn'[c].failed = conn[c].failed /\ conn'[c].stale = conn[c].stale
               /\ Underway(c)' = Underway(c)
         /\ ReadSum(c) =>
               /\ conn[c].stage = "sum" /\ conn'[c].stage = "write" /\ conn[c].at \in Tuples
               /\ conn'[c].sum = Visible(c, conn[c].at)
               /\ conn'[c].todo = conn[c].todo /\ conn'[c].at = conn[c].at
               /\ conn'[c].skipped = conn[c].skipped /\ conn'[c].writes = conn[c].writes
               /\ conn'[c].failed = conn[c].failed /\ conn'[c].stale = conn[c].stale
               /\ Underway(c)' = Underway(c)
         /\ WriteHeld(c) =>
               /\ conn[c].kind # "direct"
               /\ conn[c].stage = "write" /\ conn'[c].stage = "check" /\ conn[c].at \in Tuples
               /\ conn'[c].todo = conn[c].todo /\ conn'[c].at = None
               /\ conn'[c].skipped = conn[c].skipped
               /\ conn'[c].failed = conn[c].failed /\ conn'[c].stale = conn[c].stale
               /\ \/ conn'[c].writes = conn[c].writes /\ NothingToDelete(c)
                  \/ conn'[c].writes = Put(conn[c].writes, conn[c].at, conn[c].sum)
         /\ RebuildFails(c) \/ DeadlockFails(c) =>
               /\ conn[c].kind = "poll" /\ conn[c].at \in Tuples
               /\ conn'[c].todo = conn[c].todo /\ conn'[c].at = None
               /\ conn'[c].stage = "check" /\ conn'[c].skipped = conn[c].skipped
               /\ conn'[c].writes = conn[c].writes
               /\ conn'[c].failed = conn[c].failed \cup {conn[c].at}
               /\ conn'[c].stale = conn[c].stale \ {conn[c].at}
<1> DEFINE y == conn[c]
<1>1. y \in Conns /\ DOMAIN conn = Sessions
  BY DEF TypeInv, TypeOK
<1>2. NextTuples(c) \subseteq y.todo /\ y.todo \subseteq Tuples
  BY <1>1, ConnFacts DEF NextTuples
<1>3. y.stage # "check" => y.at \in Tuples
  BY <1>1, ConnFacts DEF TypeInv, ConnInv
<1>4. ASSUME SkipClosed(c)
      PROVE    /\ \E t \in conn[c].todo :
                    /\ conn'[c].todo = conn[c].todo \ {t}
                    /\ conn'[c].skipped = conn[c].skipped \cup {t}
               /\ conn[c].at = None /\ conn'[c].at = None /\ conn'[c].stage = conn[c].stage
               /\ conn'[c].sum = conn[c].sum /\ conn'[c].writes = conn[c].writes
               /\ conn'[c].failed = conn[c].failed /\ conn'[c].stale = conn[c].stale
               /\ Underway(c)' = Underway(c)
               /\ conn'[c].durable = y.durable /\ Underway(c)' \subseteq Underway(c)
               /\ UNCHANGED <<jobs, excused>>
  <2>1. PICK t \in NextTuples(c) :
          /\ y.at = None
          /\ conn' = [conn EXCEPT ![c].todo = @ \ {t}, ![c].skipped = @ \cup {t}]
          /\ UNCHANGED <<jobs, excused>>
    BY <1>4 DEF SkipClosed
  <2>2. /\ conn'[c].todo = y.todo \ {t} /\ conn'[c].skipped = y.skipped \cup {t}
        /\ conn'[c].at = None /\ conn'[c].stage = y.stage /\ conn'[c].sum = y.sum
        /\ conn'[c].writes = y.writes /\ conn'[c].failed = y.failed
        /\ conn'[c].stale = y.stale /\ conn'[c].durable = y.durable
    BY <1>1, <2>1 DEF Conns
  <2>3. Underway(c)' = Underway(c)
    BY <1>2, <2>1, <2>2 DEF Underway
  <2> QED BY ONLY <1>2, <2>1, <2>2, <2>3
<1>5. ASSUME BeginTuple(c)
      PROVE    /\ conn'[c].at \in conn[c].todo /\ conn'[c].todo = conn[c].todo \ {conn'[c].at}
               /\ conn[c].at = None /\ conn'[c].stage = "sum"
               /\ conn'[c].skipped = conn[c].skipped
               /\ conn'[c].sum = conn[c].sum /\ conn'[c].writes = conn[c].writes
               /\ conn'[c].failed = conn[c].failed /\ conn'[c].stale = conn[c].stale
               /\ Underway(c)' = Underway(c)
               /\ conn'[c].durable = y.durable /\ Underway(c)' \subseteq Underway(c)
               /\ UNCHANGED <<jobs, excused>>
  <2>1. PICK t \in NextTuples(c) :
          /\ y.at = None
          /\ conn' = [conn EXCEPT ![c].todo = @ \ {t}, ![c].at = t, ![c].stage = "sum"]
          /\ UNCHANGED <<jobs, excused>>
    BY <1>5 DEF BeginTuple
  <2>2. /\ conn'[c].todo = y.todo \ {t} /\ conn'[c].skipped = y.skipped
        /\ conn'[c].at = t /\ conn'[c].stage = "sum" /\ conn'[c].sum = y.sum
        /\ conn'[c].writes = y.writes /\ conn'[c].failed = y.failed
        /\ conn'[c].stale = y.stale /\ conn'[c].durable = y.durable
    BY <1>1, <2>1 DEF Conns
  <2>3. t # None
    BY <1>2, <2>1, TuplesAreNumbers
  <2>4. Underway(c)' = Underway(c)
    <3>1. t \in y.todo /\ y.at = None
      BY <1>2, <2>1
    <3>2. /\ {y.at} \ {None} = {}
          /\ {conn'[c].at} \ {None} = {t}
      BY ONLY <2>2, <2>3, <3>1
    <3> QED BY ONLY <2>2, <3>1, <3>2 DEF Underway
  <2>5. conn'[c].at \in y.todo
    BY ONLY <1>2, <2>1, <2>2
  <2>6. conn'[c].todo = y.todo \ {conn'[c].at}
    BY ONLY <2>2
  <2> QED BY ONLY <2>1, <2>2, <2>4, <2>5, <2>6
<1>6. ASSUME ReadSum(c)
      PROVE    /\ conn[c].stage = "sum" /\ conn'[c].stage = "write" /\ conn[c].at \in Tuples
               /\ conn'[c].sum = Visible(c, conn[c].at)
               /\ conn'[c].todo = conn[c].todo /\ conn'[c].at = conn[c].at
               /\ conn'[c].skipped = conn[c].skipped /\ conn'[c].writes = conn[c].writes
               /\ conn'[c].failed = conn[c].failed /\ conn'[c].stale = conn[c].stale
               /\ Underway(c)' = Underway(c)
               /\ conn'[c].durable = y.durable /\ Underway(c)' \subseteq Underway(c)
               /\ UNCHANGED <<jobs, excused>>
  <2>1. /\ conn'[c].todo = y.todo /\ conn'[c].skipped = y.skipped
        /\ conn'[c].at = y.at /\ conn'[c].stage = "write" /\ y.stage = "sum"
        /\ conn'[c].sum = Visible(c, y.at)
        /\ conn'[c].writes = y.writes /\ conn'[c].failed = y.failed
        /\ conn'[c].stale = y.stale /\ conn'[c].durable = y.durable
        /\ UNCHANGED <<jobs, excused>>
    BY <1>1, <1>6 DEF ReadSum, Conns
  <2>2. Underway(c)' = Underway(c)
    BY <2>1 DEF Underway
  <2> QED BY ONLY <1>3, <2>1, <2>2
<1>7. ASSUME WriteHeld(c)
      PROVE    /\ conn[c].kind # "direct"
               /\ conn[c].stage = "write" /\ conn'[c].stage = "check" /\ conn[c].at \in Tuples
               /\ conn'[c].todo = conn[c].todo /\ conn'[c].at = None
               /\ conn'[c].skipped = conn[c].skipped
               /\ conn'[c].failed = conn[c].failed /\ conn'[c].stale = conn[c].stale
               /\ \/ conn'[c].writes = conn[c].writes /\ NothingToDelete(c)
                  \/ conn'[c].writes = Put(conn[c].writes, conn[c].at, conn[c].sum)
               /\ conn'[c].durable = y.durable /\ Underway(c)' \subseteq Underway(c)
               /\ UNCHANGED <<jobs, excused>>
  <2>1. /\ conn'[c].todo = y.todo /\ conn'[c].skipped = y.skipped
        /\ conn'[c].at = None /\ conn'[c].stage = "check" /\ y.stage = "write"
        /\ conn'[c].failed = y.failed /\ y.kind # "direct"
        /\ conn'[c].stale = y.stale /\ conn'[c].durable = y.durable
        /\ conn'[c].writes = IF NothingToDelete(c) THEN y.writes
                             ELSE Put(y.writes, y.at, y.sum)
        /\ UNCHANGED <<jobs, excused>>
    BY <1>1, <1>7 DEF WriteHeld, Conns
  <2>2. Underway(c)' \subseteq Underway(c)
    BY <2>1 DEF Underway
  <2> QED BY ONLY <1>3, <2>1, <2>2
<1>8. ASSUME RebuildFails(c) \/ DeadlockFails(c)
      PROVE    /\ conn[c].kind = "poll" /\ conn[c].at \in Tuples
               /\ conn'[c].todo = conn[c].todo /\ conn'[c].at = None
               /\ conn'[c].stage = "check" /\ conn'[c].skipped = conn[c].skipped
               /\ conn'[c].writes = conn[c].writes
               /\ conn'[c].failed = conn[c].failed \cup {conn[c].at}
               /\ conn'[c].stale = conn[c].stale \ {conn[c].at}
               /\ conn'[c].durable = y.durable /\ Underway(c)' \subseteq Underway(c)
               /\ UNCHANGED <<jobs, excused>>
  <2>1. /\ conn'[c].todo = y.todo /\ conn'[c].skipped = y.skipped
        /\ conn'[c].at = None /\ conn'[c].stage = "check" /\ y.at # None
        /\ conn'[c].failed = y.failed \cup {y.at} /\ y.kind = "poll"
        /\ conn'[c].stale = y.stale \ {y.at} /\ conn'[c].durable = y.durable
        /\ conn'[c].writes = y.writes
        /\ UNCHANGED <<jobs, excused>>
    BY <1>1, <1>8 DEF RebuildFails, DeadlockFails, TupleFails, Conns
  <2>2. y.at \in Tuples
    BY <1>1, <2>1, ConnFacts
  <2>3. Underway(c)' \subseteq Underway(c)
    BY <2>1 DEF Underway
  <2> QED BY ONLY <2>1, <2>2, <2>3
<1>9. /\ conn'[c].durable = y.durable /\ Underway(c)' \subseteq Underway(c)
      /\ UNCHANGED <<jobs, excused>>
  BY <1>4, <1>5, <1>6, <1>7, <1>8
<1> QED BY <1>4, <1>5, <1>6, <1>7, <1>8, <1>9

(* Nobody but the poll that claimed it changes an event. *)
LEMMA ClaimedEventsStay ==
  ASSUME TypeInv, LedgerInv, [Next]_vars, NEW c \in Sessions, NEW e \in conn[c].claimed
  PROVE  event'[e] = event[e] \/ CommitPoll(c)
<1>1. e \in Events /\ e[1] \in Journals /\ Real(e[1])
  BY ConnFacts, EventFacts DEF LedgerInv, TypeInv, TypeOK
<1>2. ASSUME NEW j \in Journals, CheckPeriod(j) \/ CommitPost(j) \/ CommitReversal(j)
      PROVE  event'[e] = event[e]
  <2>1. CASE CommitPost(j)
    <3>1. e[1] # j
      BY <1>1, <2>1 DEF CommitPost, Real
    <3> QED BY <1>1, <2>1, <3>1 DEF CommitPost
  <2>2. CASE CheckPeriod(j) \/ CommitReversal(j)
    BY <2>2 DEF CheckPeriod, CommitReversal
  <2> QED BY <1>2, <2>1, <2>2
<1>3. ASSUME NEW d \in Sessions, d # c, CommitPoll(d) PROVE event'[e] = event[e]
  <2>1. e \notin conn[d].claimed
    BY <1>3 DEF TypeInv, ConnInv
  <2> QED BY <1>1, <1>3, <2>1 DEF CommitPoll
<1>4. ASSUME NEW d \in Sessions,
             \/ BeginDirect(d) \/ KickedPoll(d) \/ SweepPoll(d)
             \/ \E i \in Journals : BeginPost(d, i) \/ BeginReverse(d, i)
      PROVE  UNCHANGED event
  BY <1>4, BeginFields
<1>5. ASSUME NEW d \in Sessions,
             \/ SkipClosed(d) \/ BeginTuple(d) \/ ReadSum(d) \/ WriteHeld(d)
             \/ RebuildFails(d) \/ DeadlockFails(d)
             \/ CommitInline(d) \/ WriteDirect(d) \/ EndDirect(d) \/ Abort(d) \/ DeadlockAbort(d)
             \/ EmptyPoll(d)
      PROVE  UNCHANGED event
  BY <1>5 DEF SkipClosed, BeginTuple, ReadSum, WriteHeld, RebuildFails, DeadlockFails,
              TupleFails, CommitInline,
              WriteDirect, EndDirect, Abort, DeadlockAbort, RollBack, EmptyPoll
<1>6. ASSUME NEW p \in Periods, ClosePeriod(p) \/ OpenPeriod(p) PROVE UNCHANGED event
  BY <1>6 DEF ClosePeriod, OpenPeriod
<1>7. Crash \/ UNCHANGED vars => UNCHANGED event
  BY DEF Crash, vars
<1> QED BY <1>2, <1>3, <1>4, <1>5, <1>6, <1>7, NextCases

LEMMA ShapeStays ==
  ASSUME ShapeInv, NEW c \in Sessions, SameWork(c),
         \A e \in conn[c].claimed : event'[e] = event[e]
  PROVE  ShapeOf(c)'
<1>1. Underway(c)' = Underway(c) /\ ClaimedTuples(c)' = ClaimedTuples(c)
  BY SameWorkFacts
<1>2. ShapeOf(c)
  BY DEF ShapeInv
<1>3. /\ conn'[c].kind = conn[c].kind       /\ conn'[c].own = conn[c].own
      /\ conn'[c].claimed = conn[c].claimed /\ conn'[c].failed = conn[c].failed
      /\ conn'[c].todo = conn[c].todo       /\ conn'[c].at = conn[c].at
      /\ conn'[c].writes = conn[c].writes   /\ conn'[c].skipped = conn[c].skipped
  BY DEF SameWork
<1>4. \A e \in conn'[c].claimed : event'[e] = event[e]
  BY <1>3
<1> QED BY ONLY <1>1, <1>2, <1>3, <1>4 DEF ShapeOf

LEMMA RebuildStepsShaped ==
  ASSUME TypeInv, LedgerInv, ShapeInv, NEW c \in Sessions,
         SkipClosed(c) \/ BeginTuple(c) \/ ReadSum(c) \/ WriteHeld(c)
         \/ RebuildFails(c) \/ DeadlockFails(c)
  PROVE  ShapeOf(c)'
<1> DEFINE y == conn[c]
<1>1. /\ conn'[c].kind = y.kind /\ conn'[c].own = y.own /\ conn'[c].claimed = y.claimed
      /\ event' = event
  BY OneConnFields
<1>2. ClaimedTuples(c)' = ClaimedTuples(c)
  BY <1>1 DEF ClaimedTuples
<1>3. ShapeOf(c)
  BY DEF ShapeInv
<1>4. Underway(c)' \subseteq Underway(c)
  BY RebuildFields
<1>5. y.at # None /\ y.at \in Tuples => y.at \in Underway(c)
  BY DEF Underway
<1>6. /\ \/ conn'[c].failed = y.failed
         \/ y.kind = "poll" /\ y.at \in Tuples /\ conn'[c].failed = y.failed \cup {y.at}
      /\ \/ conn'[c].writes = y.writes
         \/ /\ y.kind # "direct" /\ y.at \in Tuples
            /\ conn'[c].writes = Put(y.writes, y.at, y.sum)
      /\ y.kind = "direct" /\ conn'[c].at # None =>
           \/ conn'[c].at = y.at /\ conn'[c].todo = y.todo /\ conn'[c].skipped = y.skipped
           \/ BeginTuple(c)
  BY RebuildFields
<1>7. y.at \in Tuples => y.at # None /\ y.at \in Underway(c)
  BY <1>5, TuplesAreNumbers
<1>8. DOMAIN Put(y.writes, y.at, y.sum) = DOMAIN y.writes \cup {y.at}
  BY DEF Put
<1>9. y.kind = "idle" => y.at \notin Tuples
  BY <1>3, <1>7 DEF ShapeOf
<1>10. y.kind = "direct" =>
         /\ conn'[c].at # None => conn'[c].todo \cup conn'[c].skipped = {}
         /\ conn'[c].todo # {} => conn'[c].skipped = {} /\ \E t : conn'[c].todo = {t}
  <2>1. SUFFICES ASSUME y.kind = "direct"
                 PROVE  /\ conn'[c].at # None => conn'[c].todo \cup conn'[c].skipped = {}
                        /\ conn'[c].todo # {} => /\ conn'[c].skipped = {}
                                                 /\ \E t : conn'[c].todo = {t}
    OBVIOUS
  <2>2. /\ y.at # None => y.todo \cup y.skipped = {}
        /\ y.todo # {} => y.skipped = {} /\ \E t : y.todo = {t}
    BY <1>3, <2>1 DEF ShapeOf
  <2>3. CASE SkipClosed(c)
    BY <2>2, <2>3, RebuildFields
  <2>4. CASE BeginTuple(c)
    BY <2>2, <2>4, RebuildFields
  <2>5. CASE ReadSum(c)
    BY <2>2, <2>5, RebuildFields
  <2>6. CASE WriteHeld(c) \/ RebuildFails(c) \/ DeadlockFails(c)
    BY <2>1, <2>6 DEF WriteHeld, RebuildFails, DeadlockFails, TupleFails
  <2> QED BY <2>3, <2>4, <2>5, <2>6
<1>11. \/ DOMAIN conn'[c].writes = DOMAIN y.writes
       \/ /\ y.kind # "direct" /\ y.at \in Underway(c)
          /\ DOMAIN conn'[c].writes = DOMAIN y.writes \cup {y.at}
  BY <1>6, <1>7, <1>8
<1>12. \/ conn'[c].failed = y.failed
       \/ y.kind = "poll" /\ y.at \in Underway(c) /\ conn'[c].failed = y.failed \cup {y.at}
  BY <1>6, <1>7
<1>13. y.kind = "idle" => DOMAIN conn'[c].writes = DOMAIN y.writes
  BY <1>3, <1>11 DEF ShapeOf
<1>14. y.kind = "idle" \/ y.kind = "direct" =>
         /\ y.own = None /\ y.claimed = {} /\ conn'[c].failed = {} /\ DOMAIN conn'[c].writes = {}
  BY <1>3, <1>11, <1>12, <1>13 DEF ShapeOf
<1>15. y.kind = "idle" => Underway(c)' = {}
  BY <1>3, <1>4 DEF ShapeOf
<1>16. y.kind = "poll" =>
         /\ y.own = None
         /\ Underway(c)' \cup conn'[c].failed \cup DOMAIN conn'[c].writes \subseteq ClaimedTuples(c)
         /\ \A e \in y.claimed : event[e].status \in {"PENDING", "FAILED"}
  BY <1>3, <1>4, <1>11, <1>12 DEF ShapeOf
<1>17. y.kind \in {"post", "reverse"} =>
         /\ y.claimed = {} /\ conn'[c].failed = {}
         /\ Underway(c)' \cup DOMAIN conn'[c].writes \subseteq Touches[y.own]
  BY <1>3, <1>4, <1>11, <1>12 DEF ShapeOf
<1> QED BY ONLY <1>1, <1>2, <1>10, <1>14, <1>15, <1>16, <1>17 DEF ShapeOf

(* A step leaves the work of a session alone, ends it, begins it or goes on with it. *)
LEMMA WorkCases ==
  ASSUME TypeInv, [Next]_vars, NEW c \in Sessions
  PROVE  \/ SameWork(c) /\ ~CommitPoll(c)
         \/ conn'[c] = Idle
         \/ BeginDirect(c) \/ KickedPoll(c) \/ SweepPoll(c)
         \/ \E j \in Journals : BeginPost(c, j) \/ BeginReverse(c, j)
         \/ SkipClosed(c) \/ BeginTuple(c) \/ ReadSum(c) \/ WriteHeld(c)
         \/ RebuildFails(c) \/ DeadlockFails(c)
<1>0. SUFFICES ASSUME conn'[c] # Idle
               PROVE  \/ SameWork(c)
                      \/ BeginDirect(c) \/ KickedPoll(c) \/ SweepPoll(c)
                      \/ \E j \in Journals : BeginPost(c, j) \/ BeginReverse(c, j)
                      \/ SkipClosed(c) \/ BeginTuple(c) \/ ReadSum(c) \/ WriteHeld(c)
                      \/ RebuildFails(c) \/ DeadlockFails(c)
  BY EndFields
<1>1. ASSUME NEW j \in Journals, CheckPeriod(j) \/ CommitPost(j) \/ CommitReversal(j)
      PROVE  SameWork(c)
  BY <1>1 DEF CheckPeriod, CommitPost, CommitReversal, SameWork
<1>2. ASSUME NEW p \in Periods, ClosePeriod(p) \/ OpenPeriod(p) PROVE SameWork(c)
  BY <1>2 DEF ClosePeriod, OpenPeriod, SameWork
<1>3. ASSUME NEW d \in Sessions, EmptyPoll(d) PROVE SameWork(c)
  BY <1>3 DEF EmptyPoll, SameWork
<1>4. CASE UNCHANGED vars
  BY <1>4 DEF vars, SameWork
<1>5. CASE Crash
  BY <1>0, <1>5 DEF Crash
<1>6. ASSUME NEW d \in Sessions, d # c,
             \/ BeginDirect(d) \/ KickedPoll(d) \/ SweepPoll(d)
             \/ \E j \in Journals : BeginPost(d, j) \/ BeginReverse(d, j)
      PROVE  SameWork(c)
  BY <1>6, BeginFields DEF SameWork
<1>7. ASSUME NEW d \in Sessions, d # c,
             \/ SkipClosed(d) \/ BeginTuple(d) \/ ReadSum(d) \/ WriteHeld(d)
             \/ RebuildFails(d) \/ DeadlockFails(d)
      PROVE  SameWork(c)
  BY <1>7, OneConnFields DEF SameWork
<1>8. ASSUME NEW d \in Sessions,
             \/ CommitInline(d) \/ WriteDirect(d) \/ EndDirect(d)
             \/ Abort(d) \/ DeadlockAbort(d) \/ CommitPoll(d)
      PROVE  SameWork(c)
  <2>1. PICK P : EndConn(d, P)
    BY <1>8 DEF CommitInline, WriteDirect, EndDirect, Abort, DeadlockAbort, RollBack, CommitPoll
  <2>2. d # c
    BY <1>0, <1>8, EndFields
  <2> QED BY <2>1, <2>2, EndConnOthers
<1> QED BY <1>1, <1>2, <1>3, <1>4, <1>5, <1>6, <1>7, <1>8, NextCases

LEMMA ShapeInit == Init => ShapeInv
BY IdleFacts DEF Init, ShapeInv, ShapeOf, Idle, Underway

LEMMA ShapeKept ==
  ASSUME TypeInv, LedgerInv, ShapeInv, [Next]_vars
  PROVE  ShapeInv'
<1>1. SUFFICES ASSUME NEW c \in Sessions PROVE ShapeOf(c)'
  BY DEF ShapeInv
<1>2. CASE SameWork(c) /\ ~CommitPoll(c)
  BY <1>2, ClaimedEventsStay, ShapeStays
<1>3. CASE conn'[c] = Idle
  BY <1>3, IdleSumsNothing
<1>4. CASE \/ BeginDirect(c) \/ KickedPoll(c) \/ SweepPoll(c)
           \/ \E j \in Journals : BeginPost(c, j) \/ BeginReverse(c, j)
  BY <1>4, BeginsUnsummed
<1>5. CASE SkipClosed(c) \/ BeginTuple(c) \/ ReadSum(c) \/ WriteHeld(c)
           \/ RebuildFails(c) \/ DeadlockFails(c)
  BY <1>5, RebuildStepsShaped
<1> QED BY <1>2, <1>3, <1>4, <1>5, WorkCases

(* What a session sees of a tuple changes only with the journals that touch it. *)
LEMMA VisibleSame ==
  ASSUME NEW c \in Sessions, NEW t,
         conn'[c].kind = conn[c].kind, conn'[c].own = conn[c].own,
         \A j \in Journals : t \in Touches[j] => (ledger'[j] = "posted" <=> ledger[j] = "posted")
  PROVE  Visible(c, t)' = Visible(c, t)
BY DEF Visible

LEMMA NetActiveSame ==
  ASSUME NEW t,
         \A j \in Journals : t \in Touches[j] => (ledger'[j] = "posted" <=> ledger[j] = "posted")
  PROVE  NetActive(t)' = NetActive(t)
BY DEF NetActive

(* What stands for a tuple besides a session's own work goes on standing for it. *)
LEMMA BesidesStays ==
  ASSUME NEW c \in Sessions, NEW t, conn'[c].claimed = conn[c].claimed,
         \A e \in Events : e[2] = t /\ Awaited(e) /\ e \notin conn[c].claimed => Awaited(e)',
         DueByJob(t) => DueByJob(t)' \/ \E d \in Sessions \ {c} : Volatile(d)' /\ t \in Underway(d)',
         \A d \in Sessions \ {c} : Volatile(d) /\ t \in Underway(d) =>
                                     Volatile(d)' /\ t \in Underway(d)',
         DueBesides(c, t)
  PROVE  DueBesides(c, t)'
<1>1. CASE DueByJob(t)
  BY <1>1 DEF DueBesides
<1>2. CASE \E d \in Sessions \ {c} : Volatile(d) /\ t \in Underway(d)
  BY <1>2 DEF DueBesides
<1>3. CASE \E e \in Events : e[2] = t /\ Awaited(e) /\ e \notin conn[c].claimed
  <2>1. \E e \in Events : e[2] = t /\ Awaited(e)' /\ e \notin conn'[c].claimed
    BY <1>3
  <2> QED BY <2>1 DEF DueBesides
<1> QED BY <1>1, <1>2, <1>3 DEF DueBesides

(* A session that is left alone, and whose tuple nobody changes or all who do leave *)
(* it due. *)
LEMMA SumStays ==
  ASSUME NEW c \in Sessions, NEW t, SameWork(c), SumOf(c, t),
         t \in conn[c].stale => t \in conn'[c].stale,
         \/ DueBesides(c, t)' \/ t \in conn'[c].stale
         \/ /\ balance'[t] = balance[t]
            /\ Visible(c, t)' = Visible(c, t)
            /\ DueBesides(c, t) => DueBesides(c, t)'
  PROVE  SumOf(c, t)'
<1>1. balance'[t] = balance[t] => Outcome(c, t)' = Outcome(c, t)
  BY DEF SameWork, Outcome
<1> QED BY <1>1 DEF SumOf

(* The steps of a rebuild. *)
LEMMA RebuildStepsSum ==
  ASSUME TypeInv, CountInv, SumInv, NEW c \in Sessions,
         SkipClosed(c) \/ BeginTuple(c) \/ ReadSum(c) \/ WriteHeld(c)
         \/ RebuildFails(c) \/ DeadlockFails(c),
         NEW t \in Summed(c)', t \in Tuples
  PROVE  SumOf(c, t)'
<1> DEFINE y == conn[c]
<1>1. /\ \A d \in Sessions \ {c} : conn'[d] = conn[d]
      /\ conn'[c].kind = y.kind /\ conn'[c].own = y.own /\ conn'[c].claimed = y.claimed
      /\ UNCHANGED <<ledger, event, balance, jobs>>
  BY OneConnFields, RebuildFields
<1>2. Visible(c, t)' = Visible(c, t)
  BY <1>1, VisibleSame
<1>3. DueBesides(c, t) => DueBesides(c, t)'
  <2>1. \A d \in Sessions \ {c} : Volatile(d)' = Volatile(d) /\ Underway(d)' = Underway(d)
    BY <1>1 DEF Volatile, Underway
  <2> QED BY <1>1, <2>1, BesidesStays DEF Awaited, DueByJob
<1>4. /\ y.at \notin y.todo
      /\ \A u \in DOMAIN y.writes : u # y.at
  BY DEF CountInv
<1>5. t # None
  BY TuplesAreNumbers
<1> DEFINE Known(s) == /\ t \in Summed(c)
                       /\ t \in s <=> t \in y.stale
                       /\ Outcome(c, t)' = Outcome(c, t)
<1>6. Known(conn'[c].stale) => SumOf(c, t)'
  BY <1>2, <1>3 DEF SumOf, SumInv
<1> HIDE DEF Known
<1>7. CASE SkipClosed(c)
  <2>1. PICK u \in y.todo : /\ conn'[c].todo = y.todo \ {u}
                            /\ conn'[c].skipped = y.skipped \cup {u}
    BY <1>7, RebuildFields
  <2>2. /\ conn'[c].at = None /\ y.at = None /\ conn'[c].writes = y.writes
        /\ conn'[c].failed = y.failed /\ conn'[c].stale = y.stale
    BY <1>7, RebuildFields
  <2>3. t \in Scope(c)' /\ t \notin conn'[c].todo /\ t \notin conn'[c].skipped
    BY DEF Summed
  <2>4. t \in Scope(c)
    BY <1>1, <2>1, <2>2, <2>3 DEF Scope
  <2>5. t \in Summed(c)
    BY <1>5, <2>1, <2>2, <2>3, <2>4 DEF Summed
  <2>6. Outcome(c, t)' = Outcome(c, t)
    BY <1>1, <2>2, <1>5 DEF Outcome
  <2> QED BY <1>6, <2>2, <2>5, <2>6 DEF Known
<1>8. CASE BeginTuple(c)
  <2>1. /\ conn'[c].at \in y.todo /\ conn'[c].todo = y.todo \ {conn'[c].at} /\ y.at = None
        /\ conn'[c].stage = "sum" /\ conn'[c].skipped = y.skipped
        /\ conn'[c].writes = y.writes
        /\ conn'[c].failed = y.failed /\ conn'[c].stale = y.stale
    BY <1>8, RebuildFields
  <2>3. t \in Scope(c)' /\ t \notin conn'[c].todo /\ t \notin y.skipped /\ t # conn'[c].at
    BY <2>1 DEF Summed
  <2>4. t \in Scope(c)
    BY <1>1, <2>1, <2>3 DEF Scope
  <2>5. t \in Summed(c)
    BY <1>5, <2>1, <2>3, <2>4 DEF Summed
  <2>6. Outcome(c, t)' = Outcome(c, t)
    BY <1>1, <2>1, <2>3, <1>5 DEF Outcome
  <2> QED BY <1>6, <2>1, <2>5, <2>6 DEF Known
<1>9. CASE ReadSum(c)
  <2>1. /\ y.stage = "sum" /\ conn'[c].stage = "write" /\ conn'[c].at = y.at
        /\ conn'[c].sum = Visible(c, y.at)
        /\ conn'[c].todo = y.todo /\ conn'[c].skipped = y.skipped
        /\ conn'[c].writes = y.writes
        /\ conn'[c].failed = y.failed /\ conn'[c].stale = y.stale
    BY <1>9, RebuildFields
  <2>2. CASE t = y.at
    <3>1. Outcome(c, t)' = Visible(c, t)
      BY <1>4, <2>1, <2>2 DEF Outcome
    <3> QED BY <1>2, <3>1 DEF SumOf
  <2>3. CASE t # y.at
    <3>1. Scope(c)' = Scope(c)
      BY <1>1, <2>1 DEF Scope
    <3>2. t \in Summed(c)
      BY <2>1, <2>3, <3>1 DEF Summed
    <3>3. Outcome(c, t)' = Outcome(c, t)
      BY <1>1, <2>1, <2>3 DEF Outcome
    <3> QED BY <1>6, <2>1, <3>2, <3>3 DEF Known
  <2> QED BY <2>2, <2>3
<1>10. CASE WriteHeld(c)
  <2>1. /\ y.stage = "write" /\ conn'[c].at = None
        /\ conn'[c].todo = y.todo /\ conn'[c].skipped = y.skipped
        /\ conn'[c].failed = y.failed /\ conn'[c].stale = y.stale
        /\ \/ conn'[c].writes = y.writes /\ NothingToDelete(c)
           \/ conn'[c].writes = Put(y.writes, y.at, y.sum)
    BY <1>10, RebuildFields
  <2>2. t \in Scope(c)' /\ t \notin y.todo /\ t \notin y.skipped
    BY <2>1 DEF Summed
  <2>3. t \in Scope(c)
    BY <1>1, <2>1, <2>2 DEF Scope
  <2>4. t \in Summed(c)
    BY <2>1, <2>2, <2>3 DEF Summed
  <2>5. CASE conn'[c].writes = y.writes /\ NothingToDelete(c)
    <3>1. t = y.at => y.sum = balance[t]
      BY <2>5 DEF NothingToDelete
    <3> QED BY <1>1, <1>4, <1>5, <1>6, <2>1, <2>4, <2>5, <3>1 DEF Known, Outcome
  <2>6. CASE conn'[c].writes = Put(y.writes, y.at, y.sum)
    <3>1. /\ DOMAIN conn'[c].writes = DOMAIN y.writes \cup {y.at}
          /\ \A x \in DOMAIN y.writes \cup {y.at} :
               conn'[c].writes[x] = IF x = y.at THEN y.sum ELSE y.writes[x]
      BY <2>6 DEF Put
    <3>2. Outcome(c, t)' = Outcome(c, t)
      BY <1>1, <1>4, <1>5, <2>1, <3>1 DEF Outcome
    <3> QED BY <1>6, <2>1, <2>4, <3>2 DEF Known
  <2> QED BY <2>1, <2>5, <2>6
<1>11. CASE RebuildFails(c) \/ DeadlockFails(c)
  <2>1. /\ conn'[c].at = None /\ conn'[c].todo = y.todo /\ conn'[c].skipped = y.skipped
        /\ conn'[c].writes = y.writes /\ conn'[c].failed = y.failed \cup {y.at}
        /\ conn'[c].stale = y.stale \ {y.at}
    BY <1>11, RebuildFields
  <2>2. t \in Scope(c)' /\ t \notin y.todo /\ t \notin y.skipped
    BY <2>1 DEF Summed
  <2>3. t \in Scope(c) /\ t # y.at
    BY <1>1, <2>1, <2>2 DEF Scope
  <2>4. t \in Summed(c)
    BY <2>1, <2>2, <2>3 DEF Summed
  <2>5. Outcome(c, t)' = Outcome(c, t)
    BY <1>1, <1>5, <2>1, <2>3 DEF Outcome
  <2> QED BY <1>6, <2>1, <2>3, <2>4, <2>5 DEF Known
<1> QED BY <1>7, <1>8, <1>9, <1>10, <1>11

(* Writing the ledger: the event of a posting, or the job of a reversal, makes every *)
(* tuple of the journal due. *)
LEMMA LedgerStepsSum ==
  ASSUME TypeInv, LedgerInv, NEW j \in Journals,
         CheckPeriod(j) \/ CommitPost(j) \/ CommitReversal(j),
         NEW c \in Sessions, NEW t \in Tuples, SumOf(c, t)
  PROVE  SumOf(c, t)'
<1>1. conn' = conn /\ balance' = balance /\ jobs \subseteq jobs'
  BY DEF CheckPeriod, CommitPost, CommitReversal
<1>2. SameWork(c) /\ \A d \in Sessions : Volatile(d)' = Volatile(d) /\ Underway(d)' = Underway(d)
  BY <1>1 DEF SameWork, Volatile, Underway
<1>3. ASSUME NEW e \in Events, Awaited(e) PROVE Awaited(e)'
  <2>1. CASE CommitPost(j)
    BY <1>3, <2>1 DEF CommitPost, Awaited
  <2>2. CASE CheckPeriod(j) \/ CommitReversal(j)
    BY <1>3, <2>2 DEF CheckPeriod, CommitReversal, Awaited
  <2> QED BY <2>1, <2>2
<1>4. DueByJob(t) => DueByJob(t)'
  BY <1>1 DEF DueByJob
<1>5. DueBesides(c, t) => DueBesides(c, t)'
  BY <1>1, <1>2, <1>3, <1>4, BesidesStays
<1>6. ASSUME t \in Touches[j] => ledger[j] = "new" /\ ledger'[j] = "checked"
      PROVE  SumOf(c, t)'
  <2>1. \A i \in Journals : t \in Touches[i] => (ledger'[i] = "posted" <=> ledger[i] = "posted")
    <3>1. \A i \in Journals : i # j => ledger'[i] = ledger[i]
      BY DEF CheckPeriod, CommitPost, CommitReversal, TypeInv, TypeOK
    <3> QED BY <1>6, <3>1
  <2>2. Visible(c, t)' = Visible(c, t)
    BY <1>1, <2>1, VisibleSame
  <2> QED BY <1>1, <1>2, <1>5, <2>2, SumStays
<1>7. CASE CheckPeriod(j)
  BY <1>6, <1>7 DEF CheckPeriod, TypeInv, TypeOK
<1>8. ASSUME t \in Touches[j], CommitPost(j) PROVE DueBesides(c, t)'
  <2> DEFINE e == <<j, t>>
  <2>1. e \in Events /\ e[1] = j /\ e[2] = t
    BY <1>8 DEF Events
  <2>2. Awaited(e)'
    BY <1>8, <2>1 DEF CommitPost, Awaited
  <2>3. e \notin conn'[c].claimed
    <3>1. ledger[j] = "checked"
      BY <1>8 DEF CommitPost
    <3>2. e \in conn[c].claimed => Real(j)
      BY <2>1 DEF LedgerInv
    <3> QED BY <1>1, <3>1, <3>2 DEF Real
  <2> QED BY <2>1, <2>2, <2>3 DEF DueBesides
<1>9. ASSUME t \in Touches[j], CommitReversal(j) PROVE DueBesides(c, t)'
  <2>1. [journal |-> j, tuple |-> t, durable |-> FALSE] \in jobs'
    BY <1>9 DEF CommitReversal
  <2> QED BY <2>1 DEF DueBesides, DueByJob
<1> QED BY <1>1, <1>2, <1>6, <1>7, <1>8, <1>9, SumStays

(* A session that begins or goes on with a rebuild leaves due what was. *)
LEMMA WorkKeepsDue ==
  ASSUME TypeInv, NEW d \in Sessions,
         \/ BeginDirect(d) \/ KickedPoll(d) \/ SweepPoll(d)
         \/ \E j \in Journals : BeginPost(d, j) \/ BeginReverse(d, j)
         \/ SkipClosed(d) \/ BeginTuple(d) \/ ReadSum(d) \/ WriteHeld(d)
         \/ RebuildFails(d) \/ DeadlockFails(d),
         NEW t \in Tuples
  PROVE  /\ DueByJob(t) => DueByJob(t)' \/ (Volatile(d)' /\ t \in Underway(d)')
         /\ Volatile(d) /\ t \in Underway(d) => Volatile(d)' /\ t \in Underway(d)'
<1>1. CASE \/ BeginDirect(d) \/ KickedPoll(d) \/ SweepPoll(d)
           \/ \E j \in Journals : BeginPost(d, j) \/ BeginReverse(d, j)
  BY <1>1, BeginsUnsummed
<1>2. CASE SkipClosed(d) \/ BeginTuple(d) \/ ReadSum(d) \/ WriteHeld(d)
           \/ RebuildFails(d) \/ DeadlockFails(d)
  <2>1. conn'[d].kind = conn[d].kind /\ conn'[d].durable = conn[d].durable /\ jobs' = jobs
    BY <1>2, OneConnFields, RebuildFields
  <2>2. conn[d].kind = "direct" => Underway(d)' = Underway(d)
    <3>1. CASE SkipClosed(d) BY <3>1, RebuildFields
    <3>2. CASE BeginTuple(d) BY <3>2, RebuildFields
    <3>3. CASE ReadSum(d) BY <3>3, RebuildFields
    <3>4. CASE WriteHeld(d) \/ RebuildFails(d) \/ DeadlockFails(d)
      BY <3>4 DEF WriteHeld, RebuildFails, DeadlockFails, TupleFails
    <3> QED BY <1>2, <3>1, <3>2, <3>3, <3>4
  <2> QED BY <2>1, <2>2 DEF DueByJob, Volatile
<1> QED BY <1>1, <1>2

(* Another session begins, or goes on with a rebuild. *)
LEMMA OtherWorkSum ==
  ASSUME TypeInv, ShapeInv, NEW d \in Sessions,
         \/ BeginDirect(d) \/ KickedPoll(d) \/ SweepPoll(d)
         \/ \E j \in Journals : BeginPost(d, j) \/ BeginReverse(d, j)
         \/ SkipClosed(d) \/ BeginTuple(d) \/ ReadSum(d) \/ WriteHeld(d)
         \/ RebuildFails(d) \/ DeadlockFails(d),
         NEW c \in Sessions \ {d}, NEW t \in Tuples, SumOf(c, t)
  PROVE  SumOf(c, t)'
<1>1. /\ \A x \in Sessions \ {d} : conn'[x] = conn[x]
      /\ UNCHANGED <<ledger, event, balance>>
  BY BeginFields, OneConnFields
<1>2. SameWork(c) /\ conn'[c].stale = conn[c].stale
  BY <1>1 DEF SameWork
<1>3. Visible(c, t)' = Visible(c, t)
  BY <1>1, VisibleSame
<1>4. /\ DueByJob(t) => DueByJob(t)' \/ (Volatile(d)' /\ t \in Underway(d)')
      /\ Volatile(d) /\ t \in Underway(d) => Volatile(d)' /\ t \in Underway(d)'
  BY WorkKeepsDue
<1>5. \A x \in Sessions \ {d} : Volatile(x)' = Volatile(x) /\ Underway(x)' = Underway(x)
  BY <1>1 DEF Volatile, Underway
<1>6. DueBesides(c, t) => DueBesides(c, t)'
  BY <1>1, <1>4, <1>5, BesidesStays DEF Awaited
<1> QED BY <1>1, <1>2, <1>3, <1>6, SumStays

(* Session d ends without a trace in tuple t, or with a failed event for it. *)
Untouched(d, t) ==
  \/ \E e \in conn[d].claimed : e[2] = t /\ Awaited(e)'
  \/ /\ balance'[t] = balance[t]
     /\ \A j \in Journals : t \in Touches[j] => (ledger'[j] = "posted" <=> ledger[j] = "posted")
     /\ \A e \in Events : e[2] = t => event'[e] = event[e]
     /\ ~(Volatile(d) /\ t \in Underway(d))

(* What the end of session d changes outside the tuples it tells the others of. *)
LEMMA EndReaches ==
  ASSUME TypeInv, LedgerInv, ShapeInv, NEW d \in Sessions,
         \/ CommitInline(d) \/ WriteDirect(d) \/ EndDirect(d)
         \/ Abort(d) \/ DeadlockAbort(d) \/ CommitPoll(d)
  PROVE  \E P : /\ EndConn(d, P)
                /\ \/ P = Forgone(d) /\ Excuse(P)
                   \/ /\ P = Scope(d)
                      /\ CommitInline(d) \/ WriteDirect(d) \/ EndDirect(d) \/ CommitPoll(d)
                /\ \A t \in Tuples \ P : Untouched(d, t)
<1> DEFINE y == conn[d]
<1>0. ShapeOf(d)
  BY DEF ShapeInv
<1>1. CASE CommitInline(d)
  <2>1. /\ y.kind \in {"post", "reverse"} /\ EndConn(d, Scope(d)) /\ UNCHANGED event
        /\ ledger' = [ledger EXCEPT ![y.own] = IF y.kind = "post" THEN "posted" ELSE "reversed"]
        /\ balance' = [t \in Tuples |-> IF Locks(d, t) THEN y.writes[t] ELSE balance[t]]
    BY <1>1 DEF CommitInline
  <2>2. y.own \in Journals /\ y.own # None
    BY <2>1 DEF LedgerInv
  <2>3. Touches[y.own] \subseteq Scope(d) /\ DOMAIN y.writes \subseteq Touches[y.own]
    BY <1>0, <2>1, <2>2 DEF Scope, ShapeOf
  <2>4. ~Volatile(d)
    BY <2>1 DEF Volatile
  <2>5. ASSUME NEW t \in Tuples \ Scope(d)
        PROVE  /\ balance'[t] = balance[t]
               /\ \A j \in Journals :
                    t \in Touches[j] => (ledger'[j] = "posted" <=> ledger[j] = "posted")
    BY <2>1, <2>2, <2>3 DEF Locks, TypeInv, TypeOK
  <2>6. \A t \in Tuples \ Scope(d) : Untouched(d, t)
    BY <2>1, <2>4, <2>5 DEF Untouched
  <2> QED BY <1>1, <2>1, <2>6
<1>2. CASE CommitPoll(d)
  <2>1. /\ y.kind = "poll" /\ EndConn(d, Scope(d)) /\ UNCHANGED ledger
        /\ event' = [e \in Events |->
             IF e \notin y.claimed THEN event[e]
             ELSE IF e[2] \in y.failed
                    THEN [status |-> "FAILED", retries |-> event[e].retries + 1]
                    ELSE [status |-> "DONE", retries |-> event[e].retries]]
        /\ balance' = [t \in Tuples |-> IF Locks(d, t) THEN y.writes[t] ELSE balance[t]]
    BY <1>2 DEF CommitPoll
  <2>2. /\ y.claimed \subseteq Events /\ DOMAIN y.writes \cup y.failed \subseteq ClaimedTuples(d)
    BY <1>0, <2>1, ConnFacts DEF ShapeOf, TypeInv, TypeOK
  <2>3. ~Volatile(d)
    BY <2>1 DEF Volatile
  <2>4. ASSUME NEW t \in Tuples \ Scope(d), t \in y.failed
        PROVE  \E e \in y.claimed : e[2] = t /\ Awaited(e)'
    <3>1. PICK e \in y.claimed : e[2] = t
      BY <2>2, <2>4 DEF ClaimedTuples
    <3>2. event'[e].status = "FAILED"
      BY <2>1, <2>2, <2>4, <3>1
    <3> QED BY <3>1, <3>2 DEF Awaited
  <2>5. ASSUME NEW t \in Tuples \ Scope(d), t \notin y.failed
        PROVE  /\ balance'[t] = balance[t]
               /\ \A e \in Events : e[2] = t => event'[e] = event[e]
    <3>1. t \notin ClaimedTuples(d)
      BY <2>5 DEF Scope, ClaimedTuples
    <3>2. \A e \in y.claimed : e[2] # t
      BY <3>1 DEF ClaimedTuples
    <3> QED BY <2>1, <2>2, <3>1, <3>2 DEF Locks
  <2>6. \A t \in Tuples \ Scope(d) : Untouched(d, t)
    BY <2>1, <2>3, <2>4, <2>5 DEF Untouched
  <2> QED BY <1>2, <2>1, <2>6
<1>3. CASE WriteDirect(d)
  <2>1. /\ y.kind = "direct" /\ y.stage = "write" /\ EndConn(d, Scope(d))
        /\ UNCHANGED <<ledger, event>>
        /\ balance' = [balance EXCEPT ![y.at] = y.sum]
    BY <1>3 DEF WriteDirect
  <2>2. y.at # None
    BY <2>1 DEF TypeInv, ConnInv
  <2>3. y.failed = {} /\ y.todo \cup y.skipped = {}
    BY <1>0, <2>1, <2>2 DEF ShapeOf
  <2>4. y.at \in Scope(d) /\ Underway(d) \subseteq Scope(d)
    BY <2>2, <2>3 DEF Scope, Underway
  <2>5. \A t \in Tuples \ Scope(d) : balance'[t] = balance[t]
    BY <2>1, <2>4 DEF TypeInv, TypeOK
  <2>6. \A t \in Tuples \ Scope(d) : Untouched(d, t)
    BY <2>1, <2>4, <2>5 DEF Untouched
  <2> QED BY <1>3, <2>1, <2>6
<1>4. CASE EndDirect(d)
  <2>1. /\ y.kind = "direct" /\ y.todo = {} /\ y.at = None /\ EndConn(d, Scope(d))
        /\ UNCHANGED <<ledger, event, balance>>
    BY <1>4 DEF EndDirect
  <2>2. Underway(d) \subseteq Scope(d)
    BY <1>0, <2>1 DEF Scope, Underway, ShapeOf
  <2>3. \A t \in Tuples \ Scope(d) : Untouched(d, t)
    BY <2>1, <2>2 DEF Untouched
  <2> QED BY <1>4, <2>1, <2>3
<1>5. CASE Abort(d) \/ DeadlockAbort(d)
  <2>1. EndConn(d, Forgone(d)) /\ Excuse(Forgone(d)) /\ UNCHANGED <<ledger, event, balance>>
    BY <1>5 DEF Abort, DeadlockAbort, RollBack
  <2>2. Volatile(d) => Underway(d) = Forgone(d)
    BY DEF Volatile, Underway, Forgone
  <2>3. \A t \in Tuples \ Forgone(d) : Untouched(d, t)
    BY <2>1, <2>2 DEF Untouched
  <2> QED BY <2>1, <2>3
<1> QED BY <1>1, <1>2, <1>3, <1>4, <1>5

(* Another session ends: what it changed is known to be out of date, or its events *)
(* failed and stand for the tuple. *)
LEMMA EndStepsSum ==
  ASSUME TypeInv, LedgerInv, ShapeInv, SumInv, NEW d \in Sessions,
         \/ CommitInline(d) \/ WriteDirect(d) \/ EndDirect(d)
         \/ Abort(d) \/ DeadlockAbort(d) \/ CommitPoll(d),
         NEW c \in Sessions \ {d}, NEW t \in Summed(c), t \in Tuples
  PROVE  SumOf(c, t)'
<1>1. PICK P :
        /\ EndConn(d, P)
        /\ \A u \in Tuples \ P : Untouched(d, u)
  BY EndReaches
<1>2. /\ \A x \in Sessions \ {d} : SameWork(x)
      /\ conn'[c].stale = conn[c].stale \cup (P \cap Summed(c))
  BY <1>1, EndConnOthers
<1>3. SumOf(c, t)
  BY DEF SumInv
<1>4. CASE t \in P
  BY <1>2, <1>3, <1>4, SumStays
<1>5. ASSUME NEW e \in conn[d].claimed, e[2] = t, Awaited(e)'
      PROVE  SumOf(c, t)'
  <2>1. e \in Events
    BY ConnFacts DEF TypeInv, TypeOK
  <2>2. e \notin conn'[c].claimed
    BY <1>2 DEF SameWork, TypeInv, ConnInv
  <2>3. DueBesides(c, t)'
    BY <1>5, <2>1, <2>2 DEF DueBesides
  <2> QED BY <1>2, <1>3, <2>3, SumStays
<1>6. ASSUME balance'[t] = balance[t],
             \A j \in Journals : t \in Touches[j] => (ledger'[j] = "posted" <=> ledger[j] = "posted"),
             \A e \in Events : e[2] = t => event'[e] = event[e],
             ~(Volatile(d) /\ t \in Underway(d))
      PROVE  SumOf(c, t)'
  <2>1. Visible(c, t)' = Visible(c, t)
    BY <1>2, <1>6, VisibleSame DEF SameWork
  <2>2. \A x \in Sessions \ {d} : Volatile(x)' = Volatile(x) /\ Underway(x)' = Underway(x)
    BY <1>2, SameWorkFacts
  <2>3. DueByJob(t) => DueByJob(t)'
    BY DEF DueByJob, CommitInline, WriteDirect, EndDirect, Abort, DeadlockAbort, RollBack,
           CommitPoll
  <2>4. \A e \in Events : e[2] = t /\ Awaited(e) => Awaited(e)'
    BY <1>6 DEF Awaited
  <2>5. conn'[c].claimed = conn[c].claimed
    BY <1>2 DEF SameWork
  <2>6. DueBesides(c, t) => DueBesides(c, t)'
    BY <1>6, <2>2, <2>3, <2>4, <2>5, BesidesStays
  <2> QED BY <1>2, <1>3, <1>6, <2>1, <2>6, SumStays
<1> QED BY <1>1, <1>4, <1>5, <1>6 DEF Untouched

LEMMA SumKept ==
  ASSUME TypeInv, LedgerInv, CountInv, ShapeInv, SumInv, [Next]_vars, TypeInv'
  PROVE  SumInv'
<1>1. SUFFICES ASSUME NEW c \in Sessions, NEW t \in Summed(c)' PROVE SumOf(c, t)'
  BY DEF SumInv
<1>2. t \in Tuples
  <2>1. (TypeOK => Scope(c) \subseteq Tuples)'
    BY ScopeTyped, PTL
  <2> QED BY <2>1 DEF Summed, TypeInv
<1>3. (SumOf(c, t) /\ t \in Summed(c)) \/ Summed(c)' # Summed(c)
  BY DEF SumInv
<1>4. CASE Summed(c)' = {}
  BY <1>4
<1>5. CASE SkipClosed(c) \/ BeginTuple(c) \/ ReadSum(c) \/ WriteHeld(c)
           \/ RebuildFails(c) \/ DeadlockFails(c)
  BY <1>2, <1>5, RebuildStepsSum
<1>6. ASSUME SameWork(c), conn'[c] # Idle,
             ~(\/ BeginDirect(c) \/ KickedPoll(c) \/ SweepPoll(c)
               \/ \E j \in Journals : BeginPost(c, j) \/ BeginReverse(c, j)
               \/ SkipClosed(c) \/ BeginTuple(c) \/ ReadSum(c) \/ WriteHeld(c)
                  \/ RebuildFails(c) \/ DeadlockFails(c))
      PROVE  SumOf(c, t)'
  <2>1. t \in Summed(c) /\ SumOf(c, t)
    BY <1>3, <1>6, SameWorkFacts
  <2>2. ASSUME NEW j \in Journals, CheckPeriod(j) \/ CommitPost(j) \/ CommitReversal(j)
        PROVE  SumOf(c, t)'
    BY <1>2, <2>1, <2>2, LedgerStepsSum
  <2>3. ASSUME NEW d \in Sessions,
               \/ BeginDirect(d) \/ KickedPoll(d) \/ SweepPoll(d)
               \/ \E j \in Journals : BeginPost(d, j) \/ BeginReverse(d, j)
               \/ SkipClosed(d) \/ BeginTuple(d) \/ ReadSum(d) \/ WriteHeld(d)
               \/ RebuildFails(d) \/ DeadlockFails(d)
        PROVE  SumOf(c, t)'
    <3>1. d # c
      BY <1>6, <2>3
    <3> QED BY <1>2, <2>1, <2>3, <3>1, OtherWorkSum
  <2>4. ASSUME NEW d \in Sessions,
               \/ CommitInline(d) \/ WriteDirect(d) \/ EndDirect(d)
               \/ Abort(d) \/ DeadlockAbort(d) \/ CommitPoll(d)
        PROVE  SumOf(c, t)'
    <3>1. d # c
      BY <1>6, <2>4, EndFields
    <3> QED BY <1>2, <2>1, <2>4, <3>1, EndStepsSum
  <2>5. ASSUME UNCHANGED <<ledger, event, balance, conn, jobs>>
        PROVE  SumOf(c, t)'
    BY <2>1, <2>5 DEF SumOf, Outcome, Visible, DueBesides, DueByJob, Awaited, Volatile, Underway
  <2>6. ASSUME NEW d \in Sessions, EmptyPoll(d) PROVE SumOf(c, t)'
    BY <2>5, <2>6 DEF EmptyPoll
  <2>7. ASSUME NEW p \in Periods, ClosePeriod(p) \/ OpenPeriod(p) PROVE SumOf(c, t)'
    BY <2>5, <2>7 DEF ClosePeriod, OpenPeriod
  <2>8. CASE UNCHANGED vars
    BY <2>5, <2>8 DEF vars
  <2>9. ~Crash
    BY <1>6 DEF Crash
  <2> QED BY <2>2, <2>3, <2>4, <2>6, <2>7, <2>8, <2>9, NextCases
<1>7. \/ BeginDirect(c) \/ KickedPoll(c) \/ SweepPoll(c)
      \/ \E j \in Journals : BeginPost(c, j) \/ BeginReverse(c, j)
      => Summed(c)' = {}
  BY BeginsUnsummed
<1>8. conn'[c] = Idle => Summed(c)' = {}
  BY IdleSumsNothing
<1> QED BY <1>4, <1>5, <1>6, <1>7, <1>8, WorkCases

(* A tuple is excused until it is right again. *)
LEMMA ExcuseKeeps ==
  ASSUME NEW S, Excuse(S), NEW t \in excused \cup S
  PROVE  t \in excused' \/ balance'[t] = NetActive(t)'
BY DEF Excuse, NetActive

(* A step that leaves the row and its journals alone. *)
LEMMA DriftStays ==
  ASSUME NEW t \in Tuples, DriftOf(t), balance'[t] = balance[t],
         \A j \in Journals : t \in Touches[j] => (ledger'[j] = "posted" <=> ledger[j] = "posted"),
         Due(t) => t \in excused' \/ balance'[t] = NetActive(t)' \/ Due(t)',
         t \in excused => t \in excused' \/ balance'[t] = NetActive(t)'
  PROVE  DriftOf(t)'
<1>1. NetActive(t)' = NetActive(t)
  BY NetActiveSame
<1> QED BY <1>1 DEF DriftOf

(* Writing the ledger. *)
LEMMA LedgerStepsDrift ==
  ASSUME TypeInv, DriftInv, NEW j \in Journals,
         CheckPeriod(j) \/ CommitPost(j) \/ CommitReversal(j), NEW t \in Tuples
  PROVE  DriftOf(t)'
<1>1. conn' = conn /\ balance' = balance /\ jobs \subseteq jobs' /\ excused' = excused
  BY DEF CheckPeriod, CommitPost, CommitReversal
<1>2. \A e \in Events : Awaited(e) => Awaited(e)'
  <2>1. CASE CommitPost(j)
    BY <2>1 DEF CommitPost, Awaited
  <2>2. CASE CheckPeriod(j) \/ CommitReversal(j)
    BY <2>2 DEF CheckPeriod, CommitReversal, Awaited
  <2> QED BY <2>1, <2>2
<1>3. DueByRebuild(t) => DueByRebuild(t)'
  BY <1>1 DEF DueByRebuild, Volatile, Underway
<1>4. Due(t) => Due(t)'
  BY <1>1, <1>2, <1>3 DEF Due, DueByEvent, DueByJob
<1>5. ASSUME t \notin Touches[j] \/ CheckPeriod(j) PROVE DriftOf(t)'
  <2>1. \A i \in Journals : t \in Touches[i] => (ledger'[i] = "posted" <=> ledger[i] = "posted")
    BY <1>5 DEF CheckPeriod, CommitPost, CommitReversal, TypeInv, TypeOK
  <2> QED BY <1>1, <1>4, <2>1, DriftStays DEF DriftInv
<1>6. ASSUME t \in Touches[j], CommitPost(j) PROVE Due(t)'
  <2>1. <<j, t>> \in Events
    BY <1>6 DEF Events
  <2>2. Awaited(<<j, t>>)'
    BY <1>6, <2>1 DEF CommitPost, Awaited
  <2> QED BY <2>1, <2>2 DEF Due, DueByEvent
<1>7. ASSUME t \in Touches[j], CommitReversal(j) PROVE Due(t)'
  <2>1. [journal |-> j, tuple |-> t, durable |-> FALSE] \in jobs'
    BY <1>7 DEF CommitReversal
  <2> QED BY <2>1 DEF Due, DueByJob
<1> QED BY <1>5, <1>6, <1>7 DEF DriftOf

(* A session begins or goes on: what was due is. *)
LEMMA WorkStepsDrift ==
  ASSUME TypeInv, ShapeInv, DriftInv, NEW d \in Sessions,
         \/ BeginDirect(d) \/ KickedPoll(d) \/ SweepPoll(d)
         \/ \E j \in Journals : BeginPost(d, j) \/ BeginReverse(d, j)
         \/ SkipClosed(d) \/ BeginTuple(d) \/ ReadSum(d) \/ WriteHeld(d)
         \/ RebuildFails(d) \/ DeadlockFails(d),
         NEW t \in Tuples
  PROVE  DriftOf(t)'
<1>1. /\ \A x \in Sessions \ {d} : conn'[x] = conn[x]
      /\ UNCHANGED <<ledger, event, balance, excused>>
  BY BeginFields, BeginsUnsummed, OneConnFields, RebuildFields
<1>2. /\ DueByJob(t) => DueByJob(t)' \/ (Volatile(d)' /\ t \in Underway(d)')
      /\ Volatile(d) /\ t \in Underway(d) => Volatile(d)' /\ t \in Underway(d)'
  BY WorkKeepsDue
<1>3. \A x \in Sessions \ {d} : Volatile(x)' = Volatile(x) /\ Underway(x)' = Underway(x)
  BY <1>1 DEF Volatile, Underway
<1>4. DueByEvent(t)' = DueByEvent(t)
  BY <1>1 DEF DueByEvent, Awaited
<1>5. DueByRebuild(t) => DueByRebuild(t)'
  BY <1>2, <1>3 DEF DueByRebuild
<1>6. Due(t) => Due(t)'
  BY <1>2, <1>4, <1>5 DEF Due, DueByRebuild
<1> QED BY <1>1, <1>6, DriftStays DEF DriftInv

(* A session commits a tuple it went through: skipped, out of date, right, or due *)
(* besides. *)
LEMMA CommittedDrift ==
  ASSUME TypeInv, LedgerInv, ShapeInv, SumInv, NEW d \in Sessions,
         CommitInline(d) \/ WriteDirect(d) \/ EndDirect(d) \/ CommitPoll(d),
         NEW t \in Tuples, t \in Scope(d)
  PROVE  DriftOf(t)'
<1> DEFINE y == conn[d]
<1>0. ShapeOf(d)
  BY DEF ShapeInv
<1>1. conn'[d] = Idle /\ \A x \in Sessions \ {d} : SameWork(x)
  <2>1. EndConn(d, Scope(d))
    BY DEF CommitInline, WriteDirect, EndDirect, CommitPoll
  <2> QED BY <2>1, EndConnOthers DEF EndConn
<1>2. DueBesides(d, t) => Due(t)'
  <2>1. \A e \in Events : e \notin y.claimed => event'[e] = event[e]
    <3>1. CASE CommitPoll(d)
      BY <3>1 DEF CommitPoll
    <3>2. CASE CommitInline(d) \/ WriteDirect(d) \/ EndDirect(d)
      BY <3>2 DEF CommitInline, WriteDirect, EndDirect
    <3> QED BY <3>1, <3>2
  <2>2. jobs' = jobs
    BY DEF CommitInline, WriteDirect, EndDirect, CommitPoll
  <2>3. \A x \in Sessions \ {d} : Volatile(x)' = Volatile(x) /\ Underway(x)' = Underway(x)
    BY <1>1, SameWorkFacts
  <2>4. (\E e \in Events : e[2] = t /\ Awaited(e) /\ e \notin y.claimed) => DueByEvent(t)'
    BY <2>1 DEF DueByEvent, Awaited
  <2>5. DueByJob(t) => DueByJob(t)'
    BY <2>2 DEF DueByJob
  <2>6. (\E x \in Sessions \ {d} : Volatile(x) /\ t \in Underway(x)) => DueByRebuild(t)'
    BY <2>3 DEF DueByRebuild
  <2> QED BY <2>4, <2>5, <2>6 DEF DueBesides, Due
<1>3. ASSUME t \in Summed(d), Excuse(y.stale) \/ Excuse(y.skipped \cup y.stale),
             balance'[t] = Outcome(d, t), Visible(d, t) = NetActive(t)'
      PROVE  DriftOf(t)'
  <2>1. t \in y.stale => t \in excused' \/ balance'[t] = NetActive(t)'
    BY <1>3, ExcuseKeeps
  <2>2. SumOf(d, t)
    BY <1>3 DEF SumInv
  <2> QED BY <1>2, <1>3, <2>1, <2>2 DEF DriftOf, SumOf
<1>4. ASSUME t \in y.skipped, Excuse(y.skipped) \/ Excuse(y.skipped \cup y.stale)
      PROVE  DriftOf(t)'
  BY <1>4, ExcuseKeeps DEF DriftOf
<1>5. t # None
  BY TuplesAreNumbers
<1>6. CASE CommitInline(d)
  <2>1. /\ y.kind \in {"post", "reverse"} /\ y.todo = {} /\ y.at = None
        /\ Excuse(y.skipped \cup y.stale)
        /\ ledger' = [ledger EXCEPT ![y.own] = IF y.kind = "post" THEN "posted" ELSE "reversed"]
        /\ balance' = [u \in Tuples |-> IF Locks(d, u) THEN y.writes[u] ELSE balance[u]]
    BY <1>6 DEF CommitInline
  <2>2. y.own \in Journals /\ DOMAIN ledger = Journals
    BY <2>1 DEF LedgerInv, TypeInv, TypeOK
  <2>3. Visible(d, t) = NetActive(t)'
    BY <2>1, <2>2 DEF Visible, NetActive
  <2>4. balance'[t] = Outcome(d, t)
    BY <1>5, <2>1 DEF Outcome, Locks
  <2>5. t \notin y.skipped => t \in Summed(d)
    BY <1>5, <2>1 DEF Summed
  <2> QED BY <1>3, <1>4, <2>1, <2>3, <2>4, <2>5
<1>7. CASE CommitPoll(d)
  <2>1. /\ y.kind = "poll" /\ y.todo = {} /\ y.at = None /\ UNCHANGED ledger
        /\ Excuse(y.skipped \cup y.stale)
        /\ balance' = [u \in Tuples |-> IF Locks(d, u) THEN y.writes[u] ELSE balance[u]]
    BY <1>7 DEF CommitPoll
  <2>3. Visible(d, t) = NetActive(t)'
    BY <2>1 DEF Visible, NetActive
  <2>4. balance'[t] = Outcome(d, t)
    BY <1>5, <2>1 DEF Outcome, Locks
  <2>5. t \notin y.skipped => t \in Summed(d)
    BY <1>5, <2>1 DEF Summed
  <2> QED BY <1>3, <1>4, <2>1, <2>3, <2>4, <2>5
<1>8. CASE WriteDirect(d)
  <2>1. /\ y.kind = "direct" /\ y.stage = "write" /\ UNCHANGED ledger /\ Excuse(y.stale)
        /\ balance' = [balance EXCEPT ![y.at] = y.sum]
    BY <1>8 DEF WriteDirect
  <2>2. y.at # None
    BY <2>1 DEF TypeInv, ConnInv
  <2>3. /\ y.todo \cup y.skipped = {} /\ y.own = None /\ y.claimed = {}
        /\ DOMAIN y.writes = {}
    BY <1>0, <2>1, <2>2 DEF ShapeOf
  <2>4. t = y.at /\ t \in Summed(d)
    BY <2>1, <2>3 DEF Scope, Summed
  <2>5. Visible(d, t) = NetActive(t)'
    BY <2>1 DEF Visible, NetActive
  <2>6. balance'[t] = Outcome(d, t)
    BY <2>1, <2>3, <2>4 DEF Outcome, TypeInv, TypeOK
  <2> QED BY <1>3, <2>1, <2>4, <2>5, <2>6
<1>9. CASE EndDirect(d)
  <2>1. y.kind = "direct" /\ y.at = None /\ Excuse(y.skipped)
    BY <1>9 DEF EndDirect
  <2>2. t \in y.skipped
    BY <1>0, <1>5, <2>1 DEF ShapeOf, Scope
  <2> QED BY <1>4, <2>1, <2>2
<1> QED BY <1>6, <1>7, <1>8, <1>9

(* A session ends. *)
LEMMA EndStepsDrift ==
  ASSUME TypeInv, LedgerInv, ShapeInv, SumInv, DriftInv, NEW d \in Sessions,
         \/ CommitInline(d) \/ WriteDirect(d) \/ EndDirect(d)
         \/ Abort(d) \/ DeadlockAbort(d) \/ CommitPoll(d),
         NEW t \in Tuples
  PROVE  DriftOf(t)'
<1>1. PICK P :
        /\ EndConn(d, P)
        /\ \/ P = Forgone(d) /\ Excuse(P)
           \/ /\ P = Scope(d)
              /\ CommitInline(d) \/ WriteDirect(d) \/ EndDirect(d) \/ CommitPoll(d)
        /\ \A u \in Tuples \ P : Untouched(d, u)
  BY EndReaches
<1>2. PICK S : Excuse(S)
  BY DEF CommitInline, WriteDirect, EndDirect, Abort, DeadlockAbort, RollBack, CommitPoll
<1>3. CASE t \in P
  <2>1. CASE P = Forgone(d) /\ Excuse(P)
    BY <1>3, <2>1, ExcuseKeeps DEF DriftOf
  <2> QED BY <1>1, <1>3, <2>1, CommittedDrift
<1>4. ASSUME NEW e \in conn[d].claimed, e[2] = t, Awaited(e)'
      PROVE  DriftOf(t)'
  <2>1. e \in Events
    BY ConnFacts DEF TypeInv, TypeOK
  <2> QED BY <1>4, <2>1 DEF DriftOf, Due, DueByEvent
<1>5. ASSUME balance'[t] = balance[t],
             \A j \in Journals : t \in Touches[j] => (ledger'[j] = "posted" <=> ledger[j] = "posted"),
             \A e \in Events : e[2] = t => event'[e] = event[e],
             ~(Volatile(d) /\ t \in Underway(d))
      PROVE  DriftOf(t)'
  <2>1. \A x \in Sessions \ {d} : Volatile(x)' = Volatile(x) /\ Underway(x)' = Underway(x)
    BY <1>1, EndConnOthers, SameWorkFacts
  <2>2. DueByRebuild(t) => DueByRebuild(t)'
    BY <1>5, <2>1 DEF DueByRebuild
  <2>3. DueByJob(t) => DueByJob(t)'
    BY DEF DueByJob, CommitInline, WriteDirect, EndDirect, Abort, DeadlockAbort, RollBack,
           CommitPoll
  <2>4. DueByEvent(t) => DueByEvent(t)'
    BY <1>5 DEF DueByEvent, Awaited
  <2>5. Due(t) => Due(t)'
    BY <2>2, <2>3, <2>4 DEF Due
  <2>6. t \in excused => t \in excused' \/ balance'[t] = NetActive(t)'
    BY <1>2, ExcuseKeeps
  <2> QED BY <1>5, <2>5, <2>6, DriftStays DEF DriftInv
<1> QED BY <1>1, <1>3, <1>4, <1>5 DEF Untouched

(* A crash: the events stay, and what they do not stand for is excused. *)
LEMMA CrashDrift ==
  ASSUME TypeInv, DriftInv, Crash, NEW t \in Tuples
  PROVE  DriftOf(t)'
<1> DEFINE Lost == {job.tuple : job \in {x \in jobs : ~x.durable}}
                   \cup UNION {Forgone(c) : c \in Sessions}
<1>1. /\ balance' = balance /\ event' = event /\ Excuse(Lost)
      /\ ledger' = [j \in Journals |-> IF ledger[j] = "checked" THEN "new" ELSE ledger[j]]
  BY DEF Crash
<1>2. \A u \in excused \cup Lost : u \in excused' \/ balance'[u] = NetActive(u)'
  BY <1>1, ExcuseKeeps
<1>3. DueByJob(t) => t \in Lost
  BY DEF DueByJob
<1>4. DueByRebuild(t) => t \in Lost
  <2>1. ASSUME NEW d \in Sessions, Volatile(d), t \in Underway(d) PROVE t \in Forgone(d)
    BY <2>1 DEF Volatile, Underway, Forgone
  <2> QED BY <2>1 DEF DueByRebuild
<1> HIDE DEF Lost
<1>5. DueByEvent(t) => DueByEvent(t)'
  BY <1>1 DEF DueByEvent, Awaited
<1>6. Due(t) => t \in excused' \/ balance'[t] = NetActive(t)' \/ Due(t)'
  BY <1>2, <1>3, <1>4, <1>5 DEF Due
<1>7. \A j \in Journals : ledger'[j] = "posted" <=> ledger[j] = "posted"
  BY <1>1
<1> QED BY <1>1, <1>2, <1>6, <1>7, DriftStays DEF DriftInv

LEMMA DriftKept ==
  ASSUME TypeInv, LedgerInv, ShapeInv, SumInv, DriftInv, [Next]_vars
  PROVE  DriftInv'
<1>1. SUFFICES ASSUME NEW t \in Tuples PROVE DriftOf(t)'
  BY DEF DriftInv
<1>2. ASSUME UNCHANGED <<ledger, event, balance, conn, jobs, excused>> PROVE DriftOf(t)'
  BY <1>2 DEF DriftInv, DriftOf, NetActive, Due, DueByEvent, DueByJob, DueByRebuild, Awaited,
              Volatile, Underway
<1>3. ASSUME NEW d \in Sessions, EmptyPoll(d) PROVE DriftOf(t)'
  BY <1>2, <1>3 DEF EmptyPoll
<1>4. ASSUME NEW p \in Periods, ClosePeriod(p) \/ OpenPeriod(p) PROVE DriftOf(t)'
  BY <1>2, <1>4 DEF ClosePeriod, OpenPeriod
<1>5. CASE UNCHANGED vars
  BY <1>2, <1>5 DEF vars
<1> QED BY <1>3, <1>4, <1>5, NextCases, LedgerStepsDrift, WorkStepsDrift, EndStepsDrift,
           CrashDrift

(* With nothing due, no drift but the excused. *)
LEMMA NoDriftWhenSettled ==
  ASSUME DriftInv
  PROVE  DriftIsExcused
<1>1. SUFFICES ASSUME NEW t \in Tuples, Settled(t), t \notin excused
               PROVE  balance[t] = NetActive(t)
  BY DEF DriftIsExcused
<1>2. ~DueByEvent(t)
  BY <1>1 DEF DueByEvent, Awaited, Settled
<1>3. ~DueByJob(t)
  BY <1>1 DEF DueByJob, Settled
<1>4. ~DueByRebuild(t)
  BY <1>1 DEF DueByRebuild, Underway, Settled
<1> QED BY <1>1, <1>2, <1>3, <1>4 DEF DriftInv, DriftOf, Due

(* For any journals, batches, sessions and faults: once nothing is left that would *)
(* rebuild a row, its balance is the net-active total, or one of the known causes of *)
(* drift struck it. *)
THEOREM DriftAlwaysExcused == Spec => []DriftIsExcused
<1>1. Init => CountInv /\ ShapeInv /\ SumInv /\ DriftInv
  <2> SUFFICES ASSUME Init PROVE CountInv /\ ShapeInv /\ SumInv /\ DriftInv
    OBVIOUS
  <2>1. CountInv
    BY IdleFacts DEF Init, CountInv, Idle
  <2>2. \A c \in Sessions : Summed(c) = {}
    BY DEF Init, Summed, Scope, Idle
  <2>3. DriftInv
    BY DEF Init, DriftInv, DriftOf, NetActive
  <2> QED BY <2>1, <2>2, <2>3, ShapeInit DEF SumInv
<1>2. /\ TypeInv /\ LedgerInv /\ CountInv /\ ShapeInv /\ SumInv /\ DriftInv
      /\ [Next]_vars /\ TypeInv'
      => CountInv' /\ ShapeInv' /\ SumInv' /\ DriftInv'
  BY CountKept, ShapeKept, SumKept, DriftKept
<1>3. DriftInv => DriftIsExcused
  BY NoDriftWhenSettled
<1>4. Spec => [](TypeInv /\ LedgerInv)
  BY LedgerInvariant
<1> QED BY <1>1, <1>2, <1>3, <1>4, PTL DEF Spec
=============================================================================
