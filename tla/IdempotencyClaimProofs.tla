---------------------- MODULE IdempotencyClaimProofs ----------------------
(***************************************************************************)
(* Proofs about IdempotencyClaim for any finite set of requests.           *)
(***************************************************************************)
EXTENDS IdempotencyClaim, FiniteSetTheorems, TLAPS

USE RequestsAssumption, FaultsAssumption

(* The rows a statement can leave behind are rows of the table. *)
LEMMA RowFacts ==
  /\ Absent \in Rows
  /\ \A r \in Requests : ClaimedBy(r) \in Rows
  /\ \A x \in Rows : x.state = "claimed" =>
       /\ x.owner \in Requests
       /\ [x EXCEPT !.aged = TRUE] \in Rows
       /\ \A r \in Requests : [x EXCEPT !.state = "stored", !.body = r] \in Rows
  /\ \A x \in Rows : x.state = "stored" =>
       /\ x.body \in Requests
       /\ [x EXCEPT !.expired = TRUE] \in Rows
<1>1. Absent \in Rows
  BY DEF Absent, Rows
<1>2. \A r \in Requests : ClaimedBy(r) \in Rows
  BY DEF Absent, ClaimedBy, Rows
<1>3. ASSUME NEW x \in Rows, x.state = "claimed"
      PROVE  /\ x.owner \in Requests
             /\ [x EXCEPT !.aged = TRUE] \in Rows
             /\ \A r \in Requests : [x EXCEPT !.state = "stored", !.body = r] \in Rows
  BY <1>3 DEF Rows
<1>4. ASSUME NEW x \in Rows, x.state = "stored"
      PROVE  x.body \in Requests /\ [x EXCEPT !.expired = TRUE] \in Rows
  BY <1>4 DEF Rows
<1> QED BY <1>1, <1>2, <1>3, <1>4

(* The variables keep their types. *)
THEOREM TypeCorrect == Spec => []TypeOK
<1>1. Init => TypeOK
  BY RowFacts DEF Init, TypeOK, Stages
<1>2. TypeOK /\ [Next]_vars => TypeOK'
  <2> SUFFICES ASSUME TypeOK, [Next]_vars PROVE TypeOK'
    OBVIOUS
  <2> USE RowFacts DEF TypeOK, Stages, Goto, Reply
  <2>1. ASSUME NEW r \in Requests, Step(r) PROVE TypeOK'
    <3>1. CASE ReadCompleted(r)  BY <3>1 DEF ReadCompleted, Replayable
    <3>2. CASE SweepStale(r)
      <4>1. CASE row.state = "claimed" /\ row.aged
        <5>1. row.owner \in Requests /\ row' = Absent
          BY <3>2, <4>1 DEF SweepStale
        <5>2. excused' \subseteq Requests
          BY <3>2, <4>1, <5>1 DEF SweepStale
        <5> QED BY <3>2, <5>1, <5>2 DEF SweepStale
      <4>2. CASE ~(row.state = "claimed" /\ row.aged)
        BY <3>2, <4>2 DEF SweepStale
      <4> QED BY <4>1, <4>2
    <3>3. CASE Insert(r)
      <4>1. row' = ClaimedBy(r) \/ row' = row
        BY <3>3 DEF Insert
      <4>2. row' \in Rows
        BY <4>1
      <4>3. pc' = [pc EXCEPT ![r] = "run"] \/ pc' = [pc EXCEPT ![r] = "wait"]
        BY <3>3 DEF Insert
      <4>4. pc' \in [Requests -> Stages]
        BY <4>3
      <4> QED BY <3>3, <4>2, <4>4 DEF Insert
    <3>4. CASE WaitHit(r)        BY <3>4 DEF WaitHit, Replayable
    <3>5. CASE WaitTimeout(r)    BY <3>5 DEF WaitTimeout
    <3>6. CASE RunCommits(r)     BY <3>6 DEF RunCommits
    <3>7. CASE RunFails(r)       BY <3>7 DEF RunFails
    <3>8. CASE Complete(r)       BY <3>8 DEF Complete
    <3>9. CASE Release(r)        BY <3>9 DEF Release
    <3>10. CASE BareCommits(r)   BY <3>10 DEF BareCommits
    <3>11. CASE BareFails(r)     BY <3>11 DEF BareFails
    <3> QED BY <2>1, <3>1, <3>2, <3>3, <3>4, <3>5, <3>6, <3>7, <3>8, <3>9, <3>10, <3>11
            DEF Step
  <2>2. ASSUME NEW r \in Requests, Fault(r) PROVE TypeOK'
    <3>1. CASE LookupFails(r)    BY <3>1 DEF LookupFails
    <3>2. CASE InsertCutOff(r)   BY <3>2 DEF InsertCutOff
    <3>3. CASE CompleteFails(r)  BY <3>3 DEF CompleteFails
    <3>4. CASE ReleaseFails(r)   BY <3>4 DEF ReleaseFails
    <3>5. CASE Crash(r)          BY <3>5 DEF Crash
    <3> QED BY <2>2, <3>1, <3>2, <3>3, <3>4, <3>5 DEF Fault
  <2>3. CASE AgeClaim            BY <2>3 DEF AgeClaim
  <2>4. CASE ExpireRow           BY <2>4 DEF ExpireRow
  <2>5. CASE UNCHANGED vars      BY <2>5 DEF vars
  <2> QED BY <2>1, <2>2, <2>3, <2>4, <2>5 DEF Next, Finished
<1> QED BY <1>1, <1>2, PTL DEF Spec

---------------------------------------------------------------------------
(***************************************************************************)
(* RepeatsAreExcused.  A request has a stake in the key when its execution *)
(* committed, is running, or has failed and not yet released the claim.    *)
(* The claim protocol lets one request in at a time: a stake is either     *)
(* excused or it is backed by the row, which one unexcused owner holds or  *)
(* which keeps the response.                                               *)
(***************************************************************************)
Stake == committed \cup {r \in Requests : pc[r] \in {"run", "free", "bare"}}

Backed == \/ row.state = "stored"
          \/ /\ row.state = "claimed"
             /\ Holding(row.owner)
             /\ row.owner \notin excused

StageInv ==
  \A r \in Requests :
    /\ pc[r] \in {"read", "sweep", "insert", "wait"} => r \notin committed \cup excused
    /\ pc[r] \in {"run", "free", "bare"} => r \notin committed
    /\ pc[r] = "save" => r \in committed

StakeBound == Cardinality(Stake) <= Cardinality(excused) + (IF Backed THEN 1 ELSE 0)

StakeInv == TypeOK /\ StageInv /\ StakeBound

(* The sets counted are finite, and gain or lose one element at a time. *)
LEMMA Counting ==
  ASSUME NEW S \in SUBSET Requests, NEW x \in Requests
  PROVE  /\ Cardinality(S) \in Nat
         /\ x \notin S => Cardinality(S \cup {x}) = Cardinality(S) + 1
         /\ x \in S => Cardinality(S \cup {x}) = Cardinality(S)
         /\ x \in S => Cardinality(S \ {x}) = Cardinality(S) - 1
<1>1. IsFiniteSet(S)
  BY FS_Subset, RequestsAssumption
<1> QED BY <1>1, FS_AddElement, FS_RemoveElement, FS_CardinalityType

(* The stages say who has committed. *)
LEMMA StagesKept ==
  ASSUME TypeOK, StageInv, [Next]_vars
  PROVE  StageInv'
<1> USE DEF TypeOK, StageInv, Stages, Goto, Reply
<1>1. ASSUME NEW r \in Requests, Step(r) PROVE StageInv'
  <2>1. CASE ReadCompleted(r)   BY <2>1 DEF ReadCompleted
  <2>2. CASE SweepStale(r)
    <3>1. CASE row.state = "claimed" /\ row.aged /\ Holding(row.owner)
      BY <2>2, <3>1 DEF SweepStale, Holding
    <3>2. CASE ~(row.state = "claimed" /\ row.aged /\ Holding(row.owner))
      BY <2>2, <3>2 DEF SweepStale
    <3> QED BY <3>1, <3>2
  <2>3. CASE Insert(r)          BY <2>3 DEF Insert
  <2>4. CASE WaitHit(r)         BY <2>4 DEF WaitHit
  <2>5. CASE WaitTimeout(r)     BY <2>5 DEF WaitTimeout
  <2>6. CASE RunCommits(r)      BY <2>6 DEF RunCommits
  <2>7. CASE RunFails(r)        BY <2>7 DEF RunFails
  <2>8. CASE Complete(r)        BY <2>8 DEF Complete
  <2>9. CASE Release(r)         BY <2>9 DEF Release
  <2>10. CASE BareCommits(r)    BY <2>10 DEF BareCommits
  <2>11. CASE BareFails(r)      BY <2>11 DEF BareFails
  <2> QED BY <1>1, <2>1, <2>2, <2>3, <2>4, <2>5, <2>6, <2>7, <2>8, <2>9, <2>10, <2>11
          DEF Step
<1>2. ASSUME NEW r \in Requests, Fault(r) PROVE StageInv'
  <2>1. CASE LookupFails(r)     BY <2>1 DEF LookupFails
  <2>2. CASE InsertCutOff(r)    BY <2>2 DEF InsertCutOff
  <2>3. CASE CompleteFails(r)   BY <2>3 DEF CompleteFails
  <2>4. CASE ReleaseFails(r)    BY <2>4 DEF ReleaseFails
  <2>5. CASE Crash(r)           BY <2>5 DEF Crash
  <2> QED BY <1>2, <2>1, <2>2, <2>3, <2>4, <2>5 DEF Fault
<1>3. CASE AgeClaim             BY <1>3 DEF AgeClaim
<1>4. CASE ExpireRow            BY <1>4 DEF ExpireRow
<1>5. CASE UNCHANGED vars       BY <1>5 DEF vars
<1> QED BY <1>1, <1>2, <1>3, <1>4, <1>5 DEF Next, Finished

(* A step that leaves the stakes and the excused alone keeps the bound when
   it takes no backing away. *)
LEMMA BoundKept ==
  ASSUME TypeOK, StakeBound, Stake' = Stake, excused' = excused, Backed => Backed'
  PROVE  StakeBound'
<1>1. Cardinality(Stake) \in Nat /\ Cardinality(excused) \in Nat
  <2>1. Stake \in SUBSET Requests /\ excused \in SUBSET Requests
    BY DEF TypeOK, Stake
  <2> QED BY <2>1, FS_Subset, FS_CardinalityType, RequestsAssumption
<1> QED BY <1>1 DEF StakeBound

(* A stake given up pays for any backing taken away. *)
LEMMA BoundStakeGivenUp ==
  ASSUME TypeOK, StakeBound, NEW r \in Requests, r \in Stake,
         Stake' = Stake \ {r}, excused' = excused
  PROVE  StakeBound'
<1>1. Stake \in SUBSET Requests /\ excused \in SUBSET Requests
  BY DEF TypeOK, Stake
<1>2. Cardinality(Stake') = Cardinality(Stake) - 1
  BY <1>1, Counting
<1>3. Cardinality(Stake) \in Nat /\ Cardinality(excused) \in Nat
  BY <1>1, Counting
<1> QED BY <1>2, <1>3 DEF StakeBound

(* An excuse pays for the backing of an owner that had none before. *)
LEMMA BoundExcused ==
  ASSUME TypeOK, StakeBound, NEW r \in Requests,
         Stake' = Stake, excused' = excused \cup {r},
         r \in excused /\ Backed => Backed'
  PROVE  StakeBound'
<1>1. Stake \in SUBSET Requests /\ excused \in SUBSET Requests
  BY DEF TypeOK, Stake
<1>2. Cardinality(Stake) \in Nat /\ Cardinality(excused) \in Nat
  BY <1>1, Counting
<1>3. CASE r \in excused
  <2>1. Cardinality(excused') = Cardinality(excused)
    BY <1>1, <1>3, Counting
  <2> QED BY <1>2, <1>3, <2>1 DEF StakeBound
<1>4. CASE r \notin excused
  <2>1. Cardinality(excused') = Cardinality(excused) + 1
    BY <1>1, <1>4, Counting
  <2> QED BY <1>2, <2>1 DEF StakeBound
<1> QED BY <1>3, <1>4

(* A step of a request that has no stake and takes none. *)
LEMMA BoundIdle ==
  ASSUME TypeOK, StakeBound, NEW r \in Requests,
         pc[r] \in {"read", "sweep", "insert", "wait"},
         NEW stage \in {"sweep", "insert", "wait", "done", "crashed"},
         Goto(r, stage), UNCHANGED <<row, committed, excused>>
  PROVE  StakeBound'
<1>1. Stake' = Stake
  BY DEF TypeOK, Stake, Goto
<1>2. Backed => Backed'
  BY DEF TypeOK, Goto, Backed, Holding
<1> QED BY <1>1, <1>2, BoundKept

(* Every step keeps the bound. *)
LEMMA StakeBoundKept ==
  ASSUME TypeOK, StageInv, StakeBound, [Next]_vars
  PROVE  StakeBound'
<1> USE DEF Goto, Reply
<1>0. pc \in [Requests -> Stages] /\ committed \subseteq Requests /\ row \in Rows
  BY DEF TypeOK
<1>1. ASSUME NEW r \in Requests, Step(r) PROVE StakeBound'
  <2>1. CASE ReadCompleted(r)
    BY <2>1, BoundIdle DEF ReadCompleted
  <2>2. CASE SweepStale(r)
    <3>1. Stake' = Stake
      BY <1>0, <2>2 DEF SweepStale, Stake
    <3>2. CASE row.state = "claimed" /\ row.aged /\ Holding(row.owner)
      <4>1. row.owner \in Requests
        BY <1>0, <3>2, RowFacts
      <4>2. excused' = excused \cup {row.owner}
        BY <2>2, <3>2 DEF SweepStale
      <4>3. ~(row.owner \in excused /\ Backed)
        BY <3>2 DEF Backed
      <4> QED BY <3>1, <4>1, <4>2, <4>3, BoundExcused
    <3>3. CASE row.state = "claimed" /\ row.aged /\ ~Holding(row.owner)
      <4>1. ~Backed /\ excused' = excused
        BY <2>2, <3>3 DEF Backed, SweepStale
      <4> QED BY <3>1, <4>1, BoundKept
    <3>4. CASE ~(row.state = "claimed" /\ row.aged)
      <4>1. UNCHANGED <<row, committed, excused>> /\ Goto(r, "insert")
        BY <2>2, <3>4 DEF SweepStale
      <4> QED BY <2>2, <4>1, BoundIdle DEF SweepStale
    <3> QED BY <3>2, <3>3, <3>4
  <2>3. CASE Insert(r)
    <3>1. CASE row.state = "absent"
      <4>1. Stake' = Stake \cup {r} /\ excused' = excused
        BY <1>0, <2>3, <3>1 DEF Insert, Stake
      <4>2. r \notin Stake /\ r \notin excused
        BY <1>0, <2>3 DEF Insert, Stake, StageInv
      <4>3. ~Backed
        BY <3>1 DEF Backed
      <4>4. Backed'
        BY <1>0, <2>3, <3>1, <4>2 DEF Insert, Backed, Holding, ClaimedBy, Absent
      <4>5. Stake \in SUBSET Requests /\ excused \in SUBSET Requests
        BY DEF TypeOK, Stake
      <4>6. /\ Cardinality(Stake') = Cardinality(Stake) + 1
            /\ Cardinality(Stake) \in Nat
            /\ Cardinality(excused) \in Nat
        BY <4>1, <4>2, <4>5, Counting
      <4> QED BY <4>1, <4>3, <4>4, <4>6 DEF StakeBound
    <3>2. CASE row.state # "absent"
      <4>1. UNCHANGED <<row, committed, excused>> /\ Goto(r, "wait")
        BY <2>3, <3>2 DEF Insert
      <4> QED BY <2>3, <4>1, BoundIdle DEF Insert
    <3> QED BY <3>1, <3>2
  <2>4. CASE WaitHit(r)
    BY <2>4, BoundIdle DEF WaitHit
  <2>5. CASE WaitTimeout(r)
    BY <2>5, BoundIdle DEF WaitTimeout
  <2>6. CASE RunCommits(r)
    <3>1. Stake' = Stake /\ excused' = excused
      BY <1>0, <2>6 DEF RunCommits, Stake
    <3>2. Backed => Backed'
      BY <1>0, <2>6 DEF RunCommits, Backed, Holding
    <3> QED BY <3>1, <3>2, BoundKept
  <2>7. CASE RunFails(r)
    <3>1. Stake' = Stake /\ excused' = excused
      BY <1>0, <2>7 DEF RunFails, Stake
    <3>2. Backed => Backed'
      BY <1>0, <2>7 DEF RunFails, Backed, Holding
    <3> QED BY <3>1, <3>2, BoundKept
  <2>8. CASE Complete(r)
    <3>1. Stake' = Stake /\ excused' = excused
      BY <1>0, <2>8 DEF Complete, Stake, StageInv
    <3>2. Backed => Backed'
      <4>1. CASE row.state = "claimed"
        <5>1. row'.state = "stored"
          BY <1>0, <2>8, <4>1 DEF Complete, Rows
        <5> QED BY <5>1 DEF Backed
      <4>2. CASE row.state # "claimed"
        BY <2>8, <4>2 DEF Complete, Backed
      <4> QED BY <4>1, <4>2
    <3> QED BY <3>1, <3>2, BoundKept
  <2>9. CASE Release(r)
    <3>1. r \in Stake /\ Stake' = Stake \ {r} /\ excused' = excused
      BY <1>0, <2>9 DEF Release, Stake, StageInv
    <3> QED BY <3>1, BoundStakeGivenUp
  <2>10. CASE BareCommits(r)
    <3>1. Stake' = Stake /\ excused' = excused
      BY <1>0, <2>10 DEF BareCommits, Stake
    <3>2. Backed => Backed'
      BY <1>0, <2>10 DEF BareCommits, Backed, Holding
    <3> QED BY <3>1, <3>2, BoundKept
  <2>11. CASE BareFails(r)
    <3>1. r \in Stake /\ Stake' = Stake \ {r} /\ excused' = excused
      BY <1>0, <2>11 DEF BareFails, Stake, StageInv
    <3> QED BY <3>1, BoundStakeGivenUp
  <2> QED BY <1>1, <2>1, <2>2, <2>3, <2>4, <2>5, <2>6, <2>7, <2>8, <2>9, <2>10, <2>11
          DEF Step
<1>2. ASSUME NEW r \in Requests, Fault(r) PROVE StakeBound'
  <2>1. CASE LookupFails(r)
    <3>1. Stake' = Stake \cup {r} /\ excused' = excused \cup {r}
      BY <1>0, <2>1 DEF LookupFails, Stake
    <3>2. r \notin Stake /\ r \notin excused
      BY <1>0, <2>1 DEF LookupFails, Stake, StageInv
    <3>3. Backed => Backed'
      BY <1>0, <2>1 DEF LookupFails, Backed, Holding
    <3>4. Stake \in SUBSET Requests /\ excused \in SUBSET Requests
      BY DEF TypeOK, Stake
    <3>5. /\ Cardinality(Stake') = Cardinality(Stake) + 1
          /\ Cardinality(excused') = Cardinality(excused) + 1
          /\ Cardinality(Stake) \in Nat
          /\ Cardinality(excused) \in Nat
      BY <3>1, <3>2, <3>4, Counting
    <3> QED BY <3>3, <3>5 DEF StakeBound
  <2>2. CASE InsertCutOff(r)
    <3>1. Stake' = Stake \cup {r} /\ excused' = excused \cup {r}
      BY <1>0, <2>2 DEF InsertCutOff, Stake
    <3>2. r \notin Stake /\ r \notin excused
      BY <1>0, <2>2 DEF InsertCutOff, Stake, StageInv
    <3>3. ~Backed
      BY <2>2 DEF InsertCutOff, Backed
    <3>4. Stake \in SUBSET Requests /\ excused \in SUBSET Requests
      BY DEF TypeOK, Stake
    <3>5. /\ Cardinality(Stake') = Cardinality(Stake) + 1
          /\ Cardinality(excused') = Cardinality(excused) + 1
          /\ Cardinality(Stake) \in Nat
          /\ Cardinality(excused) \in Nat
      BY <3>1, <3>2, <3>4, Counting
    <3> QED BY <3>3, <3>5 DEF StakeBound
  <2>3. CASE CompleteFails(r)
    <3>1. Stake' = Stake /\ excused' = excused \cup {r}
      BY <1>0, <2>3 DEF CompleteFails, Stake, StageInv
    <3>2. r \in excused /\ Backed => Backed'
      BY <1>0, <2>3 DEF CompleteFails, Backed, Holding
    <3> QED BY <3>1, <3>2, BoundExcused
  <2>4. CASE ReleaseFails(r)
    <3>1. r \in Stake /\ Stake' = Stake \ {r} /\ excused' = excused
      BY <1>0, <2>4 DEF ReleaseFails, Stake, StageInv
    <3> QED BY <3>1, BoundStakeGivenUp
  <2>5. CASE Crash(r)
    <3>1. CASE r \in committed
      <4>1. Stake' = Stake /\ excused' = excused \cup {r}
        BY <1>0, <2>5, <3>1 DEF Crash, Stake
      <4>2. r \in excused /\ Backed => Backed'
        BY <1>0, <2>5, <3>1 DEF Crash, Backed, Holding
      <4> QED BY <4>1, <4>2, BoundExcused
    <3>2. CASE r \notin committed /\ r \in Stake
      <4>1. Stake' = Stake \ {r} /\ excused' = excused
        BY <1>0, <2>5, <3>2 DEF Crash, Stake
      <4> QED BY <3>2, <4>1, BoundStakeGivenUp
    <3>3. CASE r \notin committed /\ r \notin Stake
      <4>1. Stake' = Stake /\ excused' = excused
        BY <1>0, <2>5, <3>3 DEF Crash, Stake
      <4>2. ~Holding(r)
        BY <3>3 DEF Stake, Holding, StageInv
      <4>3. Backed => Backed'
        BY <1>0, <2>5, <3>3, <4>2 DEF Crash, Backed, Holding
      <4> QED BY <4>1, <4>3, BoundKept
    <3> QED BY <3>1, <3>2, <3>3
  <2> QED BY <1>2, <2>1, <2>2, <2>3, <2>4, <2>5 DEF Fault
<1>3. CASE AgeClaim
  <2>1. Stake' = Stake /\ excused' = excused
    BY <1>3 DEF AgeClaim, Stake
  <2>2. row'.state = row.state /\ row'.owner = row.owner
    BY <1>0, <1>3 DEF AgeClaim, Rows
  <2>3. Backed => Backed'
    BY <1>3, <2>2 DEF AgeClaim, Backed, Holding
  <2> QED BY <2>1, <2>3, BoundKept
<1>4. CASE ExpireRow
  <2>1. Stake' = Stake /\ excused' = excused
    BY <1>4 DEF ExpireRow, Stake
  <2>2. row'.state = row.state
    BY <1>0, <1>4 DEF ExpireRow, Rows
  <2>3. Backed => Backed'
    BY <1>4, <2>2 DEF ExpireRow, Backed
  <2> QED BY <2>1, <2>3, BoundKept
<1>5. CASE UNCHANGED vars
  <2>1. Stake' = Stake /\ excused' = excused /\ Backed' = Backed
    BY <1>5 DEF vars, Stake, Backed, Holding
  <2> QED BY <2>1, BoundKept
<1> QED BY <1>1, <1>2, <1>3, <1>4, <1>5 DEF Next, Finished

(* However many requests carry the key and whatever goes wrong, each commit of
   the mutation after the first is owed to a different request that a fault
   has struck. *)
THEOREM EveryRepeatIsExcused == Spec => []RepeatsAreExcused
<1>1. Init => StakeInv
  <2> SUFFICES ASSUME Init PROVE StakeInv
    OBVIOUS
  <2>1. TypeOK /\ StageInv
    BY RowFacts DEF Init, TypeOK, Stages, StageInv
  <2>2. Stake = {} /\ excused = {}
    BY DEF Init, Stake
  <2>3. StakeBound
    BY <2>2, FS_EmptySet DEF StakeBound
  <2> QED BY <2>1, <2>3 DEF StakeInv
<1>2. TypeOK /\ TypeOK' /\ StakeInv /\ [Next]_vars => StakeInv'
  BY StagesKept, StakeBoundKept DEF StakeInv
<1>3. StakeInv => RepeatsAreExcused
  <2> SUFFICES ASSUME StakeInv PROVE RepeatsAreExcused
    OBVIOUS
  <2>1. Stake \in SUBSET Requests /\ excused \in SUBSET Requests /\ committed \subseteq Stake
    BY DEF StakeInv, TypeOK, Stake
  <2>2. Cardinality(committed) <= Cardinality(Stake)
    BY <2>1, FS_Subset, RequestsAssumption
  <2>3. committed \in SUBSET Requests
    BY <2>1
  <2>4. /\ Cardinality(Stake) \in Nat
        /\ Cardinality(committed) \in Nat
        /\ Cardinality(excused) \in Nat
    BY <2>1, <2>3, FS_Subset, FS_CardinalityType, RequestsAssumption
  <2> QED BY <2>2, <2>4 DEF StakeInv, StakeBound, RepeatsAreExcused
<1> QED BY <1>1, <1>2, <1>3, TypeCorrect, PTL DEF Spec

---------------------------------------------------------------------------
(***************************************************************************)
(* What is stored and what is replayed.                                    *)
(***************************************************************************)

\* The stored response is of a committed execution, and so is every answer;
\* an answer that is not the request's own is the stored one.
ReplayInv ==
  /\ row.state = "stored" => row.body \in committed
  /\ \A r \in Requests :
       /\ pc[r] = "save" => r \in committed
       /\ answer[r] \in Requests => answer[r] \in committed
       /\ answer[r] \in Requests \ {r} => row.state = "stored" /\ row.body = answer[r]

(* The response of a key is written once. *)
LEMMA StoredStays ==
  ASSUME TypeOK, [Next]_vars, row.state = "stored"
  PROVE  row'.state = "stored" /\ row'.body = row.body
<1>0. row \in Rows
  BY DEF TypeOK
<1>1. ASSUME NEW r \in Requests, Step(r) PROVE row' = row
  BY <1>1 DEF Step, ReadCompleted, SweepStale, Insert, WaitHit, WaitTimeout, RunCommits,
              RunFails, Complete, Release, BareCommits, BareFails
<1>2. ASSUME NEW r \in Requests, Fault(r) PROVE row' = row
  BY <1>2 DEF Fault, LookupFails, InsertCutOff, CompleteFails, ReleaseFails, Crash
<1>3. CASE AgeClaim         BY <1>3 DEF AgeClaim
<1>4. CASE ExpireRow        BY <1>0, <1>4 DEF ExpireRow, Rows
<1>5. CASE UNCHANGED vars   BY <1>5 DEF vars
<1> QED BY <1>1, <1>2, <1>3, <1>4, <1>5 DEF Next, Finished

(* A stored response is never replaced and never dropped. *)
THEOREM ResponsesAreStoredForGood == Spec => StoredForGood
<1>1. TypeOK /\ [Next]_vars
        => [row.state = "stored" => row'.state = "stored" /\ row'.body = row.body]_vars
  BY StoredStays
<1> QED BY <1>1, TypeCorrect, PTL DEF Spec, StoredForGood

(* Executions are not undone. *)
LEMMA CommittedGrows ==
  ASSUME [Next]_vars
  PROVE  committed \subseteq committed'
<1>1. ASSUME NEW r \in Requests, Step(r) PROVE committed \subseteq committed'
  BY <1>1 DEF Step, ReadCompleted, SweepStale, Insert, WaitHit, WaitTimeout, RunCommits,
              RunFails, Complete, Release, BareCommits, BareFails
<1>2. ASSUME NEW r \in Requests, Fault(r) PROVE committed \subseteq committed'
  BY <1>2 DEF Fault, LookupFails, InsertCutOff, CompleteFails, ReleaseFails, Crash
<1> QED BY <1>1, <1>2 DEF Next, Finished, AgeClaim, ExpireRow, vars

(* Steps that answer nobody, store nothing and finish no execution. *)
LEMMA ReplayInvQuiet ==
  ASSUME TypeOK, ReplayInv, [Next]_vars, answer' = answer,
         row'.state = "stored" => row.state = "stored",
         \A r \in Requests : pc'[r] = "save" => pc[r] = "save" \/ r \in committed'
  PROVE  ReplayInv'
BY StoredStays, CommittedGrows DEF ReplayInv

(* Steps that answer one request and store nothing. *)
LEMMA ReplayInvReply ==
  ASSUME TypeOK, ReplayInv, [Next]_vars, NEW r \in Requests, NEW a, Reply(r, a),
         row'.state = "stored" => row.state = "stored",
         \/ a \notin Requests
         \/ a = r /\ r \in committed'
         \/ row.state = "stored" /\ a = row.body
  PROVE  ReplayInv'
<1>1. pc \in [Requests -> Stages] /\ DOMAIN answer = Requests
  BY DEF TypeOK
<1>2. committed \subseteq committed' /\ (row.state = "stored" =>
          row'.state = "stored" /\ row'.body = row.body)
  BY StoredStays, CommittedGrows
<1>3. \A q \in Requests : pc'[q] = "save" => pc[q] = "save"
  BY <1>1 DEF Reply, Goto
<1>4. \A q \in Requests : answer'[q] = IF q = r THEN a ELSE answer[q]
  BY <1>1 DEF Reply
<1> QED BY <1>2, <1>3, <1>4 DEF ReplayInv

LEMMA ReplayInvKept ==
  ASSUME TypeOK, ReplayInv, [Next]_vars
  PROVE  ReplayInv'
<1>0. pc \in [Requests -> Stages] /\ row \in Rows
  BY DEF TypeOK
<1>1. ASSUME NEW r \in Requests, Step(r) PROVE ReplayInv'
  <2>1. CASE ReadCompleted(r)
    <3>1. CASE Replayable
      BY <2>1, <3>1, ReplayInvReply DEF ReadCompleted, Replayable
    <3>2. CASE ~Replayable
      BY <1>0, <2>1, <3>2, ReplayInvQuiet DEF ReadCompleted, Goto
    <3> QED BY <3>1, <3>2
  <2>2. CASE SweepStale(r)
    <3>1. row' = row \/ row' = Absent
      BY <2>2 DEF SweepStale
    <3>2. row'.state = "stored" => row.state = "stored"
      BY <3>1 DEF Absent
    <3>3. \A q \in Requests : pc'[q] = "save" => pc[q] = "save"
      BY <1>0, <2>2 DEF SweepStale, Goto
    <3> QED BY <2>2, <3>2, <3>3, ReplayInvQuiet DEF SweepStale
  <2>3. CASE Insert(r)
    <3>1. row' = row \/ row' = ClaimedBy(r)
      BY <2>3 DEF Insert
    <3>2. row'.state = "stored" => row.state = "stored"
      BY <3>1 DEF ClaimedBy, Absent
    <3>3. \A q \in Requests : pc'[q] = "save" => pc[q] = "save"
      BY <1>0, <2>3 DEF Insert, Goto
    <3> QED BY <2>3, <3>2, <3>3, ReplayInvQuiet DEF Insert
  <2>4. CASE WaitHit(r)
    BY <2>4, ReplayInvReply DEF WaitHit, Replayable
  <2>5. CASE WaitTimeout(r)
    BY <2>5, ReplayInvReply, RequestsAssumption DEF WaitTimeout
  <2>6. CASE RunCommits(r)
    BY <1>0, <2>6, ReplayInvQuiet DEF RunCommits, Goto
  <2>7. CASE RunFails(r)
    BY <1>0, <2>7, ReplayInvQuiet DEF RunFails, Goto
  <2>8. CASE Complete(r)
    <3>1. r \in committed /\ committed' = committed
      BY <2>8 DEF Complete, ReplayInv
    <3>2. CASE row.state = "claimed"
      <4>1. row'.state = "stored" /\ row'.body = r
        BY <1>0, <2>8, <3>2 DEF Complete, Rows
      <4>2. \A q \in Requests : answer[q] \notin Requests \ {q}
        BY <3>2 DEF ReplayInv
      <4>3. \A q \in Requests : answer'[q] = IF q = r THEN r ELSE answer[q]
        BY <2>8 DEF Complete, Reply, TypeOK
      <4>4. \A q \in Requests : pc'[q] = "save" => pc[q] = "save"
        BY <1>0, <2>8 DEF Complete, Reply, Goto
      <4> QED BY <3>1, <4>1, <4>2, <4>3, <4>4 DEF ReplayInv
    <3>3. CASE row.state # "claimed"
      BY <2>8, <3>1, <3>3, ReplayInvReply DEF Complete
    <3> QED BY <3>2, <3>3
  <2>9. CASE Release(r)
    <3>1. row'.state = "stored" => row.state = "stored"
      BY <2>9 DEF Release, Absent
    <3> QED BY <2>9, <3>1, ReplayInvReply, RequestsAssumption DEF Release
  <2>10. CASE BareCommits(r)
    <3>1. r \in committed'
      BY <2>10 DEF BareCommits
    <3> QED BY <2>10, <3>1, ReplayInvReply DEF BareCommits
  <2>11. CASE BareFails(r)
    BY <2>11, ReplayInvReply, RequestsAssumption DEF BareFails
  <2> QED BY <1>1, <2>1, <2>2, <2>3, <2>4, <2>5, <2>6, <2>7, <2>8, <2>9, <2>10, <2>11
          DEF Step
<1>2. ASSUME NEW r \in Requests, Fault(r) PROVE ReplayInv'
  <2>1. CASE LookupFails(r)
    BY <1>0, <2>1, ReplayInvQuiet DEF LookupFails, Goto
  <2>2. CASE InsertCutOff(r)
    <3>1. row'.state # "stored"
      BY <2>2 DEF InsertCutOff, ClaimedBy, Absent
    <3> QED BY <1>0, <2>2, <3>1, ReplayInvQuiet DEF InsertCutOff, Goto
  <2>3. CASE CompleteFails(r)
    <3>1. r \in committed'
      BY <2>3 DEF CompleteFails, ReplayInv
    <3> QED BY <2>3, <3>1, ReplayInvReply DEF CompleteFails
  <2>4. CASE ReleaseFails(r)
    BY <2>4, ReplayInvReply, RequestsAssumption DEF ReleaseFails
  <2>5. CASE Crash(r)
    BY <1>0, <2>5, ReplayInvQuiet DEF Crash, Goto
  <2> QED BY <1>2, <2>1, <2>2, <2>3, <2>4, <2>5 DEF Fault
<1>3. CASE AgeClaim
  <2>1. row'.state = row.state
    BY <1>0, <1>3 DEF AgeClaim, Rows
  <2> QED BY <1>3, <2>1, ReplayInvQuiet DEF AgeClaim
<1>4. CASE ExpireRow
  BY <1>4, ReplayInvQuiet DEF ExpireRow
<1>5. CASE UNCHANGED vars
  BY <1>5, ReplayInvQuiet DEF vars
<1> QED BY <1>1, <1>2, <1>3, <1>4, <1>5 DEF Next, Finished

(* Everybody who is answered with somebody else's result is answered with the
   same one, and it is the result of an execution that committed. *)
THEOREM ReplaysAlwaysAgree == Spec => []ReplaysAgree
<1>1. Init => ReplayInv
  BY RequestsAssumption DEF Init, ReplayInv, Absent
<1>2. TypeOK /\ ReplayInv /\ [Next]_vars => ReplayInv'
  BY ReplayInvKept
<1>3. ReplayInv => ReplaysAgree
  BY DEF ReplayInv, ReplaysAgree
<1> QED BY <1>1, <1>2, <1>3, TypeCorrect, PTL DEF Spec

---------------------------------------------------------------------------
(***************************************************************************)
(* The middleware implements MutationOnce, whatever faults happen.         *)
(***************************************************************************)

\* Only a finished request has been answered.
AnswerInv == \A r \in Requests : pc[r] # "done" => answer[r] = None

LEMMA AnswerInvKept ==
  ASSUME TypeOK, AnswerInv, [Next]_vars
  PROVE  AnswerInv'
<1> USE DEF Goto, Reply, AnswerInv
<1>0. pc \in [Requests -> Stages] /\ DOMAIN answer = Requests
  BY DEF TypeOK
<1>1. ASSUME NEW r \in Requests, Step(r) PROVE AnswerInv'
  <2>1. CASE ReadCompleted(r)   BY <1>0, <2>1 DEF ReadCompleted
  <2>2. CASE SweepStale(r)      BY <1>0, <2>2 DEF SweepStale
  <2>3. CASE Insert(r)          BY <1>0, <2>3 DEF Insert
  <2>4. CASE WaitHit(r)         BY <1>0, <2>4 DEF WaitHit
  <2>5. CASE WaitTimeout(r)     BY <1>0, <2>5 DEF WaitTimeout
  <2>6. CASE RunCommits(r)      BY <1>0, <2>6 DEF RunCommits
  <2>7. CASE RunFails(r)        BY <1>0, <2>7 DEF RunFails
  <2>8. CASE Complete(r)        BY <1>0, <2>8 DEF Complete
  <2>9. CASE Release(r)         BY <1>0, <2>9 DEF Release
  <2>10. CASE BareCommits(r)    BY <1>0, <2>10 DEF BareCommits
  <2>11. CASE BareFails(r)      BY <1>0, <2>11 DEF BareFails
  <2> QED BY <1>1, <2>1, <2>2, <2>3, <2>4, <2>5, <2>6, <2>7, <2>8, <2>9, <2>10, <2>11
          DEF Step
<1>2. ASSUME NEW r \in Requests, Fault(r) PROVE AnswerInv'
  <2>1. CASE LookupFails(r)     BY <1>0, <2>1 DEF LookupFails
  <2>2. CASE InsertCutOff(r)    BY <1>0, <2>2 DEF InsertCutOff
  <2>3. CASE CompleteFails(r)   BY <1>0, <2>3 DEF CompleteFails
  <2>4. CASE ReleaseFails(r)    BY <1>0, <2>4 DEF ReleaseFails
  <2>5. CASE Crash(r)           BY <1>0, <2>5 DEF Crash
  <2> QED BY <1>2, <2>1, <2>2, <2>3, <2>4, <2>5 DEF Fault
<1>3. CASE AgeClaim             BY <1>3 DEF AgeClaim
<1>4. CASE ExpireRow            BY <1>4 DEF ExpireRow
<1>5. CASE UNCHANGED vars       BY <1>5 DEF vars
<1> QED BY <1>1, <1>2, <1>3, <1>4, <1>5 DEF Next, Finished

\* The state of a step that acts for a request which is not done.
Ready(r) == answer[r] = None /\ \A e : row.state = "stored" /\ e = row.body => Promise!Agrees(r, e)

LEMMA ReadyRequest ==
  ASSUME TypeOK, AnswerInv, ReplayInv, NEW r \in Requests, pc[r] # "done"
  PROVE  Ready(r)
BY DEF AnswerInv, ReplayInv, Ready, Promise!Agrees

(* The mutation commits: one commit more than the bound allows would break the
   bound afterwards. *)
LEMMA CommitTakesEffect ==
  ASSUME TypeOK, RepeatsAreExcused', NEW r \in Requests, r \notin committed,
         committed' = committed \cup {r}, excused' = excused, answer[r] = None,
         answer' \in {answer, [answer EXCEPT ![r] = r]}
  PROVE  Promise!Next
<1>1. committed \in SUBSET Requests /\ excused \in SUBSET Requests
  BY DEF TypeOK
<1>2. /\ Cardinality(committed') = Cardinality(committed) + 1
      /\ Cardinality(committed) \in Nat /\ Cardinality(excused) \in Nat
  BY <1>1, Counting
<1>3. Cardinality(committed) <= Cardinality(excused)
  BY <1>2 DEF RepeatsAreExcused
<1>4. \A S : Promise!Cardinality(S) = Cardinality(S)
  BY DEF Cardinality, Promise!Cardinality
<1>5. Promise!TakeEffect(r)
  BY <1>3, <1>4 DEF Promise!TakeEffect
<1> QED BY <1>5 DEF Promise!Next

\* Somebody is told a result: his own, or the stored one.
LEMMA AnswerTells ==
  ASSUME NEW r \in Requests, NEW a \in committed, Reply(r, a), Ready(r),
         a = r \/ (row.state = "stored" /\ a = row.body),
         committed' = committed, excused' \in {excused, excused \cup {r}}
  PROVE  Promise!Next
<1>1. Promise!Agrees(r, a)
  BY DEF Ready, Promise!Agrees
<1>2. Promise!Tell(r)
  BY <1>1 DEF Ready, Reply, Promise!Tell
<1> QED BY <1>2 DEF Promise!Next

LEMMA AnswerRefuses ==
  ASSUME NEW r \in Requests, NEW a \in {"busy", "failed"}, Reply(r, a), Ready(r),
         r \notin committed, UNCHANGED <<committed, excused>>
  PROVE  Promise!Next
<1>1. Promise!Refuse(r)
  BY DEF Ready, Reply, Promise!Refuse
<1> QED BY <1>1 DEF Promise!Next

\* A fault strikes a request that is not answered by it.
LEMMA FaultStrikes ==
  ASSUME NEW r \in Requests, excused' = excused \cup {r},
         UNCHANGED <<committed, answer>>
  PROVE  Promise!Next
BY DEF Promise!Next, Promise!Strike

(* One step of the middleware is a step of the promise, or none. *)
LEMMA StepKeepsPromise ==
  ASSUME TypeOK, StageInv, AnswerInv, ReplayInv, RepeatsAreExcused', [Next]_vars
  PROVE  [Promise!Next]_<<committed, excused, answer>>
<1>1. ASSUME NEW r \in Requests, Step(r)
      PROVE  [Promise!Next]_<<committed, excused, answer>>
  <2>1. CASE ReadCompleted(r)
    <3>1. CASE Replayable
      BY <2>1, <3>1, ReadyRequest, AnswerTells DEF ReadCompleted, Replayable, ReplayInv
    <3>2. CASE ~Replayable
      BY <2>1, <3>2 DEF ReadCompleted
    <3> QED BY <3>1, <3>2
  <2>2. CASE SweepStale(r)
    <3>1. CASE row.state = "claimed" /\ row.aged /\ Holding(row.owner)
      <4>1. row.owner \in Requests
        BY <3>1, RowFacts DEF TypeOK
      <4> QED BY <2>2, <3>1, <4>1, FaultStrikes DEF SweepStale
    <3>2. CASE ~(row.state = "claimed" /\ row.aged /\ Holding(row.owner))
      BY <2>2, <3>2 DEF SweepStale
    <3> QED BY <3>1, <3>2
  <2>3. CASE Insert(r)         BY <2>3 DEF Insert
  <2>4. CASE WaitHit(r)
    BY <2>4, ReadyRequest, AnswerTells DEF WaitHit, Replayable, ReplayInv
  <2>5. CASE WaitTimeout(r)
    BY <2>5, ReadyRequest, AnswerRefuses DEF WaitTimeout, StageInv
  <2>6. CASE RunCommits(r)
    BY <2>6, CommitTakesEffect DEF RunCommits, StageInv, AnswerInv
  <2>7. CASE RunFails(r)       BY <2>7 DEF RunFails
  <2>8. CASE Complete(r)
    BY <2>8, ReadyRequest, AnswerTells DEF Complete, StageInv
  <2>9. CASE Release(r)
    BY <2>9, ReadyRequest, AnswerRefuses DEF Release, StageInv
  <2>10. CASE BareCommits(r)
    BY <2>10, CommitTakesEffect DEF BareCommits, StageInv, AnswerInv, Reply
  <2>11. CASE BareFails(r)
    BY <2>11, ReadyRequest, AnswerRefuses DEF BareFails, StageInv
  <2> QED BY <1>1, <2>1, <2>2, <2>3, <2>4, <2>5, <2>6, <2>7, <2>8, <2>9, <2>10, <2>11
          DEF Step
<1>2. ASSUME NEW r \in Requests, Fault(r)
      PROVE  [Promise!Next]_<<committed, excused, answer>>
  <2>1. CASE LookupFails(r)    BY <2>1, FaultStrikes DEF LookupFails
  <2>2. CASE InsertCutOff(r)   BY <2>2, FaultStrikes DEF InsertCutOff
  <2>3. CASE CompleteFails(r)
    BY <2>3, ReadyRequest, AnswerTells DEF CompleteFails, StageInv
  <2>4. CASE ReleaseFails(r)
    BY <2>4, ReadyRequest, AnswerRefuses DEF ReleaseFails, StageInv
  <2>5. CASE Crash(r)          BY <2>5, FaultStrikes DEF Crash
  <2> QED BY <1>2, <2>1, <2>2, <2>3, <2>4, <2>5 DEF Fault
<1>3. CASE AgeClaim            BY <1>3 DEF AgeClaim
<1>4. CASE ExpireRow           BY <1>4 DEF ExpireRow
<1>5. CASE UNCHANGED vars      BY <1>5 DEF vars
<1> QED BY <1>1, <1>2, <1>3, <1>4, <1>5 DEF Next, Finished

(* Every behaviour of the middleware, whatever faults are switched on, is a
   behaviour of MutationOnce: each fault costs the promise one repetition and
   nothing more.  With nobody struck it is "The business logic runs once". *)
THEOREM MiddlewareKeepsPromise == Spec => KeepsPromise
<1>1. Init => StageInv /\ AnswerInv /\ ReplayInv /\ Promise!Init
  <2> SUFFICES ASSUME Init PROVE StageInv /\ AnswerInv /\ ReplayInv /\ Promise!Init
    OBVIOUS
  <2>1. StageInv /\ ReplayInv /\ AnswerInv
    BY RequestsAssumption DEF Init, StageInv, ReplayInv, AnswerInv, Absent
  <2>2. Promise!Init
    BY DEF Init, Promise!Init
  <2> QED BY <2>1, <2>2
<1>2. TypeOK /\ StageInv /\ AnswerInv /\ ReplayInv /\ [Next]_vars
        => StageInv' /\ AnswerInv' /\ ReplayInv'
  BY StagesKept, AnswerInvKept, ReplayInvKept
<1>3. /\ TypeOK /\ StageInv /\ AnswerInv /\ ReplayInv /\ RepeatsAreExcused' /\ [Next]_vars
      => [Promise!Next]_<<committed, excused, answer>>
  BY StepKeepsPromise
<1> QED
  BY <1>1, <1>2, <1>3, TypeCorrect, EveryRepeatIsExcused, PTL
     DEF Spec, KeepsPromise, Promise!Spec

===========================================================================
