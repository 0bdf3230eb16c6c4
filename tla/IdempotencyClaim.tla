------------------------- MODULE IdempotencyClaim -------------------------
(***************************************************************************)
(* The claim protocol behind the X-Idempotency-Key header                  *)
(* (SamplePOS.Server/src/middleware/idempotency.ts and                     *)
(* idempotencyClaim.ts, table idempotency_keys of migration 071).          *)
(*                                                                         *)
(* Keys do not interact, so one key is modelled: `row' is its row of the   *)
(* table and Requests are the HTTP requests that carry it, a retry being   *)
(* another request.  Every SQL statement is one action, since the          *)
(* middleware awaits between them.  Time is abstract: a claim becomes      *)
(* older than 30 seconds (row.aged) and a record older than 24 hours       *)
(* (row.expired) by actions of their own, and a waiting request may reach  *)
(* its 8 second deadline at any moment.                                    *)
(***************************************************************************)
EXTENDS Integers, FiniteSets

CONSTANTS Requests,  \* the requests that carry the key
          None,      \* no request, no answer
          Faults     \* what may go wrong, a subset of FaultKinds

FaultKinds == {"slow",        \* an execution may outlive its 30 second claim
               "crash",       \* the server process may stop
               "storeError",  \* a query on idempotency_keys may fail
               "expiry"}      \* a stored response may pass its 24 hours

ASSUME RequestsAssumption == /\ IsFiniteSet(Requests)
                             /\ None \notin Requests
                             /\ {"busy", "failed"} \cap (Requests \cup {None}) = {}
ASSUME FaultsAssumption == Faults \subseteq FaultKinds

VARIABLES row,        \* the row of the key, see Rows
          pc,         \* where each request is in the middleware
          answer,     \* what each request was answered
          committed,  \* the requests whose execution of the mutation committed
          excused     \* history: the requests a fault has struck, see Bound

vars == <<row, pc, answer, committed, excused>>

(***************************************************************************)
(* "claimed" is a row with status_code NULL, "stored" one that holds the   *)
(* response of the execution `body'.  `owner' is the request whose INSERT  *)
(* made the row; the code does not record it.                              *)
(***************************************************************************)
Rows == {x \in [state   : {"absent", "claimed", "stored"},
               owner   : Requests \cup {None},
               body    : Requests \cup {None},
               aged    : BOOLEAN,
               expired : BOOLEAN] :
           /\ x.state = "absent" <=> x.owner = None
           /\ x.state = "stored" <=> x.body # None}

Absent == [state |-> "absent", owner |-> None, body |-> None,
           aged |-> FALSE, expired |-> FALSE]

ClaimedBy(r) == [Absent EXCEPT !.state = "claimed", !.owner = r]

Stages == {"read", "sweep", "insert", "wait",  \* before the route runs
           "run", "save", "free",              \* the owner of a claim
           "bare",                             \* running without deduplication
           "done", "crashed"}

Init ==
  /\ row = Absent
  /\ pc = [r \in Requests |-> "read"]
  /\ answer = [r \in Requests |-> None]
  /\ committed = {}
  /\ excused = {}

Goto(r, stage) == pc' = [pc EXCEPT ![r] = stage]

Reply(r, a) == /\ Goto(r, "done")
               /\ answer' = [answer EXCEPT ![r] = a]

\* The owner has not finished with its claim.
Holding(r) == pc[r] \in {"run", "save", "free"}

\* readCompleted finds a response.
Replayable == row.state = "stored" /\ ~row.expired

---------------------------------------------------------------------------
(* Mutants: plausible mistakes in the statements below, each of which one of
   the properties must expose. *)

\* A sweep that forgets the age of the claim.
SweepAnyClaim(r) ==
  /\ pc[r] = "sweep"
  /\ Goto(r, "insert")
  /\ row' = IF row.state = "claimed" THEN Absent ELSE row
  /\ UNCHANGED <<answer, committed, excused>>

\* An insert that takes the key over on conflict.
InsertTakesOver(r) ==
  /\ pc[r] = "insert"
  /\ row' = ClaimedBy(r)
  /\ Goto(r, "run")
  /\ UNCHANGED <<answer, committed, excused>>

\* A waiter without a deadline.
WaitForOwner(r) ==
  /\ pc[r] = "wait"
  /\ row.state # "claimed" /\ ~Replayable
  /\ Reply(r, "busy")
  /\ UNCHANGED <<row, committed, excused>>

\* A hook that stores the response whatever its status.
RunFailsAndStores(r) ==
  /\ pc[r] = "run"
  /\ Goto(r, "save")
  /\ UNCHANGED <<row, answer, committed, excused>>

\* A complete that sets the status and forgets the body.
CompleteWithoutBody(r) ==
  /\ pc[r] = "save"
  /\ row' = IF row.state = "claimed" THEN [row EXCEPT !.state = "stored"] ELSE row
  /\ Reply(r, r)
  /\ UNCHANGED <<committed, excused>>

\* A release without the guard status_code IS NULL.
ReleaseAnyRow(r) ==
  /\ pc[r] = "free"
  /\ row' = Absent
  /\ Reply(r, "failed")
  /\ UNCHANGED <<committed, excused>>

---------------------------------------------------------------------------
(* The steps of one request. *)

\* readCompleted before the claim: replay, or go on to claim.
ReadCompleted(r) ==
  /\ pc[r] = "read"
  /\ IF Replayable THEN Reply(r, row.body)
                   ELSE Goto(r, "sweep") /\ UNCHANGED answer
  /\ UNCHANGED <<row, committed, excused>>

\* First statement of claim: delete a claim older than 30 seconds.  An owner
\* that is still at work is struck: it no longer holds what it thinks it holds.
SweepStale(r) ==
  /\ pc[r] = "sweep"
  /\ Goto(r, "insert")
  /\ IF row.state = "claimed" /\ row.aged
       THEN /\ row' = Absent
            /\ excused' = IF Holding(row.owner) THEN excused \cup {row.owner}
                                                ELSE excused
       ELSE UNCHANGED <<row, excused>>
  /\ UNCHANGED <<answer, committed>>

\* Second statement of claim: INSERT ... ON CONFLICT DO NOTHING.
Insert(r) ==
  /\ pc[r] = "insert"
  /\ IF row.state = "absent" THEN row' = ClaimedBy(r) /\ Goto(r, "run")
                             ELSE Goto(r, "wait") /\ UNCHANGED row
  /\ UNCHANGED <<answer, committed, excused>>

\* waitForCompleted polls and finds the response of the owner.
WaitHit(r) ==
  /\ pc[r] = "wait"
  /\ Replayable
  /\ Reply(r, row.body)
  /\ UNCHANGED <<row, committed, excused>>

\* waitForCompleted passes its deadline and its last read finds nothing: 409.
WaitTimeout(r) ==
  /\ pc[r] = "wait"
  /\ ~Replayable
  /\ Reply(r, "busy")
  /\ UNCHANGED <<row, committed, excused>>

\* The route commits its transaction and answers 2xx through res.json.
RunCommits(r) ==
  /\ pc[r] = "run"
  /\ committed' = committed \cup {r}
  /\ Goto(r, "save")
  /\ UNCHANGED <<row, answer, excused>>

\* The route rolls back and answers another status through res.json.
RunFails(r) ==
  /\ pc[r] = "run"
  /\ Goto(r, "free")
  /\ UNCHANGED <<row, answer, committed, excused>>

\* complete: UPDATE ... WHERE key AND status_code IS NULL, whoever claimed it.
Complete(r) ==
  /\ pc[r] = "save"
  /\ row' = IF row.state = "claimed"
              THEN [row EXCEPT !.state = "stored", !.body = r]
              ELSE row
  /\ Reply(r, r)
  /\ UNCHANGED <<committed, excused>>

\* release: DELETE ... WHERE key AND status_code IS NULL, whoever claimed it.
Release(r) ==
  /\ pc[r] = "free"
  /\ row' = IF row.state = "claimed" THEN Absent ELSE row
  /\ Reply(r, "failed")
  /\ UNCHANGED <<committed, excused>>

\* A request that proceeds without deduplication: nothing is stored for it.
BareCommits(r) ==
  /\ pc[r] = "bare"
  /\ committed' = committed \cup {r}
  /\ Reply(r, r)
  /\ UNCHANGED <<row, excused>>

BareFails(r) ==
  /\ pc[r] = "bare"
  /\ Reply(r, "failed")
  /\ UNCHANGED <<row, committed, excused>>

---------------------------------------------------------------------------
(* Faults. *)

\* A query fails before the route runs: the catch calls next() all the same.
LookupFails(r) ==
  /\ "storeError" \in Faults
  /\ pc[r] \in {"read", "sweep", "insert", "wait"}
  /\ Goto(r, "bare")
  /\ excused' = excused \cup {r}
  /\ UNCHANGED <<row, answer, committed>>

\* The connection breaks after the INSERT took effect: the claim stays behind.
InsertCutOff(r) ==
  /\ "storeError" \in Faults
  /\ pc[r] = "insert"
  /\ row.state = "absent"
  /\ row' = ClaimedBy(r)
  /\ Goto(r, "bare")
  /\ excused' = excused \cup {r}
  /\ UNCHANGED <<answer, committed>>

\* complete fails: logged as non-fatal, and the answer is sent.
CompleteFails(r) ==
  /\ "storeError" \in Faults
  /\ pc[r] = "save"
  /\ Reply(r, r)
  /\ excused' = excused \cup {r}
  /\ UNCHANGED <<row, committed>>

\* release fails: likewise.
ReleaseFails(r) ==
  /\ "storeError" \in Faults
  /\ pc[r] = "free"
  /\ Reply(r, "failed")
  /\ UNCHANGED <<row, committed, excused>>

\* The process stops.  One that stops between the commit of the mutation and
\* the complete is struck: nobody will store its response.
Crash(r) ==
  /\ "crash" \in Faults
  /\ pc[r] # "done" /\ pc[r] # "crashed"
  /\ Goto(r, "crashed")
  /\ excused' = IF r \in committed THEN excused \cup {r} ELSE excused
  /\ UNCHANGED <<row, answer, committed>>

\* Thirty seconds pass after a claim.
AgeClaim ==
  /\ row.state = "claimed" /\ ~row.aged
  /\ Holding(row.owner) => "slow" \in Faults
  /\ row' = [row EXCEPT !.aged = TRUE]
  /\ UNCHANGED <<pc, answer, committed, excused>>

\* expires_at passes.  No code deletes the row for that.
ExpireRow ==
  /\ "expiry" \in Faults
  /\ row.state = "stored" /\ ~row.expired
  /\ row' = [row EXCEPT !.expired = TRUE]
  /\ UNCHANGED <<pc, answer, committed, excused>>

---------------------------------------------------------------------------

Step(r) ==
  \/ ReadCompleted(r) \/ SweepStale(r) \/ Insert(r)
  \/ WaitHit(r) \/ WaitTimeout(r)
  \/ RunCommits(r) \/ RunFails(r) \/ Complete(r) \/ Release(r)
  \/ BareCommits(r) \/ BareFails(r)

Fault(r) ==
  \/ LookupFails(r) \/ InsertCutOff(r) \/ CompleteFails(r) \/ ReleaseFails(r)
  \/ Crash(r)

Finished == /\ \A r \in Requests : pc[r] \in {"done", "crashed"}
            /\ UNCHANGED vars

Next ==
  \/ \E r \in Requests : Step(r) \/ Fault(r)
  \/ AgeClaim
  \/ ExpireRow
  \/ Finished

Spec == Init /\ [][Next]_vars

(* The event loop runs every request that can go on; nothing forces a fault
   or the passing of the long delays. *)
FairSpec == Spec /\ \A r \in Requests : WF_vars(Step(r))

---------------------------------------------------------------------------
(* Properties. *)

TypeOK ==
  /\ row \in Rows
  /\ pc \in [Requests -> Stages]
  /\ answer \in [Requests -> Requests \cup {None, "busy", "failed"}]
  /\ committed \subseteq Requests
  /\ excused \subseteq Requests

(* The mutation commits at most once plus once for each request a fault has
   struck: a claim taken over while its owner works, a crash or a failed
   complete after the commit, a failed lookup.  Nothing else repeats it, not
   even releases that delete the claim of somebody else. *)
RepeatsAreExcused == Cardinality(committed) <= 1 + Cardinality(excused)

(* Whoever is answered by a replay is answered with the response of an
   execution that committed, and all replays of the key agree. *)
ReplaysAgree ==
  \A r, s \in Requests :
    /\ answer[r] \in Requests => answer[r] \in committed
    /\ (/\ answer[r] \in Requests \ {r}
        /\ answer[s] \in Requests \ {s}) => answer[r] = answer[s]

(* A response once stored is never replaced and never dropped: `complete' and
   `release' of a request that lost its claim leave it alone. *)
StoredForGood ==
  [][row.state = "stored" => row'.state = "stored" /\ row'.body = row.body]_vars

(* Every request that does not crash is answered: a waiter does not wait for
   an owner that died. *)
EveryRequestAnswered == \A r \in Requests : <>(pc[r] \in {"done", "crashed"})

(* The promise of the middleware's header ("The business logic runs once"),
   with what each fault takes from it: an execution commits only when there
   are no more commits than struck requests, whoever is replayed somebody
   else's result is replayed the same one, and who committed is not refused.
   A takeover, a crash and a failing query cost one repetition each; a stored
   response that expires, a crash before the commit and a failing release
   cost none. *)
Promise == INSTANCE MutationOnce WITH effects <- committed, struck <- excused

KeepsPromise == Promise!Spec

===========================================================================
