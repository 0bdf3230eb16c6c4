----------------------------- MODULE OfflineSync -----------------------------
(***************************************************************************)
(* How a sale made offline reaches the server: the event journal of the    *)
(* till (samplepos.client/src/lib/offlineEventJournal.ts), the three       *)
(* senders that post its events, and the replayer that turns a             *)
(* SALE_COMPLETED event into a sale                                        *)
(* (SamplePOS.Server/src/modules/pos/posEventReplayer.ts).                 *)
(*                                                                         *)
(* The senders are the sync engine of the tab                              *)
(* (services/offlineSyncEngine.ts, and the same loop under the same lock   *)
(* in hooks/useOfflineMode.ts), the service worker (public/sw.js), and the *)
(* queue of failed requests (lib/offlineRequestQueue.ts), into which       *)
(* utils/api.ts puts a sync request of the engine that failed offline.     *)
(*                                                                         *)
(* One till with one tab.  An event is the number of its sale, in the      *)
(* order of the journal.  A post is one HTTP request with its own          *)
(* X-Idempotency-Key: only the request queue sends a post twice.  Other    *)
(* requests in that queue, and the 24 hours after which it discards a      *)
(* request, are left out.  The replayer is split where it awaits; the sale *)
(* itself is one database transaction.                                     *)
(***************************************************************************)
EXTENDS Naturals, Sequences

CONSTANTS Sales,       \* the sales the till may make, in order
          Posts,       \* the requests that may be open at once
          Faults,      \* what may go wrong, a subset of FaultKinds
          MaxFaults,   \* bound: how often something goes wrong
          MaxRuns      \* bound: how often the browser wakes the service worker

FaultKinds == {"offline",  \* the connection drops and the browser notices
               "loss",     \* a request or its answer is lost while online
               "crash",    \* the server stops
               "reload",   \* the tab is reloaded or closed and opened
               "refuse",   \* a request is refused before the sale is looked up
               "sale",     \* createSale fails
               "floor"}    \* the table cannot be released after the sale

ASSUME SalesAssumption == Sales \subseteq Nat \ {0}
ASSUME PostsAssumption == Posts \subseteq Nat \ {0}
ASSUME BoundsAssumption == /\ Faults \subseteq FaultKinds
                           /\ MaxFaults \in Nat
                           /\ MaxRuns \in Nat

VARIABLES status,   \* pos_sync_state: the status of each event
          shown,    \* the sales the panel offers to cancel, as last rendered
          online,   \* navigator.onLine
          paused,   \* pos_sync_paused_for_auth
          engine,   \* the sync loop of the tab
          worker,   \* the sync handler of the service worker
          mail,     \* BACKGROUND_SYNC_COMPLETE messages not yet handled
          queue,    \* smarterp_offline_queue: posts to send again
          flush,    \* the loop over that queue
          call,     \* each post and how far the server is with it
          sold,     \* how many rows of table sales carry the key of the event
          floor,    \* the table of each sale
          faults,   \* faults so far
          runs      \* runs of the service worker so far

tab == <<status, shown, engine, paused, queue, flush>>
server == <<sold, floor>>
vars == <<tab, server, online, worker, mail, call, faults, runs>>

NoSale == 0
NoPost == 0

Statuses == {"none", "PENDING", "SYNCED", "REVIEW", "FAILED", "CANCELLED"}

\* What the server answers: "synced" is 200 with success, "review" 200 with
\* requiresReview, "duplicate" 409, "failed" 500, "invalid" 400 and "auth" 401
\* or 403.
Answers == {"synced", "review", "duplicate", "failed", "invalid", "auth"}
Good == {"synced", "review"}  \* 2xx: idempotency_keys keeps the answer, axios returns it

Calls == [event  : Sales \cup {NoSale},
          stage  : {"idle", "sent", "selling", "releasing", "answered"},
          answer : Answers \cup {"none"},
          stored : Good \cup {"none"}]  \* what idempotency_keys has for its key

NoCall == [event |-> NoSale, stage |-> "idle", answer |-> "none", stored |-> "none"]

Loops == [todo : SUBSET Sales, at : Posts \cup {NoPost}]
Messages == [synced : SUBSET Sales, review : SUBSET Sales]
Workers == [active   : BOOLEAN,
            todo     : SUBSET Sales,
            at       : Posts \cup {NoPost},
            result   : Messages,
            attached : BOOLEAN]  \* the tab it read the journal from is still there

NoLoop == [todo |-> {}, at |-> NoPost]
NoResult == [synced |-> {}, review |-> {}]
Asleep == [active |-> FALSE, todo |-> {}, at |-> NoPost, result |-> NoResult,
           attached |-> FALSE]

Init == /\ status = [n \in Sales |-> "none"]
        /\ shown = {}
        /\ online = TRUE
        /\ paused = FALSE
        /\ engine = NoLoop
        /\ worker = Asleep
        /\ mail = {}
        /\ queue = <<>>
        /\ flush = [left |-> 0, at |-> NoPost]
        /\ call = [k \in Posts |-> NoCall]
        /\ sold = [n \in Sales |-> 0]
        /\ floor = [n \in Sales |-> "none"]
        /\ faults = 0
        /\ runs = 0

-----------------------------------------------------------------------------
(* Helpers *)

\* Mutants of Unsynced: failed events are not tried again; cancelled ones are posted.
PendingOnly == {n \in Sales : status[n] = "PENDING"}
AllUnsettled == {n \in Sales : status[n] \notin {"none", "SYNCED", "REVIEW"}}

\* getUnsyncedEvents: the events to post.
Unsynced == {n \in Sales : status[n] \in {"PENDING", "FAILED"}}

\* refreshSnapshot: the panel lists the sales that are neither synced nor cancelled.
Refresh == shown' = {n \in Sales : status'[n] \in {"PENDING", "FAILED", "REVIEW"}}

IsFirst(n, S) == n \in S /\ \A m \in S : n <= m

Queued(k) == \E i \in 1..Len(queue) : queue[i] = k

\* No sender waits for the post and it will not be sent again.
Unused(k) == /\ call[k].stage \in {"idle", "answered"}
             /\ k \notin {engine.at, worker.at, flush.at}
             /\ ~Queued(k)

\* A request leaves: when the browser is offline it fails at once.
Departs == IF online THEN "sent" ELSE "idle"

\* apiClient.post or fetch: a new request for event n.
Send(k, n) == /\ IsFirst(k, {j \in Posts : Unused(j)})
              /\ call' = [call EXCEPT ![k] = [NoCall EXCEPT !.event = n,
                                                            !.stage = Departs]]

Fault(kind) == /\ kind \in Faults
               /\ faults < MaxFaults
               /\ faults' = faults + 1

\* The sender of post k hears nothing and gives up.  The request is lost, or
\* the server is yet to serve it, or the answer is lost.
Unheard(k) == /\ \/ ~online /\ UNCHANGED faults
                 \/ call[k].stage = "idle" /\ UNCHANGED faults
                 \/ call[k].stage # "idle" /\ Fault("loss")
              /\ \/ /\ call[k].stage # "answered"
                    /\ UNCHANGED call
                 \/ /\ call[k].stage \in {"sent", "answered"}
                    /\ call' = [call EXCEPT ![k].stage = "idle", ![k].answer = "none"]

-----------------------------------------------------------------------------
(* The till *)

\* saveSaleOffline, or the pay button of a restaurant check: only the latter
\* has a table.
Save == \E n \in Sales, table \in {"none", "taken"} :
           /\ IsFirst(n, {m \in Sales : status[m] = "none"})
           /\ status' = [status EXCEPT ![n] = "PENDING"]
           /\ floor' = [floor EXCEPT ![n] = table]
           /\ Refresh
           /\ UNCHANGED <<sold, online, paused, engine, worker, mail, queue, flush,
                          call, faults, runs>>

\* cancelOfflineSale, on what the panel shows.  The stock it gives back belongs
\* to the cached catalogue.
Cancel(n) == /\ n \in shown
             /\ status' = [status EXCEPT ![n] = "CANCELLED"]
             /\ Refresh
             /\ UNCHANGED <<server, online, paused, engine, worker, mail, queue, flush,
                            call, faults, runs>>

\* resetToPending: retryFailedSale for one sale, retryAllFailed for all.
Retry(S) == LET Reset == {n \in S : status[n] \in {"FAILED", "REVIEW"}}
            IN  /\ Reset # {}
                /\ status' = [n \in Sales |-> IF n \in Reset THEN "PENDING" ELSE status[n]]
                /\ Refresh
                /\ UNCHANGED <<server, online, paused, engine, worker, mail, queue, flush,
                               call, faults, runs>>

GoOffline == /\ online
             /\ Fault("offline")
             /\ online' = FALSE
             /\ UNCHANGED <<tab, server, worker, mail, call, runs>>

GoOnline == /\ ~online
            /\ online' = TRUE
            /\ UNCHANGED <<tab, server, worker, mail, call, faults, runs>>

\* storeTokens calls resumeSyncAfterAuth.
Login == /\ paused
         /\ paused' = FALSE
         /\ UNCHANGED <<status, shown, engine, queue, flush, server, online, worker, mail,
                        call, faults, runs>>

\* localStorage and sessionStorage survive; the loops, the lock and the messages
\* to the old page do not.
Reload == /\ Fault("reload")
          /\ engine' = NoLoop
          /\ flush' = [left |-> 0, at |-> NoPost]
          /\ mail' = {}
          /\ worker' = [worker EXCEPT !.attached = FALSE]
          /\ UNCHANGED <<status, paused, queue, server, online, call, runs>>
          /\ Refresh

-----------------------------------------------------------------------------
(* The sync engine: syncOfflineSales, syncPendingSales *)

\* The lock is held from here until the batch is done or broken off.  The
\* customers are synced first; the events are read after that.
EngineStart == /\ ~paused
               /\ online
               /\ engine = NoLoop
               /\ Unsynced # {}
               /\ engine' = [engine EXCEPT !.todo = Unsynced]
               /\ UNCHANGED <<status, shown, paused, queue, flush, server, online, worker,
                              mail, call, faults, runs>>

EnginePost == \E k \in Posts, n \in engine.todo :
                 /\ engine.at = NoPost
                 /\ IsFirst(n, engine.todo)
                 /\ Send(k, n)
                 /\ engine' = [todo |-> engine.todo \ {n}, at |-> k]
                 /\ UNCHANGED <<status, shown, paused, queue, flush, server, online, worker,
                                mail, faults, runs>>

\* offline-queue-updated is dispatched when the loop ends.
EngineEnds == IF engine'.todo = {} THEN Refresh ELSE UNCHANGED shown

Break == /\ engine' = NoLoop
         /\ EngineEnds

Continue == /\ engine' = [engine EXCEPT !.at = NoPost]
            /\ EngineEnds

\* The status an answer gives the event; see decideSyncPost.
Mark(a) == CASE a \in {"synced", "duplicate"} -> "SYNCED"
             [] a \in {"review", "invalid"} -> "REVIEW"
             [] a = "failed" -> "FAILED"

\* An answer that axios throws counts as none when the browser is offline.  A
\* 401 is rejected with the error of the token refresh: a refresh that got no
\* answer breaks the loop off like a lost connection, without the pause.
EngineReply ==
    /\ engine.at # NoPost
    /\ call[engine.at].stage = "answered"
    /\ LET n == call[engine.at].event
           a == call[engine.at].answer
       IN \/ /\ a \notin Good
             /\ ~online
             /\ UNCHANGED <<status, paused>>
             /\ Break
          \/ /\ a = "auth"
             /\ online
             /\ paused' \in {paused, TRUE}
             /\ UNCHANGED status
             /\ Break
          \/ /\ a # "auth"
             /\ a \in Good \/ online
             /\ status' = [status EXCEPT ![n] = Mark(a)]
             /\ Continue
             /\ UNCHANGED paused
    /\ call' = [call EXCEPT ![engine.at] = NoCall]
    /\ UNCHANGED <<queue, flush, server, online, worker, mail, faults, runs>>

\* What the engine makes of a request without an answer while the browser thinks
\* it is online: the interceptor rejects with a HandledApiError without a status,
\* which is put to review; a proxy that answers for the server (502, 503, 504)
\* leaves it to be tried again.
Unanswered == {"REVIEW", "FAILED"}

\* A request that fails offline is queued by the response interceptor of
\* utils/api.ts, its event stays as it is and the loop is broken off.  Online
\* the event is marked and the loop goes on.
EngineNoAnswer ==
    /\ engine.at # NoPost
    /\ Unheard(engine.at)
    /\ \/ /\ ~online
          /\ queue' = IF Queued(engine.at) THEN queue ELSE Append(queue, engine.at)
          /\ UNCHANGED status
          /\ Break
       \/ /\ online
          /\ \E s \in Unanswered : status' = [status EXCEPT ![call[engine.at].event] = s]
          /\ UNCHANGED queue
          /\ Continue
    /\ UNCHANGED <<paused, flush, server, online, worker, mail, runs>>

-----------------------------------------------------------------------------
(* The service worker: syncPendingOfflineSales *)

\* The worker copies the journal of an open tab.
WorkerStart == /\ runs < MaxRuns
               /\ online
               /\ ~worker.active
               /\ Unsynced # {}
               /\ worker' = [Asleep EXCEPT !.active = TRUE, !.todo = Unsynced,
                                           !.attached = TRUE]
               /\ runs' = runs + 1
               /\ UNCHANGED <<tab, server, online, mail, call, faults>>

WorkerPost == \E k \in Posts, n \in worker.todo :
                 /\ worker.at = NoPost
                 /\ IsFirst(n, worker.todo)
                 /\ Send(k, n)
                 /\ worker' = [worker EXCEPT !.todo = @ \ {n}, !.at = k]
                 /\ UNCHANGED <<tab, server, online, mail, faults, runs>>

\* Answers other than 200, 409 and 422 are ignored.
WorkerReply ==
    /\ worker.at # NoPost
    /\ call[worker.at].stage = "answered"
    /\ LET n == call[worker.at].event
           a == call[worker.at].answer
       IN  worker' = [worker EXCEPT
              !.at = NoPost,
              !.result.synced = @ \cup {m \in {n} : a \in {"synced", "duplicate"}},
              !.result.review = @ \cup {m \in {n} : a = "review"}]
    /\ call' = [call EXCEPT ![worker.at] = NoCall]
    /\ UNCHANGED <<tab, server, online, mail, faults, runs>>

\* The handler returns without telling the tab what it has synced so far; when a
\* proxy answers for the server it goes on to the next event.
WorkerNoAnswer == /\ worker.at # NoPost
                  /\ Unheard(worker.at)
                  /\ \/ worker' = Asleep
                     \/ online /\ worker' = [worker EXCEPT !.at = NoPost]
                  /\ UNCHANGED <<tab, server, online, mail, runs>>

WorkerDone == /\ worker.active
              /\ worker.todo = {}
              /\ worker.at = NoPost
              /\ mail' = IF worker.attached THEN mail \cup {worker.result} ELSE mail
              /\ worker' = Asleep
              /\ UNCHANGED <<tab, server, online, call, faults, runs>>

\* main.tsx: the marks overwrite whatever status the events have by now.
Deliver(msg) == /\ msg \in mail
                /\ mail' = mail \ {msg}
                /\ status' = [n \in Sales |-> IF n \in msg.review THEN "REVIEW"
                                              ELSE IF n \in msg.synced THEN "SYNCED"
                                              ELSE status[n]]
                /\ IF msg = NoResult THEN UNCHANGED shown ELSE Refresh
                /\ UNCHANGED <<engine, paused, queue, flush, server, online, worker, call,
                               faults, runs>>

-----------------------------------------------------------------------------
(* The request queue: flushOfflineQueue *)

FlushStart == /\ online
              /\ flush.left = 0
              /\ queue # <<>>
              /\ flush' = [flush EXCEPT !.left = Len(queue)]
              /\ UNCHANGED <<status, shown, engine, paused, queue, server, online, worker,
                             mail, call, faults, runs>>

\* The post goes out again under its old key.  When the server still serves it,
\* the claim on the key makes this request wait for the same answer.
FlushPost ==
    /\ flush.left > 0
    /\ flush.at = NoPost
    /\ flush' = [flush EXCEPT !.at = Head(queue)]
    /\ call' = [call EXCEPT ![Head(queue)].stage =
                   IF @ \in {"idle", "answered"} THEN Departs ELSE @]
    /\ UNCHANGED <<status, shown, engine, paused, queue, server, online, worker, mail,
                   faults, runs>>

\* 2xx removes the entry, which is the first of the queue.  Anything else, 409
\* included, breaks the loop and leaves it.
FlushReply ==
    /\ flush.at # NoPost
    /\ call[flush.at].stage = "answered"
    /\ IF call[flush.at].answer \in Good
       THEN /\ queue' = Tail(queue)
            /\ flush' = [left |-> flush.left - 1, at |-> NoPost]
            /\ call' = [call EXCEPT ![flush.at] = NoCall]
       ELSE /\ flush' = [left |-> 0, at |-> NoPost]
            /\ call' = [call EXCEPT ![flush.at].stage = "idle", ![flush.at].answer = "none"]
            /\ UNCHANGED queue
    /\ UNCHANGED <<status, shown, engine, paused, server, online, worker, mail, faults, runs>>

FlushNoAnswer == /\ flush.at # NoPost
                 /\ Unheard(flush.at)
                 /\ flush' = [left |-> 0, at |-> NoPost]
                 /\ UNCHANGED <<status, shown, engine, paused, queue, server, online, worker,
                                mail, runs>>

-----------------------------------------------------------------------------
(* The server: idempotency middleware, route and replayer *)

\* The middleware keeps a 2xx answer before it is sent.
Reply(c, a) == [c EXCEPT !.stage = "answered", !.answer = a,
                         !.stored = IF a \in Good THEN a ELSE c.stored]

Answered(k, a) ==
    call' = [call EXCEPT ![k] = IF k \in {engine.at, worker.at, flush.at} \/ Queued(k)
                                THEN Reply(call[k], a) ELSE NoCall]

Turn(k, stage, a) == call' = [call EXCEPT ![k].stage = stage, ![k].answer = a]

\* A mutant of Arrive: an existing sale is answered without releasing its table.
ArriveNoRelease(k) ==
    /\ call[k].stage = "sent"
    /\ \/ /\ call[k].stored # "none"
          /\ Answered(k, call[k].stored)
       \/ /\ call[k].stored = "none"
          /\ sold[call[k].event] > 0
          /\ Answered(k, "duplicate")
       \/ /\ call[k].stored = "none"
          /\ sold[call[k].event] = 0
          /\ Turn(k, "selling", "none")
    /\ UNCHANGED <<tab, server, online, worker, mail, faults, runs>>

\* finalizeSale looks the key of the event up in sales.
Arrive(k) ==
    /\ call[k].stage = "sent"
    /\ \/ /\ call[k].stored # "none"
          /\ Answered(k, call[k].stored)
       \/ /\ call[k].stored = "none"
          /\ sold[call[k].event] > 0
          /\ Turn(k, "releasing", "duplicate")
       \/ /\ call[k].stored = "none"
          /\ sold[call[k].event] = 0
          /\ Turn(k, "selling", "none")
    /\ UNCHANGED <<tab, server, online, worker, mail, faults, runs>>

\* 401 or 403, 400 for a malformed event, or review for a customer who was
\* made offline and is not yet on the server.
Refuse(k) == /\ call[k].stage = "sent"
             /\ call[k].stored = "none"
             /\ Fault("refuse")
             /\ \E a \in {"auth", "invalid", "review"} : Answered(k, a)
             /\ UNCHANGED <<tab, server, online, worker, mail, runs>>

\* A mutant of Sell: no UNIQUE on the key, only the lookup before.
SellUnchecked(k) == /\ call[k].stage = "selling"
                    /\ sold' = [sold EXCEPT ![call[k].event] = @ + 1]
                    /\ Turn(k, "releasing", "synced")
                    /\ UNCHANGED <<floor, tab, online, worker, mail, faults, runs>>

\* createSale; sales.idempotency_key is UNIQUE, and 23505 is a duplicate.
Sell(k) ==
    LET n == call[k].event
    IN  /\ call[k].stage = "selling"
        /\ \/ /\ sold[n] = 0
              /\ sold' = [sold EXCEPT ![n] = @ + 1]
              /\ Turn(k, "releasing", "synced")
           \/ /\ sold[n] > 0
              /\ Turn(k, "releasing", "duplicate")
              /\ UNCHANGED sold
        /\ UNCHANGED <<floor, tab, online, worker, mail, faults, runs>>

\* createSale rolls back: review for a stock conflict, else 500.
SaleFails(k) == /\ call[k].stage = "selling"
                /\ Fault("sale")
                /\ \E a \in {"review", "failed"} : Answered(k, a)
                /\ UNCHANGED <<tab, server, online, worker, mail, runs>>

\* releaseRestaurantFloorAfterSale; also for a duplicate.
Release(k) == /\ call[k].stage = "releasing"
              /\ floor' = [floor EXCEPT ![call[k].event] = IF @ = "taken" THEN "free" ELSE @]
              /\ Answered(k, call[k].answer)
              /\ UNCHANGED <<sold, tab, online, worker, mail, faults, runs>>

\* The sale stands; the answer asks for a review.
ReleaseFails(k) == /\ call[k].stage = "releasing"
                   /\ floor[call[k].event] # "none"
                   /\ Fault("floor")
                   /\ Answered(k, "review")
                   /\ UNCHANGED <<tab, server, online, worker, mail, runs>>

Crash == /\ Fault("crash")
         /\ call' = [k \in Posts |-> IF call[k].stage \in {"selling", "releasing"}
                                     THEN [call[k] EXCEPT !.stage = "idle"]
                                     ELSE call[k]]
         /\ UNCHANGED <<tab, server, online, worker, mail, runs>>

-----------------------------------------------------------------------------
Server(k) == Arrive(k) \/ Sell(k) \/ Release(k)

Next == \/ Save
        \/ \E n \in Sales : Cancel(n)
        \/ \E S \in {Sales} \cup {{n} : n \in shown} : Retry(S)
        \/ GoOffline \/ GoOnline \/ Login \/ Reload
        \/ EngineStart \/ EnginePost \/ EngineReply \/ EngineNoAnswer
        \/ WorkerStart \/ WorkerPost \/ WorkerReply \/ WorkerNoAnswer \/ WorkerDone
        \/ \E msg \in mail : Deliver(msg)
        \/ FlushStart \/ FlushPost \/ FlushReply \/ FlushNoAnswer
        \/ \E k \in Posts : \/ Server(k)
                            \/ Refuse(k) \/ SaleFails(k) \/ ReleaseFails(k)
        \/ Crash

Spec == Init /\ [][Next]_vars

(***************************************************************************)
(* What must happen in the end: the connection comes back, the cashier     *)
(* logs in again, the 30 second timer starts the engine, every loop takes  *)
(* its next step and hears its answer or gives up on a dead request, and   *)
(* the server serves what reaches it.  The user need not do anything.      *)
(***************************************************************************)
Fairness ==
    /\ WF_vars(GoOnline) /\ WF_vars(Login)
    /\ WF_vars(EngineStart) /\ WF_vars(EnginePost) /\ WF_vars(EngineReply)
    /\ WF_vars(engine.at # NoPost /\ call[engine.at].stage = "idle" /\ EngineNoAnswer)
    /\ WF_vars(WorkerPost) /\ WF_vars(WorkerReply) /\ WF_vars(WorkerDone)
    /\ WF_vars(worker.at # NoPost /\ call[worker.at].stage = "idle" /\ WorkerNoAnswer)
    /\ WF_vars(\E msg \in mail : Deliver(msg))
    /\ WF_vars(FlushStart) /\ WF_vars(FlushPost) /\ WF_vars(FlushReply)
    /\ WF_vars(flush.at # NoPost /\ call[flush.at].stage = "idle" /\ FlushNoAnswer)
    /\ \A k \in Posts : WF_vars(Server(k))

FairSpec == Spec /\ Fairness

-----------------------------------------------------------------------------
\* The types of the variables.
TypeOK == /\ status \in [Sales -> Statuses]
          /\ shown \in SUBSET Sales
          /\ online \in BOOLEAN
          /\ paused \in BOOLEAN
          /\ engine \in Loops
          /\ worker \in Workers
          /\ mail \in SUBSET Messages
          /\ queue \in Seq(Posts)
          /\ flush \in [left : Nat, at : Posts \cup {NoPost}]
          /\ call \in [Posts -> Calls]
          /\ sold \in [Sales -> Nat]
          /\ floor \in [Sales -> {"none", "taken", "free"}]
          /\ faults \in 0..MaxFaults
          /\ runs \in 0..MaxRuns

\* However many senders post an event at once, and whatever is lost, repeated or
\* crashes, table sales has one row for it at most.
SoldOnce == \A n \in Sales : sold[n] <= 1

\* An event leaves the journal's list of unsynced events as SYNCED only when
\* the server has its sale and its table is free again.
SyncedMeansSettled ==
    \A n \in Sales : status[n] = "SYNCED" => sold[n] = 1 /\ floor[n] # "taken"

\* Event n is in the hands of a sender, on its way, or named in a message.
Held(n) == \/ n \in engine.todo \cup worker.todo
           \/ n \in worker.result.synced \cup worker.result.review
           \/ \E msg \in mail : n \in msg.synced \cup msg.review
           \/ \E k \in Posts : /\ call[k].event = n
                               /\ \/ call[k].stage # "idle" /\ ~Unused(k)
                                  \/ k \in {engine.at, worker.at, flush.at}
                                  \/ Queued(k)

\* Cancelling an event that no sender holds is final: nobody posts it any more,
\* its status stays CANCELLED and its sale is never made.
CancelHolds == [][\A n \in Sales :
                     status[n] = "CANCELLED" /\ ~Held(n)
                         => status'[n] = "CANCELLED" /\ ~Held(n)' /\ sold'[n] = sold[n]]_vars

\* Once the faults stop, a sale waiting in the journal is settled by the senders
\* alone, or put before the user: no broken-off batch forgets it.  REVIEW counts,
\* and a sale whose answer was lost while the browser was online ends there too:
\* decideSyncPost does not keep it for another try, as syncAuthGate.ts says of
\* failures without a response, and it waits for the user.
EventuallyHandled ==
    \A n \in Sales : status[n] \in {"PENDING", "FAILED"}
                         ~> status[n] \in {"SYNCED", "REVIEW", "CANCELLED"}
=============================================================================
