---------------------------- MODULE CheckReplay ----------------------------
(***************************************************************************)
(* Restaurant checks written offline and replayed to the server            *)
(* (samplepos.client/src/services/offlineSyncEngine.ts and, on the server, *)
(* modules/pos/posEventReplayer.ts with modules/restaurant), beside the    *)
(* staff who work at the same table online.                                *)
(*                                                                         *)
(* One table: a check is linked to it when its row names the table, and    *)
(* the table's row points to one check, current_order_id.  The device has  *)
(* written its journal and comes back online: runs of the engine post the  *)
(* unsynced events in order, each when the one before it was answered.  An *)
(* event names its check by an offline id the server does not know, so the *)
(* server looks for the pending check at the table.                        *)
(*                                                                         *)
(* Every statement that changes or decides something is an action; the     *)
(* reads of one look-up are taken together.  Lines, money, kitchen tickets *)
(* and ownership are left out, and so are transfers, merges and splits.    *)
(***************************************************************************)
EXTENDS Integers, Sequences

CONSTANTS DeviceChecks,  \* checks opened offline
          HouseChecks,   \* checks opened by staff online
          Journals,      \* the journals the device may have written
          Slots,         \* bound: requests on the server at once
          MaxFaults,     \* bound: failed statements, lost answers, server stops
          None

Checks == DeviceChecks \cup HouseChecks
Kinds == {"create", "update", "kot", "cancel", "sale"}

Closing == {"cancel", "sale"}

\* A till opens a check under a new id, and writes nothing of a check before it is
\* opened or after it is paid or cancelled.
WrittenByTill(j) ==
  \A e \in 1..Len(j) :
    /\ j[e].kind # "create"
         => \E d \in 1..(e - 1) : j[d].kind = "create" /\ j[d].check = j[e].check
    /\ \A d \in 1..(e - 1) :
         j[d].check = j[e].check => j[d].kind \notin Closing /\ j[e].kind # "create"

ASSUME JournalsAssumption ==
  \A j \in Journals : j \in Seq([kind : Kinds, check : DeviceChecks]) /\ WrittenByTill(j)
ASSUME FaultsAssumption == MaxFaults \in Nat
ASSUME ChecksAssumption == DeviceChecks \cap HouseChecks = {} /\ None \notin Checks \cup Slots

VARIABLES state,     \* pos_orders: the status of each check
          linked,    \* checks whose table_id is the table
          opened,    \* checks in the order of created_at
          pointer,   \* restaurant_tables.current_order_id
          sold,      \* events whose sale is committed: its idempotency key
          journal,   \* the events on the device
          status,    \* their sync state
          run,       \* the engine's run: events still to post, request waited for
          call,      \* requests at work on the server
          faults,    \* faults so far
          reached,   \* history: the checks each event has changed
          disturbed, \* history: checks whose replay met one of the causes below
          upset      \* history: a known cause has left the table wrong

floor == <<state, linked, opened, pointer>>
device == <<journal, status, run>>
history == <<reached, disturbed, upset>>
vars == <<floor, sold, device, call, faults, history>>

Events == 1..Len(journal)
Staff == 0

Calls == [event  : Nat,             \* the event it replays, or Staff
          kind   : Kinds \cup {"seat", "close", "look"},
          pc     : {"idle", "find", "create", "link", "occupy", "resolve", "apply", "count",
                    "again", "read", "write", "clear", "heal", "verify", "answer"},
          check  : Checks \cup {None},  \* the check it works on
          seen   : SUBSET Checks,       \* the pending checks it has read at the table
          result : {"SYNCED", "REVIEW", "FAILED"}]

Idle == [event |-> Staff, kind |-> "look", pc |-> "idle", check |-> None, seen |-> {},
         result |-> "SYNCED"]

Stopped == [batch |-> {}, slot |-> None]

Init == /\ state = [c \in Checks |-> "none"]
        /\ linked = {}
        /\ opened = <<>>
        /\ pointer = None
        /\ sold = {}
        /\ journal \in Journals
        /\ status = [e \in Events |-> "PENDING"]
        /\ run = Stopped
        /\ call = [s \in Slots |-> Idle]
        /\ faults = 0
        /\ reached = [e \in Events |-> {}]
        /\ disturbed = {}
        /\ upset = FALSE

-----------------------------------------------------------------------------
(* The table.                                                              *)

Pending == {c \in Checks : state[c] = "PENDING"}
Here == Pending \cap linked

Age(c) == CHOOSE i \in 1..Len(opened) : opened[i] = c
Oldest(checks) == {c \in checks : \A d \in checks : Age(c) <= Age(d)}
Newest(checks) == {c \in checks : \A d \in checks : Age(c) >= Age(d)}

\* One of at most one.
Only(checks) == IF checks = {} THEN None ELSE CHOOSE c \in checks : TRUE

\* Mutant: the check the table points to is taken whatever its status.
ResolvedAnyStatus == IF pointer # None THEN pointer ELSE Only(Newest(Here))

\* resolvePendingOrderIdForTable.
Resolved == IF pointer \in Pending THEN pointer ELSE Only(Newest(Here))

\* Mutant: the table is freed although other checks are open on it.
NoSibling(c, checks) == None

\* The check the table falls to when c is closed.
Sibling(c, checks) == Only(Oldest(checks \ {c}))

\* The table shows what is there: a pending check of its own, or nobody.
FloorRight(st, ln, p) ==
  LET here == {c \in ln : st[c] = "PENDING"}
  IN  IF here = {} THEN p = None ELSE p \in here

\* What a step leaves in the histories.  Two checks at the table at once disturb each
\* other; `struck' are disturbed by this step, and `wrong' says whether it is a known
\* cause of a table that is wrong.
Remember(struck, wrong) ==
  /\ disturbed' = disturbed \cup struck
       \cup {c \in linked' : /\ state'[c] = "PENDING"
                             /\ \E d \in linked' \ {c} : state'[d] = "PENDING"}
  /\ upset' = ((upset \/ wrong) /\ ~FloorRight(state', linked', pointer'))

\* The check the event of slot s was written for.
Own(s) == IF call[s].event = Staff THEN {} ELSE {journal[call[s].event].check}

\* An event changes check c: c is disturbed unless the event was written for it.
Reach(s, c) == reached' = [reached EXCEPT ![call[s].event] = @ \cup {c}]
Foreign(s, c) == {c} \ Own(s)

At(s, kinds, pc) == call[s].kind \in kinds /\ call[s].pc = pc
Go(s, pc) == call' = [call EXCEPT ![s].pc = pc]
GoWith(s, pc, c) == call' = [call EXCEPT ![s].pc = pc, ![s].check = c]

\* An answer for which nobody waits is forgotten.
Answer(s, result) ==
  call' = [call EXCEPT ![s] = IF run.slot = s THEN [@ EXCEPT !.pc = "answer", !.result = result]
                              ELSE Idle]

-----------------------------------------------------------------------------
(* The handlers of the replayer.                                           *)

\* createOrder: the key finds the check of an earlier attempt.
FindOrder(s) ==
  LET c == journal[call[s].event].check IN
  /\ At(s, {"create"}, "find")
  /\ GoWith(s, IF state[c] = "none" THEN "create" ELSE "link", c)
  /\ UNCHANGED <<floor, sold, device, faults, history>>

\* The unique key turns away the second of two attempts: a duplicate.
CreateOrder(s) ==
  LET c == call[s].check IN
  /\ At(s, {"create"}, "create")
  /\ IF state[c] = "none"
       THEN /\ state' = [state EXCEPT ![c] = "PENDING"]
            /\ opened' = Append(opened, c)
            /\ Go(s, "link")
            /\ Reach(s, c)
       ELSE /\ Answer(s, "SYNCED")
            /\ UNCHANGED <<state, opened, reached>>
  /\ UNCHANGED <<linked, pointer, sold, device, faults>>
  /\ Remember({}, FALSE)

\* patchOrderRestaurantFields, then occupyTable, without the lock staff take.
Link(s) ==
  /\ At(s, {"create"}, "link")
  /\ linked' = linked \cup {call[s].check}
  /\ Go(s, "occupy")
  /\ UNCHANGED <<state, opened, pointer, sold, device, faults, reached>>
  /\ Remember({}, FALSE)

\* A check that was closed meanwhile takes the table too.
Occupy(s) ==
  /\ At(s, {"create"}, "occupy")
  /\ pointer' = call[s].check
  /\ Answer(s, "SYNCED")
  /\ UNCHANGED <<state, linked, opened, sold, device, faults, reached>>
  /\ Remember({}, call[s].check \notin Pending)

\* A sale asks for its key first.
FindSale(s) ==
  /\ At(s, {"sale"}, "find")
  /\ Go(s, IF call[s].event \in sold THEN "again" ELSE "resolve")
  /\ UNCHANGED <<floor, sold, device, faults, history>>

\* Without a check a sale is made all the same, a cancellation looks whether the table
\* is empty, and the others are acknowledged.
Resolve(s) ==
  /\ At(s, {"update", "kot", "cancel", "sale"}, "resolve")
  /\ IF Resolved = None /\ call[s].kind \in {"update", "kot"}
       THEN Answer(s, "SYNCED")
       ELSE GoWith(s, IF Resolved = None /\ call[s].kind = "cancel" THEN "count" ELSE "apply",
                   Resolved)
  /\ UNCHANGED <<floor, sold, device, faults, history>>

\* ORDER_UPDATED voids lines of the check, RESTAURANT_KOT_FIRED sends them.  Of a check
\* closed meanwhile the first is acknowledged, or fails like the second.
Apply(s) ==
  LET c == call[s].check IN
  /\ At(s, {"update", "kot"}, "apply")
  /\ IF c \in Pending
       THEN Reach(s, c) /\ Answer(s, "SYNCED")
       ELSE /\ UNCHANGED reached
            /\ \/ call[s].kind = "update" /\ Answer(s, "SYNCED")
               \/ Answer(s, "FAILED")
  /\ UNCHANGED <<floor, sold, device, faults>>
  /\ Remember(Foreign(s, c) \cap Pending, FALSE)

\* cancelCheck.  A check closed meanwhile is for review, when its first read finds it
\* COMPLETED; fails, when a later one does; or is released, when it was found CANCELLED
\* or only the UPDATE passed it by.
Cancel(s) ==
  LET c == call[s].check IN
  /\ At(s, {"cancel"}, "apply")
  /\ IF c \in Pending
       THEN /\ state' = [state EXCEPT ![c] = "CANCELLED"]
            /\ Go(s, "read")
            /\ Reach(s, c)
       ELSE /\ \/ state[c] = "COMPLETED" /\ Answer(s, "REVIEW")
               \/ Answer(s, "FAILED")
               \/ Go(s, "read")
            /\ UNCHANGED <<state, reached>>
  /\ UNCHANGED <<linked, opened, pointer, sold, device, faults>>
  /\ Remember(Foreign(s, c) \cap Pending, FALSE)

\* A cancellation that found no check frees a table without pending checks.
Count(s) ==
  /\ At(s, {"cancel"}, "count")
  /\ IF Here = {} THEN call' = [call EXCEPT ![s].pc = "clear", ![s].seen = Here]
     ELSE Answer(s, "SYNCED")
  /\ UNCHANGED <<floor, sold, device, faults, history>>

\* createSale: sale and check in one transaction.  A check that is no longer pending
\* fails it; a sale that is there already is found by its key.
Sell(s) ==
  LET c == call[s].check
      e == call[s].event IN
  /\ At(s, {"sale"}, "apply")
  /\ IF c # None /\ c \notin Pending
       THEN Answer(s, "FAILED") /\ UNCHANGED <<state, sold, reached>>
       ELSE /\ Go(s, IF c = None THEN "again" ELSE "read")
            /\ sold' = sold \cup {e}
            /\ IF c = None \/ e \in sold
                 THEN UNCHANGED <<state, reached>>
                 ELSE state' = [state EXCEPT ![c] = "COMPLETED"] /\ Reach(s, c)
  /\ UNCHANGED <<linked, opened, pointer, device, faults>>
  /\ Remember({d \in Foreign(s, c) \cap Pending : e \notin sold}, FALSE)

\* A sale without a check, and one made before, release whatever check is pending at
\* the table by now, or the table itself.
Again(s) ==
  /\ At(s, {"sale"}, "again")
  /\ GoWith(s, IF Resolved = None THEN "clear" ELSE "read", Resolved)
  /\ UNCHANGED <<floor, sold, device, faults, history>>

-----------------------------------------------------------------------------
(* Releasing the table: for the replayer and for staff.                    *)

\* releaseTableByOrderId: the oldest other pending check will have the table.
ReadSibling(s) ==
  LET c == call[s].check IN
  /\ call[s].pc = "read"
  /\ IF pointer = c \/ c \in linked
       THEN call' = [call EXCEPT ![s].pc = "write", ![s].seen = Here]
       ELSE Answer(s, "SYNCED")
  /\ UNCHANGED <<floor, sold, device, faults, history>>

\* Known causes: the table changed after the read; the check it is released for is open.
WriteTable(s) ==
  LET c == call[s].check IN
  /\ call[s].pc = "write"
  /\ pointer' = Sibling(c, call[s].seen)
  /\ Answer(s, "SYNCED")
  /\ UNCHANGED <<state, linked, opened, sold, device, faults, reached>>
  /\ Remember({}, Here # call[s].seen \/ c \in Pending)

\* Known cause: a check came to the table after the look at it.
ClearTable(s) ==
  /\ call[s].pc = "clear"
  /\ pointer' = None
  /\ Answer(s, "SYNCED")
  /\ UNCHANGED <<state, linked, opened, sold, device, faults, reached>>
  /\ Remember({}, Here # call[s].seen)

Serve(s) == \/ FindOrder(s) \/ CreateOrder(s) \/ Link(s) \/ Occupy(s)
            \/ FindSale(s) \/ Resolve(s) \/ Apply(s) \/ Cancel(s) \/ Count(s) \/ Sell(s)
            \/ Again(s) \/ ReadSibling(s) \/ WriteTable(s) \/ ClearTable(s)

-----------------------------------------------------------------------------
(* Staff online.                                                           *)

\* Opening a check holds the table's advisory lock; the releases do not.
TableLocked == \E s \in Slots : call[s].kind = "seat"

Fresh == {c \in HouseChecks : state[c] = "none"}

\* openEmptyCheck: one transaction.
OpenTab(c) ==
  /\ c \in Fresh /\ ~TableLocked
  /\ state' = [state EXCEPT ![c] = "PENDING"]
  /\ opened' = Append(opened, c)
  /\ linked' = linked \cup {c}
  /\ pointer' = c
  /\ UNCHANGED <<sold, device, call, faults, reached>>
  /\ Remember({}, FALSE)

\* addItemsToTable with a new check (forceNewCheck, or nothing pending to add to): the
\* order is committed first, and linked in a transaction of its own.
Seat(s, c) ==
  /\ call[s] = Idle /\ c \in Fresh /\ ~TableLocked
  /\ state' = [state EXCEPT ![c] = "PENDING"]
  /\ opened' = Append(opened, c)
  /\ call' = [call EXCEPT ![s] = [Idle EXCEPT !.kind = "seat", !.pc = "link", !.check = c]]
  /\ UNCHANGED <<linked, pointer, sold, device, faults, reached>>
  /\ Remember({}, FALSE)

SeatLink(s) ==
  /\ At(s, {"seat"}, "link")
  /\ linked' = linked \cup {call[s].check}
  /\ pointer' = call[s].check
  /\ Answer(s, "SYNCED")
  /\ UNCHANGED <<state, opened, sold, device, faults, reached>>
  /\ Remember({}, call[s].check \notin Pending)

\* A pending order is paid or cancelled, then its table is released.
Close(s, c) ==
  /\ call[s] = Idle /\ c \in Pending
  /\ \E st \in {"COMPLETED", "CANCELLED"} : state' = [state EXCEPT ![c] = st]
  /\ call' = [call EXCEPT ![s] = [Idle EXCEPT !.kind = "close", !.pc = "read", !.check = c]]
  /\ UNCHANGED <<linked, opened, pointer, sold, device, faults, reached>>
  /\ Remember({c}, FALSE)

\* getTableCheck, on the check asked for or on the oldest, when the table points
\* elsewhere.
Look(s, c) ==
  /\ call[s] = Idle /\ c \in Here /\ pointer # c
  /\ call' = [call EXCEPT ![s] = [Idle EXCEPT !.pc = "heal", !.check = c]]
  /\ UNCHANGED <<floor, sold, device, faults, history>>

\* The check may have been closed since the look.
Heal(s) ==
  /\ At(s, {"look"}, "heal")
  /\ pointer' = call[s].check
  /\ Go(s, "verify")
  /\ UNCHANGED <<state, linked, opened, sold, device, faults, reached>>
  /\ Remember({}, FALSE)

\* The check is read once more; a closed one is released.
Verify(s) ==
  /\ At(s, {"look"}, "verify")
  /\ IF call[s].check \in Pending THEN Answer(s, "SYNCED") ELSE Go(s, "read")
  /\ UNCHANGED <<floor, sold, device, faults, history>>

StaffActs == \/ \E c \in HouseChecks : OpenTab(c)
             \/ \E s \in Slots : \/ SeatLink(s) \/ Heal(s) \/ Verify(s)
                                 \/ \E c \in Checks : Seat(s, c) \/ Close(s, c) \/ Look(s, c)

-----------------------------------------------------------------------------
(* The engine of the device.                                               *)

\* getUnsyncedEvents, under the lock of the engine.
Start ==
  /\ run = Stopped
  /\ \E e \in Events : status[e] \in {"PENDING", "FAILED"}
  /\ run' = [Stopped EXCEPT !.batch = {e \in Events : status[e] \in {"PENDING", "FAILED"}}]
  /\ UNCHANGED <<floor, sold, journal, status, call, faults, history>>

First(kind) == IF kind \in {"create", "sale"} THEN "find" ELSE "resolve"

\* The events go in the order of the journal.  Posting one while an earlier attempt is
\* still at work disturbs its check.
Post(s, e) ==
  /\ run.slot = None /\ e \in run.batch /\ call[s] = Idle
  /\ \A d \in run.batch : e <= d
  /\ run' = [batch |-> run.batch \ {e}, slot |-> s]
  /\ call' = [call EXCEPT ![s] = [Idle EXCEPT !.event = e, !.kind = journal[e].kind,
                                             !.pc = First(journal[e].kind)]]
  /\ UNCHANGED <<floor, sold, journal, status, faults, reached>>
  /\ Remember({c \in {journal[e].check} : \E t \in Slots : call[t].event = e}, FALSE)

Ends(batch) == IF batch = {} THEN Stopped ELSE [batch |-> batch, slot |-> None]

\* decideSyncPost: a failure leaves the event FAILED and the loop goes on.
TakeAnswer(s) ==
  /\ run.slot = s /\ call[s].pc = "answer"
  /\ status' = [status EXCEPT ![call[s].event] = call[s].result]
  /\ run' = Ends(run.batch)
  /\ call' = [call EXCEPT ![s] = Idle]
  /\ UNCHANGED <<floor, sold, journal, faults, history>>

\* A retried cancellation looks for a check again, and its own is closed.
Cancelled(slots) ==
  {journal[call[s].event].check : s \in {t \in slots : call[t].kind = "cancel"}}

Fault == faults < MaxFaults /\ faults' = faults + 1

\* The check of the event waited for, when the run has later events of it to post.
Overtaken(s) == {c \in Own(s) : \E d \in run.batch : journal[d].check = c}

\* Nothing comes back for request s.  Offline the run stops and the event stays as it
\* is.  Online the event is for review, or FAILED when a proxy answers for the server,
\* and the run goes on.
Unheard(s, struck, wrong) ==
  \/ /\ run' = Stopped
     /\ UNCHANGED status
     /\ Remember(struck, wrong)
  \/ /\ run' = Ends(run.batch)
     /\ \E left \in {"REVIEW", "FAILED"} :
          status' = [status EXCEPT ![call[s].event] = left]
     /\ Remember(struck \cup Overtaken(s), wrong)

\* The request or its answer is lost, or comes too late; the server works on.
Lose(s) ==
  /\ Fault
  /\ run.slot = s
  /\ \/ /\ call[s].pc \in {First(call[s].kind), "answer"}
        /\ call' = [call EXCEPT ![s] = Idle]
     \/ call[s].pc # "answer" /\ UNCHANGED call
  /\ UNCHANGED <<floor, sold, journal, reached>>
  /\ Unheard(s, Cancelled({s}), FALSE)

\* The user retries what is for review.
Retry(e) ==
  /\ e \in Events /\ status[e] = "REVIEW"
  /\ status' = [status EXCEPT ![e] = "PENDING"]
  /\ UNCHANGED <<floor, sold, journal, run, call, faults, history>>

DeviceActs == \/ Start
              \/ \E s \in Slots : \/ TakeAnswer(s) \/ Lose(s)
                                  \/ \E e \in Events : Post(s, e)
              \/ \E e \in Events : Retry(e)

-----------------------------------------------------------------------------
(* Faults of the server.                                                   *)

Releasing == {"again", "read", "write", "clear"}

\* What the handlers answer when a statement throws.  A check that could not be linked
\* or a table that could not be released is for review; a cancellation that only clears
\* the table goes on; a sale whose table cannot be read goes on without a check; staff
\* are answered.
FailureOf(kind, pc) ==
  CASE pc \in {"link", "occupy"} -> "REVIEW"
    [] kind = "sale" /\ pc \in Releasing -> "REVIEW"
    [] kind = "cancel" /\ pc \in {"count", "clear"} -> "SYNCED"
    [] OTHER -> "FAILED"

\* A seat whose link fails cancels its order.
Fail(s) ==
  LET c == call[s].check
      pc == call[s].pc IN
  /\ Fault
  /\ pc \notin {"idle", "answer"}
  /\ IF At(s, {"sale"}, "resolve") THEN GoWith(s, "apply", None)
     ELSE Answer(s, FailureOf(call[s].kind, pc))
  /\ state' = IF call[s].kind = "seat" /\ c \in Pending THEN [state EXCEPT ![c] = "CANCELLED"]
              ELSE state
  /\ UNCHANGED <<linked, opened, pointer, sold, device, reached>>
  /\ Remember(Own(s), pc \in Releasing \cup {"occupy", "heal", "verify"})

\* The server stops: what it was at is lost, and so is the answer of the engine.
Crash ==
  LET wrong == \E s \in Slots : call[s].pc \in Releasing \cup {"occupy", "verify"} IN
  /\ Fault
  /\ \E s \in Slots : call[s] # Idle
  /\ call' = [s \in Slots |-> Idle]
  /\ UNCHANGED <<floor, sold, journal, reached>>
  /\ \/ /\ run.slot = None
        /\ UNCHANGED <<run, status>>
        /\ Remember(Cancelled(Slots), wrong)
     \/ run.slot # None /\ Unheard(run.slot, Cancelled(Slots), wrong)

Next == \/ \E s \in Slots : Serve(s) \/ Fail(s)
        \/ StaffActs \/ DeviceActs \/ Crash

Spec == Init /\ [][Next]_vars

-----------------------------------------------------------------------------
(* Properties *)

\* Type correctness.
TypeOK ==
  /\ state \in [Checks -> {"none", "PENDING", "COMPLETED", "CANCELLED"}]
  /\ linked \subseteq Checks
  /\ opened \in Seq(Checks)
  /\ pointer \in Checks \cup {None}
  /\ sold \subseteq Events
  /\ journal \in Journals
  /\ status \in [Events -> {"PENDING", "SYNCED", "REVIEW", "FAILED"}]
  /\ run \in [batch : SUBSET Events, slot : Slots \cup {None}]
  /\ call \in [Slots -> Calls]
  /\ faults \in 0..MaxFaults
  /\ reached \in [Events -> SUBSET Checks]
  /\ disturbed \subseteq Checks
  /\ upset \in BOOLEAN

\* The event the device takes for synced has changed the check it was written for and
\* no other, though it names no check the server knows; unless the check was disturbed:
\* one of its events failed, was posted while an earlier attempt was at work, was a
\* cancellation whose answer was lost, or got no answer online, so that the run went on
\* to the later ones; staff closed it; another check was open at the table with it; or
\* an event of another check has struck it.
ReachesOwnCheck ==
  \A e \in Events :
    status[e] = "SYNCED" /\ journal[e].check \notin disturbed
      => reached[e] = {journal[e].check}

\* When no request is at work, the table points to one of its pending checks, or is free
\* when it has none; unless it was last left wrong by a known cause: a closed check
\* linked late, a release decided on what has changed since or for an open check, or a
\* release that failed or was lost.
FloorSettles ==
  (\A s \in Slots : call[s] = Idle) /\ ~upset => FloorRight(state, linked, pointer)
=============================================================================
