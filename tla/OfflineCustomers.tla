-------------------------- MODULE OfflineCustomers --------------------------
(***************************************************************************)
(* How a customer written down at an offline till gets to the server, and  *)
(* how a sale made to that customer finds it.  The till keeps the customer *)
(* under a temporary id on a list in localStorage                          *)
(* (components/customers/QuickAddCustomerModal.tsx) and saves the sale     *)
(* with that id.  syncOfflineCustomers (services/offlineSyncEngine.ts)     *)
(* registers the customers of the list and returns a map from temporary    *)
(* ids to real ones; the sync loop of sales, which calls it first,         *)
(* replaces the id of each sale by that map.  The checkout page            *)
(* (pages/pos/POSPage.tsx) calls it as well, outside the lock of the loop, *)
(* and keeps the map it gets to itself.                                    *)
(*                                                                         *)
(* One till with one tab.  A customer is known on the server by the name   *)
(* it has here.  Every failure reaches the loop of customers through the   *)
(* interceptor of utils/api.ts as a HandledApiError, without code or       *)
(* response: its branch for customers that exist already is never taken.   *)
(* `online' is what the browser says; an answer may come after it says     *)
(* offline.  The order of the list, of the journal and of the request      *)
(* queue is left out.  What a post of a sale does on the server and what   *)
(* the service worker and the tab do with its status is in module          *)
(* OfflineSync: here a post is one step.                                   *)
(***************************************************************************)
EXTENDS Naturals

CONSTANTS Customers,  \* the customers written down at the till
          House,      \* the customers the server already had
          Clash,      \* Clash[c]: those with the email of c, or its name and no email
          Alike,      \* Alike[c]: those whose name, number, email or phone contains c's name
          Events,     \* the sales saved offline for such a customer
          For,        \* For[e]: the customer of sale e
          None,       \* no customer
          MaxDrops,   \* bound: how often the connection drops
          MaxFaults   \* bound: how often something else goes wrong

Parties == Customers \cup House
Runs == {"engine", "page"}

ASSUME PartiesAssumption == /\ Clash \in [Customers -> SUBSET Parties]
                            /\ Alike \in [Customers -> SUBSET Parties]
                            /\ For \in [Events -> Customers]
                            /\ None \notin Parties \cup Events
ASSUME BoundsAssumption == MaxDrops \in Nat /\ MaxFaults \in Nat

VARIABLES online,    \* navigator.onLine
          written,   \* the customers written down so far
          list,      \* pos_offline_customers
          run,       \* the two callers of syncOfflineCustomers, and how far they are
          status,    \* pos_sync_state: PENDING and FAILED count as UNSYNCED
          requests,  \* smarterp_offline_queue: customers to register again
          parcels,   \* smarterp_offline_queue: sales to post again
          rows,      \* table customers
          sold,      \* table sales: <<event, customer_id>>
          lost,      \* history: customers that left the list without a request for them
          unlinked,  \* history: customers whose temporary id nothing at the till resolves
          drops, faults

till == <<written, status>>
vars == <<online, till, list, run, requests, parcels, rows, sold, lost, unlinked,
          drops, faults>>

Idle == [pc |-> "idle", copy |-> {}, todo |-> {}, kept |-> {},
         ids |-> [c \in Customers |-> None], batch |-> {}, event |-> None, who |-> None]

Sold == Events \X (Parties \cup {None})

Init == /\ online = TRUE
        /\ written = {} /\ list = {}
        /\ run = [r \in Runs |-> Idle]
        /\ status = [e \in Events |-> "none"]
        /\ requests = {} /\ parcels = {}
        /\ rows = House /\ sold = {}
        /\ lost = {} /\ unlinked = {}
        /\ drops = 0 /\ faults = 0

-----------------------------------------------------------------------------
(* The server *)

\* The customers the search may find for c.
Matches(c) == {c} \cup Alike[c]

\* createCustomer refuses c: its email, or its name and no email, is taken.
Taken(c) == rows \cap ({c} \cup Clash[c]) # {}

\* searchCustomers(name, 1): any customer that matches may be the first.
Found(c) == rows \cap Matches(c)

\* createCustomer: the table after a request for c.
Registered(c) == IF Taken(c) THEN rows ELSE rows \cup {c}

\* finalizeSale: the table after a post of event e for w.
Posted(e, w) == IF \E x \in Parties \cup {None} : <<e, x>> \in sold
                THEN sold ELSE sold \cup {<<e, w>>}

-----------------------------------------------------------------------------
(* The till *)

Fault == faults < MaxFaults /\ faults' = faults + 1

\* handleSubmit of the modal while offline.
WriteDown(c) == /\ ~online /\ c \notin written
                /\ written' = written \cup {c}
                /\ list' = list \cup {c}
                /\ UNCHANGED <<online, status, run, requests, parcels, rows, sold,
                               lost, unlinked, drops, faults>>

\* Checkout while offline: the sale is saved with the temporary id.
SaveSale(e) == /\ ~online /\ For[e] \in written /\ status[e] = "none"
               /\ status' = [status EXCEPT ![e] = "UNSYNCED"]
               /\ UNCHANGED <<online, written, list, run, requests, parcels, rows,
                              sold, lost, unlinked, drops, faults>>

\* resetToPending: the operator has a sale under review sent again.
Retry(e) == /\ status[e] = "REVIEW" /\ Fault
            /\ status' = [status EXCEPT ![e] = "UNSYNCED"]
            /\ UNCHANGED <<online, written, list, run, requests, parcels, rows, sold,
                           lost, unlinked, drops>>

\* The service worker posts the event as it is: finalizeSale sends a temporary
\* id to review.
WorkerPost(e) == /\ online /\ status[e] = "UNSYNCED"
                 /\ status' = [status EXCEPT ![e] = "REVIEW"]
                 /\ UNCHANGED <<online, written, list, run, requests, parcels, rows,
                                sold, lost, unlinked, drops, faults>>

Disconnect == /\ online /\ drops < MaxDrops
              /\ online' = FALSE /\ drops' = drops + 1
              /\ UNCHANGED <<till, list, run, requests, parcels, rows, sold, lost,
                             unlinked, faults>>

Reconnect == /\ ~online /\ online' = TRUE
             /\ UNCHANGED <<till, list, run, requests, parcels, rows, sold, lost,
                            unlinked, drops, faults>>

\* flushOfflineQueue: a request that succeeds, or did the first time and is
\* answered as then, leaves the queue; another stays.
FlushCustomer(c) == /\ online /\ c \in requests /\ c \in Registered(c)
                    /\ rows' = Registered(c)
                    /\ requests' = requests \ {c}
                    /\ UNCHANGED <<online, till, list, run, parcels, sold, lost,
                                   unlinked, drops, faults>>

FlushSale(p) == /\ online /\ p \in parcels
                /\ sold' = Posted(p[1], p[2])
                /\ parcels' = parcels \ {p}
                /\ UNCHANGED <<online, till, list, run, requests, rows, lost, unlinked,
                               drops, faults>>

\* loadQueue and enqueueOfflineRequest: old requests and those beyond the limit go.
Expire(c) == /\ c \in requests /\ Fault
             /\ requests' = requests \ {c}
             /\ lost' = lost \cup {c}
             /\ UNCHANGED <<online, till, list, run, parcels, rows, sold, unlinked, drops>>

-----------------------------------------------------------------------------
(* syncOfflineCustomers *)

Mapped(ids) == {c \in Customers : ids[c] # None}

\* getUnsyncedEvents
Unsynced == {e \in Events : status[e] = "UNSYNCED"}

\* What the caller of r does with the map: the loop goes on to the events, the
\* page keeps the id of the customer of its own sale.  Nothing resolves the
\* customers in gone, nor those of a map that is not used any more.
Returns(r, ids, gone) ==
  IF r = "engine" /\ Unsynced # {}
  THEN /\ run' = [run EXCEPT ![r] = [Idle EXCEPT !.pc = "sales", !.ids = ids,
                                                 !.batch = Unsynced]]
       /\ unlinked' = unlinked \cup gone
  ELSE /\ run' = [run EXCEPT ![r] = Idle]
       /\ unlinked' = unlinked \cup gone \cup Mapped(ids)

\* Mutant of Begin: an empty list is no reason to return.
BeginAnyway(r) == /\ online /\ run[r].pc = "idle"
                  /\ r = "page" => written # {}
                  /\ run' = [run EXCEPT ![r] = [Idle EXCEPT !.pc = "customers",
                                                   !.copy = list, !.todo = list]]
                  /\ UNCHANGED <<online, till, list, requests, parcels, rows, sold, lost,
                                 unlinked, drops, faults>>

\* syncOfflineSales takes the lock; the page calls it to sell online to a
\* customer with a temporary id.
Begin(r) == /\ online /\ run[r].pc = "idle"
            /\ r = "page" => written # {}
            /\ IF list # {}
               THEN /\ run' = [run EXCEPT ![r] = [Idle EXCEPT !.pc = "customers",
                                                    !.copy = list, !.todo = list]]
                    /\ UNCHANGED unlinked
               ELSE Returns(r, Idle.ids, {})
            /\ UNCHANGED <<online, till, list, requests, parcels, rows, sold, lost,
                           drops, faults>>

\* The loop is over: the list becomes the customers it kept, whatever was added
\* to it since the loop read it and whatever the loop did not reach (cut).
WriteBack(r, ids, kept, gone, cut) ==
  LET added == list \ run[r].copy
  IN /\ list' = kept
     /\ lost' = lost \cup added \cup cut
     /\ Returns(r, ids, gone \cup added)

\* The loop has the answer for c: the next customer, or the end.
Settle(r, c, ids, kept, gone) ==
  IF run[r].todo = {c}
  THEN WriteBack(r, ids, kept, gone, {})
  ELSE /\ run' = [run EXCEPT ![r].ids = ids, ![r].kept = kept, ![r].todo = @ \ {c}]
       /\ unlinked' = unlinked \cup gone
       /\ UNCHANGED <<list, lost>>

Visits(r, c) == run[r].pc = "customers" /\ c \in run[r].todo

Create(r, c) == /\ Visits(r, c) /\ ~Taken(c)
                /\ rows' = Registered(c)
                /\ Settle(r, c, [run[r].ids EXCEPT ![c] = c], run[r].kept, {})
                /\ UNCHANGED <<online, till, requests, parcels, sold, drops, faults>>

\* A refusal, another error answer, or a lost one.
Refuses(c) == \/ Taken(c) /\ UNCHANGED <<rows, faults>>
              \/ Fault /\ rows' \in {rows, Registered(c)}

\* Mutant of Keep: a customer that was refused is not pushed on the list that stays.
KeepNot(r, c) == /\ online /\ Visits(r, c) /\ Refuses(c)
                 /\ Settle(r, c, run[r].ids, run[r].kept, {c})
                 /\ UNCHANGED <<online, till, requests, parcels, sold, drops>>

\* Online any failure leaves the customer on the list, also that of a customer the
\* server has.
Keep(r, c) == /\ online /\ Visits(r, c) /\ Refuses(c)
              /\ Settle(r, c, run[r].ids, run[r].kept \cup {c}, {})
              /\ UNCHANGED <<online, till, requests, parcels, sold, drops>>

\* Offline any failure breaks the loop: the interceptor has queued the request if there
\* was no answer.  Online only the refresh of the token does (useTokenRefresh.ts): when
\* it gets no answer the handler of a 401 rejects with its bare ERR_NETWORK.
Break(r, c) ==
  /\ Visits(r, c)
  /\ \/ /\ ~online /\ rows' \in {rows, Registered(c)} /\ UNCHANGED faults
        /\ requests' = requests \cup {c}
        /\ WriteBack(r, run[r].ids, run[r].kept, run[r].todo, run[r].todo \ {c})
     \/ /\ IF online THEN Fault /\ UNCHANGED rows ELSE Refuses(c)
        /\ UNCHANGED requests
        /\ WriteBack(r, run[r].ids, run[r].kept, run[r].todo, run[r].todo)
  /\ UNCHANGED <<online, till, parcels, sold, drops>>

-----------------------------------------------------------------------------
(* The rest of the loop of sales *)

engine == run["engine"]

Goes(pc, e, w) == run' = [run EXCEPT !["engine"].pc = pc, !["engine"].event = e,
                                     !["engine"].who = w]

\* Mutant of Resolve: the name is looked up in the list, never in the map.
ResolveByName(e) == /\ engine.pc = "sales" /\ e \in engine.batch
                    /\ Goes(IF For[e] \in list THEN "search" ELSE "post", e, None)
                    /\ UNCHANGED <<online, till, list, requests, parcels, rows, sold,
                                   lost, unlinked, drops, faults>>

\* The next event: its customer by the map, or by name if it is still listed.
Resolve(e) == LET c == For[e]
              IN /\ engine.pc = "sales" /\ e \in engine.batch
                 /\ IF engine.ids[c] = None /\ c \in list
                    THEN Goes("search", e, None)
                    ELSE Goes("post", e, engine.ids[c])
                 /\ UNCHANGED <<online, till, list, requests, parcels, rows, sold, lost,
                                unlinked, drops, faults>>

\* Found by nobody, or failed: the sale goes out without its customer.
Search == LET e == engine.event
          IN /\ engine.pc = "search"
             /\ \/ /\ \E x \in Found(For[e]) : Goes("post", e, x)
                   /\ UNCHANGED <<faults, unlinked>>
                \/ /\ Fault \/ ((~online \/ Found(For[e]) = {}) /\ UNCHANGED faults)
                   /\ Goes("post", e, None)
                   /\ unlinked' = unlinked \cup {For[e]}
             /\ UNCHANGED <<online, till, list, requests, parcels, rows, sold, lost, drops>>

EndSales == /\ run' = [run EXCEPT !["engine"] = Idle]
            /\ unlinked' = unlinked \cup Mapped(engine.ids)

\* The event gets status s, by the answer to its post or, online, for want of one.
\* Offline only a 2xx counts, which may ask for a review.
Marks(s) ==
  LET e == engine.event
      now == Posted(e, engine.who)
  IN /\ engine.pc = "post"
     /\ IF s = "SYNCED" THEN sold' = now /\ UNCHANGED faults
                        ELSE (online \/ s = "REVIEW") /\ sold' \in {sold, now} /\ Fault
     /\ status' = [status EXCEPT ![e] = s]
     /\ IF engine.batch = {e}
        THEN EndSales
        ELSE /\ run' = [run EXCEPT !["engine"].pc = "sales", !["engine"].event = None,
                                   !["engine"].who = None,
                                   !["engine"].batch = @ \ {e}]
             /\ UNCHANGED unlinked
     /\ UNCHANGED <<online, written, list, requests, parcels, rows, lost, drops>>

\* A failure offline, or the session is over: break.  Without an answer the request is
\* queued offline.
Stops ==
  LET p == <<engine.event, engine.who>>
  IN /\ engine.pc = "post"
     /\ \/ ~online /\ parcels' \in {parcels, parcels \cup {p}} /\ UNCHANGED faults
           /\ sold' \in {sold, Posted(p[1], p[2])}
        \/ online /\ Fault /\ UNCHANGED <<parcels, sold>>
     /\ EndSales
     /\ UNCHANGED <<online, till, list, requests, rows, lost, drops>>

\* The tab is reloaded: both runs are gone, the list is what it was.
Reload == /\ Fault
          /\ run' = [r \in Runs |-> Idle]
          /\ unlinked' = IF engine.pc \in {"sales", "search", "post"}
                         THEN unlinked \cup Mapped(engine.ids) ELSE unlinked
          /\ UNCHANGED <<online, till, list, requests, parcels, rows, sold, lost, drops>>

-----------------------------------------------------------------------------
OfCustomer(r, c) == Create(r, c) \/ Keep(r, c) \/ Break(r, c)

Next == \/ \E c \in Customers : WriteDown(c) \/ FlushCustomer(c) \/ Expire(c)
        \/ \E e \in Events : SaveSale(e) \/ Retry(e) \/ WorkerPost(e) \/ Resolve(e)
        \/ Disconnect \/ Reconnect \/ Reload
        \/ \E p \in parcels : FlushSale(p)
        \/ \E r \in Runs : Begin(r)
        \/ \E r \in Runs, c \in Customers : OfCustomer(r, c)
        \/ Search \/ Stops
        \/ \E s \in {"SYNCED", "REVIEW", "UNSYNCED"} : Marks(s)

Spec == Init /\ [][Next]_vars

-----------------------------------------------------------------------------
(* Properties *)

RunStates == [pc    : {"idle", "customers", "sales", "search", "post"},
              copy  : SUBSET Customers, todo : SUBSET Customers,
              kept  : SUBSET Customers,
              ids   : [Customers -> Parties \cup {None}],
              batch : SUBSET Events, event : Events \cup {None},
              who   : Parties \cup {None}]

\* Every variable keeps its type, a run visits customers only while it has some
\* left, only the loop of sales goes on to the events, and it posts an event of
\* its batch.
TypeOK ==
  /\ online \in BOOLEAN
  /\ written \subseteq Customers /\ list \subseteq written
  /\ run \in [Runs -> RunStates]
  /\ status \in [Events -> {"none", "UNSYNCED", "REVIEW", "SYNCED"}]
  /\ requests \subseteq Customers /\ parcels \subseteq Sold
  /\ rows \subseteq Parties /\ sold \subseteq Sold
  /\ lost \subseteq Customers /\ unlinked \subseteq Customers
  /\ drops \in 0..MaxDrops /\ faults \in 0..MaxFaults
  /\ \A r \in Runs : /\ run[r].pc = "customers" => run[r].todo # {}
                     /\ run[r].pc \in {"sales", "search", "post"} => r = "engine"
  /\ engine.pc \in {"search", "post"} => engine.event \in engine.batch

\* A customer written down offline is on the list, or on the server (itself, or the one
\* whose email or name it has), or its request waits in the queue, or it was lost in one
\* of four ways: a break of the loop before its turn; a break at its turn by an error
\* answer that found the browser offline, or by a token that could not be refreshed; a
\* write of the list over what was added meanwhile; a request that expired.  Two loops
\* over the same list, a reload between the answers and the write of the list, a refusal
\* and an answer that never came lose nobody.
CustomersKept ==
  \A c \in written : c \in list \cup requests \cup lost \/ Taken(c)

\* A sale that reached the server belongs to its customer or to one the search by name
\* may find for it; it has no customer only if nothing at the till resolved the temporary
\* id, for one of these reasons: the search by name failed or found nobody, the loop
\* broke before its turn or at it, the list was written over it, or the map that had it
\* was gone.
SalesKeepCustomers ==
  \A e \in Events, x \in Parties \cup {None} :
    <<e, x>> \in sold => \/ x \in Matches(For[e])
                         \/ x = None /\ For[e] \in unlinked

=============================================================================
