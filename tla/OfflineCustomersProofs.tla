----------------------- MODULE OfflineCustomersProofs -----------------------
(***************************************************************************)
(* Proofs about OfflineCustomers for any customers, sales and bounds, and  *)
(* any customers the server takes for one another.                         *)
(***************************************************************************)
EXTENDS OfflineCustomers, TLAPS

USE PartiesAssumption, BoundsAssumption

Selling == {"sales", "search", "post"}

\* c needs the list no more.
Safe(c) == c \in requests \cup lost \/ Taken(c)

\* The server may sell event e to w.
Fits(e, w) == w \in Matches(For[e]) \/ (w = None /\ For[e] \in unlinked)

\* A caller of syncOfflineCustomers works on a copy of the list.  A customer it
\* is done with is kept or safe, and is kept or has an id in its map unless nothing
\* at the till resolves it.
RunInv(r) ==
  /\ run[r].copy \subseteq written
  /\ run[r].todo \cup run[r].kept \subseteq run[r].copy
  /\ \A c \in Customers : run[r].ids[c] \in {None, c}
  /\ run[r].pc = "customers" =>
       \A c \in run[r].copy \ run[r].todo :
         /\ c \in run[r].kept \/ Safe(c)
         /\ c \in unlinked \/ run[r].ids[c] # None \/ c \in run[r].kept

\* A sale is one of a customer written down, and is posted for one that fits.
SalesInv ==
  /\ engine.pc \in Selling => \A e \in engine.batch : For[e] \in written
  /\ engine.pc = "post" => Fits(engine.event, engine.who)
  /\ \A p \in sold \cup parcels : Fits(p[1], p[2])
  /\ \A e \in Events : status[e] # "none" => For[e] \in written

\* Something resolves a temporary id: the list, or the map of the loop of sales.
LinkInv == \A c \in written \ unlinked :
             c \in list \/ (engine.pc \in Selling /\ engine.ids[c] # None)

IInv == /\ TypeOK
        /\ \A r \in Runs : RunInv(r)
        /\ SalesInv
        /\ LinkInv
        /\ CustomersKept

-----------------------------------------------------------------------------
(* Types *)

Ids == [Customers -> Parties \cup {None}]

LEMMA Constants ==
  /\ None \notin Parties /\ Customers \subseteq Parties /\ House \subseteq Parties
  /\ \A c \in Customers : c # None /\ c \in Matches(c) /\ Matches(c) \subseteq Parties
  /\ \A e \in Events : For[e] \in Customers /\ e # None
BY DEF Parties, Matches

\* The record of a caller, field by field.
LEMMA RunFields ==
  ASSUME TypeOK, NEW r \in Runs
  PROVE  /\ run[r] \in RunStates
         /\ run[r].copy \subseteq Customers /\ run[r].todo \subseteq Customers
         /\ run[r].kept \subseteq Customers
         /\ run[r].ids \in Ids /\ run[r].batch \subseteq Events
         /\ run[r].event \in Events \cup {None} /\ run[r].who \in Parties \cup {None}
BY DEF TypeOK, RunStates, Ids

LEMMA IdleFields ==
  /\ Idle \in RunStates
  /\ Idle.pc = "idle" /\ Idle.copy = {} /\ Idle.todo = {} /\ Idle.kept = {}
  /\ Idle.ids \in Ids /\ \A c \in Customers : Idle.ids[c] = None
  /\ Idle.batch = {} /\ Idle.event = None /\ Idle.who = None
BY DEF Idle, RunStates, Ids

\* What a caller of syncOfflineCustomers does not care about: a larger table,
\* more customers written down, safe or unlinked.
Grows == /\ written \subseteq written' /\ rows \subseteq rows' /\ unlinked \subseteq unlinked'
         /\ \A c \in Customers : Safe(c) => Safe(c)'

LEMMA TakenGrows ==
  ASSUME rows \subseteq rows', NEW c, Taken(c)
  PROVE  Taken(c)'
BY DEF Taken

LEMMA SafeGrows ==
  ASSUME rows \subseteq rows', requests \cup lost \subseteq requests' \cup lost'
  PROVE  \A c : Safe(c) => Safe(c)'
BY DEF Safe, Taken

\* A caller that a step leaves alone.
LEMMA OtherRun ==
  ASSUME IInv, Grows, NEW r \in Runs, run'[r] = run[r]
  PROVE  RunInv(r)'
<1>1. RunInv(r) /\ run[r].copy \subseteq Customers
  BY RunFields DEF IInv
<1> QED BY <1>1 DEF RunInv, Grows

LEMMA FitsGrows ==
  ASSUME unlinked \subseteq unlinked', NEW e, NEW w, Fits(e, w)
  PROVE  Fits(e, w)'
BY DEF Fits, Matches

-----------------------------------------------------------------------------
(* The end of syncOfflineCustomers *)

\* What every step does to the variables that have no part in the argument.
Bounded == /\ online' \in BOOLEAN /\ drops' \in 0..MaxDrops /\ faults' \in 0..MaxFaults

LEMMA FaultBounded ==
  ASSUME TypeOK, Fault \/ UNCHANGED faults
  PROVE  faults' \in 0..MaxFaults
BY DEF TypeOK, Fault

LEMMA ReturnsEffect ==
  ASSUME TypeOK, NEW r \in Runs, NEW ids \in Ids, NEW gone \in SUBSET Customers,
         Returns(r, ids, gone), UNCHANGED status
  PROVE  /\ unlinked \cup gone \subseteq unlinked' /\ unlinked' \subseteq Customers
         /\ run' \in [Runs -> RunStates]
         /\ \A u \in Runs \ {r} : run'[u] = run[u]
         /\ run'[r].copy = {} /\ run'[r].todo = {} /\ run'[r].kept = {}
         /\ \/ run'[r] = Idle /\ \A c \in Customers : ids[c] # None => c \in unlinked'
            \/ /\ r = "engine" /\ run'[r].pc = "sales" /\ run'[r].ids = ids
               /\ run'[r].batch = Unsynced
<1>1. run \in [Runs -> RunStates] /\ unlinked \subseteq Customers
  BY DEF TypeOK
<1>2. Mapped(ids) = {c \in Customers : ids[c] # None}
  BY DEF Mapped
<1>3. CASE r = "engine" /\ Unsynced # {}
  <2> DEFINE x == [Idle EXCEPT !.pc = "sales", !.ids = ids, !.batch = Unsynced]
  <2>1. run' = [run EXCEPT ![r] = x] /\ unlinked' = unlinked \cup gone
    BY <1>3 DEF Returns
  <2>2. /\ x \in RunStates /\ x.copy = {} /\ x.todo = {} /\ x.kept = {}
        /\ x.pc = "sales" /\ x.ids = ids /\ x.batch = Unsynced
    BY DEF Idle, RunStates, Ids, Unsynced
  <2> HIDE DEF x
  <2> QED BY <1>1, <1>3, <2>1, <2>2
<1>4. CASE ~(r = "engine" /\ Unsynced # {})
  <2>1. run' = [run EXCEPT ![r] = Idle] /\ unlinked' = unlinked \cup gone \cup Mapped(ids)
    BY <1>4 DEF Returns
  <2> QED BY <1>1, <1>2, <2>1, IdleFields
<1> QED BY <1>3, <1>4

\* The step that writes the list back keeps the invariant, if each customer of
\* the copy is kept, cut or safe, and is kept, has an id or is gone.
LEMMA WriteBackKeeps ==
  ASSUME IInv, NEW r \in Runs, NEW ids \in Ids, NEW kept, NEW gone, NEW cut,
         run[r].pc = "customers", WriteBack(r, ids, kept, gone, cut), Bounded,
         kept \subseteq run[r].copy, gone \subseteq run[r].copy, cut \subseteq run[r].copy,
         rows \subseteq rows', rows' \subseteq Parties,
         requests \subseteq requests', requests' \subseteq Customers,
         UNCHANGED <<till, parcels, sold>>,
         \A c \in Customers : ids[c] \in {None, c},
         \A c \in run[r].copy : c \in kept \cup cut \/ Safe(c) \/ c \in requests' \/ Taken(c)',
         \A c \in run[r].copy : c \in unlinked \cup gone \/ ids[c] # None \/ c \in kept
  PROVE  IInv'
<1> DEFINE added == list \ run[r].copy
<1>1. /\ TypeOK /\ RunInv(r) /\ SalesInv /\ LinkInv /\ CustomersKept
      /\ run[r].copy \subseteq written /\ written \subseteq Customers
      /\ list \subseteq written /\ lost \subseteq Customers
  BY DEF IInv, RunInv, TypeOK
<1>2. /\ list' = kept /\ lost' = lost \cup added \cup cut
      /\ Returns(r, ids, gone \cup added)
      /\ written' = written /\ status' = status /\ parcels' = parcels /\ sold' = sold
  BY DEF WriteBack, till
<1>3. gone \cup added \in SUBSET Customers
  BY <1>1
<1> HIDE DEF added
<1>4. /\ unlinked \cup gone \cup added \subseteq unlinked' /\ unlinked' \subseteq Customers
      /\ run' \in [Runs -> RunStates]
      /\ \A u \in Runs \ {r} : run'[u] = run[u]
      /\ run'[r].copy = {} /\ run'[r].todo = {} /\ run'[r].kept = {}
      /\ \/ run'[r] = Idle /\ \A c \in Customers : ids[c] # None => c \in unlinked'
         \/ /\ r = "engine" /\ run'[r].pc = "sales" /\ run'[r].ids = ids
            /\ run'[r].batch = Unsynced
  BY <1>1, <1>2, <1>3, ReturnsEffect
<1>5. \A c : Safe(c) => Safe(c)'
  BY <1>2, SafeGrows
<1>6. Grows
  BY <1>2, <1>4, <1>5 DEF Grows
<1>7. RunInv(r)'
  BY <1>4, IdleFields DEF RunInv
<1>8. \A u \in Runs : RunInv(u)'
  BY <1>4, <1>6, <1>7, OtherRun
<1>9. TypeOK'
  <2>1. \A u \in Runs :
          /\ run'[u].pc = "customers" => run'[u].todo # {}
          /\ run'[u].pc \in {"sales", "search", "post"} => u = "engine"
    BY <1>1, <1>4, IdleFields DEF TypeOK
  <2>2. engine'.pc \in {"search", "post"} => engine'.event \in engine'.batch
    BY <1>1, <1>4, IdleFields DEF TypeOK, engine, Runs
  <2>3. /\ list' \subseteq written' /\ lost' \subseteq Customers
        /\ status' \in [Events -> {"none", "UNSYNCED", "REVIEW", "SYNCED"}]
        /\ parcels' \subseteq Sold /\ sold' \subseteq Sold /\ written' \subseteq Customers
    BY <1>1, <1>2 DEF TypeOK, added
  <2>4. online' \in BOOLEAN /\ drops' \in 0..MaxDrops /\ faults' \in 0..MaxFaults
    BY DEF Bounded
  <2> QED BY <1>4, <2>1, <2>2, <2>3, <2>4 DEF TypeOK
<1>10. CustomersKept'
  <2> SUFFICES ASSUME NEW c \in written
               PROVE  c \in list' \cup requests' \cup lost' \/ Taken(c)'
    BY <1>2 DEF CustomersKept
  <2>1. c \in list \/ Safe(c)
    BY <1>1 DEF CustomersKept, Safe
  <2>2. CASE Safe(c)
    BY <1>5, <2>2 DEF Safe
  <2>3. CASE c \in list /\ c \notin run[r].copy
    BY <1>2, <2>3 DEF added
  <2>4. CASE c \in run[r].copy
    <3>1. c \in kept \cup cut \/ Safe(c) \/ c \in requests' \/ Taken(c)'
      BY <2>4
    <3> QED BY <1>2, <2>2, <3>1
  <2> QED BY <2>1, <2>2, <2>3, <2>4
<1>11. ASSUME NEW c \in written \ unlinked'
       PROVE  \/ c \in list'
              \/ r = "engine" /\ run'[r].pc = "sales" /\ run'[r].ids = ids /\ ids[c] # None
              \/ r = "page" /\ engine.pc \in Selling /\ engine.ids[c] # None
  <2>1. c \in list \/ (engine.pc \in Selling /\ engine.ids[c] # None)
    BY <1>1, <1>4, <1>11 DEF LinkInv
  <2>2. c \notin added /\ c \notin gone /\ c \notin unlinked /\ c \in Customers
    BY <1>1, <1>4, <1>11
  <2>3. CASE c \in list
    <3>1. c \in run[r].copy
      BY <2>2, <2>3 DEF added
    <3>2. ids[c] # None \/ c \in kept
      BY <2>2, <3>1
    <3> QED BY <1>2, <1>4, <1>11, <2>2, <3>2
  <2>4. CASE engine.pc \in Selling /\ engine.ids[c] # None
    BY <2>4 DEF Selling, engine, Runs
  <2> QED BY <2>1, <2>3, <2>4
<1>12. LinkInv'
  <2>1. CASE r = "page"
    BY <1>2, <1>4, <1>11, <2>1 DEF LinkInv, engine, Runs
  <2>2. CASE r = "engine"
    BY <1>2, <1>11, <2>2 DEF LinkInv, engine, Selling
  <2> QED BY <2>1, <2>2 DEF Runs
<1>13. SalesInv'
  <2>1. \A p \in sold' \cup parcels' : Fits(p[1], p[2])'
    BY <1>1, <1>2, <1>4, FitsGrows DEF SalesInv
  <2>2. \A e \in Events : status'[e] # "none" => For[e] \in written'
    BY <1>1, <1>2 DEF SalesInv
  <2>3. CASE r = "page"
    BY <1>1, <1>2, <1>4, <2>1, <2>2, <2>3, FitsGrows DEF SalesInv, engine, Runs
  <2>4. CASE r = "engine" /\ run'[r] = Idle
    BY <2>1, <2>2, <2>4, IdleFields DEF SalesInv, engine, Selling
  <2>5. CASE r = "engine" /\ run'[r].pc = "sales" /\ run'[r].ids = ids /\ run'[r].batch = Unsynced
    <3>1. \A e \in Unsynced : For[e] \in written
      BY <1>1 DEF Unsynced, SalesInv
    <3> QED BY <1>2, <2>1, <2>2, <2>5, <3>1 DEF SalesInv, engine, Selling
  <2> QED BY <1>4, <2>3, <2>4, <2>5 DEF Runs
<1> QED BY <1>8, <1>9, <1>10, <1>12, <1>13 DEF IInv

\* The answer for a customer, in the middle of the list or at its end.
LEMMA SettleKeeps ==
  ASSUME IInv, NEW r \in Runs, NEW c \in run[r].todo, NEW ids \in Ids, NEW kept, NEW gone,
         run[r].pc = "customers", Settle(r, c, ids, kept, gone), Bounded,
         run[r].kept \subseteq kept, kept \subseteq run[r].kept \cup {c}, gone \subseteq {c},
         rows \subseteq rows', rows' \subseteq Parties,
         UNCHANGED <<till, requests, parcels, sold>>,
         ids[c] \in {None, c},
         \A d \in Customers \ {c} : ids[d] = run[r].ids[d],
         c \in kept \/ Taken(c)',
         c \in gone \/ ids[c] # None \/ c \in kept
  PROVE  IInv'
<1>1. /\ TypeOK /\ RunInv(r) /\ SalesInv /\ LinkInv /\ CustomersKept
      /\ run[r].todo \cup run[r].kept \subseteq run[r].copy /\ c \in run[r].copy
      /\ run[r].copy \subseteq written /\ written \subseteq Customers
  BY DEF IInv, RunInv, TypeOK
<1>2. \A d \in Customers : ids[d] \in {None, d}
  BY <1>1 DEF RunInv
<1>3. \A d \in run[r].copy \ run[r].todo :
        /\ d \in kept \/ Safe(d)
        /\ d \in unlinked \/ ids[d] # None \/ d \in kept
  BY <1>1 DEF RunInv
<1>4. requests' = requests /\ requests \subseteq Customers
  BY <1>1 DEF TypeOK
<1>5. CASE run[r].todo = {c}
  <2>1. WriteBack(r, ids, kept, gone, {})
    BY <1>5 DEF Settle
  <2>2. kept \subseteq run[r].copy /\ gone \subseteq run[r].copy
    BY <1>1
  <2>3. \A d \in run[r].copy : d \in kept \cup {} \/ Safe(d) \/ d \in requests' \/ Taken(d)'
    BY <1>3, <1>5
  <2>4. \A d \in run[r].copy : d \in unlinked \cup gone \/ ids[d] # None \/ d \in kept
    BY <1>3, <1>5
  <2> QED BY <1>2, <1>4, <2>1, <2>2, <2>3, <2>4, WriteBackKeeps
<1>6. CASE run[r].todo # {c}
  <2> DEFINE x == [run[r] EXCEPT !.ids = ids, !.kept = kept, !.todo = @ \ {c}]
  <2>0. /\ run[r] \in RunStates /\ run[r].copy \subseteq Customers
        /\ run[r].todo \subseteq Customers /\ kept \subseteq Customers
    BY <1>1, RunFields
  <2>1. /\ run' = [run EXCEPT ![r] = x] /\ unlinked' = unlinked \cup gone
        /\ list' = list /\ lost' = lost
    <3>1. run' = [run EXCEPT ![r] = x]
      <4>1. run' = [run EXCEPT ![r].ids = ids, ![r].kept = kept, ![r].todo = @ \ {c}]
        BY <1>6 DEF Settle
      <4> QED BY <1>1, <2>0, <4>1 DEF TypeOK, RunStates
    <3>2. unlinked' = unlinked \cup gone /\ list' = list /\ lost' = lost
      BY <1>6 DEF Settle
    <3> QED BY <3>1, <3>2
  <2>2. /\ x \in RunStates /\ x.pc = "customers" /\ x.copy = run[r].copy
        /\ x.todo = run[r].todo \ {c} /\ x.kept = kept /\ x.ids = ids
    BY <2>0 DEF RunStates, Ids
  <2> HIDE DEF x
  <2>3. /\ run' \in [Runs -> RunStates] /\ run'[r] = x
        /\ \A u \in Runs \ {r} : run'[u] = run[u]
    BY <1>1, <2>1, <2>2 DEF TypeOK
  <2>4. (\A d : Safe(d) => Safe(d)') /\ Grows
    BY <2>1, SafeGrows DEF Grows, till
  <2>5. RunInv(r)'
    <3>1. ASSUME NEW d \in run[r].copy \ (run[r].todo \ {c})
          PROVE  /\ d \in kept \/ Safe(d)'
                 /\ d \in unlinked' \/ ids[d] # None \/ d \in kept
      <4>1. CASE d = c
        BY <2>1, <4>1 DEF Safe
      <4>2. CASE d # c
        BY <1>3, <2>1, <2>4, <4>2
      <4> QED BY <4>1, <4>2
    <3> QED BY <1>1, <1>2, <2>2, <2>3, <3>1 DEF RunInv, till
  <2>6. \A u \in Runs : RunInv(u)'
    BY <2>3, <2>4, <2>5, OtherRun
  <2>7. x.pc \notin Selling /\ run[r].pc \notin Selling /\ x.todo # {}
    BY <1>6, <2>2 DEF Selling
  <2>8. \/ engine' = engine
        \/ r = "engine" /\ engine'.pc = "customers" /\ engine.pc \notin Selling
    BY <2>2, <2>3, <2>7 DEF engine, Runs
  <2>9. TypeOK'
    <3>1. \A u \in Runs :
            /\ run'[u].pc = "customers" => run'[u].todo # {}
            /\ run'[u].pc \in {"sales", "search", "post"} => u = "engine"
      BY <1>1, <2>2, <2>3, <2>7 DEF TypeOK
    <3>2. engine'.pc \in {"search", "post"} => engine'.event \in engine'.batch
      BY <1>1, <2>8 DEF TypeOK
    <3>3. /\ list' \subseteq written' /\ lost' \subseteq Customers
          /\ status' \in [Events -> {"none", "UNSYNCED", "REVIEW", "SYNCED"}]
          /\ parcels' \subseteq Sold /\ sold' \subseteq Sold /\ written' \subseteq Customers
      BY <1>1, <2>1 DEF TypeOK, till
    <3>4. unlinked' \subseteq Customers /\ requests' \subseteq Customers
      BY <1>1, <1>4, <2>1 DEF TypeOK
    <3>5. online' \in BOOLEAN /\ drops' \in 0..MaxDrops /\ faults' \in 0..MaxFaults
      BY DEF Bounded
    <3> QED BY <2>3, <3>1, <3>2, <3>3, <3>4, <3>5 DEF TypeOK
  <2>10. CustomersKept'
    <3> SUFFICES ASSUME NEW d \in written
                 PROVE  d \in list' \cup requests' \cup lost' \/ Taken(d)'
      BY DEF CustomersKept, till
    <3>1. d \in list \/ Safe(d)
      BY <1>1 DEF CustomersKept, Safe
    <3> QED BY <2>1, <2>4, <3>1 DEF Safe
  <2>11. LinkInv'
    BY <1>1, <2>1, <2>8 DEF LinkInv, till, Selling
  <2>12. SalesInv'
    <3>1. \A e, w : Fits(e, w) => Fits(e, w)'
      BY <2>1, FitsGrows
    <3>2. /\ \A p \in sold' \cup parcels' : Fits(p[1], p[2])'
          /\ \A e \in Events : status'[e] # "none" => For[e] \in written'
      BY <1>1, <3>1 DEF SalesInv, till
    <3> QED BY <1>1, <2>1, <2>8, <3>1, <3>2 DEF SalesInv, Selling, till
  <2> QED BY <2>6, <2>9, <2>10, <2>11, <2>12 DEF IInv
<1> QED BY <1>5, <1>6

-----------------------------------------------------------------------------
(* Steps outside syncOfflineCustomers *)

\* A step that leaves both callers alone.
LEMMA QuietKeeps ==
  ASSUME IInv, TypeOK', UNCHANGED <<run, unlinked>>,
         list \subseteq list', written \subseteq written', rows \subseteq rows',
         \A c \in written' \ written : c \in list',
         \A c \in Customers : Safe(c) => Safe(c)',
         \A p \in sold' \cup parcels' : Fits(p[1], p[2]),
         \A e \in Events : status'[e] # "none" => For[e] \in written'
  PROVE  IInv'
<1>1. /\ TypeOK /\ SalesInv /\ LinkInv /\ CustomersKept
      /\ written' \subseteq Customers /\ engine' = engine
  BY DEF IInv, TypeOK, engine
<1>2. \A c \in Customers : Safe(c) => Safe(c)'
  OBVIOUS
<1>3. Grows
  BY <1>2 DEF Grows
<1>4. \A u \in Runs : RunInv(u)'
  BY <1>3, OtherRun
<1>5. CustomersKept'
  <2> SUFFICES ASSUME NEW c \in written'
               PROVE  c \in list' \cup requests' \cup lost' \/ Taken(c)'
    BY DEF CustomersKept
  <2>1. c \in list' \/ Safe(c)
    BY <1>1 DEF CustomersKept, Safe
  <2>2. Safe(c) => Safe(c)'
    BY <1>1, <1>2
  <2> QED BY <2>1, <2>2 DEF Safe
<1>6. LinkInv'
  BY <1>1 DEF LinkInv
<1>7. SalesInv'
  <2>1. \A e, w : Fits(e, w) => Fits(e, w)'
    BY FitsGrows
  <2> QED BY <1>1, <2>1 DEF SalesInv
<1> QED BY <1>4, <1>5, <1>6, <1>7 DEF IInv

\* The loop of sales goes from one of its stages to another.
LEMMA SellingKeeps ==
  ASSUME IInv, TypeOK', UNCHANGED <<written, list, requests, rows, lost>>,
         unlinked \subseteq unlinked', engine.pc \in Selling, engine'.pc \in Selling, run'["page"] = run["page"],
         engine'.copy = engine.copy, engine'.todo = engine.todo, engine'.kept = engine.kept,
         engine'.ids = engine.ids, engine'.batch \subseteq engine.batch,
         engine'.pc = "post" => Fits(engine.event, engine.who)',
         \A p \in sold' \cup parcels' : Fits(p[1], p[2]),
         \A e \in Events : status'[e] # "none" => For[e] \in written'
  PROVE  IInv'
<1>1. /\ TypeOK /\ RunInv("engine") /\ SalesInv /\ LinkInv /\ CustomersKept
      /\ "engine" \in Runs /\ "page" \in Runs
      /\ engine = run["engine"] /\ engine' = run'["engine"]
  BY DEF IInv, Runs, engine
<1>2. Grows
  BY DEF Grows, Safe, Taken
<1>3. RunInv("page")'
  BY <1>1, <1>2, OtherRun
<1>4. RunInv("engine")'
  BY <1>1 DEF RunInv, Selling
<1>5. \A e, w : Fits(e, w) => Fits(e, w)'
  BY FitsGrows
<1>6. SalesInv'
  <2>1. \A e \in engine'.batch : For[e] \in written'
    BY <1>1 DEF SalesInv
  <2> QED BY <1>1, <1>5, <2>1 DEF SalesInv
<1>7. LinkInv'
  BY <1>1 DEF LinkInv
<1>8. CustomersKept'
  BY <1>1 DEF CustomersKept, Taken
<1> QED BY <1>3, <1>4, <1>6, <1>7, <1>8 DEF IInv, Runs

\* The loop of sales ends, or a reload ends both callers: the map is gone.
LEMMA EndKeeps ==
  ASSUME IInv, TypeOK', UNCHANGED <<written, list, requests, rows, lost>>,
         unlinked \subseteq unlinked', \A u \in Runs : run'[u] \in {Idle, run[u]},
         engine' = Idle,
         engine.pc \in Selling => \A c \in Customers : engine.ids[c] # None => c \in unlinked',
         \A p \in sold' \cup parcels' : Fits(p[1], p[2]),
         \A e \in Events : status'[e] # "none" => For[e] \in written'
  PROVE  IInv'
<1>1. /\ TypeOK /\ SalesInv /\ LinkInv /\ CustomersKept /\ written \subseteq Customers
  BY DEF IInv, TypeOK
<1>2. Grows
  BY DEF Grows, Safe, Taken
<1>3. ASSUME NEW u \in Runs PROVE RunInv(u)'
  <2>1. CASE run'[u] = run[u]
    BY <1>2, <2>1, OtherRun
  <2>2. CASE run'[u] = Idle
    BY <2>2, IdleFields DEF RunInv
  <2> QED BY <2>1, <2>2
<1>4. SalesInv'
  <2>1. \A e, w : Fits(e, w) => Fits(e, w)'
    BY FitsGrows
  <2> QED BY <2>1, IdleFields DEF SalesInv, Selling
<1>5. LinkInv'
  BY <1>1, IdleFields DEF LinkInv, Selling
<1>6. CustomersKept'
  BY <1>1 DEF CustomersKept, Taken
<1> QED BY <1>3, <1>4, <1>5, <1>6 DEF IInv

-----------------------------------------------------------------------------
(* The actions *)

LEMMA TillKeeps ==
  ASSUME IInv,
         \/ \E c \in Customers : WriteDown(c) \/ FlushCustomer(c) \/ Expire(c)
         \/ \E e \in Events : SaveSale(e) \/ Retry(e) \/ WorkerPost(e)
         \/ Disconnect \/ Reconnect
         \/ \E p \in parcels : FlushSale(p)
  PROVE  IInv'
<1>1. TypeOK /\ SalesInv
  BY DEF IInv
<1>2. /\ \A p \in sold \cup parcels : Fits(p[1], p[2])
      /\ \A e \in Events : status[e] # "none" => For[e] \in written
  BY <1>1 DEF SalesInv
<1>3. ASSUME NEW c \in Customers, WriteDown(c) PROVE IInv'
  <2>1. TypeOK'
    BY <1>1, <1>3 DEF TypeOK, WriteDown, engine
  <2>2. \A d \in Customers : Safe(d) => Safe(d)'
    BY <1>3 DEF WriteDown, Safe, Taken
  <2> QED BY <1>2, <1>3, <2>1, <2>2, QuietKeeps DEF WriteDown
<1>4. ASSUME NEW c \in Customers, FlushCustomer(c) PROVE IInv'
  <2>1. rows' = Registered(c) /\ c \in Registered(c)
        /\ requests' = requests \ {c} /\ lost' = lost
    BY <1>4 DEF FlushCustomer
  <2>2. rows \subseteq rows' /\ rows' \subseteq rows \cup {c} /\ c \in rows'
    BY <2>1 DEF Registered
  <2>3. TypeOK'
    BY <1>1, <1>4, <2>2, Constants DEF TypeOK, FlushCustomer, till, engine
  <2>4. \A d \in Customers : Safe(d) => Safe(d)'
    BY <2>1, <2>2 DEF Safe, Taken
  <2> QED BY <1>2, <1>4, <2>2, <2>3, <2>4, QuietKeeps DEF FlushCustomer, till
<1>5. ASSUME NEW c \in Customers, Expire(c) PROVE IInv'
  <2>1. TypeOK'
    BY <1>1, <1>5, FaultBounded DEF TypeOK, Expire, till, engine
  <2>2. \A d \in Customers : Safe(d) => Safe(d)'
    BY <1>5 DEF Expire, Safe, Taken
  <2> QED BY <1>2, <1>5, <2>1, <2>2, QuietKeeps DEF Expire, till
<1>6. ASSUME NEW e \in Events, SaveSale(e) \/ Retry(e) \/ WorkerPost(e) PROVE IInv'
  <2>1. /\ faults' \in 0..MaxFaults
        /\ status' \in [Events -> {"none", "UNSYNCED", "REVIEW", "SYNCED"}]
        /\ \A d \in Events : status'[d] # "none" => For[d] \in written
        /\ UNCHANGED <<online, written, list, run, requests, parcels, rows, sold, lost,
                       unlinked, drops>>
    <3>1. faults' \in 0..MaxFaults
      BY <1>1, <1>6, FaultBounded DEF SaveSale, Retry, WorkerPost
    <3>2. \E s \in {"UNSYNCED", "REVIEW"} : status' = [status EXCEPT ![e] = s]
      BY <1>6 DEF SaveSale, Retry, WorkerPost
    <3>3. status[e] # "none" \/ For[e] \in written
      BY <1>6 DEF SaveSale, Retry, WorkerPost
    <3>4. UNCHANGED <<online, written, list, run, requests, parcels, rows, sold, lost,
                      unlinked, drops>>
      BY <1>6 DEF SaveSale, Retry, WorkerPost
    <3> QED BY <1>1, <1>2, <3>1, <3>2, <3>3, <3>4 DEF TypeOK
  <2>2. TypeOK'
    BY <1>1, <2>1 DEF TypeOK, engine
  <2>3. \A d \in Customers : Safe(d) => Safe(d)'
    BY <2>1 DEF Safe, Taken
  <2> QED BY <1>2, <2>1, <2>2, <2>3, QuietKeeps
<1>7. ASSUME Disconnect \/ Reconnect PROVE IInv'
  <2>1. TypeOK'
    <3>1. online' \in BOOLEAN /\ drops' \in 0..MaxDrops /\ faults' \in 0..MaxFaults
      <4>1. /\ drops \in 0..MaxDrops /\ faults' = faults /\ faults \in 0..MaxFaults
            /\ drops' = drops \/ (drops < MaxDrops /\ drops' = drops + 1)
        BY <1>1, <1>7 DEF TypeOK, Disconnect, Reconnect
      <4>2. online' \in BOOLEAN
        BY <1>7 DEF Disconnect, Reconnect
      <4> QED BY <4>1, <4>2
    <3>2. UNCHANGED <<till, list, run, requests, parcels, rows, sold, lost, unlinked>>
      BY <1>7 DEF Disconnect, Reconnect
    <3> QED BY <1>1, <3>1, <3>2 DEF TypeOK, till, engine
  <2>2. UNCHANGED <<till, list, run, requests, parcels, rows, sold, lost, unlinked>>
    BY <1>7 DEF Disconnect, Reconnect
  <2>3. \A d \in Customers : Safe(d) => Safe(d)'
    BY <2>2 DEF Safe, Taken
  <2> QED BY <1>2, <2>1, <2>2, <2>3, QuietKeeps DEF till
<1>8. ASSUME NEW p \in parcels, FlushSale(p) PROVE IInv'
  <2>1. p \in Sold
    BY <1>1 DEF TypeOK
  <2>2. sold' \subseteq sold \cup {p}
    BY <1>8, <2>1 DEF FlushSale, Posted, Sold
  <2>3. TypeOK'
    BY <1>1, <1>8, <2>1, <2>2 DEF TypeOK, FlushSale, till, engine
  <2>4. \A d \in Customers : Safe(d) => Safe(d)'
    BY <1>8 DEF FlushSale, Safe, Taken
  <2>5. \A q \in sold' \cup parcels' : Fits(q[1], q[2])
    BY <1>2, <1>8, <2>2 DEF FlushSale
  <2> QED BY <1>2, <1>8, <2>3, <2>4, <2>5, QuietKeeps DEF FlushSale, till
<1> QED BY <1>3, <1>4, <1>5, <1>6, <1>7, <1>8

\* The stages of syncOfflineCustomers before its end.
LEMMA BeginKeeps ==
  ASSUME IInv, NEW r \in Runs, Begin(r)
  PROVE  IInv'
<1>1. /\ TypeOK /\ SalesInv /\ LinkInv /\ CustomersKept /\ RunInv(r)
      /\ written \subseteq Customers /\ list \subseteq written
      /\ run \in [Runs -> RunStates] /\ run[r].pc = "idle"
      /\ UNCHANGED <<online, till, list, requests, parcels, rows, sold, lost, drops, faults>>
  BY DEF IInv, TypeOK, Begin
<1>2. (\A c \in Customers : Safe(c) => Safe(c)') /\ CustomersKept'
  BY <1>1 DEF Safe, Taken, CustomersKept, till
<1>3. /\ Bounded /\ list' \subseteq written' /\ written' \subseteq Customers
      /\ status' \in [Events -> {"none", "UNSYNCED", "REVIEW", "SYNCED"}]
      /\ requests' \subseteq Customers /\ parcels' \subseteq Sold
      /\ rows' \subseteq Parties /\ sold' \subseteq Sold /\ lost' \subseteq Customers
  BY <1>1 DEF TypeOK, Bounded, till
<1>4. CASE list # {}
  <2> DEFINE x == [Idle EXCEPT !.pc = "customers", !.copy = list, !.todo = list]
  <2>1. run' = [run EXCEPT ![r] = x] /\ unlinked' = unlinked
    BY <1>4 DEF Begin
  <2>2. /\ x \in RunStates /\ x.pc = "customers" /\ x.copy = list /\ x.todo = list
        /\ x.kept = {} /\ \A c \in Customers : x.ids[c] = None
    BY <1>1, IdleFields DEF RunStates, Idle
  <2> HIDE DEF x
  <2>3. /\ run' \in [Runs -> RunStates] /\ run'[r] = x
        /\ \A u \in Runs \ {r} : run'[u] = run[u]
    BY <1>1, <2>1, <2>2
  <2>4. Grows
    BY <1>1, <1>2, <2>1 DEF Grows, till
  <2>5. RunInv(r)'
    BY <1>1, <2>2, <2>3 DEF RunInv, till
  <2>6. \A u \in Runs : RunInv(u)'
    BY <2>3, <2>4, <2>5, OtherRun
  <2>7. \/ engine' = engine
        \/ engine'.pc = "customers" /\ engine.pc = "idle"
    BY <1>1, <2>2, <2>3 DEF engine, Runs
  <2>8. TypeOK'
    <3>1. \A u \in Runs :
            /\ run'[u].pc = "customers" => run'[u].todo # {}
            /\ run'[u].pc \in {"sales", "search", "post"} => u = "engine"
      BY <1>1, <1>4, <2>2, <2>3 DEF TypeOK
    <3>2. engine'.pc \in {"search", "post"} => engine'.event \in engine'.batch
      BY <1>1, <2>7 DEF TypeOK
    <3>3. unlinked' \subseteq Customers
      BY <1>1, <2>1 DEF TypeOK
    <3> QED BY <1>3, <2>3, <3>1, <3>2, <3>3 DEF TypeOK, Bounded
  <2>9. LinkInv'
    BY <1>1, <2>1, <2>7 DEF LinkInv, till, Selling
  <2>10. SalesInv'
    <3>1. \A e, w : Fits(e, w) => Fits(e, w)'
      BY <2>1, FitsGrows
    <3> QED BY <1>1, <2>1, <2>7, <3>1 DEF SalesInv, till, Selling
  <2> QED BY <1>2, <2>6, <2>8, <2>9, <2>10 DEF IInv
<1>5. CASE list = {}
  <2>0. Idle.ids \in Ids /\ {} \in SUBSET Customers /\ status' = status
        /\ Returns(r, Idle.ids, {})
    BY <1>1, <1>5, IdleFields DEF Begin, till
  <2>1. /\ unlinked \subseteq unlinked' /\ unlinked' \subseteq Customers
        /\ run' \in [Runs -> RunStates]
        /\ \A u \in Runs \ {r} : run'[u] = run[u]
        /\ run'[r].copy = {} /\ run'[r].todo = {} /\ run'[r].kept = {}
        /\ \/ run'[r] = Idle
           \/ /\ r = "engine" /\ run'[r].pc = "sales" /\ run'[r].ids = Idle.ids
              /\ run'[r].batch = Unsynced
    BY <1>1, <2>0, ReturnsEffect
  <2>2. Grows
    BY <1>1, <1>2, <2>1 DEF Grows, till
  <2>3. RunInv(r)'
    BY <2>1, IdleFields DEF RunInv
  <2>4. \A u \in Runs : RunInv(u)'
    BY <2>1, <2>2, <2>3, OtherRun
  <2>5. TypeOK'
    <3>1. \A u \in Runs :
            /\ run'[u].pc = "customers" => run'[u].todo # {}
            /\ run'[u].pc \in {"sales", "search", "post"} => u = "engine"
      BY <1>1, <2>1, IdleFields DEF TypeOK
    <3>2. engine'.pc \in {"search", "post"} => engine'.event \in engine'.batch
      BY <1>1, <2>1, IdleFields DEF TypeOK, engine, Runs
    <3> QED BY <1>3, <2>1, <3>1, <3>2 DEF TypeOK, Bounded
  <2>6. r = "engine" => written \subseteq unlinked
    BY <1>1, <1>5 DEF LinkInv, engine, Selling
  <2>7. r = "page" => engine' = engine
    BY <2>1 DEF engine, Runs
  <2>8. LinkInv'
    BY <1>1, <1>5, <2>1, <2>6, <2>7 DEF LinkInv, till, Runs
  <2>9. SalesInv'
    <3>1. \A e, w : Fits(e, w) => Fits(e, w)'
      BY <2>1, FitsGrows
    <3>2. /\ \A p \in sold' \cup parcels' : Fits(p[1], p[2])'
          /\ \A e \in Events : status'[e] # "none" => For[e] \in written'
      BY <1>1, <3>1 DEF SalesInv, till
    <3>3. CASE r = "page"
      BY <1>1, <2>1, <2>7, <3>1, <3>2, <3>3 DEF SalesInv, till
    <3>4. CASE r = "engine"
      <4>1. \A e \in Unsynced : For[e] \in written
        BY <1>1 DEF Unsynced, SalesInv
      <4>2. engine' = run'["engine"]
        BY DEF engine
      <4> QED BY <1>1, <2>1, <2>6, <3>2, <3>4, <4>1, <4>2, IdleFields DEF SalesInv, Selling, till
    <3> QED BY <3>3, <3>4 DEF Runs
  <2> QED BY <1>2, <2>4, <2>5, <2>8, <2>9 DEF IInv
<1> QED BY <1>4, <1>5

LEMMA CustomerKeeps ==
  ASSUME IInv, NEW r \in Runs, NEW c \in Customers, OfCustomer(r, c)
  PROVE  IInv'
<1>1. /\ TypeOK /\ RunInv(r) /\ rows \subseteq Parties /\ requests \subseteq Customers
      /\ online \in BOOLEAN /\ drops \in 0..MaxDrops /\ faults \in 0..MaxFaults
      /\ run[r].todo \cup run[r].kept \subseteq run[r].copy /\ run[r].ids \in Ids
      /\ run[r].kept \subseteq Customers
      /\ \A d \in Customers : run[r].ids[d] \in {None, d}
  BY RunFields DEF IInv, TypeOK, RunInv
<1>2. /\ Registered(c) \subseteq Parties /\ rows \subseteq Registered(c)
      /\ c \in Parties /\ c # None
  BY <1>1, Constants DEF Registered
<1>3. CASE Create(r, c)
  <2> DEFINE ids == [run[r].ids EXCEPT ![c] = c]
  <2>1. /\ c \in run[r].todo /\ run[r].pc = "customers" /\ rows' = rows \cup {c}
        /\ Settle(r, c, ids, run[r].kept, {})
        /\ UNCHANGED <<online, till, requests, parcels, sold, drops, faults>>
    BY <1>3 DEF Create, Visits, Registered
  <2>2. /\ ids \in Ids /\ ids[c] = c /\ \A d \in Customers \ {c} : ids[d] = run[r].ids[d]
    BY <1>1, <1>2 DEF Ids
  <2>3. Taken(c)' /\ rows \subseteq rows' /\ rows' \subseteq Parties /\ Bounded
    BY <1>1, <1>2, <2>1 DEF Taken, Bounded
  <2> HIDE DEF ids
  <2> QED BY <1>2, <2>1, <2>2, <2>3, SettleKeeps
<1>4. ASSUME Refuses(c)
      PROVE  rows \subseteq rows' /\ rows' \subseteq Parties /\ (Fault \/ UNCHANGED faults)
  BY <1>1, <1>2, <1>4 DEF Refuses
<1>5. CASE Keep(r, c)
  <2> DEFINE kept == run[r].kept \cup {c}
  <2>1. /\ c \in run[r].todo /\ run[r].pc = "customers" /\ Refuses(c)
        /\ Settle(r, c, run[r].ids, kept, {})
        /\ UNCHANGED <<online, till, requests, parcels, sold, drops>>
    BY <1>5 DEF Keep, Visits
  <2>2. Bounded
    BY <1>1, <1>4, <2>1, FaultBounded DEF Bounded
  <2>3. run[r].kept \subseteq kept /\ kept \subseteq run[r].kept \cup {c} /\ c \in kept
    OBVIOUS
  <2> HIDE DEF kept
  <2>4. run[r].ids[c] \in {None, c}
    BY <1>1
  <2> QED BY <1>1, <1>4, <2>1, <2>2, <2>3, <2>4, SettleKeeps
<1>6. CASE Break(r, c)
  <2>1. /\ c \in run[r].todo /\ run[r].pc = "customers"
        /\ UNCHANGED <<online, till, parcels, sold, drops>>
        /\ rows' \in {rows, Registered(c)} /\ (Fault \/ UNCHANGED faults)
        /\ \E cut : /\ WriteBack(r, run[r].ids, run[r].kept, run[r].todo, cut)
                    /\ \/ requests' = requests \cup {c} /\ cut = run[r].todo \ {c}
                       \/ requests' = requests /\ cut = run[r].todo
    BY <1>6 DEF Break, Visits, Refuses
  <2>2. PICK cut : /\ WriteBack(r, run[r].ids, run[r].kept, run[r].todo, cut)
                   /\ \/ requests' = requests \cup {c} /\ cut = run[r].todo \ {c}
                      \/ requests' = requests /\ cut = run[r].todo
    BY <2>1
  <2>3. rows \subseteq rows' /\ rows' \subseteq Parties
    BY <1>1, <1>2, <2>1
  <2>4. Bounded
    BY <1>1, <2>1, FaultBounded DEF Bounded
  <2>5. \A d \in run[r].copy :
          d \in run[r].kept \cup cut \/ Safe(d) \/ d \in requests' \/ Taken(d)'
    BY <1>1, <2>1, <2>2 DEF RunInv
  <2>6. \A d \in run[r].copy :
          d \in unlinked \cup run[r].todo \/ run[r].ids[d] # None \/ d \in run[r].kept
    BY <1>1, <2>1 DEF RunInv
  <2>7. /\ run[r].kept \subseteq run[r].copy /\ run[r].todo \subseteq run[r].copy
        /\ cut \subseteq run[r].copy
        /\ requests \subseteq requests' /\ requests' \subseteq Customers
    BY <1>1, <2>1, <2>2
  <2> QED BY <1>1, <2>1, <2>2, <2>3, <2>4, <2>5, <2>6, <2>7, WriteBackKeeps
<1> QED BY <1>3, <1>5, <1>6 DEF OfCustomer

\* The loop of sales after the customers, and a reload.
LEMMA SalesKeeps ==
  ASSUME IInv,
         \/ \E e \in Events : Resolve(e)
         \/ Search \/ Stops \/ Reload
         \/ \E s \in {"SYNCED", "REVIEW", "UNSYNCED"} : Marks(s)
  PROVE  IInv'
<1>1. /\ TypeOK /\ SalesInv /\ LinkInv /\ "engine" \in Runs /\ "page" \in Runs
      /\ engine = run["engine"] /\ engine' = run'["engine"]
      /\ engine \in RunStates /\ engine.ids \in Ids /\ engine.batch \subseteq Events
      /\ run \in [Runs -> RunStates] /\ Mapped(engine.ids) \subseteq Customers
      /\ Mapped(engine.ids) = {c \in Customers : engine.ids[c] # None}
      /\ \A c \in Customers : engine.ids[c] \in {None, c}
  <2>1. TypeOK /\ SalesInv /\ LinkInv /\ RunInv("engine")
    BY DEF IInv, Runs
  <2>2. "engine" \in Runs /\ "page" \in Runs /\ run \in [Runs -> RunStates]
    BY <2>1 DEF Runs, TypeOK
  <2>3. engine = run["engine"] /\ engine' = run'["engine"]
    BY DEF engine
  <2>4. engine \in RunStates /\ engine.ids \in Ids /\ engine.batch \subseteq Events
    BY <2>1, <2>2, <2>3, RunFields
  <2>5. \A c \in Customers : engine.ids[c] \in {None, c}
    BY <2>1, <2>3 DEF RunInv
  <2> QED BY <2>1, <2>2, <2>3, <2>4, <2>5 DEF Mapped
<1>2. /\ \A p \in sold \cup parcels : Fits(p[1], p[2])
      /\ \A e \in Events : status[e] # "none" => For[e] \in written
      /\ engine.pc \in Selling => \A e \in engine.batch : For[e] \in written
      /\ engine.pc = "post" => Fits(engine.event, engine.who)
      /\ engine.pc \in {"search", "post"} => engine.event \in engine.batch
  BY <1>1 DEF SalesInv, TypeOK
\* From one stage to another.
<1>3. ASSUME NEW pc \in Selling, NEW e \in engine.batch, NEW w \in Parties \cup {None},
             Goes(pc, e, w), engine.pc \in Selling, pc = "post" => Fits(e, w)',
             faults' \in 0..MaxFaults,
             unlinked \subseteq unlinked', unlinked' \subseteq Customers,
             UNCHANGED <<online, till, list, requests, parcels, rows, sold, lost, drops>>
      PROVE  IInv'
  <2> DEFINE x == [engine EXCEPT !.pc = pc, !.event = e, !.who = w]
  <2>1. run' = [run EXCEPT !["engine"] = x]
    BY <1>1, <1>3 DEF Goes
  <2>2. /\ x \in RunStates /\ x.pc = pc /\ x.event = e /\ x.who = w
        /\ x.copy = engine.copy /\ x.todo = engine.todo /\ x.kept = engine.kept
        /\ x.ids = engine.ids /\ x.batch = engine.batch
    <3>1. e \in Events
      BY <1>1
    <3> QED BY <1>1, <3>1 DEF RunStates, Selling
  <2> HIDE DEF x
  <2>3. /\ run' \in [Runs -> RunStates] /\ engine' = x /\ run'["page"] = run["page"]
    BY <1>1, <2>1, <2>2
  <2>4. TypeOK'
    <3>1. \A u \in Runs :
            /\ run'[u].pc = "customers" => run'[u].todo # {}
            /\ run'[u].pc \in {"sales", "search", "post"} => u = "engine"
      BY <1>1, <2>2, <2>3 DEF TypeOK, Runs, Selling
    <3>2. engine'.pc \in {"search", "post"} => engine'.event \in engine'.batch
      BY <2>2, <2>3
    <3> QED BY <1>1, <1>3, <2>3, <3>1, <3>2 DEF TypeOK, till
  <2>5. UNCHANGED <<written, status, list, requests, parcels, rows, sold, lost>>
    BY <1>3 DEF till
  <2>6. engine'.pc = "post" => Fits(engine.event, engine.who)'
    BY <1>3, <2>2, <2>3 DEF Fits
  <2> QED BY <1>2, <1>3, <2>2, <2>3, <2>4, <2>5, <2>6, SellingKeeps
<1>4. ASSUME NEW e \in Events, Resolve(e) PROVE IInv'
  <2>1. /\ engine.pc = "sales" /\ e \in engine.batch /\ For[e] \in Customers
        /\ UNCHANGED <<online, till, list, requests, parcels, rows, sold, lost, unlinked, drops>>
        /\ faults' \in 0..MaxFaults /\ unlinked' \subseteq Customers
    BY <1>1, <1>4, Constants DEF Resolve, TypeOK
  <2>2. CASE Goes("search", e, None)
    BY <1>3, <2>1, <2>2 DEF Selling
  <2>3. CASE /\ Goes("post", e, engine.ids[For[e]])
             /\ ~(engine.ids[For[e]] = None /\ For[e] \in list)
    <3>1. engine.ids[For[e]] \in Parties \cup {None}
      BY <1>1, <2>1 DEF Ids
    <3>2. engine.ids[For[e]] = None => For[e] \in unlinked
      BY <1>1, <1>2, <2>1, <2>3 DEF LinkInv, Selling
    <3>3. engine.ids[For[e]] # None => engine.ids[For[e]] \in Matches(For[e])
      BY <1>1, <2>1, Constants
    <3>4. Fits(e, engine.ids[For[e]])
      BY <3>2, <3>3 DEF Fits
    <3> DEFINE w == engine.ids[For[e]]
    <3>5. \A x : Fits(e, x) => Fits(e, x)'
      BY <2>1, FitsGrows
    <3> QED BY <1>3, <2>1, <2>3, <3>1, <3>4, <3>5 DEF Selling
  <2> QED BY <1>4, <2>2, <2>3 DEF Resolve
<1>5. ASSUME Search PROVE IInv'
  <2>0. PICK e \in Events : e = engine.event /\ e \in engine.batch
    BY <1>1, <1>2, <1>5 DEF Search
  <2>1. /\ engine.pc = "search" /\ For[e] \in Customers
        /\ UNCHANGED <<online, till, list, requests, parcels, rows, sold, lost, drops>>
        /\ unlinked' \in {unlinked, unlinked \cup {For[e]}} /\ (Fault \/ UNCHANGED faults)
    BY <1>5, <2>0, Constants DEF Search
  <2>2. \E w \in Parties \cup {None} : Goes("post", e, w) /\ Fits(e, w)'
    <3>1. \/ \E x \in Found(For[e]) : Goes("post", e, x)
          \/ Goes("post", e, None) /\ For[e] \in unlinked'
      BY <1>5, <2>0 DEF Search
    <3>2. Found(For[e]) \subseteq Parties \cap Matches(For[e])
      BY <2>1, Constants DEF Found
    <3>3. \A x \in Found(For[e]) : Fits(e, x)'
      BY <3>2 DEF Fits, Matches
    <3>4. For[e] \in unlinked' => Fits(e, None)'
      BY DEF Fits
    <3> QED BY <3>1, <3>2, <3>3, <3>4
  <2>3. PICK w \in Parties \cup {None} : Goes("post", e, w) /\ Fits(e, w)'
    BY <2>2
  <2>4. faults' \in 0..MaxFaults /\ unlinked' \subseteq Customers
    BY <1>1, <2>1, FaultBounded DEF TypeOK
  <2> QED BY <1>3, <2>0, <2>1, <2>3, <2>4 DEF Selling
\* The end.
<1>6. ASSUME EndSales, engine.pc \in Selling, UNCHANGED <<written, list, requests, rows, lost>>,
             Bounded, sold' \subseteq Sold, parcels' \subseteq Sold,
             status' \in [Events -> {"none", "UNSYNCED", "REVIEW", "SYNCED"}],
             \A p \in sold' \cup parcels' : Fits(p[1], p[2]),
             \A e \in Events : status'[e] # "none" => For[e] \in written
      PROVE  IInv'
  <2>1. /\ run' = [run EXCEPT !["engine"] = Idle] /\ unlinked' = unlinked \cup Mapped(engine.ids)
    BY <1>6 DEF EndSales
  <2>2. /\ run' \in [Runs -> RunStates] /\ engine' = Idle
        /\ \A u \in Runs : run'[u] \in {Idle, run[u]}
    BY <1>1, <2>1, IdleFields
  <2>3. TypeOK'
    <3>1. \A u \in Runs :
            /\ run'[u].pc = "customers" => run'[u].todo # {}
            /\ run'[u].pc \in {"sales", "search", "post"} => u = "engine"
      BY <1>1, <2>2, IdleFields DEF TypeOK
    <3>2. engine'.pc \notin {"search", "post"}
      BY <2>2, IdleFields
    <3>3. unlinked' \subseteq Customers
      BY <1>1, <2>1 DEF TypeOK
    <3> QED BY <1>1, <1>6, <2>2, <3>1, <3>2, <3>3 DEF TypeOK, Bounded
  <2>4. unlinked \subseteq unlinked' /\ \A c \in Customers : engine.ids[c] # None => c \in unlinked'
    BY <1>1, <2>1
  <2>5. \A e \in Events : status'[e] # "none" => For[e] \in written'
    BY <1>6
  <2> QED BY <1>6, <2>2, <2>3, <2>4, <2>5, EndKeeps
<1>7. ASSUME engine.pc = "post", NEW more \in {sold, Posted(engine.event, engine.who)}
      PROVE  /\ more \subseteq Sold /\ \A p \in more : Fits(p[1], p[2])
             /\ <<engine.event, engine.who>> \in Sold
             /\ Fits(engine.event, engine.who)
  <2>1. /\ engine.event \in Events /\ engine.who \in Parties \cup {None}
        /\ Fits(engine.event, engine.who) /\ sold \subseteq Sold
    BY <1>1, <1>2, <1>7 DEF RunStates, TypeOK
  <2>2. <<engine.event, engine.who>> \in Sold
    BY <2>1 DEF Sold
  <2>3. more \subseteq sold \cup {<<engine.event, engine.who>>}
    BY <1>7 DEF Posted
  <2> QED BY <1>2, <2>1, <2>2, <2>3
<1>8. ASSUME NEW s \in {"SYNCED", "REVIEW", "UNSYNCED"}, Marks(s) PROVE IInv'
  <2>1. /\ engine.pc = "post" /\ sold' \in {sold, Posted(engine.event, engine.who)}
        /\ (Fault \/ UNCHANGED faults)
        /\ status' = [status EXCEPT ![engine.event] = s]
        /\ UNCHANGED <<online, written, list, requests, parcels, rows, lost, drops>>
    BY <1>8 DEF Marks
  <2>2. /\ engine.event \in engine.batch /\ engine.event \in Events /\ parcels' \subseteq Sold
        /\ sold' \subseteq Sold /\ \A p \in sold' \cup parcels' : Fits(p[1], p[2])
    BY <1>1, <1>2, <1>7, <2>1 DEF TypeOK
  <2>3. For[engine.event] \in written
    BY <1>2, <2>1, <2>2 DEF Selling
  <2>4. /\ status' \in [Events -> {"none", "UNSYNCED", "REVIEW", "SYNCED"}]
        /\ \A e \in Events : status'[e] # "none" => For[e] \in written
    BY <1>1, <1>2, <2>1, <2>3 DEF TypeOK
  <2>5. Bounded
    BY <1>1, <2>1, FaultBounded DEF Bounded, TypeOK
  <2>6. CASE EndSales
    BY <1>6, <2>1, <2>2, <2>4, <2>5, <2>6 DEF Selling
  <2>7. CASE /\ run' = [run EXCEPT !["engine"].pc = "sales", !["engine"].event = None,
                                   !["engine"].who = None,
                                   !["engine"].batch = @ \ {engine.event}]
             /\ UNCHANGED unlinked
    <3> DEFINE x == [engine EXCEPT !.pc = "sales", !.event = None, !.who = None,
                                   !.batch = @ \ {engine.event}]
    <3>1. run' = [run EXCEPT !["engine"] = x]
      BY <1>1, <2>7
    <3>2. /\ x \in RunStates /\ x.pc = "sales" /\ x.copy = engine.copy
          /\ x.todo = engine.todo /\ x.kept = engine.kept /\ x.ids = engine.ids
          /\ x.batch \subseteq engine.batch
      BY <1>1 DEF RunStates
    <3> HIDE DEF x
    <3>3. /\ run' \in [Runs -> RunStates] /\ engine' = x /\ run'["page"] = run["page"]
      BY <1>1, <3>1, <3>2
    <3>4. TypeOK'
      <4>1. \A u \in Runs :
              /\ run'[u].pc = "customers" => run'[u].todo # {}
              /\ run'[u].pc \in {"sales", "search", "post"} => u = "engine"
        BY <1>1, <3>2, <3>3 DEF TypeOK, Runs
      <4>2. engine'.pc \notin {"search", "post"}
        BY <3>2, <3>3
      <4> QED BY <1>1, <2>1, <2>2, <2>4, <2>5, <2>7, <3>3, <4>1, <4>2 DEF TypeOK, Bounded
    <3>5. \A e \in Events : status'[e] # "none" => For[e] \in written'
      BY <2>1, <2>4
    <3>6. engine.pc \in Selling /\ engine'.pc \in Selling
      BY <2>1, <3>2, <3>3 DEF Selling
    <3> QED BY <2>1, <2>2, <2>7, <3>2, <3>3, <3>4, <3>5, <3>6, SellingKeeps
  <2> QED BY <1>8, <2>6, <2>7 DEF Marks
<1>9. ASSUME Stops PROVE IInv'
  <2>1. /\ engine.pc = "post" /\ sold' \in {sold, Posted(engine.event, engine.who)}
        /\ (Fault \/ UNCHANGED faults) /\ EndSales
        /\ parcels' \subseteq parcels \cup {<<engine.event, engine.who>>}
        /\ UNCHANGED <<online, till, list, requests, rows, lost, drops>>
    BY <1>9 DEF Stops
  <2>2. /\ sold' \subseteq Sold /\ parcels' \subseteq Sold
        /\ \A p \in sold' \cup parcels' : Fits(p[1], p[2])
    <3>1. \A p \in parcels' : p \in parcels \/ (p[1] = engine.event /\ p[2] = engine.who)
      BY <2>1
    <3> QED BY <1>1, <1>2, <1>7, <2>1, <3>1 DEF TypeOK
  <2>3. /\ Bounded /\ engine.pc \in Selling
        /\ status' \in [Events -> {"none", "UNSYNCED", "REVIEW", "SYNCED"}]
        /\ \A e \in Events : status'[e] # "none" => For[e] \in written
    BY <1>1, <1>2, <2>1, FaultBounded DEF Bounded, TypeOK, till, Selling
  <2> QED BY <1>6, <2>1, <2>2, <2>3 DEF till
<1>10. ASSUME Reload PROVE IInv'
  <2>1. /\ Fault /\ run' = [r \in Runs |-> Idle]
        /\ unlinked' = IF engine.pc \in Selling THEN unlinked \cup Mapped(engine.ids) ELSE unlinked
        /\ UNCHANGED <<online, till, list, requests, parcels, rows, sold, lost, drops>>
    BY <1>10 DEF Reload, Selling
  <2>2. faults' \in 0..MaxFaults
    BY <1>1, <2>1, FaultBounded
  <2>3. /\ run' \in [Runs -> RunStates] /\ engine' = Idle
        /\ \A u \in Runs : run'[u] = Idle
    BY <1>1, <2>1, IdleFields
  <2>4. TypeOK'
    <3>1. \A u \in Runs :
            /\ run'[u].pc = "customers" => run'[u].todo # {}
            /\ run'[u].pc \in {"sales", "search", "post"} => u = "engine"
      BY <2>3, IdleFields
    <3>2. engine'.pc \notin {"search", "post"}
      BY <2>3, IdleFields
    <3>3. unlinked' \subseteq Customers
      BY <1>1, <2>1 DEF TypeOK
    <3> QED BY <1>1, <2>1, <2>2, <2>3, <3>1, <3>2, <3>3 DEF TypeOK, till
  <2>5. /\ unlinked \subseteq unlinked'
        /\ engine.pc \in Selling => \A c \in Customers : engine.ids[c] # None => c \in unlinked'
    BY <1>1, <2>1
  <2>6. UNCHANGED <<written, status, list, requests, parcels, rows, sold, lost>>
    BY <2>1 DEF till
  <2> QED BY <1>2, <2>3, <2>4, <2>5, <2>6, EndKeeps
<1> QED BY <1>4, <1>5, <1>8, <1>9, <1>10

-----------------------------------------------------------------------------
(* The theorems *)

LEMMA InitIInv == Init => IInv
<1> SUFFICES ASSUME Init PROVE IInv
  OBVIOUS
<1>1. TypeOK
  BY Constants, IdleFields DEF Init, TypeOK, engine, Runs
<1>2. \A r \in Runs : RunInv(r)
  BY IdleFields DEF Init, RunInv
<1>3. SalesInv /\ LinkInv /\ CustomersKept
  BY IdleFields DEF Init, SalesInv, LinkInv, CustomersKept, engine, Selling, Runs
<1> QED BY <1>1, <1>2, <1>3 DEF IInv

LEMMA NextIInv == IInv /\ [Next]_vars => IInv'
<1> SUFFICES ASSUME IInv, [Next]_vars PROVE IInv'
  OBVIOUS
<1>1. CASE Next
  BY <1>1, TillKeeps, SalesKeeps, BeginKeeps, CustomerKeeps DEF Next
<1>2. CASE UNCHANGED vars
  <2>1. TypeOK'
    BY <1>2 DEF IInv, TypeOK, vars, till, engine
  <2>2. \A c \in Customers : Safe(c) => Safe(c)'
    BY <1>2 DEF vars, till, Safe, Taken
  <2> QED BY <1>2, <2>1, <2>2, QuietKeeps DEF IInv, SalesInv, vars, till
<1> QED BY <1>1, <1>2

THEOREM Invariance == Spec => []IInv
BY InitIInv, NextIInv, PTL DEF Spec

\* The types of the till, of the two callers and of the server's tables.
THEOREM TypeCorrect == Spec => []TypeOK
<1>1. IInv => TypeOK
  BY DEF IInv
<1> QED BY <1>1, Invariance, PTL

\* Whatever the two loops, a reload and a dropped connection do, a customer
\* written down offline is listed, registered, queued, or lost as the code
\* loses it: by a break, an overwritten list or an expired request.
THEOREM CustomersAlwaysKept == Spec => []CustomersKept
<1>1. IInv => CustomersKept
  BY DEF IInv
<1> QED BY <1>1, Invariance, PTL

\* A sale has its customer, or one the server takes for it, unless nothing at
\* the till could resolve the temporary id any more.
THEOREM SalesAlwaysKeepCustomers == Spec => []SalesKeepCustomers
<1>1. IInv => SalesKeepCustomers
  BY DEF IInv, SalesInv, SalesKeepCustomers, Fits
<1> QED BY <1>1, Invariance, PTL

=============================================================================
