------------------------- MODULE CheckReplayProofs -------------------------
(* That the table of CheckReplay settles, for any journals, checks, slots  *)
(* and faults.  A table that is wrong is owed a write by some request, or  *)
(* was left wrong by a cause the model names: that is the invariant, and   *)
(* every step of a request keeps it.  And that an event of an undisturbed  *)
(* check, once synced, reached that check, for any journals a till writes. *)
EXTENDS CheckReplay, TLAPS, WellFoundedInduction

Pcs == {"idle", "find", "create", "link", "occupy", "resolve", "apply", "count",
        "again", "read", "write", "clear", "heal", "verify", "answer"}
Results == {"SYNCED", "REVIEW", "FAILED"}

\* What is known of the request of slot t.
CallInv(t) ==
  /\ call[t].event \in Events \cup {Staff}
  /\ call[t].kind \in Kinds => call[t].event \in Events
  /\ call[t].pc \in {"occupy", "heal", "verify"} => call[t].check \in linked
  /\ call[t].pc \in {"find", "resolve", "apply", "again", "clear"} => call[t].seen = {}
  /\ call[t].kind = "create" /\ call[t].pc \in {"create", "link"}
       => call[t].check \in DeviceChecks
  /\ call[t].pc = "link" => call[t].check \in Checks /\ state[call[t].check] # "none"
  /\ call[t].kind = "seat" /\ call[t].pc # "answer"
       => call[t].pc = "link" /\ call[t].check \in HouseChecks \ linked

\* The table's advisory lock admits one seat at a time.
SeatInv == \A t, u \in Slots : call[t].kind = "seat" /\ call[u].kind = "seat" => t = u

\* A check exists before it is linked, and has a place in the order of creation.
TableInv ==
  /\ \A c \in linked : state[c] # "none"
  /\ \A c \in Checks : state[c] # "none" => \E i \in 1..Len(opened) : opened[i] = c

\* The request of slot t will write the table.
Debtor(t) == \/ call[t].pc \in {"occupy", "write", "clear"}
             \/ call[t].pc = "read" /\ call[t].check \in linked
             \/ call[t].pc = "verify" /\ call[t].check \notin Pending

\* A table that is wrong is owed a write, or was left so by a known cause.
FloorInv == upset \/ FloorRight(state, linked, pointer) \/ \E t \in Slots : Debtor(t)

CallsInv == \A t \in Slots : CallInv(t)
Inv == TypeOK /\ CallsInv /\ SeatInv /\ TableInv /\ FloorInv

OthersStay(s) == \A t \in Slots \ {s} : call'[t] = call[t]

-----------------------------------------------------------------------------
(* The operators. *)

\* What Only picks.
LEMMA OnlyMember == ASSUME NEW checks PROVE Only(checks) \in checks \cup {None}
BY DEF Only

LEMMA OnlySome == ASSUME NEW checks, checks # {} PROVE Only(checks) \in checks
BY DEF Only

\* A set of numbers has a least one.
LEMMA NatMin == ASSUME NEW S \in SUBSET Nat, S # {} PROVE \E a \in S : \A b \in S : a <= b
<1> DEFINE R == OpToRel(<, Nat)
<1>1. IsWellFoundedOn(R, Nat)
  BY NatLessThanWellFounded
<1>2. \A a, b \in Nat : b < a => <<b, a>> \in R
  BY DEF OpToRel
<1> HIDE DEF R
<1>3. PICK a \in S : \A b \in S : <<b, a>> \notin R
  BY <1>1, WFMin
<1>4. \A b \in S : ~(b < a)
  BY <1>2, <1>3
<1> QED
  BY <1>3, <1>4

LEMMA ResultTyped == ASSUME NEW kind, NEW pc PROVE FailureOf(kind, pc) \in Results
BY DEF FailureOf, Results

LEMMA ElementTyped ==
  ASSUME NEW S, NEW q \in Seq(S), NEW i \in 1..Len(q) PROVE q[i] \in S
OBVIOUS

LEMMA JournalTyped ==
  ASSUME journal \in Journals
  PROVE  /\ Len(journal) \in Nat
         /\ \A e \in Events : journal[e].check \in DeviceChecks /\ journal[e].kind \in Kinds
<1>1. journal \in Seq([kind : Kinds, check : DeviceChecks])
  BY JournalsAssumption
<1>2. Len(journal) \in Nat
  BY <1>1
<1>3. ASSUME NEW e \in 1..Len(journal)
      PROVE  journal[e] \in [kind : Kinds, check : DeviceChecks]
  BY <1>1, ElementTyped
<1>4. \A e \in Events : journal[e] \in [kind : Kinds, check : DeviceChecks]
  BY <1>3 DEF Events
<1>5. ASSUME NEW k \in [kind : Kinds, check : DeviceChecks]
      PROVE  k.check \in DeviceChecks /\ k.kind \in Kinds
  OBVIOUS
<1> QED
  BY <1>2, <1>4, <1>5

LEMMA IdleTyped ==
  /\ Idle \in Calls
  /\ Idle.event = Staff /\ Idle.kind = "look" /\ Idle.pc = "idle" /\ Idle.check = None
  /\ Idle.seen = {}
BY DEF Idle, Calls, Staff

LEMMA SetTyped ==
  ASSUME call \in [Slots -> Calls], NEW s \in Slots, NEW x \in Calls,
         call' = [call EXCEPT ![s] = x]
  PROVE  call' \in [Slots -> Calls] /\ call'[s] = x /\ OthersStay(s)
BY DEF OthersStay

LEMMA PcTyped ==
  ASSUME NEW k \in Calls, NEW pc \in Pcs
  PROVE  LET x == [k EXCEPT !.pc = pc] IN
         /\ x \in Calls /\ x.pc = pc
         /\ x.event = k.event /\ x.kind = k.kind /\ x.check = k.check /\ x.seen = k.seen
BY DEF Calls, Pcs

LEMMA AnswerTyped ==
  ASSUME NEW k \in Calls, NEW r \in Results
  PROVE  LET x == [k EXCEPT !.pc = "answer", !.result = r] IN
         /\ x \in Calls /\ x.pc = "answer" /\ x.event = k.event /\ x.kind = k.kind
BY DEF Calls, Results

LEMMA GoMoves ==
  ASSUME call \in [Slots -> Calls], NEW s \in Slots, NEW pc \in Pcs, Go(s, pc)
  PROVE  /\ call' \in [Slots -> Calls] /\ OthersStay(s)
         /\ call'[s].pc = pc /\ call'[s].event = call[s].event
         /\ call'[s].kind = call[s].kind /\ call'[s].check = call[s].check
         /\ call'[s].seen = call[s].seen
<1> DEFINE x == [call[s] EXCEPT !.pc = pc]
<1>1. call[s] \in Calls
  OBVIOUS
<1>2. call' = [call EXCEPT ![s] = x]
  BY DEF Go
<1>3. /\ x \in Calls /\ x.pc = pc
      /\ x.event = call[s].event /\ x.kind = call[s].kind /\ x.check = call[s].check
      /\ x.seen = call[s].seen
  BY <1>1, PcTyped
<1> HIDE DEF x
<1>4. call' \in [Slots -> Calls] /\ call'[s] = x /\ OthersStay(s)
  BY <1>2, <1>3, SetTyped
<1> QED
  BY <1>3, <1>4

LEMMA GoWithMoves ==
  ASSUME call \in [Slots -> Calls], NEW s \in Slots, NEW pc \in Pcs,
         NEW c \in Checks \cup {None}, GoWith(s, pc, c)
  PROVE  /\ call' \in [Slots -> Calls] /\ OthersStay(s)
         /\ call'[s].pc = pc /\ call'[s].event = call[s].event
         /\ call'[s].kind = call[s].kind /\ call'[s].check = c
         /\ call'[s].seen = call[s].seen
<1> DEFINE x == [call[s] EXCEPT !.pc = pc, !.check = c]
<1>1. call[s] \in Calls
  OBVIOUS
<1>2. call' = [call EXCEPT ![s] = x]
  BY DEF GoWith
<1>3. /\ x \in Calls /\ x.pc = pc
      /\ x.event = call[s].event /\ x.kind = call[s].kind /\ x.check = c
      /\ x.seen = call[s].seen
  BY <1>1 DEF Calls, Pcs
<1> HIDE DEF x
<1>4. call' \in [Slots -> Calls] /\ call'[s] = x /\ OthersStay(s)
  BY <1>2, <1>3, SetTyped
<1> QED
  BY <1>3, <1>4

GoSeen(s, pc, checks) == call' = [call EXCEPT ![s].pc = pc, ![s].seen = checks]

LEMMA SeenMoves ==
  ASSUME call \in [Slots -> Calls], NEW s \in Slots, NEW pc \in Pcs,
         NEW checks \in SUBSET Checks, GoSeen(s, pc, checks)
  PROVE  /\ call' \in [Slots -> Calls] /\ OthersStay(s)
         /\ call'[s].pc = pc /\ call'[s].event = call[s].event
         /\ call'[s].kind = call[s].kind /\ call'[s].check = call[s].check
         /\ call'[s].seen = checks
<1> DEFINE x == [call[s] EXCEPT !.pc = pc, !.seen = checks]
<1>1. call[s] \in Calls
  OBVIOUS
<1>2. call' = [call EXCEPT ![s] = x]
  BY DEF GoSeen
<1>3. /\ x \in Calls /\ x.pc = pc
      /\ x.event = call[s].event /\ x.kind = call[s].kind /\ x.check = call[s].check
      /\ x.seen = checks
  BY <1>1 DEF Calls, Pcs
<1> HIDE DEF x
<1>4. call' \in [Slots -> Calls] /\ call'[s] = x /\ OthersStay(s)
  BY <1>2, <1>3, SetTyped
<1> QED
  BY <1>3, <1>4

\* What holds of a request holds of the answered one.
LEMMA AnswerMoves ==
  ASSUME call \in [Slots -> Calls], NEW s \in Slots, NEW r \in Results, Answer(s, r),
         CallInv(s), journal' = journal
  PROVE  /\ call' \in [Slots -> Calls] /\ OthersStay(s)
         /\ CallInv(s)' /\ (call'[s].kind = "seat" => call[s].kind = "seat")
<1> DEFINE x == IF run.slot = s THEN [call[s] EXCEPT !.pc = "answer", !.result = r] ELSE Idle
<1>1. call[s] \in Calls
  OBVIOUS
<1>2. call' = [call EXCEPT ![s] = x]
  BY DEF Answer
<1>3. /\ x \in Calls
      /\ \/ x.pc = "answer" /\ x.event = call[s].event /\ x.kind = call[s].kind
         \/ x.pc = "idle" /\ x.event = Staff /\ x.kind = "look"
  BY <1>1, AnswerTyped, IdleTyped
<1> HIDE DEF x
<1>4. call' \in [Slots -> Calls] /\ call'[s] = x /\ OthersStay(s)
  BY <1>2, <1>3, SetTyped
<1>5. call'[s].kind = "seat" => call[s].kind = "seat"
  BY <1>3, <1>4
<1>6. CallInv(s)'
  BY <1>3, <1>4 DEF CallInv, Events, Kinds
<1> QED
  BY <1>4, <1>5, <1>6

-----------------------------------------------------------------------------
(* What a step leaves to the others. *)

\* History: the causes a step names leave the table right or are remembered.
LEMMA Remembered ==
  ASSUME NEW struck, NEW wrong \in BOOLEAN, Remember(struck, wrong)
  PROVE  upset \/ wrong => upset' \/ FloorRight(state', linked', pointer')
BY DEF Remember

LEMMA RememberTyped ==
  ASSUME NEW struck \in SUBSET Checks, NEW wrong, Remember(struck, wrong),
         disturbed \subseteq Checks, linked' \subseteq Checks
  PROVE  disturbed' \subseteq Checks /\ upset' \in BOOLEAN
<1>1. disturbed' = disturbed \cup struck
        \cup {c \in linked' : /\ state'[c] = "PENDING"
                              /\ \E d \in linked' \ {c} : state'[d] = "PENDING"}
  BY DEF Remember
<1>2. upset' = ((upset \/ wrong) /\ ~FloorRight(state', linked', pointer'))
  BY DEF Remember
<1> QED
  BY <1>1, <1>2

\* What the step of slot s leaves to the others: their requests, that a check exists,
\* and that a check waiting for its seat is not linked yet.
Frame(s) ==
  /\ journal' = journal
  /\ OthersStay(s)
  /\ linked \subseteq linked'
  /\ \A c \in Checks : state[c] # "none" => state'[c] # "none"
  /\ \A t \in Slots \ {s} : call[t].kind = "seat" /\ call[t].pc # "answer"
                              => call[t].check \notin linked'

LEMMA OtherCall ==
  ASSUME CallsInv, NEW t \in Slots, call'[t] = call[t], journal' = journal,
         linked \subseteq linked', \A c \in Checks : state[c] # "none" => state'[c] # "none",
         call[t].kind = "seat" /\ call[t].pc # "answer" => call[t].check \notin linked'
  PROVE  CallInv(t)'
<1>1. CallInv(t)
  BY DEF CallsInv
<1>2. call[t].pc = "link" => call[t].check \in Checks /\ state'[call[t].check] # "none"
  BY <1>1 DEF CallInv
<1>3. call[t].kind = "seat" /\ call[t].pc # "answer"
        => call[t].pc = "link" /\ call[t].check \in HouseChecks \ linked'
  BY <1>1 DEF CallInv
<1> QED
  BY <1>1, <1>2, <1>3 DEF CallInv, Events

LEMMA OtherCalls ==
  ASSUME CallsInv, NEW s \in Slots, Frame(s)
  PROVE  \A t \in Slots \ {s} : CallInv(t)'
BY OtherCall DEF Frame, OthersStay

\* A write the table is owed by another request stays owed.
LEMMA StillOwed ==
  ASSUME TypeOK, CallsInv, NEW s \in Slots, OthersStay(s), linked \subseteq linked',
         \A c \in linked : state'[c] = "PENDING" => state[c] = "PENDING",
         NEW t \in Slots \ {s}, Debtor(t)
  PROVE  Debtor(t)'
<1>1. call'[t] = call[t]
  BY DEF OthersStay
<1>2. CASE call[t].pc \in {"occupy", "write", "clear"}
  BY <1>1, <1>2 DEF Debtor
<1>3. CASE call[t].pc = "read" /\ call[t].check \in linked
  BY <1>1, <1>3 DEF Debtor
<1>4. CASE call[t].pc = "verify" /\ call[t].check \notin Pending
  <2>1. call[t].check \in linked
    BY <1>4 DEF CallInv, CallsInv
  <2>2. call[t].check \in Checks /\ state[call[t].check] # "PENDING"
    BY <2>1, <1>4 DEF TypeOK, Pending
  <2>3. state'[call[t].check] # "PENDING"
    BY <2>1, <2>2
  <2> QED
    BY <1>1, <1>4, <2>3 DEF Debtor, Pending
<1> QED
  BY <1>2, <1>3, <1>4 DEF Debtor

\* A step that neither moves the table nor opens or closes a check linked to it.
LEMMA FloorKept ==
  ASSUME TypeOK, CallsInv, FloorInv, NEW s \in Slots, OthersStay(s),
         linked' = linked, pointer' = pointer,
         \A c \in linked : state'[c] = "PENDING" <=> state[c] = "PENDING",
         Debtor(s) => Debtor(s)',
         upset => upset' \/ FloorRight(state', linked', pointer')
  PROVE  FloorInv'
<1>1. CASE upset
  BY <1>1 DEF FloorInv
<1>2. CASE FloorRight(state, linked, pointer)
  <2>1. {c \in linked' : state'[c] = "PENDING"} = {c \in linked : state[c] = "PENDING"}
    OBVIOUS
  <2>2. FloorRight(state', linked', pointer')
    BY <1>2, <2>1 DEF FloorRight
  <2> QED
    BY <2>2 DEF FloorInv
<1>3. CASE \E t \in Slots : Debtor(t)
  <2>1. PICK t \in Slots : Debtor(t)
    BY <1>3
  <2>2. CASE t = s
    BY <2>1, <2>2 DEF FloorInv
  <2>3. CASE t # s
    <3>1. Debtor(t)'
      BY <2>1, <2>3, StillOwed
    <3> QED
      BY <3>1 DEF FloorInv
  <2> QED
    BY <2>2, <2>3
<1> QED
  BY <1>1, <1>2, <1>3 DEF FloorInv

\* The step of one slot keeps the invariant.
LEMMA StepKeeps ==
  ASSUME TypeOK, CallsInv, SeatInv, NEW s \in Slots, Frame(s), CallInv(s)',
         call'[s].kind = "seat" => call[s].kind = "seat" \/ ~TableLocked,
         TypeOK', TableInv', FloorInv'
  PROVE  Inv'
<1>1. CallsInv'
  BY OtherCalls DEF CallsInv
<1>2. SeatInv'
  <2> SUFFICES ASSUME NEW t \in Slots, NEW u \in Slots,
                      call'[t].kind = "seat", call'[u].kind = "seat", t # u
               PROVE  FALSE
    BY DEF SeatInv
  <2>1. \A v \in Slots \ {s} : call'[v] = call[v]
    BY DEF Frame, OthersStay
  <2>2. CASE call[s].kind = "seat"
    BY <2>1, <2>2 DEF SeatInv
  <2>3. CASE ~TableLocked
    BY <2>1, <2>3 DEF TableLocked
  <2>4. CASE call'[s].kind # "seat"
    BY <2>1, <2>4 DEF SeatInv
  <2> QED
    BY <2>2, <2>3, <2>4
<1> QED
  BY <1>1, <1>2 DEF Inv

\* A step of one slot that leaves the floor alone.
LEMMA FloorAlone ==
  ASSUME Inv, NEW s \in Slots, UNCHANGED floor, journal' = journal, OthersStay(s),
         CallInv(s)', call'[s].kind = "seat" => call[s].kind = "seat",
         Debtor(s) => Debtor(s)',
         upset => upset' \/ FloorRight(state', linked', pointer'),
         TypeOK'
  PROVE  Inv'
<1>1. Frame(s)
  BY DEF Frame, floor, Inv, CallsInv, CallInv
<1>2. TableInv'
  BY DEF floor, Inv, TableInv
<1>3. FloorInv'
  BY FloorKept DEF floor, Inv
<1> QED
  BY <1>1, <1>2, <1>3, StepKeeps DEF Inv

LEMMA TypeKept ==
  ASSUME TypeOK, journal' = journal,
         state' \in [Checks -> {"none", "PENDING", "COMPLETED", "CANCELLED"}],
         linked' \subseteq Checks, opened' \in Seq(Checks), pointer' \in Checks \cup {None},
         sold' \subseteq Events, status' \in [Events -> {"PENDING", "SYNCED", "REVIEW", "FAILED"}],
         run' \in [batch : SUBSET Events, slot : Slots \cup {None}],
         call' \in [Slots -> Calls], faults' \in 0..MaxFaults,
         reached' \in [Events -> SUBSET Checks],
         NEW struck \in SUBSET Checks, NEW wrong, Remember(struck, wrong)
  PROVE  TypeOK'
<1>1. disturbed' \subseteq Checks /\ upset' \in BOOLEAN
  BY RememberTyped DEF TypeOK
<1>2. Events' = Events
  BY DEF Events
<1>3. journal' \in Journals
  BY DEF TypeOK
<1> QED
  BY <1>1, <1>2, <1>3 DEF TypeOK

\* A step of one slot that changes nothing else.
LEMMA CallAlone ==
  ASSUME Inv, NEW s \in Slots, UNCHANGED <<floor, sold, device, faults, history>>,
         call' \in [Slots -> Calls], OthersStay(s), CallInv(s)',
         call'[s].kind = "seat" => call[s].kind = "seat",
         Debtor(s) => Debtor(s)'
  PROVE  Inv'
<1>1. TypeOK'
  <2>1. TypeOK /\ Events' = Events
    BY DEF Inv, Events, device
  <2> QED
    BY <2>1 DEF TypeOK, floor, device, history
<1>2. UNCHANGED floor /\ journal' = journal /\ upset' = upset
  BY DEF device, history
<1> QED
  BY <1>1, <1>2, FloorAlone

LEMMA ReachTyped ==
  ASSUME reached \in [Events -> SUBSET Checks], NEW s, NEW c \in Checks, Reach(s, c)
  PROVE  reached' \in [Events -> SUBSET Checks]
BY DEF Reach

LEMMA ResolvedTyped == Resolved \in Pending \cup {None}
<1>1. Newest(Here) \subseteq Pending
  BY DEF Newest, Here
<1> QED
  BY <1>1, OnlyMember DEF Resolved

-----------------------------------------------------------------------------
(* The steps of the replayer. *)

LEMMA FindOrderKeeps == ASSUME Inv, NEW s \in Slots, FindOrder(s) PROVE Inv'
<1> DEFINE c == journal[call[s].event].check
<1>1. call[s].kind = "create" /\ call[s].pc = "find"
  BY DEF FindOrder, At
<1>2. call[s].event \in Events /\ call \in [Slots -> Calls]
  BY <1>1 DEF Inv, CallsInv, CallInv, TypeOK, Kinds
<1>3. c \in DeviceChecks /\ c \in Checks
  BY <1>2, JournalTyped DEF Inv, TypeOK, Checks
<1>4. PICK pc \in {"create", "link"} :
        GoWith(s, pc, c) /\ (pc = "link" => state[c] # "none")
  BY DEF FindOrder
<1> HIDE DEF c
<1>5. pc \in Pcs
  BY DEF Pcs
<1>6. /\ call' \in [Slots -> Calls] /\ OthersStay(s)
      /\ call'[s].pc = pc /\ call'[s].event = call[s].event
      /\ call'[s].kind = call[s].kind /\ call'[s].check = c
  BY <1>2, <1>3, <1>4, <1>5, GoWithMoves
<1>7. UNCHANGED <<floor, sold, device, faults, history>>
  BY DEF FindOrder
<1>8. CallInv(s)'
  BY <1>1, <1>2, <1>3, <1>4, <1>6, <1>7 DEF CallInv, Events, Kinds, floor, device
<1>9. ~Debtor(s)
  BY <1>1 DEF Debtor
<1> QED
  BY <1>6, <1>7, <1>8, <1>9, CallAlone

LEMMA FindSaleKeeps == ASSUME Inv, NEW s \in Slots, FindSale(s) PROVE Inv'
<1>1. call[s].kind = "sale" /\ call[s].pc = "find"
  BY DEF FindSale, At
<1>2. call[s].event \in Events /\ call[s].seen = {} /\ call \in [Slots -> Calls]
  BY <1>1 DEF Inv, CallsInv, CallInv, TypeOK, Kinds
<1>3. PICK pc \in {"again", "resolve"} : Go(s, pc)
  BY DEF FindSale
<1>4. pc \in Pcs
  BY DEF Pcs
<1>5. /\ call' \in [Slots -> Calls] /\ OthersStay(s)
      /\ call'[s].pc = pc /\ call'[s].event = call[s].event
      /\ call'[s].kind = call[s].kind /\ call'[s].seen = call[s].seen
  BY <1>2, <1>3, <1>4, GoMoves
<1>6. UNCHANGED <<floor, sold, device, faults, history>>
  BY DEF FindSale
<1>7. CallInv(s)'
  BY <1>1, <1>2, <1>5, <1>6 DEF CallInv, Events, Kinds, floor, device
<1>8. ~Debtor(s)
  BY <1>1 DEF Debtor
<1> QED
  BY <1>5, <1>6, <1>7, <1>8, CallAlone

LEMMA ResolveKeeps == ASSUME Inv, NEW s \in Slots, Resolve(s) PROVE Inv'
<1>1. call[s].kind \in {"update", "kot", "cancel", "sale"} /\ call[s].pc = "resolve"
  BY DEF Resolve, At
<1>2. call[s].event \in Events /\ call[s].seen = {} /\ call \in [Slots -> Calls]
  BY <1>1 DEF Inv, CallsInv, CallInv, TypeOK, Kinds
<1>3. UNCHANGED <<floor, sold, device, faults, history>> /\ journal' = journal
  BY DEF Resolve, device
<1>4. ~Debtor(s)
  BY <1>1 DEF Debtor
<1>5. CASE Answer(s, "SYNCED")
  <2>1. "SYNCED" \in Results /\ CallInv(s)
    BY DEF Results, Inv, CallsInv
  <2>2. /\ call' \in [Slots -> Calls] /\ OthersStay(s) /\ CallInv(s)'
        /\ (call'[s].kind = "seat" => call[s].kind = "seat")
    BY <1>2, <1>3, <1>5, <2>1, AnswerMoves
  <2> QED
    BY <1>3, <1>4, <2>2, CallAlone
<1>6. CASE \E pc \in {"count", "apply"} : GoWith(s, pc, Resolved)
  <2>1. PICK pc \in {"count", "apply"} : GoWith(s, pc, Resolved)
    BY <1>6
  <2>2. pc \in Pcs /\ Resolved \in Checks \cup {None}
    BY ResolvedTyped DEF Pcs, Pending
  <2>3. /\ call' \in [Slots -> Calls] /\ OthersStay(s)
        /\ call'[s].pc = pc /\ call'[s].event = call[s].event
        /\ call'[s].kind = call[s].kind /\ call'[s].seen = call[s].seen
    BY <1>2, <2>1, <2>2, GoWithMoves
  <2>4. CallInv(s)'
    BY <1>1, <1>2, <1>3, <2>3 DEF CallInv, Events, Kinds, floor
  <2> QED
    BY <1>3, <1>4, <2>3, <2>4, CallAlone
<1> QED
  BY <1>5, <1>6 DEF Resolve

LEMMA CountKeeps == ASSUME Inv, NEW s \in Slots, Count(s) PROVE Inv'
<1>1. call[s].kind = "cancel" /\ call[s].pc = "count"
  BY DEF Count, At
<1>2. call[s].event \in Events /\ call \in [Slots -> Calls]
  BY <1>1 DEF Inv, CallsInv, CallInv, TypeOK, Kinds
<1>3. UNCHANGED <<floor, sold, device, faults, history>> /\ journal' = journal
  BY DEF Count, device
<1>4. ~Debtor(s)
  BY <1>1 DEF Debtor
<1>5. CASE Answer(s, "SYNCED")
  <2>1. "SYNCED" \in Results /\ CallInv(s)
    BY DEF Results, Inv, CallsInv
  <2>2. /\ call' \in [Slots -> Calls] /\ OthersStay(s) /\ CallInv(s)'
        /\ (call'[s].kind = "seat" => call[s].kind = "seat")
    BY <1>2, <1>3, <1>5, <2>1, AnswerMoves
  <2> QED
    BY <1>3, <1>4, <2>2, CallAlone
<1>6. CASE Here = {} /\ call' = [call EXCEPT ![s].pc = "clear", ![s].seen = Here]
  <2>1. /\ "clear" \in Pcs /\ Here \in SUBSET Checks
        /\ GoSeen(s, "clear", Here)
    BY <1>6 DEF Pcs, Here, Pending, GoSeen
  <2>2. /\ call' \in [Slots -> Calls] /\ OthersStay(s)
        /\ call'[s].pc = "clear" /\ call'[s].event = call[s].event
        /\ call'[s].kind = call[s].kind /\ call'[s].seen = Here
    BY <1>2, <2>1, SeenMoves
  <2>3. CallInv(s)'
    BY <1>1, <1>2, <1>3, <1>6, <2>2 DEF CallInv, Events, Kinds
  <2> QED
    BY <1>3, <1>4, <2>2, <2>3, CallAlone
<1> QED
  BY <1>5, <1>6 DEF Count

LEMMA AgainKeeps == ASSUME Inv, NEW s \in Slots, Again(s) PROVE Inv'
<1>1. call[s].kind = "sale" /\ call[s].pc = "again"
  BY DEF Again, At
<1>2. call[s].event \in Events /\ call[s].seen = {} /\ call \in [Slots -> Calls]
  BY <1>1 DEF Inv, CallsInv, CallInv, TypeOK, Kinds
<1>3. PICK pc \in {"clear", "read"} : GoWith(s, pc, Resolved)
  BY DEF Again
<1>4. pc \in Pcs /\ Resolved \in Checks \cup {None}
  BY ResolvedTyped DEF Pcs, Pending
<1>5. /\ call' \in [Slots -> Calls] /\ OthersStay(s)
      /\ call'[s].pc = pc /\ call'[s].event = call[s].event
      /\ call'[s].kind = call[s].kind /\ call'[s].seen = call[s].seen
  BY <1>2, <1>3, <1>4, GoWithMoves
<1>6. UNCHANGED <<floor, sold, device, faults, history>>
  BY DEF Again
<1>7. CallInv(s)'
  BY <1>1, <1>2, <1>5, <1>6 DEF CallInv, Events, Kinds, floor, device
<1>8. ~Debtor(s)
  BY <1>1 DEF Debtor
<1> QED
  BY <1>5, <1>6, <1>7, <1>8, CallAlone

LEMMA ReadSiblingKeeps == ASSUME Inv, NEW s \in Slots, ReadSibling(s) PROVE Inv'
<1>1. call[s].pc = "read"
  BY DEF ReadSibling
<1>2. call \in [Slots -> Calls] /\ CallInv(s)
  BY DEF Inv, CallsInv, TypeOK
<1>3. UNCHANGED <<floor, sold, device, faults, history>> /\ journal' = journal
  BY DEF ReadSibling, device
<1>4. CASE Answer(s, "SYNCED") /\ call[s].check \notin linked
  <2>1. "SYNCED" \in Results /\ ~Debtor(s)
    BY <1>1, <1>4 DEF Results, Debtor
  <2>2. /\ call' \in [Slots -> Calls] /\ OthersStay(s) /\ CallInv(s)'
        /\ (call'[s].kind = "seat" => call[s].kind = "seat")
    BY <1>2, <1>3, <1>4, <2>1, AnswerMoves
  <2> QED
    BY <1>3, <2>1, <2>2, CallAlone
<1>5. CASE GoSeen(s, "write", Here)
  <2>1. "write" \in Pcs /\ Here \in SUBSET Checks
    BY DEF Pcs, Here, Pending
  <2>2. /\ call' \in [Slots -> Calls] /\ OthersStay(s)
        /\ call'[s].pc = "write" /\ call'[s].event = call[s].event
        /\ call'[s].kind = call[s].kind
    BY <1>2, <1>5, <2>1, SeenMoves
  <2>3. CallInv(s)'
    BY <1>1, <1>2, <1>3, <2>2 DEF CallInv, Events, floor
  <2>4. Debtor(s)'
    BY <2>2 DEF Debtor
  <2> QED
    BY <1>3, <2>2, <2>3, <2>4, CallAlone
<1> QED
  BY <1>4, <1>5 DEF ReadSibling, GoSeen

LEMMA VerifyKeeps == ASSUME Inv, NEW s \in Slots, Verify(s) PROVE Inv'
<1>1. call[s].kind = "look" /\ call[s].pc = "verify"
  BY DEF Verify, At
<1>2. call \in [Slots -> Calls] /\ CallInv(s) /\ call[s].check \in linked
  BY <1>1 DEF Inv, CallsInv, CallInv, TypeOK
<1>3. UNCHANGED <<floor, sold, device, faults, history>> /\ journal' = journal
  BY DEF Verify, device
<1>4. CASE Answer(s, "SYNCED") /\ call[s].check \in Pending
  <2>1. "SYNCED" \in Results /\ ~Debtor(s)
    BY <1>1, <1>4 DEF Results, Debtor
  <2>2. /\ call' \in [Slots -> Calls] /\ OthersStay(s) /\ CallInv(s)'
        /\ (call'[s].kind = "seat" => call[s].kind = "seat")
    BY <1>2, <1>3, <1>4, <2>1, AnswerMoves
  <2> QED
    BY <1>3, <2>1, <2>2, CallAlone
<1>5. CASE Go(s, "read")
  <2>1. "read" \in Pcs
    BY DEF Pcs
  <2>2. /\ call' \in [Slots -> Calls] /\ OthersStay(s)
        /\ call'[s].pc = "read" /\ call'[s].event = call[s].event
        /\ call'[s].kind = call[s].kind /\ call'[s].check = call[s].check
    BY <1>2, <1>5, <2>1, GoMoves
  <2>3. CallInv(s)'
    BY <1>1, <1>2, <1>3, <2>2 DEF CallInv, Events, floor
  <2>4. Debtor(s)'
    BY <1>2, <1>3, <2>2 DEF Debtor, floor
  <2> QED
    BY <1>1, <1>3, <2>2, <2>3, <2>4, CallAlone
<1> QED
  BY <1>4, <1>5 DEF Verify

LEMMA ApplyKeeps == ASSUME Inv, NEW s \in Slots, Apply(s) PROVE Inv'
<1> DEFINE c == call[s].check
           struck == Foreign(s, c) \cap Pending
<1>1. call[s].kind \in {"update", "kot"} /\ call[s].pc = "apply"
  BY DEF Apply, At
<1>2. call[s].event \in Events /\ call \in [Slots -> Calls] /\ CallInv(s) /\ TypeOK
  BY <1>1 DEF Inv, CallsInv, CallInv, TypeOK, Kinds
<1>3. UNCHANGED floor /\ journal' = journal /\ UNCHANGED <<sold, status, run, faults>>
  BY DEF Apply, device
<1>4. Remember(struck, FALSE)
  BY DEF Apply
<1>5. PICK r \in Results : Answer(s, r)
  BY DEF Apply, Results
<1>6. (c \in Pending /\ Reach(s, c)) \/ UNCHANGED reached
  BY DEF Apply
<1>7. struck \in SUBSET Checks /\ Pending \subseteq Checks
  BY DEF Pending
<1> HIDE DEF struck, c
<1>8. /\ call' \in [Slots -> Calls] /\ OthersStay(s) /\ CallInv(s)'
      /\ (call'[s].kind = "seat" => call[s].kind = "seat")
  BY <1>2, <1>3, <1>5, AnswerMoves
<1>9. reached' \in [Events -> SUBSET Checks]
  BY <1>2, <1>6, <1>7, ReachTyped DEF TypeOK
<1>10. TypeOK'
  <2>1. /\ state' \in [Checks -> {"none", "PENDING", "COMPLETED", "CANCELLED"}]
        /\ linked' \subseteq Checks /\ opened' \in Seq(Checks)
        /\ pointer' \in Checks \cup {None} /\ sold' \subseteq Events
        /\ status' \in [Events -> {"PENDING", "SYNCED", "REVIEW", "FAILED"}]
        /\ run' \in [batch : SUBSET Events, slot : Slots \cup {None}]
        /\ faults' \in 0..MaxFaults
    BY <1>2, <1>3 DEF TypeOK, floor
  <2> QED
    BY <1>2, <1>3, <1>4, <1>7, <1>8, <1>9, <2>1, TypeKept
<1>11. upset => upset' \/ FloorRight(state', linked', pointer')
  BY <1>4, Remembered
<1>12. ~Debtor(s)
  BY <1>1 DEF Debtor
<1> QED
  BY <1>3, <1>8, <1>10, <1>11, <1>12, FloorAlone

\* A check opened or closed while it is not linked changes nothing at the table.
LEMMA UnlinkedMove ==
  ASSUME Inv, NEW s \in Slots, NEW c \in Checks \ linked, NEW st \in {"PENDING", "COMPLETED", "CANCELLED"},
         state' = [state EXCEPT ![c] = st], linked' = linked, pointer' = pointer,
         journal' = journal, (opened' = opened /\ state[c] # "none") \/ opened' = Append(opened, c),
         OthersStay(s), CallInv(s)',
         call'[s].kind = "seat" => call[s].kind = "seat" \/ ~TableLocked, ~Debtor(s),
         upset => upset' \/ FloorRight(state', linked', pointer'),
         TypeOK'
  PROVE  Inv'
<1>1. /\ state \in [Checks -> {"none", "PENDING", "COMPLETED", "CANCELLED"}]
      /\ linked \subseteq Checks /\ opened \in Seq(Checks)
  BY DEF Inv, TypeOK
<1>2. /\ state'[c] # "none" /\ \A d \in Checks \ {c} : state'[d] = state[d]
      /\ \A d \in linked : state'[d] = state[d]
  BY <1>1
<1>3. Frame(s)
  BY <1>2 DEF Frame, Inv, CallsInv, CallInv
<1>4. TableInv'
  <2>1. \A d \in linked' : state'[d] # "none"
    BY <1>2 DEF Inv, TableInv
  <2>2. ASSUME NEW d \in Checks, state'[d] # "none"
        PROVE  \E i \in 1..Len(opened') : opened'[i] = d
    <3>1. CASE state[d] # "none"
      <4>1. PICK i \in 1..Len(opened) : opened[i] = d
        BY <3>1 DEF Inv, TableInv
      <4>2. i \in 1..Len(opened') /\ opened'[i] = opened[i]
        BY <1>1
      <4> QED
        BY <4>1, <4>2
    <3>2. CASE state[d] = "none"
      <4>1. d = c
        BY <1>2, <2>2, <3>2
      <4>2. opened' = Append(opened, c)
        BY <3>2, <4>1
      <4>3. Len(opened') = Len(opened) + 1 /\ opened'[Len(opened')] = c /\ Len(opened') \in 1..Len(opened')
        BY <1>1, <4>2
      <4> QED
        BY <4>1, <4>3
    <3> QED
      BY <3>1, <3>2
  <2> QED
    BY <2>1, <2>2 DEF TableInv
<1>5. FloorInv'
  BY <1>2, FloorKept DEF Inv
<1> QED
  BY <1>3, <1>4, <1>5, StepKeeps DEF Inv

LEMMA CreateOrderKeeps == ASSUME Inv, NEW s \in Slots, CreateOrder(s) PROVE Inv'
<1> DEFINE c == call[s].check
<1>1. call[s].kind = "create" /\ call[s].pc = "create"
  BY DEF CreateOrder, At
<1>2. call[s].event \in Events /\ call \in [Slots -> Calls] /\ CallInv(s) /\ TypeOK
  BY <1>1 DEF Inv, CallsInv, CallInv, TypeOK, Kinds
<1>3. UNCHANGED <<linked, pointer, sold, status, run, faults>> /\ journal' = journal
  BY DEF CreateOrder, device
<1>4. Remember({}, FALSE)
  BY DEF CreateOrder
<1>5. c \in DeviceChecks /\ c \in Checks
  BY <1>1, <1>2 DEF CallInv, Checks
<1>6. /\ linked' \subseteq Checks /\ pointer' \in Checks \cup {None} /\ sold' \subseteq Events
      /\ status' \in [Events -> {"PENDING", "SYNCED", "REVIEW", "FAILED"}]
      /\ run' \in [batch : SUBSET Events, slot : Slots \cup {None}]
      /\ faults' \in 0..MaxFaults
  BY <1>2, <1>3 DEF TypeOK
<1>7. upset => upset' \/ FloorRight(state', linked', pointer')
  BY <1>4, Remembered
<1>8. ~Debtor(s)
  BY <1>1 DEF Debtor
<1>9. CASE /\ state[c] = "none" /\ state' = [state EXCEPT ![c] = "PENDING"]
           /\ opened' = Append(opened, c) /\ Go(s, "link") /\ Reach(s, c)
  <2>1. "link" \in Pcs
    BY DEF Pcs
  <2>2. /\ call' \in [Slots -> Calls] /\ OthersStay(s)
        /\ call'[s].pc = "link" /\ call'[s].event = call[s].event
        /\ call'[s].kind = call[s].kind /\ call'[s].check = c
    BY <1>2, <1>9, <2>1, GoMoves
  <2>3. state' \in [Checks -> {"none", "PENDING", "COMPLETED", "CANCELLED"}] /\ state'[c] = "PENDING"
    BY <1>2, <1>5, <1>9 DEF TypeOK
  <2>4. CallInv(s)'
    BY <1>1, <1>2, <1>3, <1>5, <2>2, <2>3 DEF CallInv, Events, Kinds
  <2>5. opened' \in Seq(Checks)
    BY <1>2, <1>5, <1>9 DEF TypeOK
  <2>6. reached' \in [Events -> SUBSET Checks]
    BY <1>2, <1>5, <1>9, ReachTyped DEF TypeOK
  <2>7. TypeOK'
    BY <1>2, <1>3, <1>4, <1>6, <2>2, <2>3, <2>5, <2>6, TypeKept
  <2>8. c \notin linked
    BY <1>9 DEF Inv, TableInv
  <2> QED
    BY <1>1, <1>3, <1>5, <1>7, <1>8, <1>9, <2>2, <2>4, <2>7, <2>8, UnlinkedMove
<1>10. CASE Answer(s, "SYNCED") /\ UNCHANGED <<state, opened, reached>>
  <2>1. "SYNCED" \in Results
    BY DEF Results
  <2>2. /\ call' \in [Slots -> Calls] /\ OthersStay(s) /\ CallInv(s)'
        /\ (call'[s].kind = "seat" => call[s].kind = "seat")
    BY <1>2, <1>3, <1>10, <2>1, AnswerMoves
  <2>3. /\ state' \in [Checks -> {"none", "PENDING", "COMPLETED", "CANCELLED"}]
        /\ opened' \in Seq(Checks) /\ reached' \in [Events -> SUBSET Checks]
    BY <1>2, <1>10 DEF TypeOK
  <2>4. TypeOK'
    BY <1>2, <1>3, <1>4, <1>6, <2>2, <2>3, TypeKept
  <2>5. UNCHANGED floor
    BY <1>3, <1>10 DEF floor
  <2> QED
    BY <1>3, <1>7, <1>8, <2>2, <2>4, <2>5, FloorAlone
<1> QED
  BY <1>9, <1>10 DEF CreateOrder

LEMMA LinkKeeps == ASSUME Inv, NEW s \in Slots, Link(s) PROVE Inv'
<1> DEFINE c == call[s].check
<1>1. call[s].kind = "create" /\ call[s].pc = "link"
  BY DEF Link, At
<1>2. call[s].event \in Events /\ call \in [Slots -> Calls] /\ CallInv(s) /\ TypeOK
  BY <1>1 DEF Inv, CallsInv, CallInv, TypeOK, Kinds
<1>3. /\ UNCHANGED <<state, opened, pointer, sold, status, run, faults, reached>>
      /\ journal' = journal /\ linked' = linked \cup {c}
  BY DEF Link, device
<1>4. Remember({}, FALSE)
  BY DEF Link
<1>5. c \in DeviceChecks /\ c \in Checks /\ state[c] # "none"
  BY <1>1, <1>2 DEF CallInv
<1>6. /\ call' \in [Slots -> Calls] /\ OthersStay(s)
      /\ call'[s].pc = "occupy" /\ call'[s].event = call[s].event
      /\ call'[s].kind = call[s].kind /\ call'[s].check = c
  <2>1. "occupy" \in Pcs /\ Go(s, "occupy")
    BY DEF Pcs, Link
  <2> QED
    BY <1>2, <2>1, GoMoves
<1>7. CallInv(s)'
  BY <1>1, <1>2, <1>3, <1>6 DEF CallInv, Events, Kinds
<1>8. TypeOK'
  <2>1. /\ state' \in [Checks -> {"none", "PENDING", "COMPLETED", "CANCELLED"}]
        /\ linked' \subseteq Checks /\ opened' \in Seq(Checks)
        /\ pointer' \in Checks \cup {None} /\ sold' \subseteq Events
        /\ status' \in [Events -> {"PENDING", "SYNCED", "REVIEW", "FAILED"}]
        /\ run' \in [batch : SUBSET Events, slot : Slots \cup {None}]
        /\ faults' \in 0..MaxFaults /\ reached' \in [Events -> SUBSET Checks]
    BY <1>2, <1>3, <1>5 DEF TypeOK
  <2> QED
    BY <1>2, <1>3, <1>4, <1>6, <2>1, TypeKept
<1>9. Frame(s)
  <2>1. \A t \in Slots \ {s} : call[t].kind = "seat" /\ call[t].pc # "answer"
                                 => call[t].check \notin linked'
    BY <1>3, <1>5, ChecksAssumption DEF Inv, CallsInv, CallInv
  <2> QED
    BY <1>3, <1>6, <2>1 DEF Frame
<1>10. TableInv'
  BY <1>3, <1>5 DEF Inv, TableInv
<1>11. FloorInv'
  BY <1>6 DEF FloorInv, Debtor
<1> QED
  BY <1>1, <1>6, <1>7, <1>8, <1>9, <1>10, <1>11, StepKeeps DEF Inv

\* A step that writes the table's pointer and answers, or is remembered as wrong.
LEMMA PointerAlone ==
  ASSUME Inv, NEW s \in Slots, NEW p \in Checks \cup {None},
         UNCHANGED <<state, linked, opened, sold, device, faults, reached>>, pointer' = p,
         call' \in [Slots -> Calls], OthersStay(s), CallInv(s)',
         call'[s].kind = "seat" => call[s].kind = "seat",
         NEW wrong \in BOOLEAN, Remember({}, wrong),
         wrong \/ FloorRight(state', linked', p) \/ Debtor(s)'
  PROVE  Inv'
<1>1. journal' = journal /\ status' = status /\ run' = run
  BY DEF device
<1>2. TypeOK'
  <2>1. /\ state' \in [Checks -> {"none", "PENDING", "COMPLETED", "CANCELLED"}]
        /\ linked' \subseteq Checks /\ opened' \in Seq(Checks)
        /\ pointer' \in Checks \cup {None} /\ sold' \subseteq Events
        /\ status' \in [Events -> {"PENDING", "SYNCED", "REVIEW", "FAILED"}]
        /\ run' \in [batch : SUBSET Events, slot : Slots \cup {None}]
        /\ faults' \in 0..MaxFaults /\ reached' \in [Events -> SUBSET Checks]
    BY <1>1 DEF Inv, TypeOK
  <2>2. TypeOK
    BY DEF Inv
  <2> QED
    BY <1>1, <2>1, <2>2, TypeKept
<1>3. Frame(s)
  BY <1>1 DEF Frame, Inv, CallsInv, CallInv
<1>4. TableInv'
  BY DEF Inv, TableInv
<1>5. FloorInv'
  BY Remembered DEF FloorInv
<1> QED
  BY <1>2, <1>3, <1>4, <1>5, StepKeeps DEF Inv

LEMMA OccupyKeeps == ASSUME Inv, NEW s \in Slots, Occupy(s) PROVE Inv'
<1> DEFINE c == call[s].check
<1>1. call[s].kind = "create" /\ call[s].pc = "occupy"
  BY DEF Occupy, At
<1>2. call \in [Slots -> Calls] /\ CallInv(s) /\ TypeOK
  BY <1>1 DEF Inv, CallsInv, TypeOK
<1>3. /\ UNCHANGED <<state, linked, opened, sold, device, faults, reached>>
      /\ journal' = journal /\ pointer' = c
  BY DEF Occupy, device
<1>4. /\ call' \in [Slots -> Calls] /\ OthersStay(s) /\ CallInv(s)'
      /\ (call'[s].kind = "seat" => call[s].kind = "seat")
  <2>1. "SYNCED" \in Results /\ Answer(s, "SYNCED")
    BY DEF Results, Occupy
  <2> QED
    BY <1>2, <1>3, <2>1, AnswerMoves
<1>5. c \in linked /\ c \in Checks
  BY <1>1, <1>2 DEF CallInv, TypeOK
<1>6. CASE c \in Pending
  <2>1. Remember({}, FALSE)
    BY <1>6 DEF Occupy
  <2>2. FloorRight(state', linked', c)
    BY <1>3, <1>5, <1>6 DEF FloorRight, Pending
  <2> QED
    BY <1>3, <1>4, <1>5, <2>1, <2>2, PointerAlone
<1>7. CASE c \notin Pending
  <2>1. Remember({}, TRUE)
    BY <1>7 DEF Occupy
  <2> QED
    BY <1>3, <1>4, <1>5, <2>1, PointerAlone
<1> QED
  BY <1>6, <1>7

LEMMA HealKeeps == ASSUME Inv, NEW s \in Slots, Heal(s) PROVE Inv'
<1> DEFINE c == call[s].check
<1>1. call[s].kind = "look" /\ call[s].pc = "heal"
  BY DEF Heal, At
<1>2. call \in [Slots -> Calls] /\ CallInv(s) /\ TypeOK
  BY <1>1 DEF Inv, CallsInv, TypeOK
<1>3. /\ UNCHANGED <<state, linked, opened, sold, device, faults, reached>>
      /\ journal' = journal /\ pointer' = c /\ Remember({}, FALSE)
  BY DEF Heal, device
<1>4. /\ call' \in [Slots -> Calls] /\ OthersStay(s)
      /\ call'[s].pc = "verify" /\ call'[s].event = call[s].event
      /\ call'[s].kind = call[s].kind /\ call'[s].check = c
  <2>1. "verify" \in Pcs /\ Go(s, "verify")
    BY DEF Pcs, Heal
  <2> QED
    BY <1>2, <2>1, GoMoves
<1>5. c \in linked /\ c \in Checks
  BY <1>1, <1>2 DEF CallInv, TypeOK
<1>6. CallInv(s)'
  BY <1>1, <1>2, <1>3, <1>4, <1>5 DEF CallInv, Events, Kinds
<1>7. FloorRight(state', linked', c) \/ Debtor(s)'
  BY <1>3, <1>4, <1>5 DEF FloorRight, Debtor, Pending
<1> QED
  BY <1>1, <1>3, <1>4, <1>5, <1>6, <1>7, PointerAlone

\* A set of checks that exist has an oldest one.
LEMMA OldestExists ==
  ASSUME Inv, NEW checks \in SUBSET Checks, \A c \in checks : state[c] # "none",
         checks # {}
  PROVE  Oldest(checks) # {}
<1>1. ASSUME NEW c \in checks PROVE Age(c) \in Nat
  <2>1. \E i \in 1..Len(opened) : opened[i] = c
    BY DEF Inv, TableInv
  <2>2. Age(c) \in 1..Len(opened)
    BY <2>1 DEF Age
  <2> QED
    BY <2>2 DEF Inv, TypeOK
<1> DEFINE ages == {Age(c) : c \in checks}
<1>2. ages \subseteq Nat /\ ages # {}
  BY <1>1
<1>3. PICK a \in ages : \A b \in ages : a <= b
  BY <1>2, NatMin
<1>4. PICK c \in checks : a = Age(c)
  BY <1>3
<1>5. \A d \in checks : Age(c) <= Age(d)
  BY <1>3, <1>4
<1> QED
  BY <1>4, <1>5 DEF Oldest

LEMMA WriteTableKeeps == ASSUME Inv, NEW s \in Slots, WriteTable(s) PROVE Inv'
<1> DEFINE c == call[s].check
           p == Sibling(c, call[s].seen)
<1>1. call[s].pc = "write"
  BY DEF WriteTable
<1>2. call \in [Slots -> Calls] /\ CallInv(s) /\ TypeOK /\ call[s].seen \subseteq Checks
  BY <1>1 DEF Inv, CallsInv, TypeOK, Calls
<1>3. /\ UNCHANGED <<state, linked, opened, sold, device, faults, reached>>
      /\ journal' = journal /\ pointer' = p
  BY DEF WriteTable, device
<1>4. /\ call' \in [Slots -> Calls] /\ OthersStay(s) /\ CallInv(s)'
      /\ (call'[s].kind = "seat" => call[s].kind = "seat")
  <2>1. "SYNCED" \in Results /\ Answer(s, "SYNCED")
    BY DEF Results, WriteTable
  <2> QED
    BY <1>2, <1>3, <2>1, AnswerMoves
<1>5. p \in Checks \cup {None}
  <2>1. Oldest(call[s].seen \ {c}) \subseteq Checks
    BY <1>2 DEF Oldest
  <2> QED
    BY <2>1, OnlyMember DEF Sibling
<1>6. CASE Here = call[s].seen /\ c \notin Pending
  <2>1. Remember({}, FALSE)
    BY <1>6 DEF WriteTable
  <2>2. call[s].seen \ {c} = Here /\ Here \in SUBSET Checks
    BY <1>6 DEF Here, Pending
  <2>3. p = Only(Oldest(Here))
    BY <2>2 DEF Sibling
  <2>4. FloorRight(state, linked, p)
    <3>1. {d \in linked : state[d] = "PENDING"} = Here
      BY <1>2 DEF Here, Pending, TypeOK
    <3>2. CASE Here = {}
      BY <2>3, <3>1, <3>2 DEF FloorRight, Only, Oldest
    <3>3. CASE Here # {}
      <4>1. \A d \in Here : state[d] # "none"
        BY DEF Here, Pending
      <4>2. Oldest(Here) # {}
        BY <2>2, <3>3, <4>1, OldestExists
      <4>3. p \in Oldest(Here)
        BY <2>3, <4>2, OnlySome
      <4>4. p \in Here
        BY <4>3 DEF Oldest
      <4> QED
        BY <3>1, <3>3, <4>4 DEF FloorRight
    <3> QED
      BY <3>2, <3>3
  <2>5. FloorRight(state', linked', p)
    BY <1>3, <2>4
  <2> HIDE DEF p
  <2> QED
    BY <1>3, <1>4, <1>5, <2>1, <2>5, PointerAlone
<1>7. CASE ~(Here = call[s].seen /\ c \notin Pending)
  <2>1. Remember({}, TRUE)
    BY <1>7 DEF WriteTable
  <2> HIDE DEF p
  <2> QED
    BY <1>3, <1>4, <1>5, <2>1, PointerAlone
<1> QED
  BY <1>6, <1>7

LEMMA ClearTableKeeps == ASSUME Inv, NEW s \in Slots, ClearTable(s) PROVE Inv'
<1>1. call[s].pc = "clear"
  BY DEF ClearTable
<1>2. call \in [Slots -> Calls] /\ CallInv(s) /\ TypeOK
  BY <1>1 DEF Inv, CallsInv, TypeOK
<1>3. /\ UNCHANGED <<state, linked, opened, sold, device, faults, reached>>
      /\ journal' = journal /\ pointer' = None
  BY DEF ClearTable, device
<1>4. /\ call' \in [Slots -> Calls] /\ OthersStay(s) /\ CallInv(s)'
      /\ (call'[s].kind = "seat" => call[s].kind = "seat")
  <2>1. "SYNCED" \in Results /\ Answer(s, "SYNCED")
    BY DEF Results, ClearTable
  <2> QED
    BY <1>2, <1>3, <2>1, AnswerMoves
<1>5. call[s].seen = {}
  BY <1>1, <1>2 DEF CallInv
<1>6. CASE Here = {}
  <2>1. Remember({}, FALSE)
    BY <1>5, <1>6 DEF ClearTable
  <2>2. {d \in linked : state[d] = "PENDING"} = {}
    BY <1>2, <1>6 DEF Here, Pending, TypeOK
  <2>3. FloorRight(state', linked', None)
    BY <1>3, <2>2 DEF FloorRight
  <2> QED
    BY <1>3, <1>4, <2>1, <2>3, PointerAlone
<1>7. CASE Here # {}
  <2>1. Remember({}, TRUE)
    BY <1>5, <1>7 DEF ClearTable
  <2> QED
    BY <1>3, <1>4, <2>1, PointerAlone
<1> QED
  BY <1>6, <1>7

\* Who closes a pending check goes on to release its table.
LEMMA ClosingMove ==
  ASSUME Inv, NEW s \in Slots, NEW c \in Pending, NEW st \in {"COMPLETED", "CANCELLED"},
         state' = [state EXCEPT ![c] = st], linked' = linked, pointer' = pointer,
         journal' = journal, opened' = opened,
         OthersStay(s), CallInv(s)', call'[s].kind = "seat" => call[s].kind = "seat",
         call'[s].pc = "read", call'[s].check = c, ~Debtor(s),
         upset => upset' \/ FloorRight(state', linked', pointer'),
         TypeOK'
  PROVE  Inv'
<1>1. state[c] # "none" /\ c \in Checks
  BY DEF Pending
<1>2. CASE c \in linked
  <2>1. \A d \in Checks : state[d] # "none" => state'[d] # "none"
    BY <1>1 DEF Inv, TypeOK
  <2>2. Frame(s)
    BY <2>1 DEF Frame, Inv, CallsInv, CallInv
  <2>3. \A d \in Checks : state'[d] # "none" => state[d] # "none"
    BY <1>1 DEF Inv, TypeOK
  <2>4. TableInv'
    BY <2>1, <2>3 DEF Inv, TableInv, TypeOK
  <2>5. FloorInv'
    BY <1>2 DEF FloorInv, Debtor
  <2> QED
    BY <2>2, <2>4, <2>5, StepKeeps DEF Inv
<1>3. CASE c \notin linked
  BY <1>1, <1>3, UnlinkedMove
<1> QED
  BY <1>2, <1>3

LEMMA CancelKeeps == ASSUME Inv, NEW s \in Slots, Cancel(s) PROVE Inv'
<1> DEFINE c == call[s].check
           struck == Foreign(s, c) \cap Pending
<1>1. call[s].kind = "cancel" /\ call[s].pc = "apply"
  BY DEF Cancel, At
<1>2. call[s].event \in Events /\ call \in [Slots -> Calls] /\ CallInv(s) /\ TypeOK
  BY <1>1 DEF Inv, CallsInv, CallInv, TypeOK, Kinds
<1>3. UNCHANGED <<linked, opened, pointer, sold, status, run, faults>> /\ journal' = journal
  BY DEF Cancel, device
<1>4. Remember(struck, FALSE)
  BY DEF Cancel
<1>5. struck \in SUBSET Checks /\ Pending \subseteq Checks
  BY DEF Pending
<1>6. /\ linked' \subseteq Checks /\ pointer' \in Checks \cup {None} /\ sold' \subseteq Events
      /\ status' \in [Events -> {"PENDING", "SYNCED", "REVIEW", "FAILED"}]
      /\ run' \in [batch : SUBSET Events, slot : Slots \cup {None}]
      /\ faults' \in 0..MaxFaults /\ opened' \in Seq(Checks)
  BY <1>2, <1>3 DEF TypeOK
<1>7. ~Debtor(s)
  BY <1>1 DEF Debtor
<1>8. ASSUME Go(s, "read")
      PROVE  /\ call' \in [Slots -> Calls] /\ OthersStay(s)
             /\ call'[s].pc = "read" /\ call'[s].kind = call[s].kind /\ call'[s].check = c
             /\ CallInv(s)'
  <2>1. "read" \in Pcs
    BY DEF Pcs
  <2>2. /\ call' \in [Slots -> Calls] /\ OthersStay(s)
        /\ call'[s].pc = "read" /\ call'[s].event = call[s].event
        /\ call'[s].kind = call[s].kind /\ call'[s].check = c
    BY <1>2, <1>8, <2>1, GoMoves
  <2>3. CallInv(s)'
    BY <1>1, <1>2, <1>3, <2>2 DEF CallInv, Events, Kinds
  <2> QED
    BY <2>2, <2>3
<1>9. upset => upset' \/ FloorRight(state', linked', pointer')
  BY <1>4, Remembered
<1>10. CASE /\ c \in Pending /\ state' = [state EXCEPT ![c] = "CANCELLED"]
            /\ Go(s, "read") /\ Reach(s, c)
  <2>1. state' \in [Checks -> {"none", "PENDING", "COMPLETED", "CANCELLED"}]
    BY <1>2, <1>10 DEF TypeOK
  <2>2. reached' \in [Events -> SUBSET Checks]
    BY <1>2, <1>5, <1>10, ReachTyped DEF TypeOK
  <2> HIDE DEF struck, c
  <2>3. TypeOK'
    BY <1>2, <1>3, <1>4, <1>5, <1>6, <1>8, <1>10, <2>1, <2>2, TypeKept
  <2> QED
    BY <1>3, <1>7, <1>8, <1>9, <1>10, <2>3, ClosingMove
<1>11. CASE /\ (\E r \in Results : Answer(s, r)) \/ Go(s, "read")
            /\ UNCHANGED <<state, reached>>
  <2>1. /\ call' \in [Slots -> Calls] /\ OthersStay(s) /\ CallInv(s)'
        /\ (call'[s].kind = "seat" => call[s].kind = "seat")
    <3>1. CASE Go(s, "read")
      BY <1>8, <3>1
    <3>2. CASE \E r \in Results : Answer(s, r)
      BY <1>2, <1>3, <3>2, AnswerMoves
    <3> QED
      BY <1>11, <3>1, <3>2
  <2>2. /\ state' \in [Checks -> {"none", "PENDING", "COMPLETED", "CANCELLED"}]
        /\ reached' \in [Events -> SUBSET Checks]
    BY <1>2, <1>11 DEF TypeOK
  <2> HIDE DEF struck, c
  <2>3. TypeOK'
    BY <1>2, <1>3, <1>4, <1>5, <1>6, <2>1, <2>2, TypeKept
  <2>4. UNCHANGED floor
    BY <1>3, <1>11 DEF floor
  <2> QED
    BY <1>3, <1>7, <1>9, <2>1, <2>3, <2>4, FloorAlone
<1> QED
  BY <1>10, <1>11 DEF Cancel, Results

LEMMA SellKeeps == ASSUME Inv, NEW s \in Slots, Sell(s) PROVE Inv'
<1> DEFINE c == call[s].check
           e == call[s].event
           struck == {d \in Foreign(s, c) \cap Pending : e \notin sold}
<1>1. call[s].kind = "sale" /\ call[s].pc = "apply"
  BY DEF Sell, At
<1>2. e \in Events /\ call \in [Slots -> Calls] /\ CallInv(s) /\ TypeOK /\ call[s].seen = {}
  BY <1>1 DEF Inv, CallsInv, CallInv, TypeOK, Kinds
<1>3. UNCHANGED <<linked, opened, pointer, status, run, faults>> /\ journal' = journal
  BY DEF Sell, device
<1>4. Remember(struck, FALSE)
  BY DEF Sell
<1>5. struck \in SUBSET Checks /\ Pending \subseteq Checks
  BY DEF Pending
<1>6. sold' \subseteq Events
  BY <1>2 DEF Sell, TypeOK
<1>7. /\ linked' \subseteq Checks /\ pointer' \in Checks \cup {None}
      /\ status' \in [Events -> {"PENDING", "SYNCED", "REVIEW", "FAILED"}]
      /\ run' \in [batch : SUBSET Events, slot : Slots \cup {None}]
      /\ faults' \in 0..MaxFaults /\ opened' \in Seq(Checks)
  BY <1>2, <1>3 DEF TypeOK
<1>8. ~Debtor(s)
  BY <1>1 DEF Debtor
<1>9. ASSUME NEW pc \in {"again", "read"}, Go(s, pc)
      PROVE  /\ call' \in [Slots -> Calls] /\ OthersStay(s)
             /\ call'[s].pc = pc /\ call'[s].kind = call[s].kind /\ call'[s].check = c
             /\ CallInv(s)'
  <2>1. pc \in Pcs
    BY DEF Pcs
  <2>2. /\ call' \in [Slots -> Calls] /\ OthersStay(s)
        /\ call'[s].pc = pc /\ call'[s].event = call[s].event
        /\ call'[s].kind = call[s].kind /\ call'[s].check = c
        /\ call'[s].seen = call[s].seen
    BY <1>2, <1>9, <2>1, GoMoves
  <2>3. CallInv(s)'
    BY <1>1, <1>2, <1>3, <2>2 DEF CallInv, Events, Kinds
  <2> QED
    BY <2>2, <2>3
<1>10. upset => upset' \/ FloorRight(state', linked', pointer')
  BY <1>4, Remembered
<1>11. CASE /\ c \in Pending /\ state' = [state EXCEPT ![c] = "COMPLETED"]
            /\ Go(s, "read") /\ Reach(s, c)
  <2>1. state' \in [Checks -> {"none", "PENDING", "COMPLETED", "CANCELLED"}]
    BY <1>2, <1>11 DEF TypeOK
  <2>2. reached' \in [Events -> SUBSET Checks]
    BY <1>2, <1>5, <1>11, ReachTyped DEF TypeOK
  <2> HIDE DEF struck, c
  <2>3. TypeOK'
    BY <1>2, <1>3, <1>4, <1>5, <1>6, <1>7, <1>9, <1>11, <2>1, <2>2, TypeKept
  <2> QED
    BY <1>3, <1>8, <1>9, <1>10, <1>11, <2>3, ClosingMove
<1>12. CASE /\ Answer(s, "FAILED") \/ \E pc \in {"again", "read"} : Go(s, pc)
            /\ UNCHANGED <<state, reached>>
  <2>1. /\ call' \in [Slots -> Calls] /\ OthersStay(s) /\ CallInv(s)'
        /\ (call'[s].kind = "seat" => call[s].kind = "seat")
    <3>1. CASE \E pc \in {"again", "read"} : Go(s, pc)
      BY <1>9, <3>1
    <3>2. CASE Answer(s, "FAILED")
      BY <1>2, <1>3, <3>2, AnswerMoves DEF Results
    <3> QED
      BY <1>12, <3>1, <3>2
  <2>2. /\ state' \in [Checks -> {"none", "PENDING", "COMPLETED", "CANCELLED"}]
        /\ reached' \in [Events -> SUBSET Checks]
    BY <1>2, <1>12 DEF TypeOK
  <2> HIDE DEF struck, c
  <2>3. TypeOK'
    BY <1>2, <1>3, <1>4, <1>5, <1>6, <1>7, <2>1, <2>2, TypeKept
  <2>4. UNCHANGED floor
    BY <1>3, <1>12 DEF floor
  <2> QED
    BY <1>3, <1>8, <1>10, <2>1, <2>3, <2>4, FloorAlone
<1>13. CASE c # None /\ c \notin Pending
  <2>1. Answer(s, "FAILED") /\ UNCHANGED <<state, sold, reached>>
    BY <1>13 DEF Sell
  <2> QED
    BY <1>12, <2>1
<1>14. CASE c = None \/ (e \in sold /\ c \in Pending)
  <2>1. Go(s, IF c = None THEN "again" ELSE "read") /\ UNCHANGED <<state, reached>>
    BY <1>14 DEF Sell
  <2> QED
    BY <1>12, <2>1
<1>15. CASE c # None /\ c \in Pending /\ e \notin sold
  BY <1>11, <1>15 DEF Sell
<1> QED
  BY <1>13, <1>14, <1>15

-----------------------------------------------------------------------------
(* The steps of staff. *)

LEMMA OpenTabKeeps == ASSUME Inv, NEW c \in HouseChecks, OpenTab(c) PROVE Inv'
<1>1. /\ state[c] = "none" /\ ~TableLocked
      /\ state' = [state EXCEPT ![c] = "PENDING"] /\ opened' = Append(opened, c)
      /\ linked' = linked \cup {c} /\ pointer' = c /\ Remember({}, FALSE)
      /\ UNCHANGED <<sold, status, run, call, faults, reached>> /\ journal' = journal
  BY DEF OpenTab, Fresh, device
<1>2. TypeOK /\ c \in Checks
  BY DEF Inv, Checks
<1>3. state \in [Checks -> {"none", "PENDING", "COMPLETED", "CANCELLED"}] /\ opened \in Seq(Checks)
  BY <1>2 DEF TypeOK
<1>4. state'[c] = "PENDING" /\ \A d \in Checks \ {c} : state'[d] = state[d]
  BY <1>1, <1>2, <1>3
<1>5. TypeOK'
  <2>1. /\ state' \in [Checks -> {"none", "PENDING", "COMPLETED", "CANCELLED"}]
        /\ linked' \subseteq Checks /\ opened' \in Seq(Checks)
        /\ pointer' \in Checks \cup {None} /\ sold' \subseteq Events
        /\ status' \in [Events -> {"PENDING", "SYNCED", "REVIEW", "FAILED"}]
        /\ run' \in [batch : SUBSET Events, slot : Slots \cup {None}]
        /\ faults' \in 0..MaxFaults /\ reached' \in [Events -> SUBSET Checks]
        /\ call' \in [Slots -> Calls]
    BY <1>1, <1>2 DEF TypeOK
  <2> QED
    BY <1>1, <1>2, <2>1, TypeKept
<1>6. CallsInv'
  <2> SUFFICES ASSUME NEW t \in Slots PROVE CallInv(t)'
    BY DEF CallsInv
  <2>1. call[t].kind # "seat"
    BY <1>1 DEF TableLocked
  <2> QED
    BY <1>1, <1>4, <2>1, OtherCall DEF Inv
<1>7. SeatInv'
  BY <1>1 DEF SeatInv, Inv
<1>8. TableInv'
  <2>1. \A d \in linked' : state'[d] # "none"
    BY <1>1, <1>2, <1>4 DEF Inv, TableInv, TypeOK
  <2>2. ASSUME NEW d \in Checks, state'[d] # "none"
        PROVE  \E i \in 1..Len(opened') : opened'[i] = d
    <3>1. CASE d # c
      <4>1. PICK i \in 1..Len(opened) : opened[i] = d
        BY <1>4, <2>2, <3>1 DEF Inv, TableInv
      <4>2. i \in 1..Len(opened') /\ opened'[i] = opened[i]
        BY <1>1, <1>3
      <4> QED
        BY <4>1, <4>2
    <3>2. CASE d = c
      <4>1. Len(opened') = Len(opened) + 1 /\ opened'[Len(opened')] = c /\ Len(opened') \in 1..Len(opened')
        BY <1>1, <1>3
      <4> QED
        BY <3>2, <4>1
    <3> QED
      BY <3>1, <3>2
  <2> QED
    BY <2>1, <2>2 DEF TableInv
<1>9. FloorRight(state', linked', pointer')
  BY <1>1, <1>4 DEF FloorRight
<1> QED
  BY <1>5, <1>6, <1>7, <1>8, <1>9 DEF Inv, FloorInv

LEMMA SeatKeeps == ASSUME Inv, NEW s \in Slots, NEW c \in Checks, Seat(s, c) PROVE Inv'
<1> DEFINE x == [Idle EXCEPT !.kind = "seat", !.pc = "link", !.check = c]
<1>1. /\ call[s] = Idle /\ state[c] = "none" /\ c \in HouseChecks /\ ~TableLocked
      /\ state' = [state EXCEPT ![c] = "PENDING"] /\ opened' = Append(opened, c)
      /\ call' = [call EXCEPT ![s] = x] /\ Remember({}, FALSE)
      /\ UNCHANGED <<linked, pointer, sold, status, run, faults, reached>> /\ journal' = journal
  BY DEF Seat, Fresh, device
<1>2. TypeOK /\ call \in [Slots -> Calls]
  BY DEF Inv, TypeOK
<1>3. /\ x \in Calls /\ x.pc = "link" /\ x.event = Staff /\ x.kind = "seat" /\ x.check = c
  BY DEF Idle, Calls, Staff
<1> HIDE DEF x
<1>4. call' \in [Slots -> Calls] /\ call'[s] = x /\ OthersStay(s)
  BY <1>1, <1>2, <1>3, SetTyped
<1>5. TypeOK'
  <2>1. /\ state' \in [Checks -> {"none", "PENDING", "COMPLETED", "CANCELLED"}]
        /\ linked' \subseteq Checks /\ opened' \in Seq(Checks)
        /\ pointer' \in Checks \cup {None} /\ sold' \subseteq Events
        /\ status' \in [Events -> {"PENDING", "SYNCED", "REVIEW", "FAILED"}]
        /\ run' \in [batch : SUBSET Events, slot : Slots \cup {None}]
        /\ faults' \in 0..MaxFaults /\ reached' \in [Events -> SUBSET Checks]
    BY <1>1, <1>2 DEF TypeOK
  <2> QED
    BY <1>1, <1>2, <1>4, <2>1, TypeKept
<1>6. c \notin linked
  BY <1>1 DEF Inv, TableInv
<1>7. CallInv(s)'
  <2>1. state'[c] # "none"
    BY <1>1, <1>2 DEF TypeOK
  <2> QED
    BY <1>1, <1>3, <1>4, <1>6, <2>1 DEF CallInv, Kinds
<1>8. ~Debtor(s)
  BY <1>1, IdleTyped DEF Debtor
<1>9. upset => upset' \/ FloorRight(state', linked', pointer')
  BY <1>1, Remembered
<1> QED
  BY <1>1, <1>4, <1>5, <1>6, <1>7, <1>8, <1>9, UnlinkedMove

LEMMA SeatLinkKeeps == ASSUME Inv, NEW s \in Slots, SeatLink(s) PROVE Inv'
<1> DEFINE c == call[s].check
<1>1. call[s].kind = "seat" /\ call[s].pc = "link"
  BY DEF SeatLink, At
<1>2. call \in [Slots -> Calls] /\ CallInv(s) /\ TypeOK
  BY DEF Inv, CallsInv, TypeOK
<1>3. /\ UNCHANGED <<state, opened, sold, status, run, faults, reached>>
      /\ journal' = journal /\ linked' = linked \cup {c} /\ pointer' = c
  BY DEF SeatLink, device
<1>4. c \in Checks /\ state[c] # "none"
  BY <1>1, <1>2 DEF CallInv
<1>5. /\ call' \in [Slots -> Calls] /\ OthersStay(s) /\ CallInv(s)'
      /\ (call'[s].kind = "seat" => call[s].kind = "seat")
  <2>1. "SYNCED" \in Results /\ Answer(s, "SYNCED")
    BY DEF Results, SeatLink
  <2> QED
    BY <1>2, <1>3, <2>1, AnswerMoves
<1>6. Frame(s)
  <2>1. \A t \in Slots \ {s} : call[t].kind # "seat"
    BY <1>1 DEF Inv, SeatInv
  <2> QED
    BY <1>3, <1>5, <2>1 DEF Frame
<1>7. TableInv'
  BY <1>3, <1>4 DEF Inv, TableInv
<1>8. PICK wrong \in BOOLEAN : Remember({}, wrong) /\ (wrong \/ c \in Pending)
  <2>1. CASE c \in Pending
    <3>1. Remember({}, FALSE)
      BY <2>1 DEF SeatLink
    <3> QED
      BY <2>1, <3>1
  <2>2. CASE c \notin Pending
    <3>1. Remember({}, TRUE)
      BY <2>2 DEF SeatLink
    <3> QED
      BY <3>1
  <2> QED
    BY <2>1, <2>2
<1>9. TypeOK'
  <2>1. /\ state' \in [Checks -> {"none", "PENDING", "COMPLETED", "CANCELLED"}]
        /\ linked' \subseteq Checks /\ opened' \in Seq(Checks)
        /\ pointer' \in Checks \cup {None} /\ sold' \subseteq Events
        /\ status' \in [Events -> {"PENDING", "SYNCED", "REVIEW", "FAILED"}]
        /\ run' \in [batch : SUBSET Events, slot : Slots \cup {None}]
        /\ faults' \in 0..MaxFaults /\ reached' \in [Events -> SUBSET Checks]
    BY <1>2, <1>3, <1>4 DEF TypeOK
  <2> QED
    BY <1>2, <1>3, <1>5, <1>8, <2>1, TypeKept
<1>10. FloorInv'
  <2>1. c \in Pending => FloorRight(state', linked', pointer')
    BY <1>3 DEF FloorRight, Pending
  <2>2. wrong => upset' \/ FloorRight(state', linked', pointer')
    BY <1>8, Remembered
  <2> QED
    BY <1>8, <2>1, <2>2 DEF FloorInv
<1> QED
  BY <1>5, <1>6, <1>7, <1>9, <1>10, StepKeeps DEF Inv

LEMMA CloseKeeps == ASSUME Inv, NEW s \in Slots, NEW c \in Checks, Close(s, c) PROVE Inv'
<1> DEFINE x == [Idle EXCEPT !.kind = "close", !.pc = "read", !.check = c]
<1>1. PICK st \in {"COMPLETED", "CANCELLED"} : state' = [state EXCEPT ![c] = st]
  BY DEF Close
<1>2. /\ call[s] = Idle /\ c \in Pending
      /\ call' = [call EXCEPT ![s] = x] /\ Remember({c}, FALSE)
      /\ UNCHANGED <<linked, opened, pointer, sold, status, run, faults, reached>>
      /\ journal' = journal
  BY DEF Close, device
<1>3. TypeOK /\ call \in [Slots -> Calls]
  BY DEF Inv, TypeOK
<1>4. x \in Calls /\ x.pc = "read" /\ x.event = Staff /\ x.kind = "close" /\ x.check = c
  BY DEF Idle, Calls, Staff
<1> HIDE DEF x
<1>5. call' \in [Slots -> Calls] /\ call'[s] = x /\ OthersStay(s)
  BY <1>2, <1>3, <1>4, SetTyped
<1>6. TypeOK'
  <2>1. /\ state' \in [Checks -> {"none", "PENDING", "COMPLETED", "CANCELLED"}]
        /\ linked' \subseteq Checks /\ opened' \in Seq(Checks)
        /\ pointer' \in Checks \cup {None} /\ sold' \subseteq Events
        /\ status' \in [Events -> {"PENDING", "SYNCED", "REVIEW", "FAILED"}]
        /\ run' \in [batch : SUBSET Events, slot : Slots \cup {None}]
        /\ faults' \in 0..MaxFaults /\ reached' \in [Events -> SUBSET Checks]
    BY <1>1, <1>2, <1>3 DEF TypeOK
  <2> QED
    BY <1>2, <1>3, <1>5, <2>1, TypeKept
<1>7. CallInv(s)'
  BY <1>4, <1>5 DEF CallInv, Kinds
<1>8. ~Debtor(s)
  BY <1>2, IdleTyped DEF Debtor
<1>9. upset => upset' \/ FloorRight(state', linked', pointer')
  BY <1>2, Remembered
<1> QED
  BY <1>1, <1>2, <1>4, <1>5, <1>6, <1>7, <1>8, <1>9, ClosingMove

LEMMA LookKeeps == ASSUME Inv, NEW s \in Slots, NEW c \in Checks, Look(s, c) PROVE Inv'
<1> DEFINE x == [Idle EXCEPT !.pc = "heal", !.check = c]
<1>1. /\ call[s] = Idle /\ c \in linked /\ call' = [call EXCEPT ![s] = x]
      /\ UNCHANGED <<floor, sold, device, faults, history>>
  BY DEF Look, Here
<1>2. call \in [Slots -> Calls]
  BY DEF Inv, TypeOK
<1>3. x \in Calls /\ x.pc = "heal" /\ x.event = Staff /\ x.kind = "look" /\ x.check = c
  BY DEF Idle, Calls, Staff
<1> HIDE DEF x
<1>4. call' \in [Slots -> Calls] /\ call'[s] = x /\ OthersStay(s)
  BY <1>1, <1>2, <1>3, SetTyped
<1>5. CallInv(s)'
  BY <1>1, <1>3, <1>4 DEF CallInv, Kinds, floor
<1>6. ~Debtor(s)
  BY <1>1, IdleTyped DEF Debtor
<1> QED
  BY <1>1, <1>3, <1>4, <1>5, <1>6, CallAlone

-----------------------------------------------------------------------------
(* The steps of the engine. *)

\* A step that moves no request and leaves the floor alone.
LEMMA FloorStill ==
  ASSUME Inv, UNCHANGED <<floor, call, upset>>, journal' = journal, TypeOK'
  PROVE  Inv'
<1>1. CallsInv'
  BY OtherCall DEF CallsInv, Inv, CallInv, floor
<1>2. SeatInv' /\ TableInv'
  BY DEF Inv, SeatInv, TableInv, floor
<1>3. FloorInv'
  BY DEF Inv, FloorInv, Debtor, FloorRight, Pending, floor
<1> QED
  BY <1>1, <1>2, <1>3 DEF Inv

LEMMA StoppedTyped == Stopped \in [batch : SUBSET Events, slot : Slots \cup {None}]
BY DEF Stopped

LEMMA StartKeeps == ASSUME Inv, Start PROVE Inv'
<1> DEFINE batch == {e \in Events : status[e] \in {"PENDING", "FAILED"}}
<1>1. /\ run' = [Stopped EXCEPT !.batch = batch] /\ batch \in SUBSET Events
      /\ UNCHANGED <<floor, sold, journal, status, call, faults, history>>
  BY DEF Start
<1> HIDE DEF batch
<1>2. run' \in [batch : SUBSET Events, slot : Slots \cup {None}]
  BY <1>1 DEF Stopped
<1>3. TypeOK'
  BY <1>1, <1>2 DEF Inv, TypeOK, Events, floor, history
<1> QED
  BY <1>1, <1>3, FloorStill DEF history

LEMMA RetryKeeps == ASSUME Inv, NEW e \in Events, Retry(e) PROVE Inv'
<1>1. /\ status' = [status EXCEPT ![e] = "PENDING"]
      /\ UNCHANGED <<floor, sold, journal, run, call, faults, history>>
  BY DEF Retry
<1>2. status' \in [Events -> {"PENDING", "SYNCED", "REVIEW", "FAILED"}]
  BY <1>1 DEF Inv, TypeOK
<1>3. TypeOK'
  BY <1>1, <1>2 DEF Inv, TypeOK, Events, floor, history
<1> QED
  BY <1>1, <1>3, FloorStill DEF history

LEMMA PostKeeps == ASSUME Inv, NEW s \in Slots, NEW e \in Events, Post(s, e) PROVE Inv'
<1> DEFINE k == journal[e].kind
           x == [Idle EXCEPT !.event = e, !.kind = k, !.pc = First(k)]
           struck == {c \in {journal[e].check} : \E t \in Slots : call[t].event = e}
<1>1. /\ call[s] = Idle /\ call' = [call EXCEPT ![s] = x] /\ Remember(struck, FALSE)
      /\ run' = [batch |-> run.batch \ {e}, slot |-> s]
      /\ UNCHANGED <<floor, sold, journal, status, faults, reached>>
  BY DEF Post
<1>2. TypeOK /\ call \in [Slots -> Calls] /\ run \in [batch : SUBSET Events, slot : Slots \cup {None}]
  BY DEF Inv, TypeOK
<1>3. k \in Kinds /\ journal[e].check \in Checks /\ e \in Nat
  BY <1>2, JournalTyped DEF TypeOK, Checks, Events
<1>4. First(k) \in {"find", "resolve"}
  BY DEF First
<1>5. struck \in SUBSET Checks
  BY <1>3
<1> HIDE DEF struck, k
<1>6. x \in Calls /\ x.pc \in {"find", "resolve"} /\ x.event = e /\ x.kind = k /\ x.seen = {}
  BY <1>3, <1>4 DEF Idle, Calls
<1> HIDE DEF x
<1>7. call' \in [Slots -> Calls] /\ call'[s] = x /\ OthersStay(s)
  BY <1>1, <1>2, <1>6, SetTyped
<1>8. CallInv(s)'
  BY <1>1, <1>3, <1>6, <1>7 DEF CallInv, Kinds, Events
<1>9. run' \in [batch : SUBSET Events, slot : Slots \cup {None}]
  BY <1>1, <1>2
<1>10. TypeOK'
  <2>1. /\ state' \in [Checks -> {"none", "PENDING", "COMPLETED", "CANCELLED"}]
        /\ linked' \subseteq Checks /\ opened' \in Seq(Checks)
        /\ pointer' \in Checks \cup {None} /\ sold' \subseteq Events
        /\ status' \in [Events -> {"PENDING", "SYNCED", "REVIEW", "FAILED"}]
        /\ faults' \in 0..MaxFaults /\ reached' \in [Events -> SUBSET Checks]
    BY <1>1, <1>2 DEF TypeOK, floor
  <2> QED
    BY <1>1, <1>2, <1>5, <1>7, <1>9, <2>1, TypeKept
<1>11. ~Debtor(s)
  BY <1>1, IdleTyped DEF Debtor
<1>12. upset => upset' \/ FloorRight(state', linked', pointer')
  BY <1>1, Remembered
<1>13. call'[s].kind # "seat"
  BY <1>3, <1>6, <1>7 DEF Kinds
<1> QED
  BY <1>1, <1>7, <1>8, <1>10, <1>11, <1>12, <1>13, FloorAlone

\* A request forgotten by its sender.
LEMMA Forgotten ==
  ASSUME call \in [Slots -> Calls], NEW s \in Slots, call' = [call EXCEPT ![s] = Idle]
  PROVE  /\ call' \in [Slots -> Calls] /\ OthersStay(s) /\ CallInv(s)'
         /\ call'[s].kind # "seat"
<1>1. call' \in [Slots -> Calls] /\ call'[s] = Idle /\ OthersStay(s)
  BY IdleTyped, SetTyped
<1> QED
  BY <1>1, IdleTyped DEF CallInv, Kinds

LEMMA TakeAnswerKeeps == ASSUME Inv, NEW s \in Slots, TakeAnswer(s) PROVE Inv'
<1>1. /\ call[s].pc = "answer"
      /\ status' = [status EXCEPT ![call[s].event] = call[s].result]
      /\ run' = Ends(run.batch) /\ call' = [call EXCEPT ![s] = Idle]
      /\ UNCHANGED <<floor, sold, journal, faults, history>>
  BY DEF TakeAnswer
<1>2. TypeOK /\ call \in [Slots -> Calls] /\ run \in [batch : SUBSET Events, slot : Slots \cup {None}]
  BY DEF Inv, TypeOK
<1>3. /\ call' \in [Slots -> Calls] /\ OthersStay(s) /\ CallInv(s)'
      /\ call'[s].kind # "seat"
  BY <1>1, <1>2, Forgotten
<1>4. call[s].result \in Results
  BY <1>2 DEF Calls, Results
<1>5. status' \in [Events -> {"PENDING", "SYNCED", "REVIEW", "FAILED"}]
  BY <1>1, <1>2, <1>4 DEF TypeOK, Results
<1>6. run' \in [batch : SUBSET Events, slot : Slots \cup {None}]
  BY <1>1, <1>2, StoppedTyped DEF Ends
<1>7. TypeOK'
  BY <1>1, <1>2, <1>3, <1>5, <1>6 DEF TypeOK, Events, floor, history
<1>8. ~Debtor(s)
  BY <1>1 DEF Debtor
<1>9. upset' = upset
  BY <1>1 DEF history
<1> QED
  BY <1>1, <1>3, <1>7, <1>8, <1>9, FloorAlone

LEMMA CancelledTyped ==
  ASSUME Inv, NEW slots \in SUBSET Slots PROVE Cancelled(slots) \in SUBSET Checks
<1>1. ASSUME NEW s \in slots, call[s].kind = "cancel" PROVE journal[call[s].event].check \in Checks
  <2>1. call[s].event \in Events
    BY <1>1 DEF Inv, CallsInv, CallInv, Kinds
  <2> QED
    BY <2>1, JournalTyped DEF Inv, TypeOK, Checks
<1> QED
  BY <1>1 DEF Cancelled

LEMMA FaultTyped == ASSUME faults \in 0..MaxFaults, Fault PROVE faults' \in 0..MaxFaults
BY FaultsAssumption DEF Fault

LEMMA OwnTyped == ASSUME Inv, NEW s \in Slots PROVE Own(s) \in SUBSET Checks
<1>1. CASE call[s].event = Staff
  BY <1>1 DEF Own
<1>2. CASE call[s].event # Staff
  <2>1. call[s].event \in Events
    BY <1>2 DEF Inv, CallsInv, CallInv
  <2> QED
    BY <1>2, <2>1, JournalTyped DEF Own, Inv, TypeOK, Checks
<1> QED
  BY <1>1, <1>2

LEMMA EndsTyped ==
  ASSUME NEW batch \in SUBSET Events
  PROVE  /\ Ends(batch) \in [batch : SUBSET Events, slot : Slots \cup {None}]
         /\ Ends(batch).slot = None /\ Ends(batch).batch \subseteq batch
         /\ Ends(batch) # Stopped => batch # {} /\ Ends(batch).batch = batch
BY StoppedTyped DEF Ends, Stopped

LEMMA OvertakenTyped ==
  ASSUME Inv, NEW s \in Slots PROVE Overtaken(s) \in SUBSET Checks
<1>1. Own(s) \in SUBSET Checks
  BY OwnTyped
<1> QED
  BY <1>1 DEF Overtaken

\* What the till makes of a request nothing comes back for.
LEMMA UnheardMoves ==
  ASSUME Inv, NEW s \in Slots, NEW struck \in SUBSET Checks, NEW wrong \in BOOLEAN,
         Unheard(s, struck, wrong), journal' = journal
  PROVE  /\ status' \in [Events -> {"PENDING", "SYNCED", "REVIEW", "FAILED"}]
         /\ run' \in [batch : SUBSET Events, slot : Slots \cup {None}]
         /\ \E hit \in SUBSET Checks : Remember(hit, wrong)
<1>1. /\ status \in [Events -> {"PENDING", "SYNCED", "REVIEW", "FAILED"}]
      /\ run.batch \in SUBSET Events
  BY DEF Inv, TypeOK
<1>2. status' \in [Events -> {"PENDING", "SYNCED", "REVIEW", "FAILED"}]
  <2>1. PICK e : e = call[s].event
    OBVIOUS
  <2>2. status' = status \/ \E left \in {"REVIEW", "FAILED"} : status' = [status EXCEPT ![e] = left]
    BY <2>1 DEF Unheard
  <2> QED
    BY <1>1, <2>2
<1>3. run' \in [batch : SUBSET Events, slot : Slots \cup {None}]
  BY <1>1, EndsTyped, StoppedTyped DEF Unheard
<1>4. struck \cup Overtaken(s) \in SUBSET Checks
  BY OvertakenTyped
<1>5. Remember(struck, wrong) \/ Remember(struck \cup Overtaken(s), wrong)
  BY DEF Unheard
<1> QED
  BY <1>2, <1>3, <1>4, <1>5

LEMMA LoseKeeps == ASSUME Inv, NEW s \in Slots, Lose(s) PROVE Inv'
<1> DEFINE struck == Cancelled({s})
<1>1. /\ Fault /\ Unheard(s, struck, FALSE)
      /\ UNCHANGED <<floor, sold, reached>> /\ journal' = journal
  BY DEF Lose
<1>2. TypeOK /\ call \in [Slots -> Calls]
  BY DEF Inv, TypeOK
<1>3. struck \in SUBSET Checks
  BY CancelledTyped
<1> HIDE DEF struck
<1>7. /\ status' \in [Events -> {"PENDING", "SYNCED", "REVIEW", "FAILED"}]
      /\ run' \in [batch : SUBSET Events, slot : Slots \cup {None}]
      /\ \E hit \in SUBSET Checks : Remember(hit, FALSE)
  BY <1>1, <1>3, UnheardMoves
<1>8. PICK hit \in SUBSET Checks : Remember(hit, FALSE)
  BY <1>7
<1>4. /\ call' \in [Slots -> Calls] /\ OthersStay(s) /\ CallInv(s)'
      /\ (call'[s].kind = "seat" => call[s].kind = "seat") /\ (Debtor(s) => Debtor(s)')
  <2>1. CASE call' = call
    BY <1>1, <1>2, <2>1 DEF OthersStay, Inv, CallsInv, CallInv, Debtor, Pending, Events, floor
  <2>2. CASE call[s].pc \in {First(call[s].kind), "answer"} /\ call' = [call EXCEPT ![s] = Idle]
    <3>1. ~Debtor(s)
      BY <2>2 DEF Debtor, First
    <3> QED
      BY <1>2, <2>2, <3>1, Forgotten
  <2> QED
    BY <2>1, <2>2 DEF Lose
<1>5. TypeOK'
  <2>1. /\ state' \in [Checks -> {"none", "PENDING", "COMPLETED", "CANCELLED"}]
        /\ linked' \subseteq Checks /\ opened' \in Seq(Checks)
        /\ pointer' \in Checks \cup {None} /\ sold' \subseteq Events
        /\ faults' \in 0..MaxFaults /\ reached' \in [Events -> SUBSET Checks]
    BY <1>1, <1>2, FaultTyped DEF TypeOK, floor
  <2> QED
    BY <1>1, <1>2, <1>4, <1>7, <1>8, <2>1, TypeKept
<1>6. upset => upset' \/ FloorRight(state', linked', pointer')
  BY <1>8, Remembered
<1> QED
  BY <1>1, <1>4, <1>5, <1>6, FloorAlone

-----------------------------------------------------------------------------
(* The faults of the server. *)

LEMMA CrashKeeps == ASSUME Inv, Crash PROVE Inv'
<1> DEFINE struck == Cancelled(Slots)
           late == \E s \in Slots : call[s].pc \in Releasing \cup {"occupy", "verify"}
<1>1. /\ Fault /\ call' = [s \in Slots |-> Idle] /\ late \in BOOLEAN
      /\ UNCHANGED <<floor, sold, reached>> /\ journal' = journal
  BY DEF Crash
<1>2. TypeOK /\ struck \in SUBSET Checks
  BY CancelledTyped DEF Inv
<1>3. call' \in [Slots -> Calls] /\ \A s \in Slots : call'[s] = Idle
  BY <1>1, IdleTyped
<1>8. /\ status' \in [Events -> {"PENDING", "SYNCED", "REVIEW", "FAILED"}]
      /\ run' \in [batch : SUBSET Events, slot : Slots \cup {None}]
      /\ \E hit \in SUBSET Checks : Remember(hit, late)
  <2>1. \/ run.slot = None /\ UNCHANGED <<run, status>> /\ Remember(struck, late)
        \/ run.slot # None /\ Unheard(run.slot, struck, late)
    BY DEF Crash, struck
  <2>2. run.slot \in Slots \cup {None}
    BY <1>2 DEF TypeOK
  <2> HIDE DEF late
  <2>3. CASE run.slot = None /\ UNCHANGED <<run, status>> /\ Remember(struck, late)
    BY <1>1, <1>2, <2>3 DEF TypeOK, Events
  <2>4. CASE run.slot # None /\ Unheard(run.slot, struck, late)
    BY <1>1, <1>2, <2>2, <2>4, UnheardMoves
  <2> QED
    BY <2>1, <2>3, <2>4
<1> HIDE DEF struck, late
<1>9. PICK hit \in SUBSET Checks : Remember(hit, late)
  BY <1>8
<1>4. TypeOK'
  <2>1. /\ state' \in [Checks -> {"none", "PENDING", "COMPLETED", "CANCELLED"}]
        /\ linked' \subseteq Checks /\ opened' \in Seq(Checks)
        /\ pointer' \in Checks \cup {None} /\ sold' \subseteq Events
        /\ faults' \in 0..MaxFaults /\ reached' \in [Events -> SUBSET Checks]
    BY <1>1, <1>2, FaultTyped DEF TypeOK, floor
  <2> QED
    BY <1>1, <1>2, <1>3, <1>8, <1>9, <2>1, TypeKept
<1>5. CallsInv' /\ SeatInv'
  BY <1>3, IdleTyped DEF CallsInv, CallInv, SeatInv, Kinds
<1>6. TableInv'
  BY <1>1 DEF Inv, TableInv, floor
<1>7. FloorInv'
  <2>1. upset \/ late => upset' \/ FloorRight(state', linked', pointer')
    BY <1>1, <1>9, Remembered
  <2>2. FloorRight(state, linked, pointer) => FloorRight(state', linked', pointer')
    BY <1>1 DEF floor
  <2>3. (\E s \in Slots : Debtor(s)) => late
    BY DEF Debtor, Releasing, late
  <2> QED
    BY <2>1, <2>2, <2>3 DEF Inv, FloorInv
<1> QED
  BY <1>4, <1>5, <1>6, <1>7 DEF Inv

LEMMA FailKeeps == ASSUME Inv, NEW s \in Slots, Fail(s) PROVE Inv'
<1> DEFINE c == call[s].check
           pc == call[s].pc
           late == pc \in Releasing \cup {"occupy", "heal", "verify"}
           struck == Own(s)
<1>1. /\ Fault /\ pc \notin {"idle", "answer"} /\ Remember(struck, late)
      /\ UNCHANGED <<linked, opened, pointer, sold, status, run, reached>> /\ journal' = journal
  BY DEF Fail, device
<1>2. TypeOK /\ call \in [Slots -> Calls] /\ CallInv(s) /\ struck \in SUBSET Checks
  BY OwnTyped DEF Inv, TypeOK, CallsInv
<1>3. /\ call' \in [Slots -> Calls] /\ OthersStay(s) /\ CallInv(s)'
      /\ (call'[s].kind = "seat" => call[s].kind = "seat")
  <2>1. CASE At(s, {"sale"}, "resolve")
    <3>1. GoWith(s, "apply", None) /\ "apply" \in Pcs /\ None \in Checks \cup {None}
      BY <2>1 DEF Fail, Pcs
    <3>2. /\ call' \in [Slots -> Calls] /\ OthersStay(s)
          /\ call'[s].pc = "apply" /\ call'[s].event = call[s].event
          /\ call'[s].kind = call[s].kind /\ call'[s].seen = call[s].seen
      BY <1>2, <3>1, GoWithMoves
    <3>3. call[s].kind = "sale" /\ call[s].pc = "resolve"
      BY <2>1 DEF At
    <3>4. CallInv(s)'
      BY <1>1, <1>2, <3>2, <3>3 DEF CallInv, Events, Kinds
    <3> QED
      BY <3>2, <3>4
  <2>2. CASE ~At(s, {"sale"}, "resolve")
    <3>1. PICK r \in Results : Answer(s, r)
      BY <2>2, ResultTyped DEF Fail
    <3> QED
      BY <1>1, <1>2, <3>1, AnswerMoves
  <2> QED
    BY <2>1, <2>2
<1>4. state' \in [Checks -> {"none", "PENDING", "COMPLETED", "CANCELLED"}]
  BY <1>2 DEF Fail, TypeOK
<1> HIDE DEF struck
<1>5. TypeOK'
  <2>1. /\ linked' \subseteq Checks /\ opened' \in Seq(Checks)
        /\ pointer' \in Checks \cup {None} /\ sold' \subseteq Events
        /\ status' \in [Events -> {"PENDING", "SYNCED", "REVIEW", "FAILED"}]
        /\ run' \in [batch : SUBSET Events, slot : Slots \cup {None}]
        /\ faults' \in 0..MaxFaults /\ reached' \in [Events -> SUBSET Checks]
    BY <1>1, <1>2, FaultTyped DEF TypeOK
  <2> QED
    BY <1>1, <1>2, <1>3, <1>4, <2>1, TypeKept
<1>6. upset \/ late => upset' \/ FloorRight(state', linked', pointer')
  <2>1. late \in BOOLEAN /\ Remember(struck, late)
    BY <1>1
  <2> HIDE DEF late
  <2> QED
    BY <2>1, Remembered
<1>7. Debtor(s) => late
  BY DEF Debtor, Releasing
<1>8. CASE state' = state
  <2>1. UNCHANGED floor
    BY <1>1, <1>8 DEF floor
  <2>2. CASE late
    <3>1. Frame(s)
      BY <1>1, <1>3, <1>8 DEF Frame, Inv, CallsInv, CallInv
    <3>2. TableInv'
      BY <1>1, <1>8 DEF Inv, TableInv
    <3>3. FloorInv'
      BY <1>6, <2>2 DEF FloorInv
    <3> QED
      BY <1>3, <1>5, <3>1, <3>2, <3>3, StepKeeps DEF Inv
  <2>3. CASE ~late
    BY <1>1, <1>3, <1>5, <1>6, <1>7, <2>1, <2>3, FloorAlone
  <2> QED
    BY <2>2, <2>3
<1>9. CASE state' # state
  <2>1. call[s].kind = "seat" /\ c \in Pending /\ state' = [state EXCEPT ![c] = "CANCELLED"]
    BY <1>9 DEF Fail
  <2>2. pc = "link" /\ c \notin linked
    BY <1>1, <1>2, <2>1 DEF CallInv
  <2>3. c \in Checks /\ state[c] # "none"
    BY <2>1 DEF Pending
  <2>4. ~Debtor(s)
    BY <2>2 DEF Debtor
  <2> QED
    BY <1>1, <1>3, <1>5, <1>6, <2>1, <2>2, <2>3, <2>4, UnlinkedMove
<1> QED
  BY <1>8, <1>9

-----------------------------------------------------------------------------
(* The theorems. *)

LEMMA InitHolds == ASSUME Init PROVE Inv
<1>1. TypeOK
  <2>1. /\ state = [c \in Checks |-> "none"] /\ linked = {} /\ opened = <<>> /\ pointer = None
        /\ sold = {} /\ journal \in Journals /\ status = [e \in Events |-> "PENDING"]
        /\ run = Stopped /\ call = [s \in Slots |-> Idle] /\ faults = 0
        /\ reached = [e \in Events |-> {}] /\ disturbed = {} /\ upset = FALSE
    BY DEF Init
  <2>2. opened \in Seq(Checks) /\ faults \in 0..MaxFaults
    BY <2>1, FaultsAssumption
  <2>3. call \in [Slots -> Calls]
    BY <2>1, IdleTyped
  <2>4. run \in [batch : SUBSET Events, slot : Slots \cup {None}]
    BY <2>1, StoppedTyped
  <2> QED
    BY <2>1, <2>2, <2>3, <2>4 DEF TypeOK
<1>2. \A s \in Slots : call[s] = Idle
  BY DEF Init
<1>3. CallsInv /\ SeatInv
  BY <1>2, IdleTyped DEF CallsInv, CallInv, SeatInv, Kinds
<1>4. TableInv /\ FloorInv
  BY DEF Init, TableInv, FloorInv, FloorRight
<1> QED
  BY <1>1, <1>3, <1>4 DEF Inv

LEMMA StutterKeeps == ASSUME Inv, UNCHANGED vars PROVE Inv'
<1>1. UNCHANGED <<floor, sold, device, call, faults, history>>
  BY DEF vars
<1>2. TypeOK'
  BY <1>1 DEF Inv, TypeOK, Events, floor, device, history
<1> QED
  BY <1>1, <1>2, FloorStill DEF device, history

LEMMA NextKeeps == ASSUME Inv, [Next]_vars PROVE Inv'
<1>1. ASSUME NEW s \in Slots, Serve(s) PROVE Inv'
  BY <1>1, FindOrderKeeps, CreateOrderKeeps, LinkKeeps, OccupyKeeps, FindSaleKeeps,
     ResolveKeeps, ApplyKeeps, CancelKeeps, CountKeeps, SellKeeps, AgainKeeps,
     ReadSiblingKeeps, WriteTableKeeps, ClearTableKeeps DEF Serve
<1>2. ASSUME StaffActs PROVE Inv'
  BY <1>2, OpenTabKeeps, SeatLinkKeeps, HealKeeps, VerifyKeeps, SeatKeeps, CloseKeeps,
     LookKeeps DEF StaffActs
<1>3. ASSUME DeviceActs PROVE Inv'
  BY <1>3, StartKeeps, TakeAnswerKeeps, LoseKeeps, PostKeeps, RetryKeeps DEF DeviceActs
<1> QED
  BY <1>1, <1>2, <1>3, FailKeeps, CrashKeeps, StutterKeeps DEF Next

LEMMA AlwaysInv == Spec => []Inv
<1>1. Init => Inv
  BY InitHolds
<1>2. Inv /\ [Next]_vars => Inv'
  BY NextKeeps
<1> QED
  BY <1>1, <1>2, PTL DEF Spec

\* Every field of the floor, the device and the requests keeps its type, whatever the
\* journals of the device.
THEOREM TypeCorrect == Spec => []TypeOK
<1>1. Inv => TypeOK
  BY DEF Inv
<1> QED
  BY <1>1, AlwaysInv, PTL

\* With no request at work the table shows what is there (posEventReplayer.ts and
\* restaurantRepository.ts), except after a known cause, for any number of checks,
\* requests and faults.
THEOREM FloorAlwaysSettles == Spec => []FloorSettles
<1>1. ASSUME Inv PROVE FloorSettles
  <2> SUFFICES ASSUME \A s \in Slots : call[s] = Idle, ~upset
               PROVE  FloorRight(state, linked, pointer)
    BY DEF FloorSettles
  <2>1. \A s \in Slots : ~Debtor(s)
    BY IdleTyped DEF Debtor
  <2> QED
    BY <1>1, <2>1 DEF Inv, FloorInv
<1>2. Inv => FloorSettles
  BY <1>1
<1> QED
  BY <1>2, AlwaysInv, PTL
-----------------------------------------------------------------------------
(* The events of a check.  What is known of a check that nothing disturbed: *)
(* its events go one after another, in the order of the journal, and it is  *)
(* the one pending check at the table until its last event closes it.       *)

Owner(e) == journal[e].check
Clean(e) == Owner(e) \notin disturbed
Working(e) == \E t \in Slots : call[t].event = e

\* How far the request of slot t can have come, by its kind.
ShapeOf(t) ==
  LET e == call[t].event IN
  /\ e \in Events => call[t].kind = journal[e].kind
  /\ call[t].kind = "create" => call[t].pc \in {"find", "create", "link", "occupy", "answer"}
  /\ call[t].kind \in {"update", "kot"} => call[t].pc \in {"resolve", "apply", "answer"}
  /\ call[t].kind = "create" /\ call[t].pc \in {"create", "link", "occupy"}
       => call[t].check = Owner(e)
  /\ call[t].pc = "write" => call[t].seen \subseteq linked

\* The table points to a check that was linked to it.
PointerInv == pointer \in linked \cup {None}

\* A pending check at the table that nothing disturbed is alone there.
HereInv == \A c \in Here \ disturbed : Here = {c}

\* The event that creates a check reaches that check.
CreateInv == \A e \in Events :
  journal[e].kind = "create"
    => reached[e] = IF state[Owner(e)] = "none" THEN {} ELSE {Owner(e)}

\* A check of the device that nothing disturbed was closed by an event of its own.
ClosedInv == \A c \in DeviceChecks \ disturbed :
  state[c] \in {"COMPLETED", "CANCELLED"}
    => \E e \in Events : Owner(e) = c /\ journal[e].kind \in Closing /\ reached[e] # {}

\* The earlier events of its check are synced.
InTurn(e) == \A d \in 1..(e - 1) : Owner(d) = Owner(e) => status[d] = "SYNCED"

\* Event e is the last of its check, and the others are synced: it may be left
\* without an answer, and misleads nobody.
GivenUp(e) == InTurn(e) /\ \A d \in Events : d > e => Owner(d) # Owner(e)

\* What is known of event e of a check that nothing disturbed.
EventOf(e) ==
  /\ status[e] \in {"REVIEW", "FAILED"} => GivenUp(e)
  /\ reached[e] \subseteq {Owner(e)}
  /\ status[e] = "SYNCED" => /\ reached[e] = {Owner(e)} /\ ~Working(e) /\ e \notin run.batch
                             /\ journal[e].kind = "create" => Owner(e) \in linked
  /\ Working(e) \/ reached[e] # {} \/ status[e] = "SYNCED" => InTurn(e)
  /\ run # Stopped => \/ status[e] = "SYNCED" \/ e \in run.batch
                      \/ run.slot # None /\ call[run.slot].event = e
                      \/ GivenUp(e)
  /\ journal[e].kind = "sale" => (e \in sold <=> reached[e] # {})
  /\ journal[e].kind = "cancel" /\ reached[e] # {} => Working(e) \/ status[e] = "SYNCED"

\* What is known of the request of slot t, for an event of such a check.
RequestOf(t) ==
  LET e == call[t].event
      k == call[t].kind
      pc == call[t].pc IN
  /\ \A u \in Slots \ {t} : call[u].event \in Events => Owner(call[u].event) # Owner(e)
  /\ pc = "answer" => /\ call[t].result = "SYNCED" /\ reached[e] = {Owner(e)}
                      /\ k = "create" => Owner(e) \in linked
  /\ k # "create" /\ pc = "apply" => call[t].check = Owner(e)
  /\ k = "create" /\ pc = "create" => reached[e] = {}
  /\ k \in Closing /\ pc \in {"resolve", "apply"} => reached[e] = {}
  /\ k \in Closing /\ pc \in {"again", "read", "write", "clear"} => reached[e] # {}
  /\ k = "cancel" => run.slot = t /\ pc \in {"resolve", "apply", "read", "write", "answer"}
  /\ run.slot = t => e \notin run.batch

ShapeInv == \A t \in Slots : ShapeOf(t)
EventInv == \A e \in Events : Clean(e) => EventOf(e)
RequestInv == \A t \in Slots :
  call[t].event \in Events /\ Clean(call[t].event) => RequestOf(t)

ReachInv == /\ ShapeInv /\ PointerInv /\ HereInv /\ CreateInv /\ ClosedInv
            /\ EventInv /\ RequestInv

\* The request of slot s goes on with its event, or ended and nobody waits for it.
Continues(s) == \/ call'[s].event = call[s].event
                \/ call'[s] = Idle /\ run.slot # s

-----------------------------------------------------------------------------
(* What a till writes. *)

LEMMA StaffNoEvent == ASSUME journal \in Journals PROVE Staff \notin Events
BY JournalTyped DEF Staff, Events

LEMMA Written ==
  ASSUME journal \in Journals, NEW e \in Events
  PROVE  /\ journal[e].kind # "create"
              => \E d \in 1..(e - 1) : d \in Events /\ journal[d].kind = "create" /\ Owner(d) = Owner(e)
         /\ \A d \in 1..(e - 1) :
              Owner(d) = Owner(e) => journal[d].kind \notin Closing /\ journal[e].kind # "create"
<1>1. WrittenByTill(journal)
  BY JournalsAssumption
<1>2. Len(journal) \in Nat /\ e \in 1..Len(journal)
  BY JournalTyped DEF Events
<1>3. \A d \in 1..(e - 1) : d \in 1..Len(journal)
  BY <1>2
<1> QED
  BY <1>1, <1>2, <1>3 DEF WrittenByTill, Owner, Events

-----------------------------------------------------------------------------
(* What a step leaves of the invariant. *)

LEMMA HereRemembered ==
  ASSUME NEW struck, NEW wrong, Remember(struck, wrong)
  PROVE  disturbed \subseteq disturbed' /\ struck \subseteq disturbed' /\ HereInv'
<1>1. disturbed' = disturbed \cup struck
        \cup {c \in linked' : /\ state'[c] = "PENDING"
                              /\ \E d \in linked' \ {c} : state'[d] = "PENDING"}
  BY DEF Remember
<1>2. \A c \in Here' : c \in linked' /\ state'[c] = "PENDING"
  BY DEF Here, Pending
<1>3. ASSUME NEW c \in Here' \ disturbed' PROVE Here' = {c}
  BY <1>1, <1>2
<1> QED
  BY <1>1, <1>3 DEF HereInv

LEMMA IdleShape ==
  ASSUME journal \in Journals, journal' = journal, NEW s \in Slots, call'[s] = Idle
  PROVE  ShapeOf(s)'
<1>1. Staff \notin Events
  BY StaffNoEvent
<1>2. Staff \notin Events'
  BY <1>1 DEF Events
<1> QED
  BY <1>2, IdleTyped DEF ShapeOf

\* A request that answers, or that nobody waits for.
LEMMA Answered ==
  ASSUME Inv, NEW s \in Slots, NEW r \in Results, Answer(s, r), ShapeOf(s), journal' = journal
  PROVE  /\ OthersStay(s) /\ Continues(s) /\ ShapeOf(s)'
         /\ \/ call'[s] = Idle
            \/ /\ run.slot = s /\ call'[s].pc = "answer" /\ call'[s].result = r
               /\ call'[s].event = call[s].event /\ call'[s].kind = call[s].kind
<1> DEFINE x == [call[s] EXCEPT !.pc = "answer", !.result = r]
<1>1. call \in [Slots -> Calls] /\ call[s] \in Calls /\ journal \in Journals
  BY DEF Inv, TypeOK
<1>2. /\ x \in Calls /\ x.pc = "answer" /\ x.event = call[s].event /\ x.kind = call[s].kind
      /\ x.result = r
  BY <1>1 DEF Calls, Results
<1>3. call' = [call EXCEPT ![s] = IF run.slot = s THEN x ELSE Idle]
  BY DEF Answer
<1> HIDE DEF x
<1>4. CASE run.slot = s
  <2>1. call'[s] = x /\ OthersStay(s)
    BY <1>1, <1>2, <1>3, <1>4, SetTyped
  <2>2. ShapeOf(s)'
    BY <1>2, <2>1 DEF ShapeOf, Events, Owner
  <2> QED
    BY <1>2, <1>4, <2>1, <2>2 DEF Continues
<1>5. CASE run.slot # s
  <2>1. call'[s] = Idle /\ OthersStay(s)
    BY <1>1, <1>3, <1>5, IdleTyped, SetTyped
  <2> QED
    BY <1>1, <1>5, <2>1, IdleShape DEF Continues
<1> QED
  BY <1>4, <1>5

\* The request of another slot is for another check.
LEMMA OtherRequest ==
  ASSUME Inv, ReachInv, NEW s \in Slots, NEW t \in Slots \ {s},
         call[t].event \in Events, Clean(call[t].event), call[s].event \in Events
  PROVE  call[t].event # call[s].event /\ Owner(call[t].event) # Owner(call[s].event)
BY DEF ReachInv, RequestInv, RequestOf

\* What the step of slot s owes the invariant.
Owed(s) ==
  LET e == call[s].event IN
  /\ OthersStay(s) /\ Continues(s) /\ ShapeOf(s)'
  /\ \A d \in Events \ {e} : reached'[d] = reached[d] /\ (d \in sold' <=> d \in sold)
  /\ e \in Events /\ Owner(e) \notin disturbed'
       => /\ reached[e] \subseteq reached'[e] /\ reached'[e] \subseteq {Owner(e)}
          /\ journal[e].kind = "sale" => (e \in sold' <=> reached'[e] # {})
          /\ call'[s].event = e => RequestOf(s)'

Still == /\ journal' = journal /\ status' = status /\ run' = run
         /\ linked \subseteq linked' /\ disturbed \subseteq disturbed'

LEMMA EventKept ==
  ASSUME Inv, ReachInv, NEW s \in Slots, Still, Owed(s),
         NEW e \in Events, Owner(e) \notin disturbed'
  PROVE  EventOf(e)'
<1>1. EventOf(e)
  BY DEF ReachInv, EventInv, Still, Clean
<1>2. call[s].event \in Events \cup {Staff} /\ Staff \notin Events
  BY StaffNoEvent DEF Inv, CallsInv, CallInv, TypeOK
<1>3. /\ journal' = journal /\ status' = status /\ run' = run /\ linked \subseteq linked'
  BY DEF Still
<1>4. \A t \in Slots : call'[t].event = e => call[t].event = e
  BY <1>2, IdleTyped DEF Owed, OthersStay, Continues
<1>5. /\ reached[e] \subseteq reached'[e] /\ reached'[e] \subseteq {Owner(e)}
      /\ journal[e].kind = "sale" => (e \in sold' <=> reached'[e] # {})
  BY <1>1 DEF Owed, EventOf
<1>6. reached'[e] # {} => reached[e] # {} \/ Working(e)
  BY DEF Owed, Working
<1>7. Working(e)' => Working(e)
  BY <1>4 DEF Working
<1>8. InTurn(e)' <=> InTurn(e)
  BY <1>3 DEF InTurn, Owner
<1>9. status[e] = "SYNCED" => reached'[e] = reached[e]
  BY <1>1 DEF Owed, EventOf, Working
<1>10. run.slot # None /\ run.slot \in Slots /\ call[run.slot].event = e => call'[run.slot].event = e
  <2> HAVE run.slot # None /\ run.slot \in Slots /\ call[run.slot].event = e
  <2>1. CASE run.slot = s
    BY <2>1 DEF Owed, Continues
  <2>2. CASE run.slot # s
    BY <2>2 DEF Owed, OthersStay
  <2> QED
    BY <2>1, <2>2
<1>11. run.slot \in Slots \cup {None}
  BY DEF Inv, TypeOK
<1>14. GivenUp(e) => GivenUp(e)'
  BY <1>3, <1>8 DEF GivenUp, Owner, Events
<1>12. run # Stopped => \/ status[e] = "SYNCED" \/ e \in run.batch
                        \/ run.slot # None /\ call'[run.slot].event = e
                        \/ GivenUp(e)
  BY <1>1, <1>10, <1>11 DEF EventOf
<1>13. journal[e].kind = "cancel" /\ reached'[e] # {} => Working(e)' \/ status[e] = "SYNCED"
  <2> SUFFICES ASSUME journal[e].kind = "cancel", reached'[e] # {}, status[e] # "SYNCED"
               PROVE  Working(e)'
    OBVIOUS
  <2>1. PICK t \in Slots : call[t].event = e
    BY <1>1, <1>6 DEF EventOf, Working
  <2>2. Clean(e)
    BY DEF Still, Clean
  <2>3. run.slot = t
    BY <2>1, <2>2 DEF ReachInv, RequestInv, RequestOf, ShapeInv, ShapeOf
  <2>4. call'[t].event = e
    BY <1>10, <2>1, <2>3, ChecksAssumption
  <2> QED
    BY <2>4 DEF Working
<1> QED
  BY <1>1, <1>3, <1>5, <1>6, <1>7, <1>8, <1>9, <1>12, <1>13, <1>14 DEF EventOf, Owner

LEMMA RequestKept ==
  ASSUME Inv, ReachInv, NEW s \in Slots, Still, Owed(s),
         NEW t \in Slots, call'[t].event \in Events, Owner(call'[t].event) \notin disturbed'
  PROVE  RequestOf(t)'
<1> DEFINE e == call'[t].event
<1>1. call[s].event \in Events \cup {Staff} /\ Staff \notin Events
  BY StaffNoEvent DEF Inv, CallsInv, CallInv, TypeOK
<1>2. /\ journal' = journal /\ status' = status /\ run' = run /\ linked \subseteq linked'
      /\ disturbed \subseteq disturbed'
  BY DEF Still
<1>3. \A u \in Slots : call'[u].event \in Events => call'[u].event = call[u].event
  BY <1>1, IdleTyped DEF Owed, OthersStay, Continues
<1>4. e = call[t].event /\ e \in Events /\ Clean(e)
  BY <1>2, <1>3 DEF Clean
<1>5. CASE t = s
  BY <1>4, <1>5 DEF Owed
<1>6. CASE t # s
  <2>1. RequestOf(t)
    BY <1>4 DEF ReachInv, RequestInv
  <2>2. call'[t] = call[t]
    BY <1>6 DEF Owed, OthersStay
  <2>3. call[s].event # e
    BY <1>4, <1>6, <2>1 DEF RequestOf
  <2>4. reached'[e] = reached[e]
    BY <1>4, <2>3 DEF Owed
  <2>5. \A u \in Slots \ {t} : call'[u].event \in Events => Owner(call'[u].event) # Owner(e)
    BY <1>3, <1>4, <2>1 DEF RequestOf
  <2> HIDE DEF e
  <2> QED
    BY <1>2, <1>4, <2>1, <2>2, <2>4, <2>5 DEF RequestOf, Owner, Events
<1> QED
  BY <1>5, <1>6

LEMMA ShapeKept ==
  ASSUME Inv, ReachInv, NEW s \in Slots, Still, Owed(s), NEW t \in Slots
  PROVE  ShapeOf(t)'
<1>1. CASE t = s
  BY <1>1 DEF Owed
<1>2. CASE t # s
  <2>1. ShapeOf(t) /\ call'[t] = call[t]
    BY <1>2 DEF ReachInv, ShapeInv, Owed, OthersStay
  <2> QED
    BY <2>1 DEF ShapeOf, Still, Owner, Events
<1> QED
  BY <1>1, <1>2

\* The step of one slot.
LEMMA RequestStep ==
  ASSUME Inv, ReachInv, NEW s \in Slots, Still, Owed(s),
         PointerInv', HereInv', CreateInv', ClosedInv'
  PROVE  ReachInv'
<1>1. Events' = Events /\ journal' = journal
  BY DEF Still, Events
<1>2. ShapeInv'
  BY ShapeKept DEF ShapeInv
<1>3. EventInv'
  BY <1>1, EventKept DEF EventInv, Clean, Owner
<1>4. RequestInv'
  BY <1>1, RequestKept DEF RequestInv, Clean, Owner
<1> QED
  BY <1>2, <1>3, <1>4 DEF ReachInv

\* The check of every creating event is as it was, but for its being opened or closed.
LEMMA CreateKept ==
  ASSUME CreateInv, journal \in Journals, journal' = journal,
         \A c \in DeviceChecks : state'[c] = "none" <=> state[c] = "none",
         \A e \in Events : journal[e].kind = "create" => reached'[e] = reached[e]
  PROVE  CreateInv'
<1> SUFFICES ASSUME NEW e \in Events, journal[e].kind = "create"
             PROVE  reached'[e] = IF state'[Owner(e)] = "none" THEN {} ELSE {Owner(e)}
  BY DEF CreateInv, Events, Owner
<1>1. Owner(e) \in DeviceChecks
  BY JournalTyped DEF Owner
<1> QED
  BY <1>1 DEF CreateInv

\* No check of the device was closed, or it is disturbed.
LEMMA ClosedKept ==
  ASSUME ClosedInv, journal' = journal, disturbed \subseteq disturbed',
         \A c \in DeviceChecks \ disturbed' :
           state'[c] \in {"COMPLETED", "CANCELLED"} => state[c] \in {"COMPLETED", "CANCELLED"},
         \A e \in Events : reached[e] \subseteq reached'[e]
  PROVE  ClosedInv'
<1> SUFFICES ASSUME NEW c \in DeviceChecks \ disturbed', state'[c] \in {"COMPLETED", "CANCELLED"}
             PROVE  \E e \in Events : Owner(e) = c /\ journal[e].kind \in Closing /\ reached'[e] # {}
  BY DEF ClosedInv, Events, Owner
<1>1. PICK e \in Events : Owner(e) = c /\ journal[e].kind \in Closing /\ reached[e] # {}
  BY DEF ClosedInv
<1> QED
  BY <1>1

\* A step of one slot that opens, closes and changes no check.
LEMMA QuietStep ==
  ASSUME Inv, ReachInv, NEW s \in Slots, Still, state' = state, sold' = sold, reached' = reached,
         OthersStay(s), Continues(s), ShapeOf(s)', PointerInv', HereInv',
         LET e == call[s].event IN
           e \in Events /\ Owner(e) \notin disturbed' /\ call'[s].event = e => RequestOf(s)'
  PROVE  ReachInv'
<1>1. CreateInv'
  BY CreateKept DEF ReachInv, Still, Inv, TypeOK
<1>2. ClosedInv'
  BY ClosedKept DEF ReachInv, Still
<1>3. Owed(s)
  <2> DEFINE e == call[s].event
  <2>1. ASSUME e \in Events, Owner(e) \notin disturbed'
        PROVE  /\ reached[e] \subseteq {Owner(e)}
               /\ journal[e].kind = "sale" => (e \in sold <=> reached[e] # {})
    BY <2>1 DEF ReachInv, EventInv, EventOf, Still, Clean
  <2> QED
    BY <2>1 DEF Owed
<1> QED
  BY <1>1, <1>2, <1>3, RequestStep

-----------------------------------------------------------------------------
(* The check of an event at work. *)

\* The check an event was written for is the pending check of the table, alone, until
\* the event has changed it.
LEMMA Present ==
  ASSUME Inv, ReachInv, NEW s \in Slots, NEW e \in Events, call[s].event = e, Clean(e),
         journal[e].kind # "create", journal[e].kind \in Closing => reached[e] = {}
  PROVE  Here = {Owner(e)} /\ Owner(e) \in Pending
<1> DEFINE c == Owner(e)
<1>1. journal \in Journals /\ c \in DeviceChecks /\ c \in Checks /\ Events \subseteq Nat
  BY JournalTyped DEF Inv, TypeOK, Owner, Checks, Events
<1>2. EventOf(e) /\ Working(e) /\ InTurn(e)
  BY DEF ReachInv, EventInv, EventOf, Working
<1>3. PICK d \in 1..(e - 1) : d \in Events /\ journal[d].kind = "create" /\ Owner(d) = c
  BY <1>1, Written
<1>4. EventOf(d) /\ status[d] = "SYNCED"
  BY <1>2, <1>3 DEF InTurn, ReachInv, EventInv, Clean
<1>5. c \in linked /\ state[c] # "none"
  BY <1>3, <1>4 DEF EventOf, Inv, TableInv
<1>6. state[c] \notin {"COMPLETED", "CANCELLED"}
  <2> SUFFICES ASSUME state[c] \in {"COMPLETED", "CANCELLED"} PROVE FALSE
    OBVIOUS
  <2>1. PICK x \in Events : Owner(x) = c /\ journal[x].kind \in Closing /\ reached[x] # {}
    BY <1>1 DEF ReachInv, ClosedInv, Clean
  <2>2. x # e
    BY <2>1
  <2>3. CASE x < e
    <3>1. x \in 1..(e - 1)
      BY <1>1, <2>3 DEF Events
    <3> QED
      BY <1>1, <2>1, <3>1, Written
  <2>4. CASE e < x
    <3>1. e \in 1..(x - 1)
      BY <1>1, <2>4 DEF Events
    <3>2. EventOf(x) /\ InTurn(x)
      BY <2>1 DEF ReachInv, EventInv, EventOf, Clean
    <3>3. status[e] = "SYNCED"
      BY <2>1, <3>1, <3>2 DEF InTurn
    <3> QED
      BY <1>2, <3>3 DEF EventOf
  <2> QED
    BY <1>1, <2>2, <2>3, <2>4
<1>7. c \in Pending /\ c \in Here
  BY <1>1, <1>5, <1>6 DEF Inv, TypeOK, Pending, Here
<1> QED
  BY <1>7 DEF ReachInv, HereInv, Clean

\* So the server finds it.
LEMMA Found ==
  ASSUME Inv, ReachInv, NEW c \in Pending, Here = {c}
  PROVE  Resolved = c
<1>1. pointer \in Pending => pointer = c
  BY ChecksAssumption DEF ReachInv, PointerInv, Here, Pending
<1>2. \E i \in 1..Len(opened) : opened[i] = c
  BY DEF Inv, TableInv, Pending
<1>3. Age(c) \in 1..Len(opened)
  BY <1>2 DEF Age
<1>4. Age(c) >= Age(c)
  BY <1>3 DEF Inv, TypeOK
<1>5. Newest(Here) = {c}
  BY <1>4 DEF Newest
<1>6. Only(Newest(Here)) = c
  BY <1>5 DEF Only
<1> QED
  BY <1>1, <1>6 DEF Resolved

-----------------------------------------------------------------------------
(* The steps that leave the checks as they are. *)

\* The request of an event whose check stays undisturbed.
LEMMA GoesOn ==
  ASSUME Inv, ReachInv, NEW s \in Slots, Still, OthersStay(s),
         NEW e \in Events, e = call[s].event, Owner(e) \notin disturbed', call'[s].event = e
  PROVE  /\ Clean(e) /\ RequestOf(s) /\ EventOf(e) /\ ShapeOf(s)
         /\ call[s].kind = journal[e].kind
         /\ \A u \in Slots \ {s} : call'[u].event \in Events => Owner(call'[u].event) # Owner(e)
<1>1. Clean(e)
  BY DEF Still, Clean
<1>2. RequestOf(s) /\ EventOf(e) /\ ShapeOf(s)
  BY <1>1 DEF ReachInv, RequestInv, EventInv, ShapeInv
<1> QED
  BY <1>1, <1>2 DEF RequestOf, ShapeOf, OthersStay

LEMMA AnsweredRequest ==
  ASSUME Inv, ReachInv, NEW s \in Slots, Still, OthersStay(s),
         NEW e \in Events, e = call[s].event, Owner(e) \notin disturbed',
         call'[s].event = e, call'[s].kind = call[s].kind, call'[s].pc = "answer",
         call'[s].result = "SYNCED", run.slot = s,
         reached'[e] = {Owner(e)}, call[s].kind = "create" => Owner(e) \in linked'
  PROVE  RequestOf(s)'
<1>1. /\ RequestOf(s)
      /\ \A u \in Slots \ {s} : call'[u].event \in Events => Owner(call'[u].event) # Owner(e)
  BY GoesOn
<1>2. journal' = journal /\ run' = run
  BY DEF Still
<1> QED
  BY <1>1, <1>2 DEF RequestOf, Owner, Events, Closing

LEMMA FloorQuiet ==
  ASSUME ReachInv, UNCHANGED <<floor, device, history>>
  PROVE  /\ Still /\ PointerInv' /\ HereInv' /\ state' = state /\ reached' = reached
         /\ linked' = linked /\ disturbed' = disturbed
BY DEF ReachInv, floor, device, history, Still, PointerInv, HereInv, Here, Pending

LEMMA FindOrderReach == ASSUME Inv, ReachInv, NEW s \in Slots, FindOrder(s) PROVE ReachInv'
<1> DEFINE e == call[s].event
           c == Owner(e)
<1>1. call[s].kind = "create" /\ call[s].pc = "find"
  BY DEF FindOrder, At
<1>2. e \in Events /\ call \in [Slots -> Calls] /\ ShapeOf(s)
  BY <1>1 DEF Inv, CallsInv, CallInv, TypeOK, Kinds, ReachInv, ShapeInv
<1>3. c \in Checks
  BY <1>2, JournalTyped DEF Inv, TypeOK, Checks, Owner
<1>4. PICK pc \in {"create", "link"} : GoWith(s, pc, c) /\ (pc = "create" => state[c] = "none")
  BY DEF FindOrder, Owner
<1>10. pc = "create" => reached[e] = {}
  BY <1>1, <1>2, <1>4 DEF ReachInv, CreateInv, ShapeOf
<1> HIDE DEF c
<1>5. pc \in Pcs
  BY DEF Pcs
<1>6. /\ OthersStay(s)
      /\ call'[s].pc = pc /\ call'[s].event = call[s].event
      /\ call'[s].kind = call[s].kind /\ call'[s].check = c
  BY <1>2, <1>3, <1>4, <1>5, GoWithMoves
<1>7. /\ Still /\ PointerInv' /\ HereInv' /\ state' = state /\ reached' = reached /\ sold' = sold
  BY FloorQuiet DEF FindOrder
<1>8. ShapeOf(s)'
  BY <1>1, <1>2, <1>6, <1>7 DEF ShapeOf, Still, Events, Owner, c
<1>9. ASSUME c \notin disturbed' PROVE RequestOf(s)'
  BY <1>1, <1>2, <1>6, <1>7, <1>9, <1>10, GoesOn DEF RequestOf, Still, Owner, Events, Closing, c
<1> QED
  BY <1>6, <1>7, <1>8, <1>9, QuietStep DEF Continues, c

LEMMA LinkReach == ASSUME Inv, ReachInv, NEW s \in Slots, Link(s) PROVE ReachInv'
<1> DEFINE e == call[s].event
           c == call[s].check
<1>1. call[s].kind = "create" /\ call[s].pc = "link"
  BY DEF Link, At
<1>2. e \in Events /\ call \in [Slots -> Calls] /\ ShapeOf(s)
  BY <1>1 DEF Inv, CallsInv, CallInv, TypeOK, Kinds, ReachInv, ShapeInv
<1>3. /\ OthersStay(s)
      /\ call'[s].pc = "occupy" /\ call'[s].event = call[s].event
      /\ call'[s].kind = call[s].kind /\ call'[s].check = c
  <2>1. "occupy" \in Pcs /\ Go(s, "occupy")
    BY DEF Pcs, Link
  <2> QED
    BY <1>2, <2>1, GoMoves
<1>4. /\ state' = state /\ reached' = reached /\ sold' = sold /\ linked' = linked \cup {c}
      /\ pointer' = pointer /\ journal' = journal /\ status' = status /\ run' = run
  BY DEF Link, device
<1>5. HereInv' /\ Still
  BY <1>4, HereRemembered DEF Link, Still
<1>6. PointerInv'
  BY <1>4 DEF ReachInv, PointerInv
<1>7. ShapeOf(s)'
  BY <1>1, <1>2, <1>3, <1>4 DEF ShapeOf, Events, Owner
<1>8. ASSUME Owner(e) \notin disturbed' PROVE RequestOf(s)'
  BY <1>1, <1>2, <1>3, <1>4, <1>5, <1>8, GoesOn DEF RequestOf, Owner, Events, Closing
<1> QED
  BY <1>3, <1>4, <1>5, <1>6, <1>7, <1>8, QuietStep DEF Continues

LEMMA OccupyReach == ASSUME Inv, ReachInv, NEW s \in Slots, Occupy(s) PROVE ReachInv'
<1> DEFINE e == call[s].event
           c == call[s].check
<1>1. call[s].kind = "create" /\ call[s].pc = "occupy"
  BY DEF Occupy, At
<1>2. /\ e \in Events /\ ShapeOf(s) /\ c \in linked /\ c = Owner(e) /\ c \in DeviceChecks
      /\ journal[e].kind = "create"
  BY <1>1, JournalTyped
     DEF Inv, CallsInv, CallInv, TypeOK, Kinds, ReachInv, ShapeInv, ShapeOf, Owner
<1>3. reached[e] = {c}
  BY <1>2 DEF ReachInv, CreateInv, Inv, TableInv
<1>4. /\ state' = state /\ reached' = reached /\ sold' = sold /\ linked' = linked
      /\ pointer' = c /\ journal' = journal /\ status' = status /\ run' = run
      /\ Answer(s, "SYNCED")
  BY DEF Occupy, device
<1>5. HereInv' /\ Still
  BY <1>4, HereRemembered DEF Occupy, Still
<1>6. PointerInv'
  BY <1>2, <1>4 DEF PointerInv
<1>7. /\ OthersStay(s) /\ Continues(s) /\ ShapeOf(s)'
      /\ \/ call'[s] = Idle
         \/ /\ run.slot = s /\ call'[s].pc = "answer" /\ call'[s].result = "SYNCED"
            /\ call'[s].event = call[s].event /\ call'[s].kind = call[s].kind
  BY <1>2, <1>4, Answered DEF Results
<1>8. ASSUME Owner(e) \notin disturbed', call'[s].event = e PROVE RequestOf(s)'
  <2>1. call'[s] # Idle
    BY <1>2, <1>8, IdleTyped, StaffNoEvent DEF Inv, TypeOK
  <2> QED
    BY <1>2, <1>3, <1>4, <1>5, <1>7, <1>8, <2>1, AnsweredRequest
<1> QED
  BY <1>4, <1>5, <1>6, <1>7, <1>8, QuietStep

LEMMA FindSaleReach == ASSUME Inv, ReachInv, NEW s \in Slots, FindSale(s) PROVE ReachInv'
<1> DEFINE e == call[s].event
<1>1. call[s].kind = "sale" /\ call[s].pc = "find"
  BY DEF FindSale, At
<1>2. e \in Events /\ call \in [Slots -> Calls] /\ ShapeOf(s)
  BY <1>1 DEF Inv, CallsInv, CallInv, TypeOK, Kinds, ReachInv, ShapeInv
<1>3. PICK pc \in {"again", "resolve"} : Go(s, pc) /\ (pc = "again" <=> e \in sold)
  BY DEF FindSale
<1>4. pc \in Pcs
  BY DEF Pcs
<1>5. /\ OthersStay(s)
      /\ call'[s].pc = pc /\ call'[s].event = call[s].event
      /\ call'[s].kind = call[s].kind
  BY <1>2, <1>3, <1>4, GoMoves
<1>6. /\ Still /\ PointerInv' /\ HereInv' /\ state' = state /\ reached' = reached /\ sold' = sold
  BY FloorQuiet DEF FindSale
<1>7. ShapeOf(s)'
  BY <1>1, <1>2, <1>5, <1>6 DEF ShapeOf, Still, Events, Owner
<1>8. ASSUME Owner(e) \notin disturbed' PROVE RequestOf(s)'
  <2>1. /\ RequestOf(s) /\ EventOf(e) /\ journal[e].kind = "sale"
        /\ \A u \in Slots \ {s} : call'[u].event \in Events => Owner(call'[u].event) # Owner(e)
    BY <1>1, <1>2, <1>5, <1>6, <1>8, GoesOn
  <2>2. pc = "again" <=> reached[e] # {}
    BY <1>3, <2>1 DEF EventOf
  <2> QED
    BY <1>1, <1>5, <1>6, <2>1, <2>2 DEF RequestOf, Still, Owner, Events, Closing
<1> QED
  BY <1>5, <1>6, <1>7, <1>8, QuietStep DEF Continues

LEMMA ResolveReach == ASSUME Inv, ReachInv, NEW s \in Slots, Resolve(s) PROVE ReachInv'
<1> DEFINE e == call[s].event
           c == Owner(e)
<1>1. call[s].kind \in {"update", "kot", "cancel", "sale"} /\ call[s].pc = "resolve"
  BY DEF Resolve, At
<1>2. /\ e \in Events /\ call \in [Slots -> Calls] /\ ShapeOf(s) /\ journal[e].kind = call[s].kind
  BY <1>1 DEF Inv, CallsInv, CallInv, TypeOK, Kinds, ReachInv, ShapeInv, ShapeOf
<1>3. /\ Still /\ PointerInv' /\ HereInv' /\ state' = state /\ reached' = reached
      /\ sold' = sold /\ disturbed' = disturbed /\ journal' = journal /\ run' = run
  BY FloorQuiet DEF Resolve, Still
<1>4. ASSUME c \notin disturbed PROVE Resolved = c /\ c # None
  <2>1. Clean(e) /\ RequestOf(s)
    BY <1>2, <1>4 DEF Clean, ReachInv, RequestInv
  <2>2. journal[e].kind # "create" /\ (journal[e].kind \in Closing => reached[e] = {})
    BY <1>1, <1>2, <2>1 DEF RequestOf
  <2>3. Here = {c} /\ c \in Pending
    BY <1>2, <2>1, <2>2, Present
  <2> QED
    BY <2>3, Found, ChecksAssumption DEF Pending
<1>5. CASE Answer(s, "SYNCED") /\ Resolved = None
  <2>1. OthersStay(s) /\ Continues(s) /\ ShapeOf(s)'
    BY <1>2, <1>3, <1>5, Answered DEF Results
  <2> QED
    BY <1>3, <1>4, <1>5, <2>1, QuietStep
<1>6. CASE \E pc \in {"count", "apply"} :
             GoWith(s, pc, Resolved) /\ (pc = "count" => Resolved = None /\ call[s].kind = "cancel")
  <2>1. PICK pc \in {"count", "apply"} :
          GoWith(s, pc, Resolved) /\ (pc = "count" => Resolved = None /\ call[s].kind = "cancel")
    BY <1>6
  <2>2. pc \in Pcs /\ Resolved \in Checks \cup {None}
    BY ResolvedTyped DEF Pcs, Pending
  <2>3. /\ OthersStay(s)
        /\ call'[s].pc = pc /\ call'[s].event = e
        /\ call'[s].kind = call[s].kind /\ call'[s].check = Resolved
    BY <1>2, <2>1, <2>2, GoWithMoves
  <2>4. ShapeOf(s)'
    BY <1>1, <1>2, <1>3, <2>1, <2>3 DEF ShapeOf, Events, Owner
  <2>5. ASSUME c \notin disturbed' PROVE RequestOf(s)'
    <3>1. /\ RequestOf(s)
          /\ \A u \in Slots \ {s} : call'[u].event \in Events => Owner(call'[u].event) # Owner(e)
      BY <1>2, <1>3, <2>3, <2>5, GoesOn
    <3>2. Resolved = c /\ pc = "apply"
      BY <1>3, <1>4, <2>1, <2>5
    <3> QED
      BY <1>1, <1>3, <2>3, <3>1, <3>2 DEF RequestOf, Owner, Events, Closing
  <2> QED
    BY <1>3, <2>3, <2>4, <2>5, QuietStep DEF Continues
<1> QED
  BY <1>5, <1>6 DEF Resolve

LEMMA CountReach == ASSUME Inv, ReachInv, NEW s \in Slots, Count(s) PROVE ReachInv'
<1> DEFINE e == call[s].event
<1>1. call[s].kind = "cancel" /\ call[s].pc = "count"
  BY DEF Count, At
<1>2. e \in Events /\ call \in [Slots -> Calls] /\ ShapeOf(s)
  BY <1>1 DEF Inv, CallsInv, CallInv, TypeOK, Kinds, ReachInv, ShapeInv
<1>3. /\ Still /\ PointerInv' /\ HereInv' /\ state' = state /\ reached' = reached
      /\ sold' = sold /\ disturbed' = disturbed /\ journal' = journal
  BY FloorQuiet DEF Count, Still
<1>4. Owner(e) \in disturbed
  BY <1>1, <1>2 DEF Clean, ReachInv, RequestInv, RequestOf
<1>5. CASE Answer(s, "SYNCED")
  <2>1. OthersStay(s) /\ Continues(s) /\ ShapeOf(s)'
    BY <1>2, <1>3, <1>5, Answered DEF Results
  <2> QED
    BY <1>3, <1>4, <2>1, QuietStep
<1>6. CASE GoSeen(s, "clear", Here)
  <2>1. "clear" \in Pcs /\ Here \in SUBSET Checks
    BY DEF Pcs, Here, Pending
  <2>2. /\ OthersStay(s) /\ call'[s].pc = "clear" /\ call'[s].event = e
        /\ call'[s].kind = call[s].kind
    BY <1>2, <1>6, <2>1, SeenMoves
  <2>3. ShapeOf(s)'
    BY <1>1, <1>2, <1>3, <2>2 DEF ShapeOf, Events, Owner
  <2> QED
    BY <1>3, <1>4, <2>2, <2>3, QuietStep DEF Continues
<1> QED
  BY <1>5, <1>6 DEF Count, GoSeen

LEMMA AgainReach == ASSUME Inv, ReachInv, NEW s \in Slots, Again(s) PROVE ReachInv'
<1> DEFINE e == call[s].event
<1>1. call[s].kind = "sale" /\ call[s].pc = "again"
  BY DEF Again, At
<1>2. e \in Events /\ call \in [Slots -> Calls] /\ ShapeOf(s)
  BY <1>1 DEF Inv, CallsInv, CallInv, TypeOK, Kinds, ReachInv, ShapeInv
<1>3. PICK pc \in {"clear", "read"} : GoWith(s, pc, Resolved)
  BY DEF Again
<1>4. pc \in Pcs /\ Resolved \in Checks \cup {None}
  BY ResolvedTyped DEF Pcs, Pending
<1>5. /\ OthersStay(s) /\ call'[s].pc = pc /\ call'[s].event = e
      /\ call'[s].kind = call[s].kind
  BY <1>2, <1>3, <1>4, GoWithMoves
<1>6. /\ Still /\ PointerInv' /\ HereInv' /\ state' = state /\ reached' = reached
      /\ sold' = sold /\ journal' = journal /\ run' = run
  BY FloorQuiet DEF Again, Still
<1>7. ShapeOf(s)'
  BY <1>1, <1>2, <1>5, <1>6 DEF ShapeOf, Events, Owner
<1>8. ASSUME Owner(e) \notin disturbed' PROVE RequestOf(s)'
  <2>1. /\ RequestOf(s)
        /\ \A u \in Slots \ {s} : call'[u].event \in Events => Owner(call'[u].event) # Owner(e)
    BY <1>2, <1>5, <1>6, <1>8, GoesOn
  <2> QED
    BY <1>1, <1>5, <1>6, <2>1 DEF RequestOf, Owner, Events, Closing
<1> QED
  BY <1>5, <1>6, <1>7, <1>8, QuietStep DEF Continues

\* An event that closes its check and comes to release the table has changed the check.
LEMMA Released ==
  ASSUME Inv, ReachInv, NEW s \in Slots, NEW e \in Events, call[s].event = e, Clean(e),
         call[s].pc \in {"again", "read", "write", "clear"}
  PROVE  reached[e] = {Owner(e)} /\ call[s].kind # "create"
<1>1. ShapeOf(s) /\ RequestOf(s) /\ EventOf(e)
  BY DEF ReachInv, ShapeInv, RequestInv, EventInv
<1>2. journal[e].kind \in Kinds /\ call[s].kind = journal[e].kind
  BY <1>1, JournalTyped DEF ShapeOf, Inv, TypeOK
<1>3. call[s].kind \in Closing
  BY <1>1, <1>2 DEF ShapeOf, Kinds, Closing
<1>4. reached[e] # {} /\ reached[e] \subseteq {Owner(e)}
  BY <1>1, <1>3 DEF RequestOf, EventOf
<1> QED
  BY <1>3, <1>4 DEF Closing

\* An event or staff, releasing the table.
LEMMA ReleaseStep ==
  ASSUME Inv, ReachInv, NEW s \in Slots, Still, PointerInv', HereInv',
         state' = state, reached' = reached, sold' = sold, linked' = linked,
         call[s].pc \in {"read", "write", "clear"},
         \/ Answer(s, "SYNCED")
         \/ call[s].pc = "read" /\ GoSeen(s, "write", Here)
  PROVE  ReachInv'
<1> DEFINE e == call[s].event
<1>1. call \in [Slots -> Calls] /\ ShapeOf(s) /\ journal' = journal /\ run' = run /\ journal \in Journals
  BY DEF Inv, TypeOK, ReachInv, ShapeInv, Still
<1>2. ASSUME e \in Events, Owner(e) \notin disturbed'
      PROVE  reached[e] = {Owner(e)} /\ call[s].kind # "create"
  BY <1>2, Released DEF Clean, Still
<1>3. CASE Answer(s, "SYNCED")
  <2>1. /\ OthersStay(s) /\ Continues(s) /\ ShapeOf(s)'
        /\ \/ call'[s] = Idle
           \/ /\ run.slot = s /\ call'[s].pc = "answer" /\ call'[s].result = "SYNCED"
              /\ call'[s].event = call[s].event /\ call'[s].kind = call[s].kind
    BY <1>1, <1>3, Answered DEF Results
  <2>2. ASSUME e \in Events, Owner(e) \notin disturbed', call'[s].event = e PROVE RequestOf(s)'
    <3>1. call'[s] # Idle
      BY <1>1, <2>2, IdleTyped, StaffNoEvent
    <3> QED
      BY <1>2, <2>1, <2>2, <3>1, AnsweredRequest
  <2> QED
    BY <2>1, <2>2, QuietStep
<1>4. CASE call[s].pc = "read" /\ GoSeen(s, "write", Here)
  <2>1. "write" \in Pcs /\ Here \in SUBSET Checks /\ Here \subseteq linked
    BY DEF Pcs, Here, Pending
  <2>2. /\ OthersStay(s) /\ call'[s].pc = "write" /\ call'[s].event = e
        /\ call'[s].kind = call[s].kind /\ call'[s].seen = Here
    BY <1>1, <1>4, <2>1, SeenMoves
  <2>3. ShapeOf(s)'
    BY <1>1, <1>4, <2>1, <2>2 DEF ShapeOf, Events, Owner
  <2>4. ASSUME e \in Events, Owner(e) \notin disturbed' PROVE RequestOf(s)'
    <3>1. /\ RequestOf(s)
          /\ \A u \in Slots \ {s} : call'[u].event \in Events => Owner(call'[u].event) # Owner(e)
      BY <2>2, <2>4, GoesOn
    <3> QED
      BY <1>1, <1>2, <1>4, <2>2, <2>4, <3>1 DEF RequestOf, Owner, Events, Closing
  <2> QED
    BY <2>2, <2>3, <2>4, QuietStep DEF Continues
<1> QED
  BY <1>3, <1>4

LEMMA ReadSiblingReach == ASSUME Inv, ReachInv, NEW s \in Slots, ReadSibling(s) PROVE ReachInv'
<1>1. /\ Still /\ PointerInv' /\ HereInv' /\ state' = state /\ reached' = reached
      /\ sold' = sold /\ linked' = linked
  BY FloorQuiet DEF ReadSibling
<1> QED
  BY <1>1, ReleaseStep DEF ReadSibling, GoSeen

LEMMA WriteTableReach == ASSUME Inv, ReachInv, NEW s \in Slots, WriteTable(s) PROVE ReachInv'
<1>1. /\ UNCHANGED <<state, linked, opened, sold, device, faults, reached>>
      /\ pointer' = Sibling(call[s].check, call[s].seen) /\ call[s].pc = "write"
  BY DEF WriteTable
<1>2. HereInv' /\ Still
  BY <1>1, HereRemembered DEF WriteTable, Still, device
<1>3. call[s].seen \subseteq linked
  BY <1>1 DEF ReachInv, ShapeInv, ShapeOf
<1>4. Oldest(call[s].seen \ {call[s].check}) \subseteq linked
  BY <1>3 DEF Oldest
<1>5. PointerInv'
  BY <1>1, <1>4, OnlyMember DEF Sibling, PointerInv
<1> QED
  BY <1>1, <1>2, <1>5, ReleaseStep DEF WriteTable

LEMMA ClearTableReach == ASSUME Inv, ReachInv, NEW s \in Slots, ClearTable(s) PROVE ReachInv'
<1>1. /\ UNCHANGED <<state, linked, opened, sold, device, faults, reached>>
      /\ pointer' = None /\ call[s].pc = "clear"
  BY DEF ClearTable
<1>2. HereInv' /\ Still
  BY <1>1, HereRemembered DEF ClearTable, Still, device
<1>3. PointerInv'
  BY <1>1 DEF PointerInv
<1> QED
  BY <1>1, <1>2, <1>3, ReleaseStep DEF ClearTable

-----------------------------------------------------------------------------
(* The steps that open, change or close a check. *)

LEMMA CreateOrderReach == ASSUME Inv, ReachInv, NEW s \in Slots, CreateOrder(s) PROVE ReachInv'
<1> DEFINE e == call[s].event
           c == Owner(e)
<1>1. call[s].kind = "create" /\ call[s].pc = "create"
  BY DEF CreateOrder, At
<1>2. /\ e \in Events /\ call \in [Slots -> Calls] /\ ShapeOf(s) /\ call[s].check = c
      /\ journal[e].kind = "create" /\ c \in DeviceChecks /\ c \in Checks /\ Events \subseteq Nat
      /\ reached \in [Events -> SUBSET Checks]
      /\ state \in [Checks -> {"none", "PENDING", "COMPLETED", "CANCELLED"}]
  BY <1>1, JournalTyped
     DEF Inv, CallsInv, CallInv, TypeOK, Kinds, ReachInv, ShapeInv, ShapeOf, Owner, Checks, Events
<1>3. /\ linked' = linked /\ pointer' = pointer /\ sold' = sold /\ run' = run
      /\ journal' = journal /\ status' = status
  BY DEF CreateOrder, device
<1>4. HereInv' /\ Still
  BY <1>3, HereRemembered DEF CreateOrder, Still
<1>5. PointerInv'
  BY <1>3 DEF ReachInv, PointerInv
<1>6. CASE /\ state[c] = "none" /\ state' = [state EXCEPT ![c] = "PENDING"]
           /\ Go(s, "link") /\ Reach(s, c)
  <2>1. /\ OthersStay(s) /\ call'[s].pc = "link" /\ call'[s].event = e
        /\ call'[s].kind = call[s].kind /\ call'[s].check = c
    BY <1>2, <1>6, GoMoves DEF Pcs
  <2>2. ShapeOf(s)'
    BY <1>1, <1>2, <1>3, <2>1 DEF ShapeOf, Events, Owner
  <2>3. reached[e] = {}
    BY <1>2, <1>6 DEF ReachInv, CreateInv
  <2>4. reached'[e] = {c} /\ \A d \in Events \ {e} : reached'[d] = reached[d]
    BY <1>2, <1>6, <2>3 DEF Reach
  <2>5. state'[c] = "PENDING" /\ \A d \in Checks \ {c} : state'[d] = state[d]
    BY <1>2, <1>6
  <2>6. ASSUME NEW d \in Events \ {e}, journal[d].kind = "create" PROVE Owner(d) # c
    <3>1. CASE d < e
      BY <1>2, <2>6, <3>1, Written DEF Inv, TypeOK, Events
    <3>2. CASE e < d
      <4>1. e \in 1..(d - 1)
        BY <1>2, <3>2 DEF Events
      <4> QED
        BY <2>6, <4>1, Written DEF Inv, TypeOK
    <3>3. d < e \/ e < d
      <4>1. d \in Nat /\ e \in Nat /\ d # e
        BY <1>2
      <4> QED
        BY <4>1
    <3> QED
      BY <3>1, <3>2, <3>3
  <2>7. CreateInv'
    <3> SUFFICES ASSUME NEW d \in Events, journal[d].kind = "create"
                 PROVE  reached'[d] = IF state'[Owner(d)] = "none" THEN {} ELSE {Owner(d)}
      BY <1>3 DEF CreateInv, Events, Owner
    <3>1. CASE d = e
      BY <2>4, <2>5, <3>1
    <3>2. CASE d # e
      <4>1. Owner(d) \in Checks \ {c}
        BY <2>6, <3>2, JournalTyped DEF Inv, TypeOK, Owner, Checks
      <4> QED
        BY <2>4, <2>5, <3>2, <4>1 DEF ReachInv, CreateInv
    <3> QED
      BY <3>1, <3>2
  <2>8. ClosedInv'
    <3>1. \A d \in Events : reached[d] \subseteq reached'[d]
      BY <2>3, <2>4
    <3>2. \A d \in DeviceChecks : state'[d] \in {"COMPLETED", "CANCELLED"}
                                    => state[d] \in {"COMPLETED", "CANCELLED"}
      BY <2>5 DEF Checks
    <3> QED
      BY <1>3, <1>4, <3>1, <3>2, ClosedKept DEF ReachInv, Still
  <2>9. ASSUME c \notin disturbed' PROVE RequestOf(s)'
    <3>1. /\ RequestOf(s)
          /\ \A u \in Slots \ {s} : call'[u].event \in Events => Owner(call'[u].event) # Owner(e)
      BY <1>2, <1>4, <2>1, <2>9, GoesOn
    <3> QED
      BY <1>1, <1>3, <2>1, <3>1 DEF RequestOf, Owner, Events, Closing
  <2>10. Owed(s)
    BY <1>2, <1>3, <2>1, <2>2, <2>3, <2>4, <2>9 DEF Owed, Continues
  <2> QED
    BY <1>4, <1>5, <2>7, <2>8, <2>10, RequestStep
<1>7. CASE Answer(s, "SYNCED") /\ UNCHANGED <<state, reached>> /\ state[c] # "none"
  <2>1. /\ OthersStay(s) /\ Continues(s) /\ ShapeOf(s)'
        /\ \/ call'[s] = Idle
           \/ /\ run.slot = s /\ call'[s].pc = "answer" /\ call'[s].result = "SYNCED"
              /\ call'[s].event = call[s].event /\ call'[s].kind = call[s].kind
    BY <1>2, <1>3, <1>7, Answered DEF Results
  <2>2. reached[e] = {c}
    BY <1>2, <1>7 DEF ReachInv, CreateInv
  <2>3. c \in disturbed
    BY <1>1, <1>2, <2>2 DEF Clean, ReachInv, RequestInv, RequestOf
  <2> QED
    BY <1>3, <1>4, <1>5, <1>7, <2>1, <2>3, QuietStep DEF Still
<1> QED
  BY <1>2, <1>6, <1>7 DEF CreateOrder

\* An event strikes or is for the check it changes.
LEMMA ForeignStruck ==
  ASSUME NEW s \in Slots, call[s].event # Staff, NEW c, c # Owner(call[s].event)
  PROVE  c \in Foreign(s, c)
BY DEF Foreign, Own, Owner

LEMMA ApplyReach == ASSUME Inv, ReachInv, NEW s \in Slots, Apply(s) PROVE ReachInv'
<1> DEFINE e == call[s].event
           c == call[s].check
           own == Owner(e)
<1>1. call[s].kind \in {"update", "kot"} /\ call[s].pc = "apply"
  BY DEF Apply, At
<1>2. /\ e \in Events /\ call \in [Slots -> Calls] /\ ShapeOf(s) /\ journal[e].kind = call[s].kind
      /\ reached \in [Events -> SUBSET Checks] /\ journal \in Journals
  BY <1>1 DEF Inv, CallsInv, CallInv, TypeOK, Kinds, ReachInv, ShapeInv, ShapeOf
<1>3. /\ state' = state /\ linked' = linked /\ pointer' = pointer /\ sold' = sold /\ run' = run
      /\ journal' = journal /\ status' = status
  BY DEF Apply, floor, device
<1>4. HereInv' /\ Still
  BY <1>3, HereRemembered DEF Apply, Still
<1>5. PointerInv'
  BY <1>3 DEF ReachInv, PointerInv
<1>6. ASSUME own \notin disturbed'
      PROVE  /\ c = own /\ c \in Pending /\ RequestOf(s) /\ EventOf(e)
  <2>1. Clean(e) /\ RequestOf(s) /\ EventOf(e)
    BY <1>2, <1>4, <1>6 DEF Clean, ReachInv, RequestInv, EventInv, Still
  <2>2. own \in Pending
    BY <1>1, <1>2, <2>1, Present DEF Closing
  <2> QED
    BY <1>1, <2>1, <2>2 DEF RequestOf
<1>7. \A d \in Events \ {e} : reached'[d] = reached[d]
  BY <1>2 DEF Apply, Reach
<1>8. reached[e] \subseteq reached'[e]
  BY <1>2 DEF Apply, Reach
<1>9. PICK r \in Results : Answer(s, r) /\ (c \in Pending => r = "SYNCED")
  BY DEF Apply, Results
<1>10. /\ OthersStay(s) /\ Continues(s) /\ ShapeOf(s)'
       /\ \/ call'[s] = Idle
          \/ /\ run.slot = s /\ call'[s].pc = "answer" /\ call'[s].result = r
             /\ call'[s].event = call[s].event /\ call'[s].kind = call[s].kind
  BY <1>2, <1>3, <1>9, Answered
<1>11. ASSUME own \notin disturbed' PROVE reached'[e] = {own}
  <2>1. reached' = [reached EXCEPT ![e] = @ \cup {c}]
    BY <1>6, <1>11 DEF Apply, Reach
  <2>2. reached[e] \subseteq {own} /\ c = own
    BY <1>6, <1>11 DEF EventOf
  <2> QED
    BY <1>2, <2>1, <2>2
<1>12. ASSUME own \notin disturbed', call'[s].event = e PROVE RequestOf(s)'
  <2>1. call'[s] # Idle
    BY <1>2, <1>12, IdleTyped, StaffNoEvent
  <2>2. r = "SYNCED"
    BY <1>6, <1>9, <1>12
  <2>3. call[s].kind # "create"
    BY <1>1
  <2> HIDE DEF c
  <2> QED
    BY <1>2, <1>4, <1>10, <1>11, <1>12, <2>1, <2>2, <2>3, AnsweredRequest
<1>13. CreateInv'
  <2>1. \A d \in Events : journal[d].kind = "create" => reached'[d] = reached[d]
    BY <1>1, <1>2, <1>7
  <2> QED
    BY <1>2, <1>3, <2>1, CreateKept DEF ReachInv
<1>14. ClosedInv'
  BY <1>3, <1>4, <1>7, <1>8, ClosedKept DEF ReachInv, Still
<1>15. Owed(s)
  <2>1. journal[e].kind # "sale"
    BY <1>1, <1>2
  <2> QED
    BY <1>3, <1>7, <1>8, <1>10, <1>11, <1>12, <2>1 DEF Owed
<1> QED
  BY <1>4, <1>5, <1>13, <1>14, <1>15, RequestStep

\* A check is closed by an event written for it, or is struck.
LEMMA ClosedByEvent ==
  ASSUME ClosedInv, state \in [Checks -> {"none", "PENDING", "COMPLETED", "CANCELLED"}],
         journal' = journal, disturbed \subseteq disturbed',
         NEW e \in Events, journal[e].kind \in Closing, NEW c \in Checks, NEW st,
         state' = [state EXCEPT ![c] = st],
         reached \in [Events -> SUBSET Checks], reached' = [reached EXCEPT ![e] = @ \cup {c}],
         c # Owner(e) => c \in disturbed'
  PROVE  ClosedInv'
<1> SUFFICES ASSUME NEW d \in DeviceChecks \ disturbed', state'[d] \in {"COMPLETED", "CANCELLED"}
             PROVE  \E x \in Events : Owner(x) = d /\ journal[x].kind \in Closing /\ reached'[x] # {}
  BY DEF ClosedInv, Events, Owner
<1>1. CASE d = c
  <2>1. Owner(e) = d /\ reached'[e] # {}
    BY <1>1
  <2> QED
    BY <2>1
<1>2. CASE d # c
  <2>1. state[d] \in {"COMPLETED", "CANCELLED"}
    BY <1>2 DEF Checks
  <2>2. PICK x \in Events : Owner(x) = d /\ journal[x].kind \in Closing /\ reached[x] # {}
    BY <2>1 DEF ClosedInv
  <2>3. reached[x] \subseteq reached'[x]
    OBVIOUS
  <2> QED
    BY <2>2, <2>3
<1> QED
  BY <1>1, <1>2

\* A step for staff, or for an event of a check that is disturbed by now.
LEMMA StruckStep ==
  ASSUME Inv, ReachInv, NEW s \in Slots, Still, reached' = reached,
         \A d \in Events \ {call[s].event} : d \in sold' <=> d \in sold,
         \A c \in DeviceChecks : state'[c] = "none" <=> state[c] = "none",
         \A c \in DeviceChecks \ disturbed' : state'[c] = state[c],
         call[s].event \in Events => Owner(call[s].event) \in disturbed',
         OthersStay(s), Continues(s), ShapeOf(s)', PointerInv', HereInv'
  PROVE  ReachInv'
<1>1. journal \in Journals /\ journal' = journal /\ disturbed \subseteq disturbed'
  BY DEF Inv, TypeOK, Still
<1>2. CreateInv'
  BY <1>1, CreateKept DEF ReachInv
<1>3. ClosedInv'
  BY <1>1, ClosedKept DEF ReachInv
<1>4. Owed(s)
  BY DEF Owed
<1> QED
  BY <1>2, <1>3, <1>4, RequestStep

LEMMA CancelReach == ASSUME Inv, ReachInv, NEW s \in Slots, Cancel(s) PROVE ReachInv'
<1> DEFINE e == call[s].event
           c == call[s].check
           own == Owner(e)
<1>1. call[s].kind = "cancel" /\ call[s].pc = "apply"
  BY DEF Cancel, At
<1>2. /\ e \in Events /\ call \in [Slots -> Calls] /\ ShapeOf(s) /\ journal[e].kind = "cancel"
      /\ reached \in [Events -> SUBSET Checks] /\ journal \in Journals
      /\ state \in [Checks -> {"none", "PENDING", "COMPLETED", "CANCELLED"}]
  BY <1>1 DEF Inv, CallsInv, CallInv, TypeOK, Kinds, ReachInv, ShapeInv, ShapeOf
<1>3. /\ linked' = linked /\ pointer' = pointer /\ sold' = sold /\ run' = run
      /\ journal' = journal /\ status' = status
  BY DEF Cancel, device
<1>4. HereInv' /\ Still /\ Foreign(s, c) \cap Pending \subseteq disturbed'
  BY <1>3, HereRemembered DEF Cancel, Still
<1>5. PointerInv'
  BY <1>3 DEF ReachInv, PointerInv
<1>6. ASSUME own \notin disturbed'
      PROVE  c = own /\ c \in Pending /\ RequestOf(s) /\ EventOf(e) /\ reached[e] = {}
  <2>1. Clean(e) /\ RequestOf(s) /\ EventOf(e)
    BY <1>2, <1>4, <1>6 DEF Clean, ReachInv, RequestInv, EventInv, Still
  <2>2. reached[e] = {} /\ c = own
    BY <1>1, <2>1 DEF RequestOf, Closing
  <2>3. own \in Pending
    BY <1>2, <2>1, <2>2, Present
  <2> QED
    BY <2>1, <2>2, <2>3
<1>7. Go(s, "read") => /\ OthersStay(s) /\ call'[s].pc = "read" /\ call'[s].event = e
                       /\ call'[s].kind = call[s].kind /\ ShapeOf(s)'
  <2> SUFFICES ASSUME Go(s, "read")
               PROVE  /\ OthersStay(s) /\ call'[s].pc = "read" /\ call'[s].event = e
                      /\ call'[s].kind = call[s].kind /\ ShapeOf(s)'
    OBVIOUS
  <2>1. /\ OthersStay(s) /\ call'[s].pc = "read" /\ call'[s].event = e
        /\ call'[s].kind = call[s].kind
    BY <1>2, GoMoves DEF Pcs
  <2> QED
    BY <1>1, <1>2, <1>3, <2>1 DEF ShapeOf, Events, Owner
<1>8. CASE /\ c \in Pending /\ state' = [state EXCEPT ![c] = "CANCELLED"]
           /\ Go(s, "read") /\ Reach(s, c)
  <2>1. reached' = [reached EXCEPT ![e] = @ \cup {c}] /\ c \in Checks /\ state[c] = "PENDING"
    BY <1>8 DEF Reach, Pending
  <2>2. c # own => c \in disturbed'
    BY <1>2, <1>4, <1>8, ForeignStruck, StaffNoEvent
  <2> HIDE DEF c
  <2>3. ClosedInv'
    BY <1>2, <1>3, <1>4, <1>8, <2>1, <2>2, ClosedByEvent DEF ReachInv, Still, Closing
  <2>4. /\ \A d \in Events \ {e} : reached'[d] = reached[d]
        /\ reached[e] \subseteq reached'[e] /\ reached'[e] = reached[e] \cup {c}
    BY <1>2, <2>1
  <2>5. CreateInv'
    <3>1. \A d \in DeviceChecks : state'[d] = "none" <=> state[d] = "none"
      BY <1>2, <1>8, <2>1 DEF Checks
    <3>2. \A d \in Events : journal[d].kind = "create" => reached'[d] = reached[d]
      BY <1>2, <2>4
    <3> QED
      BY <1>2, <1>3, <3>1, <3>2, CreateKept DEF ReachInv
  <2>6. ASSUME own \notin disturbed' PROVE RequestOf(s)'
    <3>1. /\ RequestOf(s)
          /\ \A u \in Slots \ {s} : call'[u].event \in Events => Owner(call'[u].event) # Owner(e)
      BY <1>2, <1>4, <1>7, <1>8, <2>6, GoesOn
    <3>2. reached'[e] # {}
      BY <2>4
    <3> QED
      BY <1>1, <1>3, <1>7, <1>8, <3>1, <3>2 DEF RequestOf, Owner, Events, Closing
  <2>7. Owed(s)
    <3>1. own \notin disturbed' => reached'[e] \subseteq {own}
      BY <1>6, <2>4
    <3> QED
      BY <1>2, <1>3, <1>7, <1>8, <2>4, <2>6, <3>1 DEF Owed, Continues
  <2> QED
    BY <1>4, <1>5, <2>3, <2>5, <2>7, RequestStep
<1>9. CASE /\ (\E r \in Results : Answer(s, r)) \/ Go(s, "read")
           /\ UNCHANGED <<state, reached>> /\ c \notin Pending
  <2>1. OthersStay(s) /\ Continues(s) /\ ShapeOf(s)'
    <3>1. CASE Go(s, "read")
      BY <1>7, <3>1 DEF Continues
    <3>2. CASE \E r \in Results : Answer(s, r)
      BY <1>2, <1>3, <3>2, Answered
    <3> QED
      BY <1>9, <3>1, <3>2
  <2>2. own \in disturbed'
    BY <1>6, <1>9
  <2> QED
    BY <1>3, <1>4, <1>5, <1>9, <2>1, <2>2, StruckStep
<1> QED
  BY <1>8, <1>9 DEF Cancel, Results

LEMMA SellReach == ASSUME Inv, ReachInv, NEW s \in Slots, Sell(s) PROVE ReachInv'
<1> DEFINE e == call[s].event
           c == call[s].check
           own == Owner(e)
<1>1. call[s].kind = "sale" /\ call[s].pc = "apply"
  BY DEF Sell, At
<1>2. /\ e \in Events /\ call \in [Slots -> Calls] /\ ShapeOf(s) /\ journal[e].kind = "sale"
      /\ reached \in [Events -> SUBSET Checks] /\ journal \in Journals
      /\ state \in [Checks -> {"none", "PENDING", "COMPLETED", "CANCELLED"}]
  BY <1>1 DEF Inv, CallsInv, CallInv, TypeOK, Kinds, ReachInv, ShapeInv, ShapeOf
<1>3. /\ linked' = linked /\ pointer' = pointer /\ run' = run
      /\ journal' = journal /\ status' = status
  BY DEF Sell, device
<1>4. /\ HereInv' /\ Still
      /\ {d \in Foreign(s, c) \cap Pending : e \notin sold} \subseteq disturbed'
  BY <1>3, HereRemembered DEF Sell, Still
<1>5. PointerInv'
  BY <1>3 DEF ReachInv, PointerInv
<1>6. ASSUME own \notin disturbed'
      PROVE  /\ c = own /\ c \in Pending /\ RequestOf(s) /\ EventOf(e) /\ reached[e] = {}
             /\ e \notin sold /\ c # None
  <2>1. Clean(e) /\ RequestOf(s) /\ EventOf(e)
    BY <1>2, <1>4, <1>6 DEF Clean, ReachInv, RequestInv, EventInv, Still
  <2>2. reached[e] = {} /\ c = own
    BY <1>1, <2>1 DEF RequestOf, Closing
  <2>3. own \in Pending
    BY <1>2, <2>1, <2>2, Present
  <2>4. e \notin sold
    BY <1>2, <2>1, <2>2 DEF EventOf
  <2> QED
    BY <2>1, <2>2, <2>3, <2>4, ChecksAssumption DEF Pending
<1>7. ASSUME NEW pc \in {"again", "read"}, Go(s, pc)
      PROVE  /\ OthersStay(s) /\ call'[s].pc = pc /\ call'[s].event = e
             /\ call'[s].kind = call[s].kind /\ ShapeOf(s)'
  <2>1. /\ OthersStay(s) /\ call'[s].pc = pc /\ call'[s].event = e
        /\ call'[s].kind = call[s].kind
    BY <1>2, <1>7, GoMoves DEF Pcs
  <2> QED
    BY <1>1, <1>2, <1>3, <2>1 DEF ShapeOf, Events, Owner
<1>8. \A d \in Events \ {e} : d \in sold' <=> d \in sold
  BY DEF Sell
<1>9. CASE /\ c \in Pending /\ e \notin sold /\ state' = [state EXCEPT ![c] = "COMPLETED"]
           /\ Go(s, "read") /\ Reach(s, c) /\ e \in sold'
  <2>1. reached' = [reached EXCEPT ![e] = @ \cup {c}] /\ c \in Checks /\ state[c] = "PENDING"
    BY <1>9 DEF Reach, Pending
  <2>2. c # own => c \in disturbed'
    BY <1>2, <1>4, <1>9, ForeignStruck, StaffNoEvent
  <2> HIDE DEF c
  <2>3. ClosedInv'
    BY <1>2, <1>3, <1>4, <1>9, <2>1, <2>2, ClosedByEvent DEF ReachInv, Still, Closing
  <2>4. /\ \A d \in Events \ {e} : reached'[d] = reached[d]
        /\ reached[e] \subseteq reached'[e] /\ reached'[e] = reached[e] \cup {c}
    BY <1>2, <2>1
  <2>5. CreateInv'
    <3>1. \A d \in DeviceChecks : state'[d] = "none" <=> state[d] = "none"
      BY <1>2, <1>9, <2>1 DEF Checks
    <3>2. \A d \in Events : journal[d].kind = "create" => reached'[d] = reached[d]
      BY <1>2, <2>4
    <3> QED
      BY <1>2, <1>3, <3>1, <3>2, CreateKept DEF ReachInv
  <2>6. OthersStay(s) /\ call'[s].pc = "read" /\ call'[s].event = e /\ call'[s].kind = call[s].kind
        /\ ShapeOf(s)'
    BY <1>7, <1>9
  <2>7. ASSUME own \notin disturbed' PROVE RequestOf(s)'
    <3>1. /\ RequestOf(s)
          /\ \A u \in Slots \ {s} : call'[u].event \in Events => Owner(call'[u].event) # Owner(e)
      BY <1>2, <1>4, <2>6, <2>7, GoesOn
    <3>2. reached'[e] # {}
      BY <2>4
    <3> QED
      BY <1>1, <1>3, <2>6, <3>1, <3>2 DEF RequestOf, Owner, Events, Closing
  <2>8. Owed(s)
    <3>1. own \notin disturbed' => reached'[e] \subseteq {own}
      BY <1>6, <2>4
    <3>2. reached'[e] # {}
      BY <2>4
    <3> QED
      BY <1>2, <1>3, <1>8, <1>9, <2>4, <2>6, <2>7, <3>1, <3>2 DEF Owed, Continues
  <2> QED
    BY <1>4, <1>5, <2>3, <2>5, <2>8, RequestStep
<1>10. CASE /\ Answer(s, "FAILED") \/ \E pc \in {"again", "read"} : Go(s, pc)
            /\ UNCHANGED <<state, reached>>
            /\ c \notin Pending \/ e \in sold
  <2>1. OthersStay(s) /\ Continues(s) /\ ShapeOf(s)'
    <3>1. CASE \E pc \in {"again", "read"} : Go(s, pc)
      BY <1>7, <3>1 DEF Continues
    <3>2. CASE Answer(s, "FAILED")
      BY <1>2, <1>3, <3>2, Answered DEF Results
    <3> QED
      BY <1>10, <3>1, <3>2
  <2>2. own \in disturbed'
    BY <1>6, <1>10
  <2> QED
    BY <1>3, <1>4, <1>5, <1>8, <1>10, <2>1, <2>2, StruckStep
<1>11. None \notin Pending
  BY ChecksAssumption DEF Pending
<1>12. CASE c # None /\ c \notin Pending
  <2>1. Answer(s, "FAILED") /\ UNCHANGED <<state, reached>>
    BY <1>12 DEF Sell
  <2> QED
    BY <1>10, <1>12, <2>1
<1>13. CASE c = None \/ (e \in sold /\ c \in Pending)
  <2>1. Go(s, IF c = None THEN "again" ELSE "read") /\ UNCHANGED <<state, reached>>
    BY <1>13 DEF Sell
  <2> QED
    BY <1>10, <1>11, <1>13, <2>1
<1>14. CASE c # None /\ c \in Pending /\ e \notin sold
  BY <1>9, <1>14 DEF Sell
<1> QED
  BY <1>12, <1>13, <1>14

LEMMA FailReach == ASSUME Inv, ReachInv, NEW s \in Slots, Fail(s) PROVE ReachInv'
<1> DEFINE e == call[s].event
           c == call[s].check
<1>1. /\ UNCHANGED <<linked, opened, pointer, sold, status, run, reached>> /\ journal' = journal
  BY DEF Fail, device
<1>2. /\ call \in [Slots -> Calls] /\ ShapeOf(s) /\ CallInv(s) /\ journal \in Journals
      /\ state \in [Checks -> {"none", "PENDING", "COMPLETED", "CANCELLED"}]
  BY DEF Inv, CallsInv, TypeOK, ReachInv, ShapeInv
<1>3. HereInv' /\ Still /\ Own(s) \subseteq disturbed'
  BY <1>1, HereRemembered DEF Fail, Still
<1>4. PointerInv'
  BY <1>1 DEF ReachInv, PointerInv
<1>5. e \in Events => Owner(e) \in disturbed'
  BY <1>2, <1>3, StaffNoEvent DEF Own, Owner
<1>6. OthersStay(s) /\ Continues(s) /\ ShapeOf(s)'
  <2>1. CASE At(s, {"sale"}, "resolve")
    <3>1. GoWith(s, "apply", None) /\ "apply" \in Pcs /\ None \in Checks \cup {None}
      BY <2>1 DEF Fail, Pcs
    <3>2. /\ OthersStay(s) /\ call'[s].pc = "apply" /\ call'[s].event = e
          /\ call'[s].kind = call[s].kind
      BY <1>2, <3>1, GoWithMoves
    <3>3. call[s].kind = "sale"
      BY <2>1 DEF At
    <3>4. ShapeOf(s)'
      BY <1>1, <1>2, <3>2, <3>3 DEF ShapeOf, Events, Owner
    <3> QED
      BY <3>2, <3>4 DEF Continues
  <2>2. CASE ~At(s, {"sale"}, "resolve")
    <3>1. PICK r \in Results : Answer(s, r)
      BY <2>2, ResultTyped DEF Fail
    <3> QED
      BY <1>1, <1>2, <3>1, Answered
  <2> QED
    BY <2>1, <2>2
<1>7. \A d \in DeviceChecks : state'[d] = state[d]
  <2>1. CASE state' = state
    BY <2>1
  <2>2. CASE state' # state
    <3>1. /\ call[s].kind = "seat" /\ state' = [state EXCEPT ![c] = "CANCELLED"]
          /\ call[s].pc # "answer"
      BY <2>2 DEF Fail
    <3>2. c \in HouseChecks
      BY <1>2, <3>1 DEF CallInv
    <3> QED
      BY <1>2, <3>1, <3>2, ChecksAssumption DEF Checks
  <2> QED
    BY <2>1, <2>2
<1> QED
  BY <1>1, <1>3, <1>4, <1>5, <1>6, <1>7, StruckStep

-----------------------------------------------------------------------------
(* The steps of staff. *)

LEMMA StaffEvent ==
  ASSUME Inv, ReachInv, NEW s \in Slots, call[s].kind \notin Kinds PROVE call[s].event \notin Events
BY JournalTyped DEF Inv, TypeOK, ReachInv, ShapeInv, ShapeOf

LEMMA IdleEvent == ASSUME Inv, NEW s \in Slots, call[s] = Idle PROVE call[s].event = Staff /\ Staff \notin Events
BY IdleTyped, StaffNoEvent DEF Inv, TypeOK

LEMMA SeatLinkReach == ASSUME Inv, ReachInv, NEW s \in Slots, SeatLink(s) PROVE ReachInv'
<1>1. /\ call[s].kind \notin Kinds /\ UNCHANGED <<state, opened, sold, device, faults, reached>>
      /\ linked' = linked \cup {call[s].check} /\ pointer' = call[s].check /\ Answer(s, "SYNCED")
  BY DEF SeatLink, At, Kinds
<1>2. HereInv' /\ Still
  BY <1>1, HereRemembered DEF SeatLink, Still, device
<1>3. PointerInv'
  BY <1>1 DEF PointerInv
<1>4. OthersStay(s) /\ Continues(s) /\ ShapeOf(s)'
  BY <1>1, <1>2, Answered DEF Still, ReachInv, ShapeInv, Results
<1> QED
  BY <1>1, <1>2, <1>3, <1>4, StaffEvent, StruckStep

LEMMA HealReach == ASSUME Inv, ReachInv, NEW s \in Slots, Heal(s) PROVE ReachInv'
<1>1. /\ call[s].kind = "look" /\ call[s].pc = "heal"
      /\ UNCHANGED <<state, linked, opened, sold, device, faults, reached>>
      /\ pointer' = call[s].check /\ Go(s, "verify") /\ call \in [Slots -> Calls]
  BY DEF Heal, At, Inv, TypeOK
<1>2. HereInv' /\ Still
  BY <1>1, HereRemembered DEF Heal, Still, device
<1>3. PointerInv'
  BY <1>1 DEF PointerInv, Inv, CallsInv, CallInv
<1>4. call[s].event \notin Events
  BY <1>1, StaffEvent DEF Kinds
<1>5. /\ OthersStay(s) /\ call'[s].pc = "verify" /\ call'[s].event = call[s].event
      /\ call'[s].kind = "look"
  BY <1>1, GoMoves DEF Pcs
<1>6. ShapeOf(s)'
  BY <1>2, <1>4, <1>5 DEF ShapeOf, Still, Events
<1> QED
  BY <1>1, <1>2, <1>3, <1>4, <1>5, <1>6, StruckStep DEF Continues

LEMMA VerifyReach == ASSUME Inv, ReachInv, NEW s \in Slots, Verify(s) PROVE ReachInv'
<1>1. /\ call[s].kind = "look" /\ (Answer(s, "SYNCED") \/ Go(s, "read"))
      /\ UNCHANGED <<floor, sold, device, faults, history>> /\ call \in [Slots -> Calls]
  BY DEF Verify, At, Inv, TypeOK
<1>2. /\ Still /\ PointerInv' /\ HereInv' /\ state' = state /\ reached' = reached
  BY <1>1, FloorQuiet
<1>3. call[s].event \notin Events
  BY <1>1, StaffEvent DEF Kinds
<1>4. OthersStay(s) /\ Continues(s) /\ ShapeOf(s)'
  <2>1. CASE Answer(s, "SYNCED")
    BY <1>2, <2>1, Answered DEF Still, ReachInv, ShapeInv, Results
  <2>2. CASE Go(s, "read")
    <3>1. /\ OthersStay(s) /\ call'[s].pc = "read" /\ call'[s].event = call[s].event
          /\ call'[s].kind = "look"
      BY <1>1, <2>2, GoMoves DEF Pcs
    <3>2. ShapeOf(s)'
      BY <1>2, <1>3, <3>1 DEF ShapeOf, Still, Events
    <3> QED
      BY <3>1, <3>2 DEF Continues
  <2> QED
    BY <1>1, <2>1, <2>2
<1> QED
  BY <1>1, <1>2, <1>3, <1>4, StruckStep

\* A request of staff that begins.
LEMMA Begun ==
  ASSUME Inv, NEW s \in Slots, call[s] = Idle, NEW x \in Calls, call' = [call EXCEPT ![s] = x],
         x.event = Staff, x.kind \notin Kinds, x.pc # "write", journal' = journal
  PROVE  OthersStay(s) /\ Continues(s) /\ ShapeOf(s)' /\ call[s].event \notin Events
<1>1. call' \in [Slots -> Calls] /\ call'[s] = x /\ OthersStay(s)
  BY SetTyped DEF Inv, TypeOK
<1>2. call[s].event = Staff /\ Staff \notin Events
  BY IdleEvent
<1>3. ShapeOf(s)'
  BY <1>1, <1>2 DEF ShapeOf, Events, Kinds
<1> QED
  BY <1>1, <1>2, <1>3 DEF Continues

LEMMA SeatReach == ASSUME Inv, ReachInv, NEW s \in Slots, NEW c \in Checks, Seat(s, c) PROVE ReachInv'
<1> DEFINE x == [Idle EXCEPT !.kind = "seat", !.pc = "link", !.check = c]
<1>1. /\ call[s] = Idle /\ c \in HouseChecks /\ state' = [state EXCEPT ![c] = "PENDING"]
      /\ call' = [call EXCEPT ![s] = x]
      /\ UNCHANGED <<linked, pointer, sold, device, faults, reached>>
  BY DEF Seat, Fresh
<1>2. x \in Calls /\ x.event = Staff /\ x.kind \notin Kinds /\ x.pc # "write"
  BY DEF Idle, Calls, Staff, Kinds
<1> HIDE DEF x
<1>3. HereInv' /\ Still
  BY <1>1, HereRemembered DEF Seat, Still, device
<1>4. PointerInv'
  BY <1>1 DEF ReachInv, PointerInv
<1>5. OthersStay(s) /\ Continues(s) /\ ShapeOf(s)' /\ call[s].event \notin Events
  BY <1>1, <1>2, <1>3, Begun DEF Still
<1>6. \A d \in DeviceChecks : state'[d] = state[d]
  BY <1>1, ChecksAssumption DEF Inv, TypeOK, Checks
<1> QED
  BY <1>1, <1>3, <1>4, <1>5, <1>6, StruckStep

LEMMA CloseReach == ASSUME Inv, ReachInv, NEW s \in Slots, NEW c \in Checks, Close(s, c) PROVE ReachInv'
<1> DEFINE x == [Idle EXCEPT !.kind = "close", !.pc = "read", !.check = c]
<1>1. PICK st \in {"COMPLETED", "CANCELLED"} : state' = [state EXCEPT ![c] = st]
  BY DEF Close
<1>2. /\ call[s] = Idle /\ state[c] = "PENDING" /\ call' = [call EXCEPT ![s] = x]
      /\ UNCHANGED <<linked, opened, pointer, sold, device, faults, reached>>
  BY DEF Close, Pending
<1>3. x \in Calls /\ x.event = Staff /\ x.kind \notin Kinds /\ x.pc # "write"
  BY DEF Idle, Calls, Staff, Kinds
<1> HIDE DEF x
<1>4. HereInv' /\ Still /\ c \in disturbed'
  BY <1>2, HereRemembered DEF Close, Still, device
<1>5. PointerInv'
  BY <1>2 DEF ReachInv, PointerInv
<1>6. OthersStay(s) /\ Continues(s) /\ ShapeOf(s)' /\ call[s].event \notin Events
  BY <1>2, <1>3, <1>4, Begun DEF Still
<1>7. /\ \A d \in DeviceChecks : state'[d] = "none" <=> state[d] = "none"
      /\ \A d \in DeviceChecks \ disturbed' : state'[d] = state[d]
  BY <1>1, <1>2, <1>4 DEF Inv, TypeOK, Checks
<1> QED
  BY <1>2, <1>4, <1>5, <1>6, <1>7, StruckStep

LEMMA LookReach == ASSUME Inv, ReachInv, NEW s \in Slots, NEW c \in Checks, Look(s, c) PROVE ReachInv'
<1> DEFINE x == [Idle EXCEPT !.pc = "heal", !.check = c]
<1>1. /\ call[s] = Idle /\ call' = [call EXCEPT ![s] = x]
      /\ UNCHANGED <<floor, sold, device, faults, history>>
  BY DEF Look
<1>2. x \in Calls /\ x.event = Staff /\ x.kind \notin Kinds /\ x.pc # "write"
  BY DEF Idle, Calls, Staff, Kinds
<1> HIDE DEF x
<1>3. /\ Still /\ PointerInv' /\ HereInv' /\ state' = state /\ reached' = reached
  BY <1>1, FloorQuiet
<1>4. OthersStay(s) /\ Continues(s) /\ ShapeOf(s)' /\ call[s].event \notin Events
  BY <1>1, <1>2, <1>3, Begun DEF Still
<1> QED
  BY <1>1, <1>3, <1>4, StruckStep

\* A step that moves no request and touches no check of the device.
LEMMA RequestsStay ==
  ASSUME Inv, ReachInv, Still, call' = call, sold' = sold, reached' = reached,
         \A c \in DeviceChecks : state'[c] = state[c], PointerInv', HereInv'
  PROVE  ReachInv'
<1>1. journal \in Journals /\ journal' = journal /\ status' = status /\ run' = run
      /\ linked \subseteq linked' /\ disturbed \subseteq disturbed' /\ Events' = Events
  BY DEF Inv, TypeOK, Still, Events
<1>2. CreateInv' /\ ClosedInv'
  BY <1>1, CreateKept, ClosedKept DEF ReachInv
<1>3. ShapeInv'
  BY <1>1 DEF ReachInv, ShapeInv, ShapeOf, Owner
<1>4. ASSUME NEW e \in Events, Clean(e), EventOf(e) PROVE EventOf(e)'
  <2>1. (InTurn(e)' <=> InTurn(e)) /\ (GivenUp(e)' <=> GivenUp(e))
    BY <1>1 DEF GivenUp, InTurn, Owner
  <2>2. Working(e)' <=> Working(e)
    BY DEF Working
  <2> QED
    BY <1>1, <1>4, <2>1, <2>2 DEF EventOf, Owner
<1>5. ASSUME NEW t \in Slots, RequestOf(t) PROVE RequestOf(t)'
  BY <1>1, <1>5 DEF RequestOf, Owner
<1>6. EventInv' /\ RequestInv'
  BY <1>1, <1>4, <1>5 DEF ReachInv, EventInv, RequestInv, Clean, Owner
<1> QED
  BY <1>2, <1>3, <1>6 DEF ReachInv

LEMMA OpenTabReach == ASSUME Inv, ReachInv, NEW c \in HouseChecks, OpenTab(c) PROVE ReachInv'
<1>1. /\ state' = [state EXCEPT ![c] = "PENDING"] /\ linked' = linked \cup {c} /\ pointer' = c
      /\ UNCHANGED <<sold, device, call, faults, reached>>
  BY DEF OpenTab
<1>2. HereInv' /\ Still
  BY <1>1, HereRemembered DEF OpenTab, Still, device
<1>3. PointerInv'
  BY <1>1 DEF PointerInv
<1>4. \A d \in DeviceChecks : state'[d] = state[d]
  BY <1>1, ChecksAssumption DEF Inv, TypeOK, Checks
<1> QED
  BY <1>1, <1>2, <1>3, <1>4, RequestsStay

LEMMA StutterReach == ASSUME Inv, ReachInv, UNCHANGED vars PROVE ReachInv'
<1>1. UNCHANGED <<floor, device, history>> /\ sold' = sold /\ call' = call
  BY DEF vars
<1>2. Still /\ PointerInv' /\ HereInv' /\ state' = state /\ reached' = reached
  BY <1>1, FloorQuiet
<1> QED
  BY <1>1, <1>2, RequestsStay

-----------------------------------------------------------------------------
(* The steps of the engine, and the stop of the server. *)

\* What a step of the engine leaves alone.
Apart == /\ UNCHANGED <<floor, sold, journal, reached>> /\ disturbed \subseteq disturbed' /\ HereInv'

LEMMA EngineStep ==
  ASSUME Inv, ReachInv, Apart, ShapeInv',
         \A e \in Events : Owner(e) \notin disturbed' => EventOf(e)',
         \A t \in Slots : call'[t].event \in Events /\ Owner(call'[t].event) \notin disturbed'
                            => RequestOf(t)'
  PROVE  ReachInv'
<1>1. /\ state' = state /\ linked' = linked /\ pointer' = pointer /\ journal' = journal
      /\ reached' = reached /\ journal \in Journals /\ disturbed \subseteq disturbed'
      /\ Events' = Events
  BY DEF Apart, floor, Inv, TypeOK, Events
<1>2. CreateInv' /\ ClosedInv'
  BY <1>1, CreateKept, ClosedKept DEF ReachInv
<1>3. PointerInv' /\ HereInv'
  BY <1>1 DEF ReachInv, PointerInv, Apart
<1>4. EventInv' /\ RequestInv'
  BY <1>1 DEF EventInv, RequestInv, Clean, Owner
<1> QED
  BY <1>2, <1>3, <1>4 DEF ReachInv

\* A request that stays keeps its shape.
LEMMA ShapeStays ==
  ASSUME Inv, ReachInv, Apart, \A t \in Slots : call'[t] = call[t] \/ call'[t] = Idle
  PROVE  ShapeInv'
<1> SUFFICES ASSUME NEW t \in Slots PROVE ShapeOf(t)'
  BY DEF ShapeInv
<1>1. journal \in Journals /\ journal' = journal /\ linked' = linked
  BY DEF Inv, TypeOK, Apart, floor
<1>2. CASE call'[t] = Idle
  BY <1>1, <1>2, IdleShape
<1>3. CASE call'[t] = call[t]
  BY <1>1, <1>3 DEF ReachInv, ShapeInv, ShapeOf, Owner, Events
<1> QED
  BY <1>2, <1>3

LEMMA HereStays == ASSUME HereInv, UNCHANGED floor, disturbed' = disturbed PROVE HereInv'
BY DEF HereInv, Here, Pending, floor

\* What is known of an event that is still clean, and of the others of its check.
LEMMA CleanKnown ==
  ASSUME ReachInv, disturbed \subseteq disturbed', NEW e \in Events, Owner(e) \notin disturbed'
  PROVE  Clean(e) /\ EventOf(e)
BY DEF ReachInv, EventInv, Clean

LEMMA CleanRequest ==
  ASSUME ReachInv, disturbed \subseteq disturbed', NEW t \in Slots,
         call[t].event \in Events, Owner(call[t].event) \notin disturbed'
  PROVE  RequestOf(t)
BY DEF ReachInv, RequestInv, Clean

LEMMA StartReach == ASSUME Inv, ReachInv, Start PROVE ReachInv'
<1> DEFINE batch == {e \in Events : status[e] \in {"PENDING", "FAILED"}}
<1>1. /\ run = Stopped /\ run' = [Stopped EXCEPT !.batch = batch]
      /\ UNCHANGED <<floor, sold, journal, status, call, faults, history>>
  BY DEF Start
<1>2. run'.batch = batch /\ run'.slot = None /\ run.slot = None
  BY <1>1 DEF Stopped
<1>3. Apart /\ disturbed' = disturbed
  BY <1>1, HereStays DEF Apart, history, ReachInv
<1>4. ShapeInv'
  BY <1>1, <1>3, ShapeStays
<1>5. ASSUME NEW e \in Events, Owner(e) \notin disturbed' PROVE EventOf(e)'
  <2>1. EventOf(e)
    BY <1>3, <1>5, CleanKnown
  <2>2. status[e] = "SYNCED" \/ e \in batch \/ GivenUp(e)
    BY <2>1 DEF EventOf, Inv, TypeOK
  <2>4. (InTurn(e)' <=> InTurn(e)) /\ (GivenUp(e) => GivenUp(e)')
    BY <1>1 DEF GivenUp, InTurn, Owner, Events
  <2>3. status[e] = "SYNCED" => e \notin batch
    OBVIOUS
  <2> HIDE DEF batch
  <2> QED
    BY <1>1, <1>2, <1>3, <2>1, <2>2, <2>3, <2>4 DEF EventOf, Owner, Working, Apart, floor
<1>6. ASSUME NEW t \in Slots, call'[t].event \in Events, Owner(call'[t].event) \notin disturbed'
      PROVE  RequestOf(t)'
  <2>1. RequestOf(t)
    BY <1>1, <1>3, <1>6, CleanRequest
  <2>2. t # None
    BY ChecksAssumption
  <2> QED
    BY <1>1, <1>2, <1>3, <2>1, <2>2 DEF RequestOf, Owner, Events, Apart, floor
<1> QED
  BY <1>3, <1>4, <1>5, <1>6, EngineStep

LEMMA RetryReach == ASSUME Inv, ReachInv, NEW e \in Events, Retry(e) PROVE ReachInv'
<1>1. /\ status[e] = "REVIEW" /\ status' = [status EXCEPT ![e] = "PENDING"]
      /\ UNCHANGED <<floor, sold, journal, run, call, faults, history>>
      /\ status \in [Events -> {"PENDING", "SYNCED", "REVIEW", "FAILED"}]
  BY DEF Retry, Inv, TypeOK
<1>2. Apart /\ disturbed' = disturbed
  BY <1>1, HereStays DEF Apart, history, ReachInv
<1>3. ShapeInv'
  BY <1>1, <1>2, ShapeStays
<1>4. /\ \A d \in Events : d # e => status'[d] = status[d]
      /\ status'[e] = "PENDING" /\ journal' = journal /\ Events' = Events
  BY <1>1 DEF Events
<1>5. ASSUME NEW d \in Events, Owner(d) \notin disturbed' PROVE EventOf(d)'
  <2>1. EventOf(d)
    BY <1>2, <1>5, CleanKnown
  <2>2. InTurn(d) => InTurn(d)'
    <3> SUFFICES ASSUME InTurn(d), NEW x \in 1..(d - 1), Owner(x) = Owner(d)
                 PROVE  status'[x] = "SYNCED"
      BY <1>1 DEF InTurn, Owner
    <3>1. x # e /\ status[x] = "SYNCED"
      BY <1>1 DEF InTurn
    <3> QED
      BY <1>1, <3>1
  <2>3. GivenUp(d) => GivenUp(d)'
    BY <1>4, <2>2 DEF GivenUp, Owner
  <2>4. d = e => GivenUp(d)
    BY <1>1, <2>1 DEF EventOf
  <2>5. CASE d = e
    BY <1>1, <1>2, <1>4, <2>1, <2>2, <2>3, <2>4, <2>5 DEF EventOf, GivenUp, Owner, Working, Apart, floor
  <2>6. CASE d # e
    BY <1>1, <1>2, <1>4, <2>1, <2>2, <2>3, <2>6 DEF EventOf, Owner, Working, Apart, floor
  <2> QED
    BY <2>5, <2>6
<1>6. ASSUME NEW t \in Slots, call'[t].event \in Events, Owner(call'[t].event) \notin disturbed'
      PROVE  RequestOf(t)'
  <2>1. RequestOf(t)
    BY <1>1, <1>2, <1>6, CleanRequest
  <2> QED
    BY <1>1, <1>2, <2>1 DEF RequestOf, Owner, Events, Apart, floor
<1> QED
  BY <1>2, <1>3, <1>5, <1>6, EngineStep

LEMMA PostReach == ASSUME Inv, ReachInv, NEW s \in Slots, NEW e \in Events, Post(s, e) PROVE ReachInv'
<1> DEFINE k == journal[e].kind
           x == [Idle EXCEPT !.event = e, !.kind = k, !.pc = First(k)]
           struck == {c \in {journal[e].check} : \E t \in Slots : call[t].event = e}
<1>1. /\ run.slot = None /\ e \in run.batch /\ call[s] = Idle /\ \A d \in run.batch : e <= d
      /\ run' = [batch |-> run.batch \ {e}, slot |-> s]
      /\ call' = [call EXCEPT ![s] = x] /\ Remember(struck, FALSE)
      /\ UNCHANGED <<floor, sold, journal, status, faults, reached>>
  BY DEF Post
<1>2. /\ journal \in Journals /\ k \in Kinds /\ e \in Nat /\ Events \subseteq Nat
      /\ Staff \notin Events /\ None \notin Slots /\ run.batch \subseteq Events
  BY JournalTyped, StaffNoEvent, ChecksAssumption DEF Inv, TypeOK, Events
<1>3. Owner(e) \notin disturbed' => ~Working(e)
  BY <1>1, HereRemembered DEF Working, Owner
<1>4. Apart
  BY <1>1, HereRemembered DEF Apart
<1> HIDE DEF struck
<1>5. /\ x \in Calls /\ x.event = e /\ x.kind = k /\ x.pc = First(k) /\ x.pc \in {"find", "resolve"}
  BY <1>2 DEF Idle, Calls, Events, First
<1> HIDE DEF x, k
<1>6. call'[s] = x /\ OthersStay(s)
  BY <1>1, <1>5, SetTyped DEF Inv, TypeOK
<1>7. run # Stopped
  BY <1>1 DEF Stopped
<1>8. \A t \in Slots : call'[t].event = call[t].event \/ (t = s /\ call'[t].event = e)
  BY <1>5, <1>6 DEF OthersStay
<1>9. call[s].event = Staff
  BY <1>1, IdleTyped
<1>10. run'.batch = run.batch \ {e} /\ run'.slot = s
  BY <1>1
<1>11. /\ floor' = floor /\ sold' = sold /\ journal' = journal /\ status' = status
       /\ reached' = reached /\ linked' = linked /\ Events' = Events
  BY <1>1 DEF floor, Events
<1>12. ShapeInv'
  <2> SUFFICES ASSUME NEW t \in Slots PROVE ShapeOf(t)'
    BY DEF ShapeInv
  <2>1. CASE t = s
    <3>1. call'[t].kind = journal[e].kind /\ call'[t].event = e
          /\ call'[t].pc = First(journal[e].kind) /\ call'[t].pc \in {"find", "resolve"}
      BY <1>5, <1>6, <2>1 DEF k
    <3> QED
      BY <1>2, <1>11, <3>1 DEF ShapeOf, First
  <2>2. CASE t # s
    <3>1. ShapeOf(t) /\ call'[t] = call[t]
      BY <1>6, <2>2 DEF ReachInv, ShapeInv, OthersStay
    <3> QED
      BY <1>11, <3>1 DEF ShapeOf, Owner
  <2> QED
    BY <2>1, <2>2
<1>13. \* Of the events of a clean check, those before e are synced, and e is not.
       ASSUME Owner(e) \notin disturbed' PROVE InTurn(e) /\ status[e] # "SYNCED"
  <2>1. EventOf(e)
    BY <1>4, <1>13, CleanKnown DEF Apart
  <2>2. status[e] # "SYNCED"
    BY <1>1, <2>1 DEF EventOf
  <2>3. ASSUME NEW d \in 1..(e - 1), Owner(d) = Owner(e) PROVE status[d] = "SYNCED"
    <3>1. d \in Events /\ d \in Nat /\ ~(e <= d)
      BY <1>2, JournalTyped DEF Events
    <3>2. EventOf(d)
      BY <1>4, <1>13, <2>3, <3>1, CleanKnown DEF Apart
    <3>3. d \notin run.batch /\ ~GivenUp(d)
      BY <1>1, <1>2, <2>3, <3>1 DEF GivenUp
    <3> QED
      BY <1>1, <1>7, <3>2, <3>3 DEF EventOf
  <2> QED
    BY <2>2, <2>3 DEF InTurn
<1>14. \* No other request is at work for that check.
       ASSUME Owner(e) \notin disturbed', NEW t \in Slots \ {s}, call[t].event \in Events
       PROVE  Owner(call[t].event) # Owner(e)
  <2> SUFFICES ASSUME Owner(call[t].event) = Owner(e) PROVE FALSE
    OBVIOUS
  <2> DEFINE d == call[t].event
  <2>1. d \in Events /\ d \in Nat /\ Owner(d) \notin disturbed' /\ Owner(d) = Owner(e) /\ call[t].event = d
    BY <1>2, <1>14
  <2> HIDE DEF d
  <2>2. EventOf(d) /\ Working(d) /\ InTurn(d)
    BY <1>4, <2>1, CleanKnown DEF Apart, EventOf, Working
  <2>3. d # e
    BY <1>3, <1>14, <2>2
  <2>4. CASE d < e
    <3>1. d \in 1..(e - 1)
      BY <1>2, <2>1, <2>4 DEF Events
    <3>2. status[d] = "SYNCED"
      BY <1>13, <1>14, <2>1, <3>1 DEF InTurn
    <3> QED
      BY <2>2, <3>2 DEF EventOf
  <2>5. CASE e < d
    <3>1. e \in 1..(d - 1)
      BY <1>2, <2>1, <2>5 DEF Events
    <3>2. status[e] = "SYNCED"
      BY <2>1, <2>2, <3>1 DEF InTurn
    <3> QED
      BY <1>13, <1>14, <3>2
  <2>6. d < e \/ e < d
    BY <1>2, <2>1, <2>3
  <2> QED
    BY <2>4, <2>5, <2>6
<1>15. ASSUME NEW d \in Events, Owner(d) \notin disturbed' PROVE EventOf(d)'
  <2>1. EventOf(d)
    BY <1>4, <1>15, CleanKnown DEF Apart
  <2>2. InTurn(d)' <=> InTurn(d)
    BY <1>11 DEF InTurn, Owner
  <2>3. Working(d)' => Working(d) \/ d = e
    BY <1>8 DEF Working
  <2>4. Working(d) => Working(d)'
    BY <1>2, <1>8, <1>9 DEF Working, OthersStay
  <2>5. d = e => InTurn(d) /\ status[d] # "SYNCED"
    BY <1>13, <1>15
  <2>8. GivenUp(d) => GivenUp(d)'
    BY <1>11, <2>2 DEF GivenUp, Owner
  <2>6. status[d] = "SYNCED" \/ d \in run.batch \/ GivenUp(d)
    BY <1>1, <1>7, <2>1 DEF EventOf
  <2>7. status[d] = "SYNCED" \/ d \in run'.batch \/ (s # None /\ call'[s].event = d) \/ GivenUp(d)
    BY <1>2, <1>5, <1>6, <1>10, <2>6
  <2> QED
    BY <1>10, <1>11, <2>1, <2>2, <2>3, <2>4, <2>5, <2>7, <2>8 DEF EventOf, Owner
<1>16. ASSUME NEW t \in Slots, call'[t].event \in Events, Owner(call'[t].event) \notin disturbed'
       PROVE  RequestOf(t)'
  <2>1. CASE t = s
    <3>1. /\ call'[t].event = e /\ call'[t].kind = journal[e].kind
          /\ call'[t].pc = First(journal[e].kind) /\ call'[t].pc \in {"find", "resolve"}
      BY <1>5, <1>6, <2>1 DEF k
    <3>2. \A u \in Slots \ {t} : call'[u].event \in Events => Owner(call'[u].event) # Owner(e)
      BY <1>8, <1>14, <1>16, <2>1, <3>1
    <3>3. EventOf(e) /\ ~Working(e) /\ status[e] # "SYNCED"
      BY <1>3, <1>4, <1>13, <1>16, <3>1, CleanKnown DEF Apart
    <3>4. journal[e].kind = "cancel" => reached[e] = {}
      BY <3>3 DEF EventOf
    <3>5. journal[e].kind = "cancel" => First(journal[e].kind) = "resolve"
      BY DEF First
    <3>6. journal[e].kind = "sale" => First(journal[e].kind) = "find"
      BY DEF First
    <3> QED
      BY <1>10, <1>11, <2>1, <3>1, <3>2, <3>4, <3>5, <3>6 DEF RequestOf, Owner, Closing
  <2>2. CASE t # s
    <3>1. call'[t] = call[t]
      BY <1>6, <2>2 DEF OthersStay
    <3>2. RequestOf(t)
      BY <1>4, <1>16, <3>1, CleanRequest DEF Apart
    <3>3. call[t].kind # "cancel"
      BY <1>1, <1>2, <3>2 DEF RequestOf
    <3>4. ASSUME NEW u \in Slots \ {t}, call'[u].event \in Events
          PROVE  Owner(call'[u].event) # Owner(call[t].event)
      <4>1. CASE u = s
        <5>1. call'[u].event = e
          BY <1>5, <1>6, <4>1
        <5>2. Owner(e) \in disturbed' \/ Owner(call[t].event) # Owner(e)
          BY <1>14, <1>16, <2>2, <3>1
        <5> QED
          BY <1>16, <3>1, <5>1, <5>2
      <4>2. CASE u # s
        BY <1>6, <3>2, <3>4, <4>2 DEF RequestOf, OthersStay
      <4> QED
        BY <4>1, <4>2
    <3> QED
      BY <1>10, <1>11, <2>2, <3>1, <3>2, <3>3, <3>4 DEF RequestOf, Owner, Closing
  <2> QED
    BY <2>1, <2>2
<1> QED
  BY <1>4, <1>12, <1>15, <1>16, EngineStep

LEMMA TakeAnswerReach == ASSUME Inv, ReachInv, NEW s \in Slots, TakeAnswer(s) PROVE ReachInv'
<1> DEFINE e == call[s].event
           r == call[s].result
<1>1. /\ run.slot = s /\ call[s].pc = "answer" /\ status' = [status EXCEPT ![e] = r]
      /\ run' = Ends(run.batch) /\ call' = [call EXCEPT ![s] = Idle]
      /\ UNCHANGED <<floor, sold, journal, faults, history>>
  BY DEF TakeAnswer
<1>2. /\ journal \in Journals /\ Staff \notin Events /\ None \notin Slots
      /\ status \in [Events -> {"PENDING", "SYNCED", "REVIEW", "FAILED"}]
      /\ call \in [Slots -> Calls] /\ run \in [batch : SUBSET Events, slot : Slots \cup {None}]
  BY StaffNoEvent, ChecksAssumption DEF Inv, TypeOK
<1>3. call'[s] = Idle /\ OthersStay(s)
  BY <1>1, <1>2, IdleTyped, SetTyped
<1>4. run'.slot = None /\ run'.batch \subseteq run.batch /\ (run' # Stopped => run'.batch = run.batch)
  BY <1>1, <1>2 DEF Ends, Stopped
<1>5. Apart /\ disturbed' = disturbed
  BY <1>1, HereStays DEF Apart, history, ReachInv
<1>6. /\ floor' = floor /\ sold' = sold /\ journal' = journal
      /\ reached' = reached /\ linked' = linked /\ Events' = Events
  BY <1>1, <1>5 DEF floor, Events, Apart
<1>7. ShapeInv'
  BY <1>3, <1>5, ShapeStays DEF OthersStay
<1>8. \A t \in Slots : call'[t].event \in Events => t # s /\ call'[t] = call[t]
  BY <1>2, <1>3, IdleTyped DEF OthersStay
<1>9. ASSUME e \in Events, Owner(e) \notin disturbed'
      PROVE  /\ RequestOf(s) /\ EventOf(e) /\ status'[e] = "SYNCED" /\ reached[e] = {Owner(e)}
             /\ InTurn(e) /\ e \notin run.batch
             /\ \A t \in Slots \ {s} : call[t].event # e
             /\ journal[e].kind = "create" => Owner(e) \in linked
  <2>1. RequestOf(s) /\ EventOf(e) /\ ShapeOf(s)
    BY <1>5, <1>9, CleanRequest, CleanKnown DEF ReachInv, ShapeInv
  <2>2. r = "SYNCED" /\ reached[e] = {Owner(e)} /\ e \notin run.batch
    BY <1>1, <2>1 DEF RequestOf
  <2>3. InTurn(e)
    BY <2>1, <2>2 DEF EventOf
  <2>4. \A t \in Slots \ {s} : call[t].event # e
    BY <1>9, <2>1 DEF RequestOf
  <2>5. journal[e].kind = "create" => Owner(e) \in linked
    BY <1>1, <1>9, <2>1 DEF RequestOf, ShapeOf
  <2>6. status'[e] = "SYNCED"
    BY <1>1, <1>2, <1>9, <2>2
  <2> QED
    BY <2>1, <2>2, <2>3, <2>4, <2>5, <2>6
<1>10. \A d \in Events : d # e => status'[d] = status[d]
  BY <1>1, <1>2
<1> HIDE DEF e, r
<1>11. ASSUME NEW d \in Events, Owner(d) \notin disturbed' PROVE EventOf(d)'
  <2>1. EventOf(d)
    BY <1>5, <1>11, CleanKnown
  <2>2. InTurn(d) => InTurn(d)'
    <3> SUFFICES ASSUME InTurn(d), NEW x \in 1..(d - 1), Owner(x) = Owner(d) PROVE status'[x] = "SYNCED"
      BY <1>6 DEF InTurn, Owner
    <3>1. x \in Events /\ status[x] = "SYNCED"
      BY <1>2, JournalTyped DEF Events, InTurn
    <3>2. CASE x = e
      BY <1>9, <1>11, <3>1, <3>2
    <3>3. CASE x # e
      BY <1>10, <3>1, <3>3
    <3> QED
      BY <3>2, <3>3
  <2>5. GivenUp(d) => GivenUp(d)'
    BY <1>6, <2>2 DEF GivenUp, Owner
  <2>3. CASE d = e
    <3>1. ~Working(d)'
      BY <1>8, <1>9, <1>11, <2>3 DEF Working
    <3>2. d \notin run'.batch
      BY <1>4, <1>9, <1>11, <2>3
    <3> QED
      BY <1>6, <1>9, <1>11, <2>1, <2>2, <2>3, <2>5, <3>1, <3>2 DEF EventOf, Owner
  <2>4. CASE d # e
    <3>1. status'[d] = status[d]
      BY <1>10, <2>4
    <3>2. Working(d)' <=> Working(d)
      <4>1. \A t \in Slots : call'[t].event = d => call[t].event = d
        BY <1>8
      <4>2. \A t \in Slots : call[t].event = d => t # s
        BY <2>4 DEF e
      <4>3. \A t \in Slots : call[t].event = d => call'[t].event = d
        BY <1>3, <4>2 DEF OthersStay
      <4> QED
        BY <4>1, <4>3 DEF Working
    <3>3. run' # Stopped => status[d] = "SYNCED" \/ d \in run'.batch \/ GivenUp(d)
      <4>1. run.batch # {} => run # Stopped
        BY DEF Stopped
      <4>2. run' # Stopped => run.batch # {}
        BY <1>1 DEF Ends
      <4>3. ~(run.slot # None /\ call[run.slot].event = d)
        BY <1>1, <2>4 DEF e
      <4> QED
        BY <1>4, <2>1, <4>1, <4>2, <4>3 DEF EventOf
    <3> QED
      BY <1>4, <1>6, <2>1, <2>2, <2>5, <3>1, <3>2, <3>3 DEF EventOf, Owner
  <2> QED
    BY <2>3, <2>4
<1>12. ASSUME NEW t \in Slots, call'[t].event \in Events, Owner(call'[t].event) \notin disturbed'
       PROVE  RequestOf(t)'
  <2>1. t # s /\ call'[t] = call[t]
    BY <1>8, <1>12
  <2>2. RequestOf(t)
    BY <1>5, <1>12, <2>1, CleanRequest
  <2>3. call[t].kind # "cancel" /\ t # None
    BY <1>1, <1>2, <2>1, <2>2 DEF RequestOf
  <2>4. \A u \in Slots \ {t} : call'[u].event \in Events => Owner(call'[u].event) # Owner(call[t].event)
    BY <1>8, <2>2 DEF RequestOf
  <2> QED
    BY <1>4, <1>6, <2>1, <2>2, <2>3, <2>4 DEF RequestOf, Owner, Closing
<1> QED
  BY <1>5, <1>7, <1>11, <1>12, EngineStep

\* Cancellations whose answer is lost.
LEMMA CancelledOwner ==
  ASSUME NEW slots, NEW t \in slots, call[t].kind = "cancel"
  PROVE  Owner(call[t].event) \in Cancelled(slots)
BY DEF Cancelled, Owner

\* The event waited for is left without an answer, and no later one of its check is to
\* be posted in this run: it is the last.
LEMMA LeftLast ==
  ASSUME Inv, ReachInv, NEW s \in Slots, run.slot = s, NEW e \in Events, call[s].event = e,
         disturbed \subseteq disturbed', Owner(e) \notin disturbed', Overtaken(s) \subseteq disturbed'
  PROVE  GivenUp(e) /\ status[e] # "SYNCED"
<1>1. Staff \notin Events /\ None \notin Slots /\ Events \subseteq Nat
  BY StaffNoEvent, ChecksAssumption DEF Inv, TypeOK, Events
<1>2. EventOf(e) /\ Working(e)
  BY CleanKnown DEF Working
<1>3. InTurn(e) /\ status[e] # "SYNCED"
  BY <1>2 DEF EventOf
<1>4. ASSUME NEW d \in Events, d > e, Owner(d) = Owner(e) PROVE FALSE
  <2>1. EventOf(d)
    BY <1>4, CleanKnown
  <2>2. d \notin run.batch
    BY <1>1, <1>4 DEF Overtaken, Own, Owner
  <2>3. ~InTurn(d)
    <3>1. e \in 1..(d - 1)
      BY <1>1, <1>4 DEF Events
    <3> QED
      BY <1>3, <1>4, <3>1 DEF InTurn
  <2>4. run # Stopped /\ d # e
    BY <1>1, <1>4 DEF Stopped
  <2> QED
    BY <2>1, <2>2, <2>3, <2>4 DEF EventOf, GivenUp
<1> QED
  BY <1>3, <1>4 DEF GivenUp

\* Requests are lost, and those for cancellations struck.  The run stops when it waited,
\* or leaves the event it waited for.
LEMMA LostStep ==
  ASSUME Inv, ReachInv, Apart, NEW lost \in SUBSET Slots,
         Cancelled(lost) \subseteq disturbed',
         \A t \in Slots : call'[t] = call[t] \/ (t \in lost /\ call'[t] = Idle),
         run.slot \in Slots => run.slot \in lost,
         run'.slot = None, run'.batch \subseteq run.batch,
         run' # Stopped => run # Stopped /\ run'.batch = run.batch,
         NEW left \in SUBSET Events,
         \A d \in Events \ left : status'[d] = status[d],
         \A d \in left : /\ status'[d] \in {"REVIEW", "FAILED"} /\ run.slot \in Slots
                         /\ call[run.slot].event = d /\ Overtaken(run.slot) \subseteq disturbed',
         run' # Stopped /\ run.slot \in Slots => call[run.slot].event \in left \cup {Staff}
  PROVE  ReachInv'
<1>1. /\ floor' = floor /\ sold' = sold /\ journal' = journal /\ journal \in Journals
      /\ reached' = reached /\ linked' = linked /\ Events' = Events
      /\ Staff \notin Events /\ None \notin Slots /\ run.slot \in Slots \cup {None}
  BY StaffNoEvent, ChecksAssumption DEF floor, Events, Apart, Inv, TypeOK
<1>2. ShapeInv'
  BY ShapeStays
<1>3. \A t \in Slots : call'[t].event \in Events => call'[t] = call[t]
  BY <1>1, IdleTyped
<1>4. \A e \in left : Owner(e) \notin disturbed' => GivenUp(e) /\ status[e] # "SYNCED"
  BY LeftLast DEF Apart
<1>5. \* No cancellation of a clean check is at work.
      ASSUME NEW t \in Slots, call[t].event \in Events, Owner(call[t].event) \notin disturbed'
      PROVE  call[t].kind # "cancel" /\ RequestOf(t)
  <2>1. RequestOf(t)
    BY <1>5, CleanRequest DEF Apart
  <2>2. call[t].kind = "cancel" => t \in lost
    BY <2>1 DEF RequestOf
  <2> QED
    BY <1>5, <2>1, <2>2, CancelledOwner
<1>6. ASSUME NEW e \in Events, Owner(e) \notin disturbed' PROVE EventOf(e)'
  <2>1. EventOf(e)
    BY <1>6, CleanKnown DEF Apart
  <2>2. InTurn(e) => InTurn(e)'
    <3> SUFFICES ASSUME InTurn(e), NEW x \in 1..(e - 1), Owner(x) = Owner(e)
                 PROVE  status'[x] = "SYNCED"
      BY <1>1 DEF InTurn, Owner
    <3>1. x \in Events /\ status[x] = "SYNCED"
      BY <1>1, JournalTyped DEF Events, InTurn
    <3>2. x \notin left
      BY <1>4, <1>6, <3>1
    <3> QED
      BY <3>1, <3>2
  <2>3. Working(e)' => Working(e)
    BY <1>3 DEF Working
  <2>4. journal[e].kind = "cancel" => ~Working(e)
    BY <1>5, <1>6 DEF ReachInv, ShapeInv, ShapeOf, Working
  <2>5. GivenUp(e) => GivenUp(e)'
    BY <1>1, <2>2 DEF GivenUp, Owner
  <2>6. run' # Stopped => status[e] = "SYNCED" \/ e \in run'.batch \/ GivenUp(e)
    BY <1>1, <1>4, <1>6, <2>1 DEF EventOf
  <2>7. CASE e \in left
    <3>1. GivenUp(e) /\ status[e] # "SYNCED" /\ status'[e] \notin {"SYNCED"}
      BY <1>4, <1>6, <2>7
    <3>2. InTurn(e)
      BY <3>1 DEF GivenUp
    <3> QED
      BY <1>1, <2>1, <2>2, <2>3, <2>4, <2>5, <3>1, <3>2 DEF EventOf, Owner
  <2>8. CASE e \notin left
    <3>1. status'[e] = status[e]
      BY <2>8
    <3> QED
      BY <1>1, <2>1, <2>2, <2>3, <2>4, <2>5, <2>6, <3>1 DEF EventOf, Owner
  <2> QED
    BY <2>7, <2>8
<1>7. ASSUME NEW t \in Slots, call'[t].event \in Events, Owner(call'[t].event) \notin disturbed'
      PROVE  RequestOf(t)'
  <2>1. call'[t] = call[t]
    BY <1>3, <1>7
  <2>2. RequestOf(t) /\ call[t].kind # "cancel"
    BY <1>5, <1>7, <2>1
  <2>3. \A u \in Slots \ {t} : call'[u].event \in Events => Owner(call'[u].event) # Owner(call[t].event)
    BY <1>3, <2>2 DEF RequestOf
  <2> QED
    BY <1>1, <2>1, <2>2, <2>3 DEF RequestOf, Owner, Closing
<1> QED
  BY <1>2, <1>6, <1>7, EngineStep

\* The same, from what the till makes of it.
LEMMA UnheardStep ==
  ASSUME Inv, ReachInv, UNCHANGED <<floor, sold, journal, reached>>,
         NEW s \in Slots, run.slot = s, NEW lost \in SUBSET Slots, s \in lost, NEW wrong,
         Unheard(s, Cancelled(lost), wrong),
         \A t \in Slots : call'[t] = call[t] \/ (t \in lost /\ call'[t] = Idle)
  PROVE  ReachInv'
<1>1. Apart /\ Cancelled(lost) \subseteq disturbed'
  BY HereRemembered DEF Apart, Unheard
<1>2. /\ status \in [Events -> {"PENDING", "SYNCED", "REVIEW", "FAILED"}]
      /\ run.batch \in SUBSET Events /\ None \notin Slots
      /\ call[s].event \in Events \cup {Staff}
  BY ChecksAssumption DEF Inv, TypeOK, CallsInv, CallInv
<1>3. run # Stopped
  BY <1>2 DEF Stopped
<1>4. CASE run' = Stopped /\ status' = status
  <2>1. run'.slot = None /\ run'.batch \subseteq run.batch
    BY <1>4 DEF Stopped
  <2> DEFINE left == {}
  <2>2. /\ left \in SUBSET Events /\ \A d \in Events \ left : status'[d] = status[d]
        /\ \A d \in left : /\ status'[d] \in {"REVIEW", "FAILED"} /\ run.slot \in Slots
                          /\ call[run.slot].event = d /\ Overtaken(run.slot) \subseteq disturbed'
    BY <1>4
  <2> HIDE DEF left
  <2> QED
    BY <1>1, <1>4, <2>1, <2>2, LostStep
<1>5. CASE /\ run' = Ends(run.batch) /\ Overtaken(s) \subseteq disturbed'
           /\ \E mark \in {"REVIEW", "FAILED"} :
                status' = [status EXCEPT ![call[s].event] = mark]
  <2>1. run'.slot = None /\ run'.batch \subseteq run.batch /\ (run' # Stopped => run'.batch = run.batch)
    BY <1>2, <1>5, EndsTyped
  <2> DEFINE left == {call[s].event} \cap Events
  <2>3. /\ \A d \in Events \ left : status'[d] = status[d]
        /\ \A d \in left : status'[d] \in {"REVIEW", "FAILED"} /\ call[s].event = d
    BY <1>2, <1>5
  <2>4. left \in SUBSET Events /\ call[s].event \in left \cup {Staff}
    BY <1>2
  <2> HIDE DEF left
  <2> QED
    BY <1>1, <1>3, <1>5, <2>1, <2>3, <2>4, LostStep
<1>6. \/ run' = Stopped /\ status' = status
      \/ /\ run' = Ends(run.batch) /\ Overtaken(s) \subseteq disturbed'
         /\ \E mark \in {"REVIEW", "FAILED"} :
              status' = [status EXCEPT ![call[s].event] = mark]
  BY HereRemembered DEF Unheard
<1> QED
  BY <1>4, <1>5, <1>6

LEMMA LoseReach == ASSUME Inv, ReachInv, NEW s \in Slots, Lose(s) PROVE ReachInv'
<1>1. /\ run.slot = s /\ Unheard(s, Cancelled({s}), FALSE)
      /\ UNCHANGED <<floor, sold, journal, reached>>
      /\ call' = call \/ call' = [call EXCEPT ![s] = Idle]
  BY DEF Lose
<1>2. \A t \in Slots : call'[t] = call[t] \/ (t \in {s} /\ call'[t] = Idle)
  BY <1>1 DEF Inv, TypeOK
<1>3. {s} \in SUBSET Slots /\ s \in {s}
  OBVIOUS
<1> QED
  BY <1>1, <1>2, <1>3, UnheardStep

LEMMA CrashReach == ASSUME Inv, ReachInv, Crash PROVE ReachInv'
<1> DEFINE late == \E s \in Slots : call[s].pc \in Releasing \cup {"occupy", "verify"}
<1>1. /\ \/ run.slot = None /\ UNCHANGED <<run, status>> /\ Remember(Cancelled(Slots), late)
         \/ run.slot # None /\ Unheard(run.slot, Cancelled(Slots), late)
      /\ call' = [s \in Slots |-> Idle]
      /\ UNCHANGED <<floor, sold, journal, reached>>
  BY DEF Crash
<1> HIDE DEF late
<1>2. \A t \in Slots : call'[t] = call[t] \/ (t \in Slots /\ call'[t] = Idle)
  BY <1>1
<1>3. Slots \in SUBSET Slots /\ run.slot \in Slots \cup {None}
  BY DEF Inv, TypeOK
<1>4. CASE run.slot = None /\ UNCHANGED <<run, status>> /\ Remember(Cancelled(Slots), late)
  <2>1. Apart /\ Cancelled(Slots) \subseteq disturbed'
    BY <1>1, <1>4, HereRemembered DEF Apart
  <2>2. None \notin Slots /\ {} \in SUBSET Events /\ (run.slot \in Slots => run.slot \in Slots)
    BY ChecksAssumption
  <2> QED
    BY <1>2, <1>3, <1>4, <2>1, <2>2, LostStep
<1>5. CASE run.slot # None /\ Unheard(run.slot, Cancelled(Slots), late)
  BY <1>1, <1>2, <1>3, <1>5, UnheardStep
<1> QED
  BY <1>1, <1>4, <1>5

-----------------------------------------------------------------------------
(* The theorem. *)

LEMMA InitReaches == ASSUME Init, Inv PROVE ReachInv
<1>1. /\ state = [c \in Checks |-> "none"] /\ linked = {} /\ pointer = None
      /\ sold = {} /\ journal \in Journals /\ status = [e \in Events |-> "PENDING"]
      /\ run = Stopped /\ call = [s \in Slots |-> Idle]
      /\ reached = [e \in Events |-> {}] /\ disturbed = {}
  BY DEF Init
<1>2. Staff \notin Events /\ run.batch = {}
  BY <1>1, StaffNoEvent DEF Stopped
<1>3. \A s \in Slots : call[s] = Idle /\ call[s].event = Staff
  BY <1>1, IdleTyped
<1>4. ShapeInv
  BY <1>2, <1>3, IdleTyped DEF ShapeInv, ShapeOf
<1>5. PointerInv /\ HereInv /\ ClosedInv
  BY <1>1 DEF PointerInv, HereInv, Here, ClosedInv, Checks
<1>6. CreateInv
  BY <1>1, JournalTyped DEF CreateInv, Owner, Checks
<1>7. EventInv
  <2> SUFFICES ASSUME NEW e \in Events PROVE EventOf(e)
    BY DEF EventInv
  <2>1. status[e] = "PENDING" /\ reached[e] = {} /\ ~Working(e) /\ e \notin sold
    BY <1>1, <1>2, <1>3 DEF Working
  <2> QED
    BY <1>1, <2>1 DEF EventOf
<1>8. RequestInv
  BY <1>2, <1>3 DEF RequestInv
<1> QED
  BY <1>4, <1>5, <1>6, <1>7, <1>8 DEF ReachInv

LEMMA NextReaches == ASSUME Inv, ReachInv, [Next]_vars PROVE ReachInv'
<1>1. ASSUME NEW s \in Slots, Serve(s) PROVE ReachInv'
  BY <1>1, FindOrderReach, CreateOrderReach, LinkReach, OccupyReach, FindSaleReach,
     ResolveReach, ApplyReach, CancelReach, CountReach, SellReach, AgainReach,
     ReadSiblingReach, WriteTableReach, ClearTableReach DEF Serve
<1>2. ASSUME StaffActs PROVE ReachInv'
  BY <1>2, OpenTabReach, SeatLinkReach, HealReach, VerifyReach, SeatReach, CloseReach,
     LookReach DEF StaffActs
<1>3. ASSUME DeviceActs PROVE ReachInv'
  BY <1>3, StartReach, TakeAnswerReach, LoseReach, PostReach, RetryReach DEF DeviceActs
<1> QED
  BY <1>1, <1>2, <1>3, FailReach, CrashReach, StutterReach DEF Next

\* The event the device takes for synced has changed its own check and no other
\* (posEventReplayer.ts, which looks the check up by its table), for any journals a till
\* writes and any number of checks, requests and faults, unless the check was disturbed.
THEOREM EventsReachTheirCheck == Spec => []ReachesOwnCheck
<1>1. Init /\ Inv => ReachInv
  BY InitReaches
<1>2. Inv /\ ReachInv /\ [Next]_vars => ReachInv'
  BY NextReaches
<1>3. ReachInv => ReachesOwnCheck
  BY DEF ReachInv, EventInv, EventOf, Clean, Owner, ReachesOwnCheck
<1> QED
  BY <1>1, <1>2, <1>3, AlwaysInv, PTL DEF Spec
=============================================================================
