-------------------------- MODULE OfflineSyncProofs --------------------------
(***************************************************************************)
(* Proofs about OfflineSync, for any sales, any number of open posts and   *)
(* any faults: type correctness, that a sale is made once, that SYNCED     *)
(* means sold and released, and that cancelling an event nobody holds is   *)
(* final.                                                                  *)
(*                                                                         *)
(* TypeInv adds to the types how far a call can be with which answer.      *)
(* AtInv says that a post has one owner: the engine, the worker or the     *)
(* queue.  SavedInv says that only saved sales travel.  SettledInv says    *)
(* what every answer, stored answer, result and message that calls an      *)
(* event synced stands for.                                                *)
(***************************************************************************)
EXTENDS OfflineSync, TLAPS

Done == {"synced", "duplicate"}

CallOK(c) == /\ c \in Calls
             /\ c.stage = "answered" => c.answer \in Answers
             /\ c.stage = "releasing" => c.answer \in Done

JournalOK == status \in [Sales -> Statuses] /\ shown \in SUBSET Sales
LoopsOK == engine \in Loops /\ worker \in Workers /\ mail \in SUBSET Messages
QueueOK == /\ queue \in Seq(Posts)
           /\ flush \in [left : Nat, at : Posts \cup {NoPost}]
           /\ flush.left <= Len(queue)
           /\ flush.at # NoPost => flush.left > 0
CallsOK == call \in [Posts -> Calls] /\ \A k \in Posts : CallOK(call[k])
SalesOK == sold \in [Sales -> Nat] /\ floor \in [Sales -> {"none", "taken", "free"}]
SwitchesOK == online \in BOOLEAN /\ paused \in BOOLEAN
RestOK == faults \in 0..MaxFaults /\ runs \in 0..MaxRuns

TypeInv == JournalOK /\ LoopsOK /\ QueueOK /\ CallsOK /\ SalesOK /\ SwitchesOK /\ RestOK

USE DEF NoSale, NoPost

-----------------------------------------------------------------------------
(* One call *)

\* What a call is made of.
LEMMA CallFields ==
  ASSUME NEW c \in Calls
  PROVE  /\ c.event \in Sales \cup {NoSale}
         /\ c.stage \in {"idle", "sent", "selling", "releasing", "answered"}
         /\ c.answer \in Answers \cup {"none"}
         /\ c.stored \in Good \cup {"none"}
  BY DEF Calls

LEMMA NoCallOK == CallOK(NoCall)
  BY DEF CallOK, NoCall, Calls

\* The updates of a call, field by field.
New(n, s) == [NoCall EXCEPT !.event = n, !.stage = s]
Turned(c, s, a) == [c EXCEPT !.stage = s, !.answer = a]
Staged(c, s) == [c EXCEPT !.stage = s]

LEMMA NewCall ==
  ASSUME NEW n \in Sales, NEW s \in {"idle", "sent"},
         NEW d, d = New(n, s)
  PROVE  /\ CallOK(d) /\ d.event = n /\ d.stage = s /\ d.answer = "none" /\ d.stored = "none"
<1>1. d \in Calls
  BY DEF New, NoCall, Calls
<1>2. d.event = n /\ d.stage = s /\ d.answer = "none" /\ d.stored = "none"
  BY DEF New, NoCall
<1> QED
  BY <1>1, <1>2 DEF CallOK

LEMMA CallTurn ==
  ASSUME NEW c \in Calls,
         NEW s \in {"idle", "sent", "selling", "releasing", "answered"},
         NEW a \in Answers \cup {"none"},
         s = "answered" => a \in Answers,
         s = "releasing" => a \in Done,
         NEW d, d = Turned(c, s, a)
  PROVE  /\ CallOK(d) /\ d.event = c.event /\ d.stage = s /\ d.answer = a
         /\ d.stored = c.stored
<1>1. d \in Calls
  BY DEF Turned, Calls
<1>2. d.event = c.event /\ d.stage = s /\ d.answer = a /\ d.stored = c.stored
  BY DEF Turned, Calls
<1> QED
  BY <1>1, <1>2 DEF CallOK

LEMMA CallStage ==
  ASSUME NEW c \in Calls,
         NEW s \in {"idle", "sent"},
         NEW d, d = Staged(c, s)
  PROVE  /\ CallOK(d) /\ d.event = c.event /\ d.stage = s /\ d.answer = c.answer
         /\ d.stored = c.stored
<1>1. d \in Calls
  BY DEF Staged, Calls
<1>2. d.event = c.event /\ d.stage = s /\ d.answer = c.answer /\ d.stored = c.stored
  BY DEF Staged, Calls
<1> QED
  BY <1>1, <1>2 DEF CallOK

LEMMA CallReply ==
  ASSUME NEW c \in Calls, NEW a \in Answers, NEW d, d = Reply(c, a)
  PROVE  /\ CallOK(d) /\ d.event = c.event /\ d.stage = "answered" /\ d.answer = a
         /\ d.stored \in {c.stored, a}
         /\ d.stored # c.stored => a \in Good
<1>1. (IF a \in Good THEN a ELSE c.stored) \in Good \cup {"none"}
  BY DEF Calls
<1>2. d \in Calls
  BY <1>1 DEF Reply, Calls
<1>3. d.event = c.event /\ d.stage = "answered" /\ d.answer = a
  BY DEF Reply, Calls
<1>4. d.stored = IF a \in Good THEN a ELSE c.stored
  BY DEF Reply, Calls
<1> QED
  BY <1>2, <1>3, <1>4 DEF CallOK

\* Nothing but post k changes.
LEMMA CallPut ==
  ASSUME CallsOK, NEW k \in Posts, NEW c, CallOK(c),
         call' = [call EXCEPT ![k] = c]
  PROVE  CallsOK' /\ call'[k] = c /\ \A j \in Posts \ {k} : call'[j] = call[j]
<1>1. c \in Calls
  BY DEF CallOK
<1>2. call' \in [Posts -> Calls] /\ call'[k] = c /\ \A j \in Posts \ {k} : call'[j] = call[j]
  BY <1>1 DEF CallsOK
<1>3. \A j \in Posts : CallOK(call'[j])
  BY <1>2 DEF CallsOK
<1> QED
  BY <1>2, <1>3 DEF CallsOK, CallOK

\* Post k is forgotten.
LEMMA CallForgotten ==
  ASSUME CallsOK, NEW k \in Posts, call' = [call EXCEPT ![k] = NoCall]
  PROVE  /\ CallsOK' /\ call'[k].stage = "idle" /\ call'[k].stored = "none"
         /\ call'[k].event = NoSale
         /\ \A j \in Posts \ {k} : call'[j] = call[j]
<1>1. PICK c : c = NoCall
  OBVIOUS
<1>2. CallOK(c) /\ c.stage = "idle" /\ c.stored = "none" /\ c.event = NoSale
  BY <1>1, NoCallOK DEF NoCall
<1>3. call' = [call EXCEPT ![k] = c]
  BY <1>1
<1>4. CallsOK' /\ call'[k] = c /\ \A j \in Posts \ {k} : call'[j] = call[j]
  BY <1>2, <1>3, CallPut
<1> QED
  BY <1>2, <1>4

-----------------------------------------------------------------------------
(* What the shared steps do to the calls *)

\* A new post for event n.
LEMMA SendFacts ==
  ASSUME CallsOK, NEW k \in Posts, NEW n \in Sales, Send(k, n)
  PROVE  /\ CallsOK' /\ Unused(k)
         /\ call'[k].event = n /\ call'[k].stage \in {"idle", "sent"}
         /\ call'[k].stored = "none"
         /\ \A j \in Posts \ {k} : call'[j] = call[j]
<1>1. Departs \in {"idle", "sent"}
  BY DEF Departs
<1>2. PICK c : c = New(n, Departs)
  OBVIOUS
<1>3. CallOK(c) /\ c.event = n /\ c.stage = Departs /\ c.stored = "none"
  BY <1>1, <1>2, NewCall
<1>4. call' = [call EXCEPT ![k] = c]
  BY <1>2 DEF Send, New
<1>5. Unused(k)
  BY DEF Send, IsFirst
<1> QED
  BY <1>1, <1>3, <1>4, <1>5, CallPut

\* A sender gives up on post k.
LEMMA UnheardFacts ==
  ASSUME CallsOK, RestOK, NEW k \in Posts, Unheard(k)
  PROVE  /\ CallsOK' /\ faults' \in 0..MaxFaults
         /\ call'[k].event = call[k].event /\ call'[k].stored = call[k].stored
         /\ call'[k].stage \in {call[k].stage, "idle"}
         /\ call'[k].stage = call[k].stage => call'[k] = call[k]
         /\ \A j \in Posts \ {k} : call'[j] = call[j]
<1>1. faults' \in 0..MaxFaults
  BY BoundsAssumption DEF Unheard, Fault, RestOK
<1>2. CASE UNCHANGED call
  BY <1>1, <1>2 DEF CallsOK
<1>3. CASE /\ call[k].stage \in {"sent", "answered"}
           /\ call' = [call EXCEPT ![k].stage = "idle", ![k].answer = "none"]
  <2>1. call[k] \in Calls
    BY DEF CallsOK
  <2>2. PICK c : c = Turned(call[k], "idle", "none")
    OBVIOUS
  <2>3. CallOK(c) /\ c.event = call[k].event /\ c.stage = "idle" /\ c.stored = call[k].stored
    BY <2>1, <2>2, CallTurn
  <2>4. call' = [call EXCEPT ![k] = c]
    BY <1>3, <2>2 DEF CallsOK, Turned
  <2>5. CallsOK' /\ call'[k] = c /\ \A j \in Posts \ {k} : call'[j] = call[j]
    BY <2>3, <2>4, CallPut
  <2> QED
    BY <1>1, <1>3, <2>3, <2>5
<1> QED
  BY <1>2, <1>3 DEF Unheard

\* The server answers post k.
Waited(k) == k \in {engine.at, worker.at, flush.at} \/ Queued(k)

LEMMA AnsweredFacts ==
  ASSUME CallsOK, NEW k \in Posts, NEW a \in Answers, Answered(k, a)
  PROVE  /\ CallsOK'
         /\ \A j \in Posts \ {k} : call'[j] = call[j]
         /\ ~Waited(k) => call'[k] = NoCall
         /\ Waited(k) => /\ call'[k].event = call[k].event
                         /\ call'[k].stage = "answered" /\ call'[k].answer = a
                         /\ call'[k].stored \in {call[k].stored, a}
                         /\ call'[k].stored # call[k].stored => a \in Good
<1>1. CASE ~Waited(k)
  <2>1. call' = [call EXCEPT ![k] = NoCall]
    BY <1>1 DEF Answered, Waited, CallsOK
  <2> QED
    BY <1>1, <2>1, NoCallOK, CallPut
<1>2. CASE Waited(k)
  <2>1. call[k] \in Calls
    BY DEF CallsOK
  <2>2. PICK c : c = Reply(call[k], a)
    OBVIOUS
  <2>3. /\ CallOK(c) /\ c.event = call[k].event /\ c.stage = "answered" /\ c.answer = a
        /\ c.stored \in {call[k].stored, a}
        /\ c.stored # call[k].stored => a \in Good
    BY <2>1, <2>2, CallReply
  <2>4. call' = [call EXCEPT ![k] = c]
    BY <1>2, <2>2 DEF Answered, Waited
  <2> QED
    BY <1>2, <2>3, <2>4, CallPut
<1> QED
  BY <1>1, <1>2

\* The server takes post k a stage further.
LEMMA TurnFacts ==
  ASSUME CallsOK, NEW k \in Posts, NEW s, NEW a, Turn(k, s, a),
         \/ s = "releasing" /\ a \in Done
         \/ s = "selling" /\ a = "none"
  PROVE  /\ CallsOK'
         /\ \A j \in Posts \ {k} : call'[j] = call[j]
         /\ call'[k].event = call[k].event /\ call'[k].stage = s /\ call'[k].answer = a
         /\ call'[k].stored = call[k].stored
<1>1. /\ call[k] \in Calls
      /\ s \in {"idle", "sent", "selling", "releasing", "answered"}
      /\ a \in Answers \cup {"none"}
      /\ s = "answered" => a \in Answers
      /\ s = "releasing" => a \in Done
  BY DEF CallsOK, Done, Answers
<1>2. PICK c : c = Turned(call[k], s, a)
  OBVIOUS
<1>3. /\ CallOK(c) /\ c.event = call[k].event /\ c.stage = s /\ c.answer = a
      /\ c.stored = call[k].stored
  BY <1>1, <1>2, CallTurn
<1>4. call' = [call EXCEPT ![k] = c]
  BY <1>1, <1>2 DEF Turn, CallsOK, Turned
<1> QED
  BY <1>3, <1>4, CallPut

\* A post is sent again, or stays where the server has it.
LEMMA AgainFacts ==
  ASSUME CallsOK, NEW k \in Posts,
         call' = [call EXCEPT ![k].stage = IF @ \in {"idle", "answered"} THEN Departs ELSE @]
  PROVE  /\ CallsOK'
         /\ \A j \in Posts \ {k} : call'[j] = call[j]
         /\ call'[k].event = call[k].event /\ call'[k].stored = call[k].stored
         /\ call'[k] # call[k] => call'[k].stage \in {"idle", "sent"}
<1>1. call[k] \in Calls
  BY DEF CallsOK
<1>2. CASE call[k].stage \in {"idle", "answered"}
  <2>1. Departs \in {"idle", "sent"}
    BY DEF Departs
  <2>2. PICK c : c = Staged(call[k], Departs)
    OBVIOUS
  <2>3. /\ CallOK(c) /\ c.event = call[k].event /\ c.stage = Departs
        /\ c.stored = call[k].stored
    BY <1>1, <2>1, <2>2, CallStage
  <2>4. call' = [call EXCEPT ![k] = c]
    BY <1>1, <1>2, <2>2 DEF CallsOK, Staged
  <2> QED
    BY <2>1, <2>3, <2>4, CallPut
<1>3. CASE call[k].stage \notin {"idle", "answered"}
  <2>1. [call[k] EXCEPT !.stage = @] = call[k]
    BY <1>1 DEF Calls
  <2>2. call' = [call EXCEPT ![k] = [call[k] EXCEPT !.stage = @]]
    BY <1>1, <1>3 DEF CallsOK
  <2>3. call' = call
    BY <2>1, <2>2 DEF CallsOK
  <2> QED
    BY <2>3 DEF CallsOK
<1> QED
  BY <1>2, <1>3

\* The part of the server that works on a call forgets it.
LEMMA CrashFacts ==
  ASSUME CallsOK, Crash
  PROVE  /\ CallsOK'
         /\ \A k \in Posts : /\ call'[k].event = call[k].event
                             /\ call'[k].stored = call[k].stored
                             /\ call'[k] # call[k] => call'[k].stage = "idle"
<1>1. ASSUME NEW k \in Posts
      PROVE  /\ CallOK(call'[k])
             /\ call'[k].event = call[k].event
             /\ call'[k].stored = call[k].stored
             /\ call'[k] # call[k] => call'[k].stage = "idle"
  <2>1. call[k] \in Calls /\ CallOK(call[k])
    BY DEF CallsOK
  <2>2. CASE call[k].stage \in {"selling", "releasing"}
    <3>1. call'[k] = Staged(call[k], "idle")
      BY <2>2 DEF Crash, Staged
    <3> QED
      BY <2>1, <3>1, CallStage
  <2>3. CASE call[k].stage \notin {"selling", "releasing"}
    BY <2>1, <2>3 DEF Crash
  <2> QED
    BY <2>2, <2>3
<1>2. call' \in [Posts -> Calls]
  BY <1>1 DEF Crash, CallOK
<1> QED
  BY <1>1, <1>2 DEF CallsOK, CallOK

-----------------------------------------------------------------------------
(* Types *)

LEMMA InitTypes == Init => TypeInv
<1> SUFFICES ASSUME Init PROVE TypeInv
  OBVIOUS
<1>1. JournalOK
  BY DEF Init, JournalOK, Statuses
<1>2. LoopsOK
  <2>1. engine \in Loops
    BY DEF Init, NoLoop, Loops
  <2>2. NoResult \in Messages
    BY DEF NoResult, Messages
  <2>3. worker \in Workers
    BY <2>2 DEF Init, Asleep, Workers
  <2> QED
    BY <2>1, <2>3 DEF Init, LoopsOK
<1>3. QueueOK
  BY DEF Init, QueueOK
<1>4. CallsOK
  BY NoCallOK DEF Init, CallsOK, CallOK
<1>5. SalesOK
  BY DEF Init, SalesOK
<1>6. RestOK
  BY BoundsAssumption DEF Init, RestOK
<1>7. SwitchesOK
  BY Zenon DEF Init, SwitchesOK
<1> QED
  BY <1>1, <1>2, <1>3, <1>4, <1>5, <1>6, <1>7 DEF TypeInv

\* What an event of the journal can be marked.
LEMMA MarkType ==
  ASSUME NEW a \in Answers, a # "auth"
  PROVE  /\ Mark(a) \in Statuses \ {"none", "CANCELLED"}
         /\ Mark(a) = "SYNCED" => a \in Done
  BY DEF Mark, Answers, Statuses, Done

\* The till's own steps change the journal, and what is lost with a page.
Till == \/ Save \/ (\E n \in Sales : Cancel(n))
        \/ (\E S \in {Sales} \cup {{n} : n \in shown} : Retry(S))
        \/ GoOffline \/ GoOnline \/ Login \/ Reload

LEMMA TillTypes ==
  ASSUME TypeInv, Till
  PROVE  TypeInv'
<1> USE DEF TypeInv
<1>0. JournalOK /\ LoopsOK /\ QueueOK /\ CallsOK /\ SalesOK /\ SwitchesOK /\ RestOK
  OBVIOUS
<1>1. CASE Save
  <2>1. PICK n \in Sales, table \in {"none", "taken"} :
           /\ status' = [status EXCEPT ![n] = "PENDING"]
           /\ floor' = [floor EXCEPT ![n] = table]
           /\ Refresh
           /\ UNCHANGED <<sold, online, paused, engine, worker, mail, queue, flush,
                          call, faults, runs>>
    BY <1>1 DEF Save
  <2>2. JournalOK'
    BY <2>1 DEF JournalOK, Refresh, Statuses
  <2>3. SalesOK'
    BY <2>1 DEF SalesOK
  <2>4. LoopsOK' /\ QueueOK' /\ CallsOK' /\ SwitchesOK' /\ RestOK'
    BY <2>1 DEF LoopsOK, QueueOK, CallsOK, SwitchesOK, RestOK
  <2> QED
    BY <2>2, <2>3, <2>4
<1>2. CASE \E n \in Sales : Cancel(n)
  <2>1. PICK n \in Sales : Cancel(n)
    BY <1>2
  <2>2. JournalOK'
    BY <2>1 DEF Cancel, JournalOK, Refresh, Statuses
  <2>3. LoopsOK' /\ QueueOK' /\ CallsOK' /\ SwitchesOK' /\ RestOK' /\ SalesOK'
    BY <2>1 DEF Cancel, LoopsOK, QueueOK, CallsOK, SwitchesOK, RestOK, SalesOK, server
  <2> QED
    BY <2>2, <2>3
<1>3. CASE \E S \in {Sales} \cup {{n} : n \in shown} : Retry(S)
  <2>1. PICK S \in {Sales} \cup {{n} : n \in shown} : Retry(S)
    BY <1>3
  <2>2. JournalOK'
    BY <2>1 DEF Retry, JournalOK, Refresh, Statuses
  <2>3. LoopsOK' /\ QueueOK' /\ CallsOK' /\ SwitchesOK' /\ RestOK' /\ SalesOK'
    BY <2>1 DEF Retry, LoopsOK, QueueOK, CallsOK, SwitchesOK, RestOK, SalesOK, server
  <2> QED
    BY <2>2, <2>3
<1>4. CASE GoOffline
  <2>1. JournalOK' /\ LoopsOK' /\ QueueOK' /\ CallsOK' /\ SalesOK'
    BY <1>4 DEF GoOffline, tab, server, JournalOK, LoopsOK, QueueOK, CallsOK, SalesOK
  <2>2. RestOK'
    BY <1>4, BoundsAssumption DEF GoOffline, Fault, tab, RestOK
  <2>3. SwitchesOK'
    BY Zenon, <1>4 DEF GoOffline, tab, SwitchesOK
  <2> QED
    BY <2>1, <2>2, <2>3
<1>5. CASE GoOnline
  <2>1. JournalOK' /\ LoopsOK' /\ QueueOK' /\ CallsOK' /\ SalesOK'
    BY <1>5 DEF GoOnline, tab, server, JournalOK, LoopsOK, QueueOK, CallsOK, SalesOK
  <2>2. RestOK'
    BY <1>5 DEF GoOnline, tab, RestOK
  <2>3. SwitchesOK'
    BY Zenon, <1>5 DEF GoOnline, tab, SwitchesOK
  <2> QED
    BY <2>1, <2>2, <2>3
<1>6. CASE Login
  <2>1. JournalOK' /\ LoopsOK' /\ QueueOK' /\ CallsOK' /\ SalesOK'
    BY <1>6 DEF Login, server, JournalOK, LoopsOK, QueueOK, CallsOK, SalesOK
  <2>2. RestOK'
    BY <1>6 DEF Login, RestOK
  <2>3. SwitchesOK'
    BY Zenon, <1>6 DEF Login, SwitchesOK
  <2> QED
    BY <2>1, <2>2, <2>3
<1>7. CASE Reload
  <2>1. JournalOK' /\ CallsOK' /\ SalesOK'
    BY <1>7 DEF Reload, Refresh, server, JournalOK, CallsOK, SalesOK
  <2>2. LoopsOK'
    BY <1>7 DEF Reload, LoopsOK, Loops, NoLoop, Workers
  <2>3. QueueOK'
    BY <1>7 DEF Reload, QueueOK
  <2>4. RestOK'
    BY <1>7, BoundsAssumption DEF Reload, Fault, RestOK
  <2>5. SwitchesOK'
    BY <1>7 DEF Reload, SwitchesOK
  <2> QED
    BY <2>1, <2>2, <2>3, <2>4, <2>5
<1> QED
  BY <1>1, <1>2, <1>3, <1>4, <1>5, <1>6, <1>7 DEF Till

\* The engine.
Engine == EngineStart \/ EnginePost \/ EngineReply \/ EngineNoAnswer

LEMMA LoopMoves ==
  ASSUME LoopsOK, Break \/ Continue
  PROVE  engine' \in Loops /\ engine'.at = NoPost /\ engine'.todo \subseteq engine.todo
BY DEF Break, Continue, LoopsOK, Loops, NoLoop

LEMMA BreakTypes ==
  ASSUME JournalOK, LoopsOK, status' \in [Sales -> Statuses], Break \/ Continue
  PROVE  engine' \in Loops /\ shown' \in SUBSET Sales /\ engine'.at = NoPost
         /\ engine'.todo \subseteq engine.todo
<1>1. engine' \in Loops /\ engine'.at = NoPost /\ engine'.todo \subseteq engine.todo
  BY LoopMoves
<1>2. shown' \in SUBSET Sales
  BY DEF Break, Continue, EngineEnds, Refresh, JournalOK
<1> QED
  BY <1>1, <1>2

\* What a lost answer does to the journal and the engine.
LEMMA NoAnswerFacts ==
  ASSUME JournalOK, LoopsOK, EngineNoAnswer
  PROVE  /\ status' \in [Sales -> Statuses]
         /\ \A n \in Sales : \/ status'[n] = status[n]
                             \/ n = call[engine.at].event /\ status'[n] \in Unanswered
         /\ engine' \in Loops /\ engine'.at = NoPost /\ engine'.todo \subseteq engine.todo
         /\ shown' \in SUBSET Sales
<1>1. status' = status \/ \E s \in Unanswered : status' = [status EXCEPT ![call[engine.at].event] = s]
  BY DEF EngineNoAnswer
<1>2. /\ status' \in [Sales -> Statuses]
      /\ \A n \in Sales : \/ status'[n] = status[n]
                          \/ n = call[engine.at].event /\ status'[n] \in Unanswered
  <2>1. PICK m : m = call[engine.at].event
    OBVIOUS
  <2>2. CASE status' = status
    BY <2>2 DEF JournalOK
  <2>3. CASE \E s \in Unanswered : status' = [status EXCEPT ![m] = s]
    <3>1. PICK s \in Unanswered : status' = [status EXCEPT ![m] = s]
      BY <2>3
    <3>2. s \in Statuses
      BY DEF Unanswered, Statuses
    <3>3. status' \in [Sales -> Statuses]
      BY <3>1, <3>2 DEF JournalOK
    <3>4. \A n \in Sales : status'[n] = status[n] \/ (n = m /\ status'[n] = s)
      BY <3>1 DEF JournalOK
    <3> QED
      BY <2>1, <3>3, <3>4
  <2> QED
    BY <1>1, <2>1, <2>2, <2>3
<1>3. Break \/ Continue
  BY DEF EngineNoAnswer
<1> QED
  BY <1>2, <1>3, BreakTypes

LEMMA EngineTypes ==
  ASSUME TypeInv, Engine
  PROVE  TypeInv'
<1> USE DEF TypeInv
<1>0. JournalOK /\ LoopsOK /\ QueueOK /\ CallsOK /\ SalesOK /\ SwitchesOK /\ RestOK
  OBVIOUS
<1>1. CASE EngineStart
  <2>1. JournalOK' /\ QueueOK' /\ CallsOK' /\ SalesOK' /\ SwitchesOK' /\ RestOK'
    BY <1>1 DEF EngineStart, server, JournalOK, QueueOK, CallsOK, SalesOK, SwitchesOK, RestOK
  <2>2. LoopsOK'
    BY <1>1 DEF EngineStart, Unsynced, LoopsOK, Loops, NoLoop
  <2> QED
    BY <2>1, <2>2
<1>2. CASE EnginePost
  <2>1. PICK k \in Posts, n \in engine.todo :
           Send(k, n) /\ engine' = [todo |-> engine.todo \ {n}, at |-> k]
    BY <1>2 DEF EnginePost
  <2>2. n \in Sales
    BY <2>1 DEF LoopsOK, Loops
  <2>3. CallsOK'
    BY <2>1, <2>2, SendFacts
  <2>4. LoopsOK'
    BY <1>2, <2>1 DEF EnginePost, LoopsOK, Loops
  <2>5. JournalOK' /\ QueueOK' /\ SalesOK' /\ SwitchesOK' /\ RestOK'
    BY <1>2 DEF EnginePost, server, JournalOK, QueueOK, SalesOK, SwitchesOK, RestOK
  <2> QED
    BY <2>3, <2>4, <2>5
<1>3. CASE EngineReply
  <2>1. PICK k : k = engine.at
    OBVIOUS
  <2>2. k \in Posts /\ call[k].stage = "answered"
    BY <1>3, <2>1 DEF EngineReply, LoopsOK, Loops
  <2>3. PICK a : a = call[k].answer
    OBVIOUS
  <2>4. a \in Answers
    BY <2>2, <2>3 DEF CallsOK, CallOK
  <2>5. CallsOK'
    BY <1>3, <2>1, <2>2, NoCallOK, CallPut DEF EngineReply
  <2>6. status' \in [Sales -> Statuses]
    <3>1. \/ UNCHANGED status
          \/ a # "auth" /\ status' = [status EXCEPT ![call[k].event] = Mark(a)]
      BY <1>3, <2>1, <2>3 DEF EngineReply
    <3> QED
      BY <2>4, <3>1, MarkType DEF JournalOK
  <2>7. engine' \in Loops /\ shown' \in SUBSET Sales
    BY <1>3, <2>6, BreakTypes DEF EngineReply
  <2>8. SwitchesOK'
    <3>1. paused' \in {paused, TRUE} /\ online' = online
      BY <1>3 DEF EngineReply
    <3> QED
      BY <3>1, Zenon DEF SwitchesOK
  <2>9. worker' = worker /\ mail' = mail /\ QueueOK' /\ SalesOK' /\ RestOK'
    BY <1>3 DEF EngineReply, server, QueueOK, SalesOK, RestOK
  <2> QED
    BY <2>5, <2>6, <2>7, <2>8, <2>9 DEF JournalOK, LoopsOK
<1>4. CASE EngineNoAnswer
  <2>1. PICK k : k = engine.at
    OBVIOUS
  <2>2. k \in Posts /\ Unheard(k)
    BY <1>4, <2>1 DEF EngineNoAnswer, LoopsOK, Loops
  <2>3. CallsOK' /\ faults' \in 0..MaxFaults
    BY <2>2, UnheardFacts
  <2>4. /\ queue' = queue \/ queue' = Append(queue, k)
        /\ UNCHANGED <<paused, flush, sold, floor, online, worker, mail, runs>>
    BY <1>4, <2>1 DEF EngineNoAnswer, server
  <2>5. QueueOK'
    <3>1. queue' \in Seq(Posts) /\ Len(queue) <= Len(queue')
      BY <2>2, <2>4 DEF QueueOK
    <3>2. Len(queue) \in Nat /\ Len(queue') \in Nat /\ flush.left \in Nat
      BY <3>1 DEF QueueOK
    <3>3. flush'.left <= Len(queue')
      BY <2>4, <3>1, <3>2 DEF QueueOK
    <3> QED
      BY <2>4, <3>1, <3>3 DEF QueueOK
  <2>6. status' \in [Sales -> Statuses]
    BY <1>4, NoAnswerFacts
  <2>7. engine' \in Loops /\ shown' \in SUBSET Sales
    BY <1>4, NoAnswerFacts
  <2>8. SalesOK' /\ SwitchesOK' /\ RestOK'
    BY <2>3, <2>4 DEF SalesOK, SwitchesOK, RestOK
  <2> QED
    BY <2>3, <2>4, <2>5, <2>6, <2>7, <2>8 DEF JournalOK, LoopsOK
<1> QED
  BY <1>1, <1>2, <1>3, <1>4 DEF Engine

\* The service worker.
Worker == WorkerStart \/ WorkerPost \/ WorkerReply \/ WorkerNoAnswer \/ WorkerDone

LEMMA AsleepType == Asleep \in Workers
<1>1. NoResult \in Messages
  BY DEF NoResult, Messages
<1> QED
  BY <1>1 DEF Asleep, Workers

\* The worker starts with nothing but its copy of the unsynced events.
LEMMA WorkerStartFacts ==
  ASSUME WorkerStart
  PROVE  /\ worker'.at = NoPost /\ worker'.todo = Unsynced /\ worker'.result = NoResult
         /\ worker' \in Workers
<1>1. PICK w : w = Asleep
  OBVIOUS
<1>2. w \in Workers /\ Unsynced \in SUBSET Sales
  BY <1>1, AsleepType DEF Unsynced
<1>3. worker' = [w EXCEPT !.active = TRUE, !.todo = Unsynced, !.attached = TRUE]
  BY <1>1 DEF WorkerStart
<1>4. w.at = NoPost /\ w.result = NoResult
  BY <1>1 DEF Asleep
<1>5. worker' \in Workers
  BY <1>2, <1>3 DEF Workers
<1>6. worker'.at = w.at /\ worker'.todo = Unsynced /\ worker'.result = w.result
  BY <1>2, <1>3 DEF Workers
<1> QED
  BY <1>4, <1>5, <1>6

\* What an answer adds to the worker's result.
LEMMA WorkerReplyFacts ==
  ASSUME LoopsOK, CallsOK, WorkerReply, NEW k, k = worker.at
  PROVE  /\ k \in Posts /\ call[k].stage = "answered"
         /\ call' = [call EXCEPT ![k] = NoCall]
         /\ worker'.at = NoPost
         /\ worker'.todo = worker.todo
         /\ worker'.active = worker.active
         /\ worker'.attached = worker.attached
         /\ worker'.result.synced = worker.result.synced \cup
                {m \in {call[k].event} : call[k].answer \in {"synced", "duplicate"}}
         /\ worker'.result.review = worker.result.review \cup
                {m \in {call[k].event} : call[k].answer = "review"}
         /\ call[k].event \in Sales => worker' \in Workers
<1>1. /\ k \in Posts /\ call[k].stage = "answered"
      /\ call' = [call EXCEPT ![k] = NoCall]
  BY DEF WorkerReply, LoopsOK, Workers
<1>2. PICK s : s = {m \in {call[k].event} : call[k].answer \in {"synced", "duplicate"}}
  OBVIOUS
<1>3. PICK r : r = {m \in {call[k].event} : call[k].answer = "review"}
  OBVIOUS
<1>4. worker' = [worker EXCEPT !.at = NoPost, !.result.synced = @ \cup s,
                               !.result.review = @ \cup r]
  BY <1>2, <1>3 DEF WorkerReply
<1>5. worker \in Workers /\ worker.result \in Messages
  BY DEF LoopsOK, Workers
<1>6. /\ worker'.at = NoPost
      /\ worker'.todo = worker.todo
      /\ worker'.active = worker.active
      /\ worker'.attached = worker.attached
  BY <1>4, <1>5 DEF Workers
<1>7. /\ worker'.result.synced = worker.result.synced \cup s
      /\ worker'.result.review = worker.result.review \cup r
  BY <1>4, <1>5 DEF Workers, Messages
<1>8. ASSUME call[k].event \in Sales PROVE worker' \in Workers
  <2>1. s \in SUBSET Sales /\ r \in SUBSET Sales
    BY <1>2, <1>3, <1>8
  <2> QED
    BY <1>4, <1>5, <2>1 DEF Workers, Messages
<1> QED
  BY <1>1, <1>2, <1>3, <1>6, <1>7, <1>8

LEMMA WorkerTypes ==
  ASSUME TypeInv, Worker, worker.at # NoPost => call[worker.at].event \in Sales
  PROVE  TypeInv'
<1> USE DEF TypeInv
<1>0. JournalOK /\ LoopsOK /\ QueueOK /\ CallsOK /\ SalesOK /\ SwitchesOK /\ RestOK
  OBVIOUS
<1>1. CASE WorkerStart
  <2>1. JournalOK' /\ QueueOK' /\ CallsOK' /\ SalesOK' /\ SwitchesOK'
    BY <1>1 DEF WorkerStart, tab, server, JournalOK, QueueOK, CallsOK, SalesOK, SwitchesOK
  <2>2. RestOK'
    BY <1>1, BoundsAssumption DEF WorkerStart, RestOK
  <2>6. worker' \in Workers
    BY <1>1, WorkerStartFacts
  <2>7. engine' = engine /\ mail' = mail
    BY <1>1 DEF WorkerStart, tab
  <2> QED
    BY <2>1, <2>2, <2>6, <2>7 DEF LoopsOK
<1>2. CASE WorkerPost
  <2>1. PICK k \in Posts, n \in worker.todo :
           Send(k, n) /\ worker' = [worker EXCEPT !.todo = @ \ {n}, !.at = k]
    BY <1>2 DEF WorkerPost
  <2>2. n \in Sales
    BY <2>1 DEF LoopsOK, Workers
  <2>3. CallsOK'
    BY <2>1, <2>2, SendFacts
  <2>4. worker' \in Workers
    BY <2>1 DEF LoopsOK, Workers
  <2>5. /\ engine' = engine /\ mail' = mail
        /\ JournalOK' /\ QueueOK' /\ SalesOK' /\ SwitchesOK' /\ RestOK'
    BY <1>2 DEF WorkerPost, tab, server, JournalOK, QueueOK, SalesOK, SwitchesOK, RestOK
  <2> QED
    BY <2>3, <2>4, <2>5 DEF LoopsOK
<1>3. CASE WorkerReply
  <2>1. PICK k : k = worker.at
    OBVIOUS
  <2>2. k \in Posts /\ k # NoPost
    BY <1>3, <2>1 DEF WorkerReply, LoopsOK, Workers
  <2>3. worker' \in Workers /\ call' = [call EXCEPT ![k] = NoCall]
    BY <1>3, <2>1, <2>2, WorkerReplyFacts
  <2>4. CallsOK'
    BY <2>2, <2>3, NoCallOK, CallPut
  <2>5. /\ engine' = engine /\ mail' = mail
        /\ JournalOK' /\ QueueOK' /\ SalesOK' /\ SwitchesOK' /\ RestOK'
    BY <1>3 DEF WorkerReply, tab, server, JournalOK, QueueOK, SalesOK, SwitchesOK, RestOK
  <2> QED
    BY <2>3, <2>4, <2>5 DEF LoopsOK
<1>4. CASE WorkerNoAnswer
  <2>1. PICK k : k = worker.at
    OBVIOUS
  <2>2. k \in Posts /\ Unheard(k)
    BY <1>4, <2>1 DEF WorkerNoAnswer, LoopsOK, Workers
  <2>3. CallsOK' /\ faults' \in 0..MaxFaults
    BY <2>2, UnheardFacts
  <2>4. /\ engine' = engine /\ mail' = mail /\ runs' = runs
        /\ JournalOK' /\ QueueOK' /\ SalesOK' /\ SwitchesOK'
    BY <1>4 DEF WorkerNoAnswer, tab, server, JournalOK, QueueOK, SalesOK, SwitchesOK
  <2>5. worker' = Asleep \/ worker' = [worker EXCEPT !.at = NoPost]
    BY <1>4 DEF WorkerNoAnswer
  <2>6. worker' \in Workers
    BY <2>5, AsleepType DEF LoopsOK, Workers
  <2> QED
    BY <2>3, <2>4, <2>6 DEF LoopsOK, RestOK
<1>5. CASE WorkerDone
  <2>1. worker.result \in Messages
    BY DEF LoopsOK, Workers
  <2>2. mail' \in SUBSET Messages
    BY <1>5, <2>1 DEF WorkerDone, LoopsOK
  <2>3. /\ engine' = engine /\ worker' = Asleep
        /\ JournalOK' /\ QueueOK' /\ CallsOK' /\ SalesOK' /\ SwitchesOK' /\ RestOK'
    BY <1>5 DEF WorkerDone, tab, server, JournalOK, QueueOK, CallsOK, SalesOK, SwitchesOK,
                RestOK
  <2> QED
    BY <2>2, <2>3, AsleepType DEF LoopsOK
<1> QED
  BY <1>1, <1>2, <1>3, <1>4, <1>5 DEF Worker

LEMMA DeliverTypes ==
  ASSUME TypeInv, NEW msg \in mail, Deliver(msg)
  PROVE  TypeInv'
<1> USE DEF TypeInv
<1>0. JournalOK /\ LoopsOK /\ QueueOK /\ CallsOK /\ SalesOK /\ SwitchesOK /\ RestOK
  OBVIOUS
<1>1. status' \in [Sales -> Statuses]
  BY DEF Deliver, JournalOK, Statuses
<1>2. shown' \in SUBSET Sales
  BY DEF Deliver, JournalOK, Refresh
<1>3. LoopsOK' /\ QueueOK' /\ CallsOK' /\ SalesOK' /\ SwitchesOK' /\ RestOK'
  BY DEF Deliver, server, LoopsOK, QueueOK, CallsOK, SalesOK, SwitchesOK, RestOK
<1> QED
  BY <1>1, <1>2, <1>3 DEF JournalOK

\* The request queue.
Flush == FlushStart \/ FlushPost \/ FlushReply \/ FlushNoAnswer

LEMMA QueueHead ==
  ASSUME QueueOK, flush.left > 0
  PROVE  queue # <<>> /\ Head(queue) \in Posts /\ Head(queue) = queue[1]
         /\ Tail(queue) \in Seq(Posts) /\ Len(Tail(queue)) = Len(queue) - 1
<1>1. Len(queue) > 0
  BY DEF QueueOK
<1> QED
  BY <1>1 DEF QueueOK

LEMMA FlushTypes ==
  ASSUME TypeInv, Flush
  PROVE  TypeInv'
<1> USE DEF TypeInv
<1>0. JournalOK /\ LoopsOK /\ QueueOK /\ CallsOK /\ SalesOK /\ SwitchesOK /\ RestOK
  OBVIOUS
<1>1. CASE FlushStart
  <2>1. JournalOK' /\ LoopsOK' /\ CallsOK' /\ SalesOK' /\ SwitchesOK' /\ RestOK'
    BY <1>1 DEF FlushStart, server, JournalOK, LoopsOK, CallsOK, SalesOK, SwitchesOK, RestOK
  <2>2. queue' = queue /\ flush' = [flush EXCEPT !.left = Len(queue)] /\ queue # <<>>
    BY <1>1 DEF FlushStart
  <2>3. Len(queue) \in Nat /\ Len(queue) > 0
    BY <2>2 DEF QueueOK
  <2>4. QueueOK'
    BY <2>2, <2>3 DEF QueueOK
  <2> QED
    BY <2>1, <2>4
<1>2. CASE FlushPost
  <2>1. JournalOK' /\ LoopsOK' /\ SalesOK' /\ SwitchesOK' /\ RestOK'
    BY <1>2 DEF FlushPost, server, JournalOK, LoopsOK, SalesOK, SwitchesOK, RestOK
  <2>2. /\ flush.left > 0
        /\ flush' = [flush EXCEPT !.at = Head(queue)] /\ queue' = queue
    BY <1>2 DEF FlushPost
  <2>3. PICK k : k = Head(queue)
    OBVIOUS
  <2>4. k \in Posts
    BY <2>2, <2>3, QueueHead
  <2>5. QueueOK'
    BY <2>2, <2>3, <2>4 DEF QueueOK
  <2>6. call' = [call EXCEPT ![k].stage = IF @ \in {"idle", "answered"} THEN Departs ELSE @]
    BY <1>2, <2>3 DEF FlushPost
  <2>7. CallsOK'
    BY <2>4, <2>6, AgainFacts
  <2> QED
    BY <2>1, <2>5, <2>7
<1>3. CASE FlushReply
  <2>1. JournalOK' /\ LoopsOK' /\ SalesOK' /\ SwitchesOK' /\ RestOK'
    BY <1>3 DEF FlushReply, server, JournalOK, LoopsOK, SalesOK, SwitchesOK, RestOK
  <2>2. PICK k : k = flush.at
    OBVIOUS
  <2>3. k \in Posts /\ flush.left > 0
    BY <1>3, <2>2 DEF FlushReply, QueueOK
  <2>4. CASE /\ queue' = Tail(queue)
             /\ flush' = [left |-> flush.left - 1, at |-> NoPost]
             /\ call' = [call EXCEPT ![k] = NoCall]
    <3>1. QueueOK'
      BY <2>3, <2>4, QueueHead DEF QueueOK
    <3>2. CallsOK'
      BY <2>3, <2>4, NoCallOK, CallPut
    <3> QED
      BY <2>1, <3>1, <3>2
  <2>5. CASE /\ flush' = [left |-> 0, at |-> NoPost]
             /\ call' = [call EXCEPT ![k].stage = "idle", ![k].answer = "none"]
             /\ queue' = queue
    <3>1. QueueOK'
      BY <2>5 DEF QueueOK
    <3>2. call[k] \in Calls
      BY <2>3 DEF CallsOK
    <3>3. PICK c : c = Turned(call[k], "idle", "none")
      OBVIOUS
    <3>4. CallOK(c)
      BY <3>2, <3>3, CallTurn
    <3>5. call' = [call EXCEPT ![k] = c]
      BY <2>3, <2>5, <3>3 DEF CallsOK, Turned
    <3>6. CallsOK'
      BY <2>3, <3>4, <3>5, CallPut
    <3> QED
      BY <2>1, <3>1, <3>6
  <2> QED
    BY <1>3, <2>2, <2>4, <2>5 DEF FlushReply
<1>4. CASE FlushNoAnswer
  <2>1. PICK k : k = flush.at
    OBVIOUS
  <2>2. k \in Posts /\ Unheard(k)
    BY <1>4, <2>1 DEF FlushNoAnswer, QueueOK
  <2>3. CallsOK' /\ faults' \in 0..MaxFaults
    BY <2>2, UnheardFacts
  <2>4. QueueOK'
    BY <1>4 DEF FlushNoAnswer, QueueOK
  <2>5. runs' = runs /\ JournalOK' /\ LoopsOK' /\ SalesOK' /\ SwitchesOK'
    BY <1>4 DEF FlushNoAnswer, server, JournalOK, LoopsOK, SalesOK, SwitchesOK
  <2> QED
    BY <2>3, <2>4, <2>5 DEF RestOK
<1> QED
  BY <1>1, <1>2, <1>3, <1>4 DEF Flush

\* The server.
Serves(k) == Server(k) \/ Refuse(k) \/ SaleFails(k) \/ ReleaseFails(k)

LEMMA ServesTypes ==
  ASSUME TypeInv, NEW k \in Posts, Serves(k)
  PROVE  TypeInv'
<1> USE DEF TypeInv
<1>0. JournalOK /\ LoopsOK /\ QueueOK /\ CallsOK /\ SalesOK /\ SwitchesOK /\ RestOK
  OBVIOUS
<1>1. CallsOK'
  <2>1. CASE Arrive(k)
    <3>1. call[k] \in Calls
      BY DEF CallsOK
    <3>2. CASE call[k].stored # "none" /\ Answered(k, call[k].stored)
      <4>1. call[k].stored \in Answers
        BY <3>1, <3>2, CallFields DEF Good, Answers
      <4> QED
        BY <3>2, <4>1, AnsweredFacts
    <3>3. CASE Turn(k, "releasing", "duplicate")
      BY <3>3, TurnFacts DEF Done
    <3>4. CASE Turn(k, "selling", "none")
      BY <3>4, TurnFacts
    <3> QED
      BY <2>1, <3>2, <3>3, <3>4 DEF Arrive
  <2>2. CASE Sell(k)
    <3>1. Turn(k, "releasing", "synced") \/ Turn(k, "releasing", "duplicate")
      BY <2>2 DEF Sell
    <3> QED
      BY <3>1, TurnFacts DEF Done
  <2>3. CASE Release(k)
    <3>1. call[k].answer \in Answers /\ Answered(k, call[k].answer)
      BY <2>3 DEF Release, CallsOK, CallOK, Done, Answers
    <3> QED
      BY <3>1, AnsweredFacts
  <2>4. CASE Refuse(k)
    BY <2>4, AnsweredFacts DEF Refuse, Answers
  <2>5. CASE SaleFails(k)
    BY <2>5, AnsweredFacts DEF SaleFails, Answers
  <2>6. CASE ReleaseFails(k)
    BY <2>6, AnsweredFacts DEF ReleaseFails, Answers
  <2> QED
    BY <2>1, <2>2, <2>3, <2>4, <2>5, <2>6 DEF Serves, Server
<1>2. UNCHANGED <<tab, online, worker, mail, runs>>
  BY DEF Serves, Server, Arrive, Sell, Release, Refuse, SaleFails, ReleaseFails
<1>3. JournalOK' /\ LoopsOK' /\ QueueOK' /\ SwitchesOK'
  BY <1>2 DEF tab, JournalOK, LoopsOK, QueueOK, SwitchesOK
<1>4. RestOK'
  BY <1>2, BoundsAssumption
  DEF Serves, Server, Arrive, Sell, Release, Refuse, SaleFails, ReleaseFails, Fault, RestOK
<1>5. SalesOK'
  <2>1. CASE Sell(k)
    BY <2>1 DEF Sell, SalesOK
  <2>2. CASE Release(k)
    BY <2>2 DEF Release, SalesOK
  <2>3. CASE Arrive(k) \/ Refuse(k) \/ SaleFails(k) \/ ReleaseFails(k)
    BY <2>3 DEF Arrive, Refuse, SaleFails, ReleaseFails, server, SalesOK
  <2> QED
    BY <2>1, <2>2, <2>3 DEF Serves, Server
<1> QED
  BY <1>1, <1>3, <1>4, <1>5

LEMMA CrashTypes ==
  ASSUME TypeInv, Crash
  PROVE  TypeInv'
<1> USE DEF TypeInv
<1>1. CallsOK'
  BY CrashFacts
<1>2. RestOK'
  BY BoundsAssumption DEF Crash, Fault, RestOK
<1>3. JournalOK' /\ LoopsOK' /\ QueueOK' /\ SalesOK' /\ SwitchesOK'
  BY DEF Crash, tab, server, JournalOK, LoopsOK, QueueOK, SalesOK, SwitchesOK
<1> QED
  BY <1>1, <1>2, <1>3

LEMMA StutterTypes ==
  ASSUME TypeInv, UNCHANGED vars
  PROVE  TypeInv'
  BY DEF TypeInv, vars, tab, server, JournalOK, LoopsOK, QueueOK, CallsOK, SalesOK, SwitchesOK,
         RestOK

\* The steps, by who takes them.
LEMMA Steps ==
  Next => \/ Till \/ Engine \/ Worker \/ (\E msg \in mail : Deliver(msg))
          \/ Flush \/ (\E k \in Posts : Serves(k)) \/ Crash
  BY Zenon DEF Next, Till, Engine, Worker, Flush, Serves

LEMMA NextTypes ==
  ASSUME TypeInv, [Next]_vars, worker.at # NoPost => call[worker.at].event \in Sales
  PROVE  TypeInv'
  BY Zenon, Steps, TillTypes, EngineTypes, WorkerTypes, DeliverTypes, FlushTypes, ServesTypes,
     CrashTypes, StutterTypes

-----------------------------------------------------------------------------
(* A post has one owner *)

AtInv == /\ flush.at # NoPost => flush.at = Head(queue)
         /\ engine.at # NoPost => engine.at # worker.at
         /\ ~Queued(engine.at) /\ ~Queued(worker.at)
         /\ \A i, j \in 1..Len(queue) : queue[i] = queue[j] => i = j

LEMMA InitAt == Init => AtInv
  BY DEF Init, AtInv, Queued, NoLoop, Asleep

\* Owners only let go of their posts, or the queue takes up its first.
LEMMA AtKept ==
  ASSUME QueueOK, AtInv, queue' = queue,
         engine'.at \in {engine.at, NoPost},
         worker'.at \in {worker.at, NoPost},
         flush'.at \in {flush.at, Head(queue), NoPost}
  PROVE  AtInv'
<1>1. ~Queued(NoPost)
  BY PostsAssumption DEF QueueOK, Queued
<1>2. ~Queued(engine.at)' /\ ~Queued(worker.at)'
  BY <1>1 DEF AtInv, Queued
<1>3. engine'.at # NoPost => engine'.at # worker'.at
  BY DEF AtInv
<1>4. flush'.at # NoPost => flush'.at = Head(queue')
  BY DEF AtInv
<1>5. \A i, j \in 1..Len(queue') : queue'[i] = queue'[j] => i = j
  BY DEF AtInv
<1> QED
  BY <1>2, <1>3, <1>4, <1>5 DEF AtInv

\* A loop takes a post nobody owns.
LEMMA AtSend ==
  ASSUME QueueOK, AtInv, NEW k \in Posts, Unused(k), queue' = queue, flush' = flush,
         \/ engine'.at = k /\ worker'.at = worker.at
         \/ worker'.at = k /\ engine'.at = engine.at
  PROVE  AtInv'
<1>1. k \notin {engine.at, worker.at} /\ ~Queued(k)
  BY DEF Unused
<1>2. ~Queued(engine.at)' /\ ~Queued(worker.at)'
  BY <1>1 DEF AtInv, Queued
<1>3. engine'.at # NoPost => engine'.at # worker'.at
  BY <1>1 DEF AtInv
<1>4. /\ flush'.at # NoPost => flush'.at = Head(queue')
      /\ \A i, j \in 1..Len(queue') : queue'[i] = queue'[j] => i = j
  BY DEF AtInv
<1> QED
  BY <1>2, <1>3, <1>4 DEF AtInv

\* The engine leaves its post to the queue.
LEMMA AtAppend ==
  ASSUME QueueOK, AtInv, NEW k \in Posts, k = engine.at, queue' = Append(queue, k),
         engine'.at = NoPost, worker' = worker, flush' = flush
  PROVE  AtInv'
<1>1. /\ Len(queue') = Len(queue) + 1 /\ Len(queue) \in Nat
      /\ \A i \in 1..Len(queue) : queue'[i] = queue[i] /\ queue'[i] # k
      /\ queue'[Len(queue) + 1] = k
  BY DEF QueueOK, AtInv, Queued
<1>2. \A i \in 1..Len(queue') : queue'[i] = k => i = Len(queue) + 1
  BY <1>1
<1>3. \A i, j \in 1..Len(queue') : queue'[i] = queue'[j] => i = j
  BY <1>1, <1>2 DEF AtInv
<1>4. k # NoPost
  BY PostsAssumption
<1>5. ~Queued(engine.at)' /\ ~Queued(worker.at)'
  <2>1. \A i \in 1..Len(queue') : queue'[i] \in Posts
    BY <1>1 DEF QueueOK
  <2>2. ~Queued(engine.at)'
    BY <2>1, PostsAssumption DEF Queued
  <2>3. worker.at # k
    BY <1>4 DEF AtInv
  <2>4. ~Queued(worker.at)'
    BY <1>1, <1>2, <2>3 DEF AtInv, Queued
  <2> QED
    BY <2>2, <2>4
<1>6. flush'.at # NoPost => flush'.at = Head(queue')
  <2>1. ASSUME flush.at # NoPost PROVE flush.at = queue[1] /\ Len(queue) > 0
    BY <2>1, QueueHead DEF AtInv, QueueOK
  <2>2. Head(queue') = queue'[1]
    BY DEF QueueOK
  <2> QED
    BY <1>1, <2>1, <2>2
<1> QED
  BY <1>3, <1>5, <1>6 DEF AtInv

\* The first post leaves the queue.
LEMMA AtTail ==
  ASSUME QueueOK, AtInv, flush.left > 0, queue' = Tail(queue), flush'.at = NoPost,
         engine' = engine, worker' = worker
  PROVE  /\ AtInv'
         /\ \A k : Queued(k)' => Queued(k) /\ k # Head(queue)
<1>1. /\ Head(queue) = queue[1]
      /\ Len(queue') = Len(queue) - 1 /\ Len(queue) \in Nat /\ Len(queue) > 0
      /\ \A i \in 1..Len(queue') : queue'[i] = queue[i + 1]
  BY QueueHead DEF QueueOK
<1>2. \A i \in 1..Len(queue') : i + 1 \in 1..Len(queue)
  BY <1>1
<1>3. \A k : Queued(k)' => Queued(k)
  BY <1>1, <1>2 DEF Queued
<1>4. \A k : Queued(k)' => k # Head(queue)
  BY <1>1, <1>2 DEF Queued, AtInv
<1>5. \A i, j \in 1..Len(queue') : queue'[i] = queue'[j] => i = j
  BY <1>1, <1>2 DEF AtInv
<1>6. ~Queued(engine.at)' /\ ~Queued(worker.at)'
  BY <1>1, <1>2 DEF Queued, AtInv
<1> QED
  BY <1>3, <1>4, <1>5, <1>6 DEF AtInv

LEMMA NextAt ==
  ASSUME TypeInv, AtInv, [Next]_vars
  PROVE  AtInv'
<1>0. QueueOK /\ LoopsOK /\ CallsOK
  BY DEF TypeInv
<1>1. CASE \/ Till \/ (\E msg \in mail : Deliver(msg)) \/ (\E k \in Posts : Serves(k)) \/ Crash
           \/ UNCHANGED vars
  <2>1. /\ queue' = queue /\ engine' \in {engine, NoLoop}
        /\ worker' \in {worker, [worker EXCEPT !.attached = FALSE]}
        /\ flush' \in {flush, [left |-> 0, at |-> NoPost]}
    <3>1. CASE Till
      BY <3>1 DEF Till, Save, Cancel, Retry, GoOffline, GoOnline, Login, Reload, tab
    <3>2. CASE \E msg \in mail : Deliver(msg)
      BY <3>2 DEF Deliver
    <3>3. CASE \E k \in Posts : Serves(k)
      BY <3>3 DEF Serves, Server, Arrive, Sell, Release, Refuse, SaleFails, ReleaseFails, tab
    <3>4. CASE Crash \/ UNCHANGED vars
      BY <3>4 DEF Crash, vars, tab
    <3> QED
      BY <1>1, <3>1, <3>2, <3>3, <3>4
  <2>2. /\ engine'.at \in {engine.at, NoPost}
        /\ worker'.at \in {worker.at, NoPost}
        /\ flush'.at \in {flush.at, Head(queue), NoPost}
    BY <1>0, <2>1 DEF NoLoop, LoopsOK, Workers
  <2> QED
    BY <1>0, <2>1, <2>2, AtKept
<1>2. CASE EngineStart
  BY <1>0, <1>2, AtKept DEF EngineStart, LoopsOK, Loops
<1>3. CASE EnginePost
  <2>1. PICK k \in Posts, n \in engine.todo :
           Send(k, n) /\ engine' = [todo |-> engine.todo \ {n}, at |-> k]
    BY <1>3 DEF EnginePost
  <2>2. Unused(k)
    BY <2>1 DEF Send, IsFirst
  <2>3. queue' = queue /\ flush' = flush /\ worker' = worker /\ engine'.at = k
    BY <1>3, <2>1 DEF EnginePost
  <2> QED
    BY <1>0, <2>2, <2>3, AtSend
<1>4. CASE EngineReply
  <2>1. queue' = queue /\ flush' = flush /\ worker' = worker
    BY <1>4 DEF EngineReply
  <2>2. engine'.at = NoPost
    <3>1. Break \/ Continue
      BY <1>4 DEF EngineReply
    <3> QED
      BY <1>0, <3>1, LoopMoves
  <2> QED
    BY <1>0, <2>1, <2>2, AtKept
<1>5. CASE EngineNoAnswer
  <2>1. PICK k : k = engine.at
    OBVIOUS
  <2>2. k \in Posts
    BY <1>0, <1>5, <2>1 DEF EngineNoAnswer, LoopsOK, Loops
  <2>3. /\ queue' = queue \/ queue' = Append(queue, k)
        /\ flush' = flush /\ worker' = worker /\ engine'.at = NoPost
    <3>1. queue' = queue \/ queue' = Append(queue, k)
      BY <1>5, <2>1 DEF EngineNoAnswer
    <3>2. flush' = flush /\ worker' = worker
      BY <1>5 DEF EngineNoAnswer
    <3>3. Break \/ Continue
      BY <1>5 DEF EngineNoAnswer
    <3>4. engine'.at = NoPost
      BY <1>0, <3>3, LoopMoves
    <3> QED
      BY <3>1, <3>2, <3>4
  <2>4. CASE queue' = queue
    BY <1>0, <2>3, <2>4, AtKept
  <2>5. CASE queue' = Append(queue, k)
    BY <1>0, <2>1, <2>2, <2>3, <2>5, AtAppend
  <2> QED
    BY <2>3, <2>4, <2>5
<1>6. CASE WorkerStart \/ WorkerReply \/ WorkerNoAnswer \/ WorkerDone
  <2>1. queue' = queue /\ flush' = flush /\ engine' = engine
    BY <1>6 DEF WorkerStart, WorkerReply, WorkerNoAnswer, WorkerDone, tab
  <2>2. worker'.at = NoPost
    <3>1. CASE WorkerReply
      BY <1>0, <3>1, WorkerReplyFacts
    <3>2. CASE WorkerStart \/ WorkerNoAnswer \/ WorkerDone
      BY <1>0, <3>2, WorkerStartFacts DEF WorkerNoAnswer, WorkerDone, Asleep, LoopsOK, Workers
    <3> QED
      BY <1>6, <3>1, <3>2
  <2> QED
    BY <1>0, <2>1, <2>2, AtKept
<1>7. CASE WorkerPost
  <2>1. PICK k \in Posts, n \in worker.todo :
           Send(k, n) /\ worker' = [worker EXCEPT !.todo = @ \ {n}, !.at = k]
    BY <1>7 DEF WorkerPost
  <2>2. Unused(k)
    BY <2>1 DEF Send, IsFirst
  <2>3. queue' = queue /\ flush' = flush /\ engine' = engine /\ worker'.at = k
    BY <1>0, <1>7, <2>1 DEF WorkerPost, tab, LoopsOK, Workers
  <2> QED
    BY <1>0, <2>2, <2>3, AtSend
<1>8. CASE FlushStart \/ FlushPost \/ FlushNoAnswer
  <2>1. queue' = queue /\ engine' = engine /\ worker' = worker
    BY <1>8 DEF FlushStart, FlushPost, FlushNoAnswer
  <2>2. flush'.at \in {flush.at, Head(queue), NoPost}
    BY <1>0, <1>8 DEF FlushStart, FlushPost, FlushNoAnswer, QueueOK
  <2> QED
    BY <1>0, <2>1, <2>2, AtKept
<1>9. CASE FlushReply
  <2>1. engine' = engine /\ worker' = worker /\ flush'.at = NoPost
    BY <1>9 DEF FlushReply
  <2>2. flush.left > 0
    BY <1>0, <1>9 DEF FlushReply, QueueOK
  <2>3. queue' = queue \/ queue' = Tail(queue)
    BY <1>9 DEF FlushReply
  <2> QED
    BY <1>0, <2>1, <2>2, <2>3, AtKept, AtTail
<1> QED
  BY Zenon, Steps, <1>1, <1>2, <1>3, <1>4, <1>5, <1>6, <1>7, <1>8, <1>9 DEF Engine, Worker, Flush

-----------------------------------------------------------------------------
(* Only saved sales travel *)

Saved == {n \in Sales : status[n] # "none"}

InUse(k) == call[k].stage # "idle" \/ k \in {engine.at, worker.at} \/ Queued(k)

SavedInv == /\ engine.todo \subseteq Saved /\ worker.todo \subseteq Saved
            /\ \A k \in Posts : InUse(k) => call[k].event \in Saved
            /\ \A n \in Sales : sold[n] > 0 => n \in Saved

LEMMA InitSaved == Init => SavedInv
<1> SUFFICES ASSUME Init PROVE SavedInv
  OBVIOUS
<1>1. engine.todo = {} /\ worker.todo = {} /\ engine.at = NoPost /\ worker.at = NoPost
  BY DEF Init, NoLoop, Asleep
<1>2. \A k \in Posts : ~InUse(k)
  BY <1>1, PostsAssumption DEF Init, InUse, Queued, NoCall
<1>3. sold = [n \in Sales |-> 0]
  BY DEF Init
<1> QED
  BY <1>1, <1>2, <1>3 DEF SavedInv

\* No step forgets a sale.
LEMMA SavedGrows ==
  ASSUME TypeInv, [Next]_vars
  PROVE  Saved \subseteq Saved'
<1>0. status \in [Sales -> Statuses]
  BY DEF TypeInv, JournalOK
<1>1. CASE Till
  <2>1. CASE Save
    BY <1>0, <2>1 DEF Save, Saved
  <2>2. CASE \E n \in Sales : Cancel(n)
    BY <1>0, <2>2 DEF Cancel, Saved
  <2>3. CASE \E S \in {Sales} \cup {{n} : n \in shown} : Retry(S)
    BY <1>0, <2>3 DEF Retry, Saved
  <2>4. CASE GoOffline \/ GoOnline \/ Login \/ Reload
    BY <2>4 DEF GoOffline, GoOnline, Login, Reload, tab, Saved
  <2> QED
    BY <1>1, <2>1, <2>2, <2>3, <2>4 DEF Till
<1>2. CASE EngineReply
  <2>1. PICK k : k = engine.at
    OBVIOUS
  <2>2. k \in Posts /\ call[k].stage = "answered"
    BY <1>2, <2>1 DEF EngineReply, TypeInv, LoopsOK, Loops
  <2>3. PICK a : a = call[k].answer
    OBVIOUS
  <2>4. a \in Answers
    BY <2>2, <2>3 DEF TypeInv, CallsOK, CallOK
  <2>5. \/ UNCHANGED status
        \/ a # "auth" /\ status' = [status EXCEPT ![call[k].event] = Mark(a)]
    BY <1>2, <2>1, <2>3 DEF EngineReply
  <2>6. a # "auth" => Mark(a) # "none"
    BY <2>4, MarkType
  <2> QED
    BY <1>0, <2>5, <2>6 DEF Saved
<1>3. CASE \E msg \in mail : Deliver(msg)
  BY <1>0, <1>3 DEF Deliver, Saved
<1>6. CASE EngineNoAnswer
  BY <1>0, <1>6, NoAnswerFacts DEF TypeInv, Unanswered, Saved
<1>4. CASE EngineStart \/ EnginePost \/ Worker \/ Flush
  BY <1>4 DEF EngineStart, EnginePost, Worker, WorkerStart, WorkerPost,
              WorkerReply, WorkerNoAnswer, WorkerDone, Flush, FlushStart, FlushPost, FlushReply,
              FlushNoAnswer, tab, Saved
<1>5. CASE (\E k \in Posts : Serves(k)) \/ Crash \/ UNCHANGED vars
  BY <1>5 DEF Serves, Server, Arrive, Sell, Release, Refuse, SaleFails, ReleaseFails, Crash,
              vars, tab, Saved
<1> QED
  BY Zenon, Steps, <1>1, <1>2, <1>3, <1>4, <1>5, <1>6 DEF Engine

LEMMA SavedFrame ==
  ASSUME SavedInv, Saved \subseteq Saved',
         \A n \in Sales : sold'[n] > 0 => n \in Saved,
         engine'.todo \subseteq Saved, worker'.todo \subseteq Saved,
         \A k \in Posts : InUse(k)' => call'[k].event \in Saved
  PROVE  SavedInv'
<1>1. engine'.todo \subseteq Saved' /\ worker'.todo \subseteq Saved'
  OBVIOUS
<1>2. \A k \in Posts : InUse(k)' => call'[k].event \in Saved'
  OBVIOUS
<1>3. \A n \in Sales : sold'[n] > 0 => n \in Saved'
  BY DEF SavedInv
<1> QED
  BY <1>1, <1>2, <1>3 DEF SavedInv

\* Steps that leave the calls alone or change one call that is not new.
LEMMA SavedKept ==
  ASSUME TypeInv, SavedInv, Saved \subseteq Saved',
         \A n \in Sales : sold'[n] > 0 => n \in Saved,
         engine'.todo \subseteq Saved, worker'.todo \subseteq Saved,
         engine'.at \in {engine.at, NoPost}, worker'.at \in {worker.at, NoPost},
         \A k : Queued(k)' => Queued(k) \/ k = engine.at,
         \A k \in Posts : \/ call'[k].event = call[k].event
                          \/ call'[k].stage = "idle" /\ ~Queued(k)' /\ k # engine'.at
                             /\ k # worker'.at,
         \A k \in Posts : InUse(k) \/ call'[k].stage = "idle"
  PROVE  SavedInv'
<1>1. ASSUME NEW k \in Posts, InUse(k)'
      PROVE  call'[k].event \in Saved
  <2>1. k # NoPost
    BY PostsAssumption
  <2>2. call'[k].stage # "idle" \/ k = engine'.at \/ k = worker'.at \/ Queued(k)'
    BY <1>1 DEF InUse
  <2>3. InUse(k)
    BY <2>1, <2>2 DEF InUse
  <2>4. call'[k].event = call[k].event
    BY <2>2
  <2> QED
    BY <2>3, <2>4 DEF SavedInv
<1> QED
  BY <1>1, SavedFrame

\* A loop takes the next event.
LEMMA SavedSend ==
  ASSUME TypeInv, SavedInv, Saved \subseteq Saved',
         \A n \in Sales : sold'[n] > 0 => n \in Saved,
         NEW k \in Posts, NEW n \in Saved, Send(k, n),
         engine'.todo \subseteq Saved, worker'.todo \subseteq Saved,
         engine'.at \in {engine.at, k}, worker'.at \in {worker.at, k}, queue' = queue
  PROVE  SavedInv'
<1>1. n \in Sales
  BY DEF Saved
<1>2. call'[k].event = n /\ \A j \in Posts \ {k} : call'[j] = call[j]
  BY <1>1, SendFacts DEF TypeInv
<1>3. ASSUME NEW j \in Posts, InUse(j)'
      PROVE  call'[j].event \in Saved
  <2>1. CASE j = k
    BY <1>2, <2>1
  <2>2. CASE j # k
    BY <1>2, <1>3, <2>2 DEF InUse, Queued, SavedInv
  <2> QED
    BY <2>1, <2>2
<1> QED
  BY <1>3, SavedFrame

\* What the server does to a call.
LEMMA ServesShape ==
  ASSUME CallsOK, NEW k \in Posts, Serves(k)
  PROVE  \/ \E a \in Answers : Answered(k, a)
         \/ \E a \in Done : Turn(k, "releasing", a)
         \/ Turn(k, "selling", "none")
<1>1. CASE Arrive(k)
  <2>1. call[k].stored # "none" => call[k].stored \in Answers
    BY CallFields DEF CallsOK, Good, Answers
  <2> QED
    BY <1>1, <2>1 DEF Arrive, Done
<1>2. CASE Sell(k)
  BY <1>2 DEF Sell, Done
<1>3. CASE Release(k)
  BY <1>3 DEF Release, CallsOK, CallOK, Done, Answers
<1>4. CASE Refuse(k) \/ SaleFails(k) \/ ReleaseFails(k)
  BY <1>4 DEF Refuse, SaleFails, ReleaseFails, Answers
<1> QED
  BY <1>1, <1>2, <1>3, <1>4 DEF Serves, Server

LEMMA NextSaved ==
  ASSUME TypeInv, AtInv, SavedInv, [Next]_vars
  PROVE  SavedInv'
<1>0. /\ QueueOK /\ LoopsOK /\ CallsOK
      /\ Saved \subseteq Saved'
      /\ engine.todo \subseteq Saved /\ worker.todo \subseteq Saved /\ Unsynced \subseteq Saved
      /\ \A n \in Sales : sold[n] > 0 => n \in Saved
      /\ \A k \in Posts : InUse(k) \/ call[k].stage = "idle"
      /\ worker \in Workers
  BY SavedGrows DEF TypeInv, SavedInv, Unsynced, Saved, InUse, LoopsOK
<1>1. CASE \/ Till \/ (\E msg \in mail : Deliver(msg)) \/ EngineStart \/ WorkerStart \/ WorkerDone
           \/ FlushStart \/ UNCHANGED vars
  <2>1. call' = call /\ queue' = queue /\ sold' = sold
    <3>1. CASE Till
      BY <3>1 DEF Till, Save, Cancel, Retry, GoOffline, GoOnline, Login, Reload, tab, server
    <3>2. CASE \/ (\E msg \in mail : Deliver(msg)) \/ EngineStart \/ WorkerStart \/ WorkerDone
               \/ FlushStart \/ UNCHANGED vars
      BY <3>2 DEF Deliver, EngineStart, WorkerStart, WorkerDone, FlushStart, vars, tab, server
    <3> QED
      BY <1>1, <3>1, <3>2
  <2>2. engine'.todo \subseteq Saved /\ engine'.at \in {engine.at, NoPost}
    <3>1. engine' \in {engine, NoLoop, [engine EXCEPT !.todo = Unsynced]}
      BY <1>1 DEF Till, Save, Cancel, Retry, GoOffline, GoOnline, Login, Reload, Deliver,
                  EngineStart, WorkerStart, WorkerDone, FlushStart, vars, tab
    <3> QED
      BY <1>0, <3>1 DEF NoLoop, LoopsOK, Loops
  <2>3. worker'.todo \subseteq Saved /\ worker'.at \in {worker.at, NoPost}
    <3>1. CASE WorkerStart
      BY <1>0, <3>1, WorkerStartFacts
    <3>2. CASE ~WorkerStart
      <4>1. worker' \in {worker, Asleep, [worker EXCEPT !.attached = FALSE]}
        BY <1>1, <3>2 DEF Till, Save, Cancel, Retry, GoOffline, GoOnline, Login, Reload, Deliver,
                    EngineStart, WorkerDone, FlushStart, vars, tab
      <4> QED
        BY <1>0, <4>1 DEF Asleep, Workers
    <3> QED
      BY <3>1, <3>2
  <2>4. \A k : Queued(k)' => Queued(k)
    BY <2>1 DEF Queued
  <2> QED
    BY <1>0, <2>1, <2>2, <2>3, <2>4, SavedKept
<1>2. CASE EnginePost
  <2>1. PICK k \in Posts, n \in engine.todo :
           Send(k, n) /\ engine' = [todo |-> engine.todo \ {n}, at |-> k]
    BY <1>2 DEF EnginePost
  <2>2. queue' = queue /\ worker' = worker /\ sold' = sold
    BY <1>2 DEF EnginePost, server
  <2>3. n \in Saved /\ engine'.todo \subseteq Saved /\ engine'.at = k
    BY <1>0, <2>1
  <2> QED
    BY <1>0, <2>1, <2>2, <2>3, SavedSend
<1>3. CASE WorkerPost
  <2>1. PICK k \in Posts, n \in worker.todo :
           Send(k, n) /\ worker' = [worker EXCEPT !.todo = @ \ {n}, !.at = k]
    BY <1>3 DEF WorkerPost
  <2>2. queue' = queue /\ engine' = engine /\ sold' = sold
    BY <1>3 DEF WorkerPost, tab, server
  <2>3. n \in Saved /\ worker'.todo \subseteq Saved /\ worker'.at = k
    BY <1>0, <2>1 DEF Workers
  <2> QED
    BY <1>0, <2>1, <2>2, <2>3, SavedSend
<1>4. CASE EngineReply
  <2>1. PICK k : k = engine.at
    OBVIOUS
  <2>2. k \in Posts /\ k # NoPost /\ call' = [call EXCEPT ![k] = NoCall]
    BY <1>0, <1>4, <2>1 DEF EngineReply, LoopsOK, Loops
  <2>3. queue' = queue /\ worker' = worker /\ sold' = sold
    BY <1>4 DEF EngineReply, server
  <2>4. engine'.at = NoPost /\ engine'.todo \subseteq engine.todo
    <3>1. Break \/ Continue
      BY <1>4 DEF EngineReply
    <3> QED
      BY <1>0, <3>1, LoopMoves
  <2>5. call'[k].stage = "idle" /\ \A j \in Posts \ {k} : call'[j] = call[j]
    BY <1>0, <2>2, CallForgotten
  <2>6. ~Queued(k)' /\ k # worker'.at
    BY <2>1, <2>2, <2>3 DEF AtInv, Queued
  <2>7. \A j : Queued(j)' => Queued(j)
    BY <2>3 DEF Queued
  <2> QED
    BY <1>0, <2>2, <2>3, <2>4, <2>5, <2>6, <2>7, SavedKept
<1>5. CASE EngineNoAnswer
  <2>1. PICK k : k = engine.at
    OBVIOUS
  <2>2. k \in Posts /\ Unheard(k)
    BY <1>0, <1>5, <2>1 DEF EngineNoAnswer, LoopsOK, Loops
  <2>3. /\ queue' = queue \/ queue' = Append(queue, k)
        /\ worker' = worker /\ sold' = sold
        /\ engine'.at = NoPost /\ engine'.todo \subseteq engine.todo
    BY <1>0, <1>5, <2>1, NoAnswerFacts DEF EngineNoAnswer, server, TypeInv
  <2>4. /\ call'[k].event = call[k].event
        /\ \A j \in Posts \ {k} : call'[j] = call[j]
    BY <1>0, <2>2, UnheardFacts DEF TypeInv
  <2>5. InUse(k)
    BY <2>1 DEF InUse
  <2>6. \A j : Queued(j)' => Queued(j) \/ j = k
    BY <1>0, <2>2, <2>3 DEF Queued, QueueOK
  <2> QED
    BY <1>0, <2>1, <2>3, <2>4, <2>5, <2>6, SavedKept
<1>6. CASE WorkerReply
  <2>1. PICK k : k = worker.at
    OBVIOUS
  <2>2. /\ k \in Posts /\ k # NoPost /\ call' = [call EXCEPT ![k] = NoCall]
        /\ worker'.at = NoPost /\ worker'.todo = worker.todo
    BY <1>0, <1>6, <2>1, WorkerReplyFacts DEF WorkerReply
  <2>3. queue' = queue /\ engine' = engine /\ sold' = sold
    BY <1>6 DEF WorkerReply, tab, server
  <2>4. call'[k].stage = "idle" /\ \A j \in Posts \ {k} : call'[j] = call[j]
    BY <1>0, <2>2, CallForgotten
  <2>5. ~Queued(k)' /\ k # engine'.at
    BY <2>1, <2>2, <2>3 DEF AtInv, Queued
  <2>6. \A j : Queued(j)' => Queued(j)
    BY <2>3 DEF Queued
  <2> QED
    BY <1>0, <2>2, <2>3, <2>4, <2>5, <2>6, SavedKept
<1>7. CASE WorkerNoAnswer
  <2>1. PICK k : k = worker.at
    OBVIOUS
  <2>2. k \in Posts /\ Unheard(k)
    BY <1>0, <1>7, <2>1 DEF WorkerNoAnswer, Workers
  <2>3. /\ queue' = queue /\ engine' = engine /\ sold' = sold
        /\ worker'.at = NoPost /\ worker'.todo \subseteq worker.todo
    BY <1>0, <1>7 DEF WorkerNoAnswer, Asleep, Workers, tab, server
  <2>4. /\ call'[k].event = call[k].event
        /\ \A j \in Posts \ {k} : call'[j] = call[j]
    BY <1>0, <2>2, UnheardFacts DEF TypeInv
  <2>5. InUse(k)
    BY <2>1 DEF InUse
  <2>6. \A j : Queued(j)' => Queued(j)
    BY <2>3 DEF Queued
  <2> QED
    BY <1>0, <2>3, <2>4, <2>5, <2>6, SavedKept
<1>8. CASE FlushPost
  <2>1. PICK k : k = Head(queue)
    OBVIOUS
  <2>2. k \in Posts /\ Queued(k)
    <3>1. flush.left > 0
      BY <1>8 DEF FlushPost
    <3>2. 1 \in 1..Len(queue)
      BY <1>0, <3>1 DEF QueueOK
    <3> QED
      BY <1>0, <2>1, <3>1, <3>2, QueueHead DEF Queued
  <2>3. /\ queue' = queue /\ engine' = engine /\ worker' = worker /\ sold' = sold
        /\ call' = [call EXCEPT ![k].stage = IF @ \in {"idle", "answered"} THEN Departs ELSE @]
    BY <1>8, <2>1 DEF FlushPost, server
  <2>4. /\ call'[k].event = call[k].event
        /\ \A j \in Posts \ {k} : call'[j] = call[j]
    BY <1>0, <2>2, <2>3, AgainFacts
  <2>5. InUse(k)
    BY <2>2 DEF InUse
  <2>6. \A j : Queued(j)' => Queued(j)
    BY <2>3 DEF Queued
  <2> QED
    BY <1>0, <2>3, <2>4, <2>5, <2>6, SavedKept
<1>9. CASE FlushReply
  <2>1. PICK k : k = flush.at
    OBVIOUS
  <2>2. /\ k \in Posts /\ k # NoPost /\ flush.left > 0 /\ k = Head(queue)
        /\ call[k].stage = "answered"
    BY <1>0, <1>9, <2>1 DEF FlushReply, QueueOK, AtInv
  <2>3. engine' = engine /\ worker' = worker /\ sold' = sold
    BY <1>9 DEF FlushReply, server
  <2>4. CASE /\ queue' = Tail(queue) /\ flush'.at = NoPost
             /\ call' = [call EXCEPT ![k] = NoCall]
    <3>1. \A j : Queued(j)' => Queued(j) /\ j # k
      BY <1>0, <2>2, <2>3, <2>4, AtTail
    <3>2. k # engine.at /\ k # worker.at
      <4>1. Queued(k)
        BY <1>0, <2>2, QueueHead DEF Queued, QueueOK
      <4> QED
        BY <4>1 DEF AtInv
    <3>3. call'[k].stage = "idle" /\ \A j \in Posts \ {k} : call'[j] = call[j]
      BY <1>0, <2>2, <2>4, CallForgotten
    <3> QED
      BY <1>0, <2>2, <2>3, <3>1, <3>2, <3>3, SavedKept
  <2>5. CASE /\ queue' = queue
             /\ call' = [call EXCEPT ![k].stage = "idle", ![k].answer = "none"]
    <3>1. \A j : Queued(j)' => Queued(j)
      BY <2>5 DEF Queued
    <3>2. /\ call'[k].event = call[k].event
          /\ \A j \in Posts \ {k} : call'[j] = call[j]
      BY <1>0, <2>2, <2>5 DEF CallsOK, Calls
    <3>3. InUse(k)
      BY <2>2 DEF InUse
    <3> QED
      BY <1>0, <2>3, <3>1, <3>2, <3>3, SavedKept
  <2> QED
    BY <1>9, <2>1, <2>4, <2>5 DEF FlushReply
<1>10. CASE FlushNoAnswer
  <2>1. PICK k : k = flush.at
    OBVIOUS
  <2>2. k \in Posts /\ k # NoPost /\ Unheard(k) /\ k = Head(queue) /\ flush.left > 0
    BY <1>0, <1>10, <2>1 DEF FlushNoAnswer, QueueOK, AtInv
  <2>3. queue' = queue /\ engine' = engine /\ worker' = worker /\ sold' = sold
    BY <1>10 DEF FlushNoAnswer, server
  <2>4. /\ call'[k].event = call[k].event
        /\ \A j \in Posts \ {k} : call'[j] = call[j]
    BY <1>0, <2>2, UnheardFacts DEF TypeInv
  <2>5. InUse(k)
    BY <1>0, <2>2, QueueHead DEF InUse, Queued, QueueOK
  <2>6. \A j : Queued(j)' => Queued(j)
    BY <2>3 DEF Queued
  <2> QED
    BY <1>0, <2>3, <2>4, <2>5, <2>6, SavedKept
<1>11. CASE \E k \in Posts : Serves(k)
  <2>1. PICK k \in Posts : Serves(k)
    BY <1>11
  <2>2. UNCHANGED tab /\ UNCHANGED worker
    BY <2>1 DEF Serves, Server, Arrive, Sell, Release, Refuse, SaleFails, ReleaseFails
  <2>3. queue' = queue /\ engine' = engine /\ worker' = worker /\ flush' = flush
    BY <2>2 DEF tab
  <2>4. call[k].stage # "idle"
    BY <2>1 DEF Serves, Server, Arrive, Sell, Release, Refuse, SaleFails, ReleaseFails
  <2>5. InUse(k) /\ call[k].event \in Saved
    BY <2>4 DEF InUse, SavedInv
  <2>6. \A j : Queued(j)' => Queued(j)
    BY <2>3 DEF Queued
  <2>7. \A n \in Sales : sold'[n] > 0 => n \in Saved
    <3>1. \/ sold' = sold
          \/ sold' = [sold EXCEPT ![call[k].event] = @ + 1]
      BY <2>1 DEF Serves, Server, Arrive, Sell, Release, Refuse, SaleFails, ReleaseFails, server
    <3> QED
      BY <1>0, <2>5, <3>1 DEF TypeInv, SalesOK
  <2>8. /\ \/ call'[k].event = call[k].event
           \/ call'[k].stage = "idle" /\ ~Waited(k)
        /\ \A j \in Posts \ {k} : call'[j] = call[j]
    <3>1. \/ \E a \in Answers : Answered(k, a)
          \/ \E a \in Done : Turn(k, "releasing", a)
          \/ Turn(k, "selling", "none")
      BY <1>0, <2>1, ServesShape
    <3>2. CASE \E a \in Answers : Answered(k, a)
      <4>1. NoCall.stage = "idle"
        BY DEF NoCall
      <4> QED
        BY <1>0, <3>2, <4>1, AnsweredFacts
    <3>3. CASE (\E a \in Done : Turn(k, "releasing", a)) \/ Turn(k, "selling", "none")
      BY <1>0, <3>3, TurnFacts
    <3> QED
      BY <3>1, <3>2, <3>3
  <2>9. ~Waited(k) => ~Queued(k)' /\ k # engine'.at /\ k # worker'.at
    BY <2>3, <2>6 DEF Waited
  <2> QED
    BY <1>0, <2>3, <2>5, <2>6, <2>7, <2>8, <2>9, SavedKept
<1>12. CASE Crash
  <2>1. queue' = queue /\ engine' = engine /\ worker' = worker /\ sold' = sold
    BY <1>12 DEF Crash, tab, server
  <2>2. \A k \in Posts : /\ call'[k].event = call[k].event
                         /\ InUse(k) \/ call'[k].stage = "idle"
    BY <1>0, <1>12, CrashFacts
  <2>3. \A j : Queued(j)' => Queued(j)
    BY <2>1 DEF Queued
  <2> QED
    BY <1>0, <2>1, <2>2, <2>3, SavedKept
<1> QED
  BY Zenon, Steps, <1>1, <1>2, <1>3, <1>4, <1>5, <1>6, <1>7, <1>8, <1>9, <1>10, <1>11, <1>12
  DEF Engine, Worker, Flush

(* The invariant for types: a loop's post is about a sale. *)
TravelInv == TypeInv /\ AtInv /\ SavedInv

LEMMA InitTravel == Init => TravelInv
  BY InitTypes, InitAt, InitSaved DEF TravelInv

LEMMA NextTravel ==
  ASSUME TravelInv, [Next]_vars
  PROVE  TravelInv'
<1>1. TypeInv /\ AtInv /\ SavedInv
  BY DEF TravelInv
<1>2. worker.at # NoPost => call[worker.at].event \in Sales
  BY <1>1 DEF TypeInv, LoopsOK, Workers, SavedInv, InUse, Saved
<1> QED
  BY <1>1, <1>2, NextTypes, NextAt, NextSaved DEF TravelInv

LEMMA TypesGiven == TypeInv => TypeOK
<1> SUFFICES ASSUME TypeInv PROVE TypeOK
  OBVIOUS
<1>1. status \in [Sales -> Statuses] /\ shown \in SUBSET Sales
  BY DEF TypeInv, JournalOK
<1>2. engine \in Loops /\ worker \in Workers /\ mail \in SUBSET Messages
  BY DEF TypeInv, LoopsOK
<1>3. queue \in Seq(Posts) /\ flush \in [left : Nat, at : Posts \cup {NoPost}]
  BY DEF TypeInv, QueueOK
<1>4. call \in [Posts -> Calls]
  BY DEF TypeInv, CallsOK
<1>5. sold \in [Sales -> Nat] /\ floor \in [Sales -> {"none", "taken", "free"}]
  BY DEF TypeInv, SalesOK
<1>6. online \in BOOLEAN /\ paused \in BOOLEAN
  BY DEF TypeInv, SwitchesOK
<1>7. faults \in 0..MaxFaults /\ runs \in 0..MaxRuns
  BY DEF TypeInv, RestOK
<1> QED
  BY Zenon, <1>1, <1>2, <1>3, <1>4, <1>5, <1>6, <1>7 DEF TypeOK

\* Every variable keeps its type, for any sales, posts and faults: what the
\* journal, the loops, the queue and the server hold is what their code expects.
THEOREM TypeCorrect == Spec => []TypeOK
<1>1. TravelInv /\ [Next]_vars => TravelInv'
  BY NextTravel
<1>2. TravelInv => TypeOK
  BY TypesGiven DEF TravelInv
<1> QED
  BY InitTravel, <1>1, <1>2, PTL DEF Spec

-----------------------------------------------------------------------------
(* What "synced" stands for *)

Settled(n) == n \in Sales /\ sold[n] = 1 /\ floor[n] # "taken"

CallSettled(c) ==
    /\ c.stage = "releasing" => c.event \in Sales /\ sold[c.event] = 1
    /\ c.stage = "answered" /\ c.answer \in Done => Settled(c.event)
    /\ c.stored = "synced" => Settled(c.event)

SettledInv == /\ SoldOnce
              /\ \A k \in Posts : CallSettled(call[k])
              /\ \A n \in worker.result.synced : Settled(n)
              /\ \A msg \in mail : \A n \in msg.synced : Settled(n)
              /\ \A n \in Sales : status[n] = "SYNCED" => Settled(n)

LEMMA InitSettled == Init => SettledInv
<1> SUFFICES ASSUME Init PROVE SettledInv
  OBVIOUS
<1>1. SoldOnce
  <2>1. ASSUME NEW n \in Sales PROVE sold[n] = 0
    BY DEF Init
  <2>2. ASSUME NEW m, m = 0 PROVE m <= 1
    BY <2>2
  <2> QED
    BY <2>1, <2>2 DEF SoldOnce
<1>2. \A k \in Posts : CallSettled(call[k])
  BY DEF Init, NoCall, CallSettled
<1>3. worker.result.synced = {} /\ mail = {}
  BY DEF Init, Asleep, NoResult
<1>4. \A n \in Sales : status[n] # "SYNCED"
  BY DEF Init
<1> QED
  BY <1>1, <1>2, <1>3, <1>4 DEF SettledInv

\* A sale is made once and not undone; a free table is not taken again by it.
LEMMA SettledGrows ==
  ASSUME TypeInv, SavedInv, SoldOnce, [Next]_vars
  PROVE  /\ SoldOnce'
         /\ \A n \in Sales : sold[n] = 1 => sold'[n] = 1
         /\ \A n : Settled(n) => Settled(n)'
<1>0. /\ sold \in [Sales -> Nat] /\ floor \in [Sales -> {"none", "taken", "free"}]
      /\ \A n \in Sales : sold[n] > 0 => status[n] # "none"
  BY DEF TypeInv, SalesOK, SavedInv, Saved
<1>1. CASE Save
  <2>1. PICK n \in Sales, table \in {"none", "taken"} :
           status[n] = "none" /\ floor' = [floor EXCEPT ![n] = table] /\ sold' = sold
    BY <1>1 DEF Save, IsFirst
  <2>2. sold[n] # 1
    BY <1>0, <2>1
  <2> QED
    BY <1>0, <2>1, <2>2 DEF SoldOnce, Settled
<1>2. CASE \E k \in Posts : Sell(k)
  <2>1. PICK k \in Posts : Sell(k)
    BY <1>2
  <2>2. /\ floor' = floor
        /\ \/ sold' = sold
           \/ /\ sold[call[k].event] = 0
              /\ sold' = [sold EXCEPT ![call[k].event] = @ + 1]
    BY <2>1 DEF Sell
  <2> QED
    BY <1>0, <2>2 DEF SoldOnce, Settled
<1>3. CASE \E k \in Posts : Release(k)
  <2>1. PICK k \in Posts : Release(k)
    BY <1>3
  <2>2. /\ sold' = sold
        /\ floor' = [floor EXCEPT ![call[k].event] = IF @ = "taken" THEN "free" ELSE @]
    BY <2>1 DEF Release
  <2> QED
    BY <1>0, <2>2 DEF SoldOnce, Settled
<1>4. CASE UNCHANGED server
  BY <1>4 DEF server, SoldOnce, Settled
<1>5. \/ Save \/ (\E k \in Posts : Sell(k) \/ Release(k)) \/ UNCHANGED server
  <2>1. Till => Save \/ UNCHANGED server
    BY DEF Till, Cancel, Retry, GoOffline, GoOnline, Login, Reload
  <2>2. Engine \/ Worker \/ Flush \/ Crash \/ UNCHANGED vars => UNCHANGED server
    BY DEF Engine, EngineStart, EnginePost, EngineReply, EngineNoAnswer, Worker, WorkerStart,
           WorkerPost, WorkerReply, WorkerNoAnswer, WorkerDone, Flush, FlushStart, FlushPost,
           FlushReply, FlushNoAnswer, Crash, vars
  <2>3. \A msg \in mail : Deliver(msg) => UNCHANGED server
    BY DEF Deliver
  <2>4. \A k \in Posts : Serves(k) => Sell(k) \/ Release(k) \/ UNCHANGED server
    BY DEF Serves, Server, Arrive, Refuse, SaleFails, ReleaseFails
  <2> QED
    BY Zenon, Steps, <2>1, <2>2, <2>3, <2>4
<1> QED
  BY <1>1, <1>2, <1>3, <1>4, <1>5

\* What a step must show of the calls, results, messages and marks it changes.
LEMMA SettledFrame ==
  ASSUME TypeInv, SavedInv, SettledInv, [Next]_vars,
         \A k \in Posts : call'[k] = call[k] \/ CallSettled(call[k])',
         \A n \in worker'.result.synced : n \in worker.result.synced \/ Settled(n),
         \A msg \in mail' : msg \in mail \/ \A n \in msg.synced : Settled(n),
         \A n \in Sales : status'[n] = "SYNCED" => status[n] = "SYNCED" \/ Settled(n)
  PROVE  SettledInv'
<1>0. /\ SoldOnce'
      /\ \A n \in Sales : sold[n] = 1 => sold'[n] = 1
      /\ \A n : Settled(n) => Settled(n)'
  BY SettledGrows DEF SettledInv
<1>1. ASSUME NEW k \in Posts
      PROVE  CallSettled(call[k])'
  <2>1. CallSettled(call[k])
    BY DEF SettledInv
  <2>2. CASE call'[k] = call[k]
    BY <1>0, <2>1, <2>2 DEF CallSettled
  <2> QED
    BY <2>2
<1>2. \A n \in worker'.result.synced : Settled(n)'
  BY <1>0 DEF SettledInv
<1>3. \A msg \in mail' : \A n \in msg.synced : Settled(n)'
  BY <1>0 DEF SettledInv
<1>4. \A n \in Sales : status'[n] = "SYNCED" => Settled(n)'
  BY <1>0 DEF SettledInv
<1> QED
  BY <1>0, <1>1, <1>2, <1>3, <1>4 DEF SettledInv

\* A call that is idle or sent, with what it had stored before.
LEMMA SettledStored ==
  ASSUME TypeInv, SavedInv, SettledInv, [Next]_vars, NEW k \in Posts,
         call'[k].stage \in {"idle", "sent"},
         \/ call'[k].stored = "none"
         \/ call'[k].stored = call[k].stored /\ call'[k].event = call[k].event
  PROVE  CallSettled(call[k])'
<1>1. \A n : Settled(n) => Settled(n)'
  BY SettledGrows DEF SettledInv
<1>2. call[k].stored = "synced" => Settled(call[k].event)
  BY DEF SettledInv, CallSettled
<1> QED
  BY <1>1, <1>2 DEF CallSettled

\* The server's steps.
LEMMA ServesSettled ==
  ASSUME TravelInv, SettledInv, [Next]_vars, NEW k \in Posts, Serves(k)
  PROVE  CallSettled(call[k])'
<1>0. /\ CallsOK /\ sold \in [Sales -> Nat] /\ TypeInv /\ SavedInv
      /\ floor \in [Sales -> {"none", "taken", "free"}]
      /\ \A n : Settled(n) => Settled(n)'
      /\ \A n \in Sales : sold[n] = 1 => sold'[n] = 1
      /\ CallSettled(call[k])
      /\ SoldOnce
  BY SettledGrows DEF TravelInv, TypeInv, SalesOK, SettledInv
<1>1. PICK n : n = call[k].event
  OBVIOUS
<1>2. n \in Sales
  <2>1. call[k].stage # "idle"
    BY DEF Serves, Server, Arrive, Sell, Release, Refuse, SaleFails, ReleaseFails
  <2> QED
    BY <1>0, <1>1, <2>1 DEF SavedInv, InUse, Saved
<1>3. ASSUME NEW a \in Answers, Answered(k, a), a \in Done => Settled(n)'
      PROVE  CallSettled(call[k])'
  <2>1. CASE ~Waited(k)
    <3>1. call'[k] = NoCall
      BY <1>0, <1>3, <2>1, AnsweredFacts
    <3> QED
      BY <3>1 DEF CallSettled, NoCall
  <2>2. CASE Waited(k)
    <3>1. /\ call'[k].event = n
          /\ call'[k].stage = "answered" /\ call'[k].answer = a
          /\ call'[k].stored \in {call[k].stored, a}
      BY <1>0, <1>1, <1>3, <2>2, AnsweredFacts
    <3>2. call[k].stored = "synced" => Settled(n)'
      BY <1>0, <1>1 DEF CallSettled
    <3> QED
      BY <1>3, <3>1, <3>2 DEF CallSettled, Done
  <2> QED
    BY <2>1, <2>2
<1>4. ASSUME NEW a \in Done, Turn(k, "releasing", a), sold'[n] = 1
      PROVE  CallSettled(call[k])'
  <2>1. /\ call'[k].event = n /\ call'[k].stage = "releasing"
        /\ call'[k].stored = call[k].stored
    BY <1>0, <1>1, <1>4, TurnFacts
  <2>2. call[k].stored = "synced" => Settled(n)'
    BY <1>0, <1>1 DEF CallSettled
  <2> QED
    BY <1>2, <1>4, <2>1, <2>2 DEF CallSettled
<1>5. CASE Arrive(k)
  <2>1. CASE call[k].stored # "none" /\ Answered(k, call[k].stored)
    <3>1. call[k].stored \in Good
      BY <1>0, <2>1, CallFields DEF CallsOK
    <3>2. call[k].stored \in Done => Settled(n)'
      BY <1>0, <1>1, <3>1 DEF CallSettled, Done, Good
    <3> QED
      BY <1>3, <2>1, <3>1, <3>2 DEF Good, Answers
  <2>2. CASE sold[call[k].event] > 0 /\ Turn(k, "releasing", "duplicate")
    <3>1. sold[n] = 1
      BY <1>0, <1>1, <1>2, <2>2 DEF SoldOnce
    <3>2. sold'[n] = 1
      BY <1>0, <1>2, <3>1
    <3> QED
      BY <1>4, <2>2, <3>2 DEF Done
  <2>3. CASE Turn(k, "selling", "none")
    <3>1. /\ call'[k].event = n /\ call'[k].stage = "selling"
          /\ call'[k].stored = call[k].stored
      BY <1>0, <1>1, <2>3, TurnFacts
    <3> QED
      BY <1>0, <1>1, <3>1 DEF CallSettled
  <2> QED
    BY <1>5, <2>1, <2>2, <2>3 DEF Arrive
<1>6. CASE Sell(k)
  <2>1. CASE /\ sold[n] = 0 /\ sold' = [sold EXCEPT ![n] = @ + 1]
             /\ Turn(k, "releasing", "synced")
    <3>1. sold'[n] = 1
      BY <1>0, <1>2, <2>1
    <3> QED
      BY <1>4, <2>1, <3>1 DEF Done
  <2>2. CASE sold[n] > 0 /\ Turn(k, "releasing", "duplicate")
    <3>1. sold[n] = 1
      BY <1>0, <1>2, <2>2 DEF SoldOnce
    <3>2. sold'[n] = 1
      BY <1>0, <1>2, <3>1
    <3> QED
      BY <1>4, <2>2, <3>2 DEF Done
  <2> QED
    BY <1>1, <1>6, <2>1, <2>2 DEF Sell
<1>7. CASE Release(k)
  <2>1. /\ call[k].stage = "releasing" /\ sold' = sold
        /\ floor' = [floor EXCEPT ![n] = IF @ = "taken" THEN "free" ELSE @]
        /\ Answered(k, call[k].answer)
    BY <1>1, <1>7 DEF Release
  <2>2. sold[n] = 1 /\ call[k].answer \in Answers
    BY <1>0, <1>1, <2>1 DEF CallSettled, CallsOK, CallOK, Done, Answers
  <2>3. Settled(n)'
    BY <1>0, <1>2, <2>1, <2>2 DEF Settled
  <2> QED
    BY <1>3, <2>1, <2>2, <2>3
<1>8. CASE Refuse(k) \/ SaleFails(k) \/ ReleaseFails(k)
  <2>1. PICK a \in Answers : Answered(k, a) /\ a \notin Done
    BY <1>8 DEF Refuse, SaleFails, ReleaseFails, Answers, Done
  <2> QED
    BY <1>3, <2>1
<1> QED
  BY <1>5, <1>6, <1>7, <1>8 DEF Serves, Server

LEMMA NextSettled ==
  ASSUME TravelInv, SettledInv, [Next]_vars
  PROVE  SettledInv'
<1>0. /\ TypeInv /\ AtInv /\ SavedInv /\ CallsOK /\ QueueOK /\ LoopsOK /\ worker \in Workers
      /\ \A k \in Posts : CallSettled(call[k])
      /\ \A n \in Sales : status[n] = "SYNCED" => Settled(n)
  BY DEF TravelInv, TypeInv, LoopsOK, SettledInv
<1>1. CASE \/ Till \/ (\E msg \in mail : Deliver(msg)) \/ EngineStart \/ FlushStart
           \/ WorkerStart \/ WorkerDone \/ UNCHANGED vars
  <2>1. call' = call
    BY <1>1 DEF Till, Save, Cancel, Retry, GoOffline, GoOnline, Login, Reload, Deliver,
                EngineStart, FlushStart, WorkerStart, WorkerDone, vars, tab
  <2>2. worker' = worker \/ worker'.result \in {worker.result, NoResult}
    <3>1. CASE WorkerStart
      BY <3>1, WorkerStartFacts
    <3>2. CASE ~WorkerStart
      <4>1. worker' \in {worker, Asleep, [worker EXCEPT !.attached = FALSE]}
        BY <1>1, <3>2 DEF Till, Save, Cancel, Retry, GoOffline, GoOnline, Login, Reload, Deliver,
                    EngineStart, FlushStart, WorkerDone, vars, tab
      <4> QED
        BY <1>0, <4>1 DEF Asleep, Workers
    <3> QED
      BY <3>1, <3>2
  <2>3. \A n \in worker'.result.synced : n \in worker.result.synced
    BY <2>2 DEF NoResult
  <2>4. \A msg \in mail' : msg \in mail \/ msg = worker.result
    BY <1>1 DEF Till, Save, Cancel, Retry, GoOffline, GoOnline, Login, Reload, Deliver,
                EngineStart, FlushStart, WorkerStart, WorkerDone, vars, tab
  <2>5. \A n \in Sales : status'[n] = "SYNCED" => status[n] = "SYNCED" \/ Settled(n)
    <3>0. status \in [Sales -> Statuses]
      BY <1>0 DEF TypeInv, JournalOK
    <3>1. CASE \E msg \in mail : Deliver(msg)
      BY <3>0, <3>1 DEF Deliver, SettledInv
    <3>2. CASE Save
      BY <3>0, <3>2 DEF Save
    <3>3. CASE \E n \in Sales : Cancel(n)
      BY <3>0, <3>3 DEF Cancel
    <3>4. CASE \E S \in {Sales} \cup {{n} : n \in shown} : Retry(S)
      BY <3>0, <3>4 DEF Retry
    <3>5. CASE UNCHANGED status
      BY <3>5
    <3>6. \/ UNCHANGED status \/ Save \/ (\E n \in Sales : Cancel(n))
          \/ (\E S \in {Sales} \cup {{n} : n \in shown} : Retry(S))
          \/ (\E msg \in mail : Deliver(msg))
      <4>1. GoOffline \/ GoOnline \/ Login \/ Reload => UNCHANGED status
        BY DEF GoOffline, GoOnline, Login, Reload, tab
      <4>2. EngineStart \/ FlushStart \/ WorkerStart \/ WorkerDone \/ UNCHANGED vars
              => UNCHANGED status
        BY DEF EngineStart, FlushStart, WorkerStart, WorkerDone, vars, tab
      <4> QED
        BY Zenon, <1>1, <4>1, <4>2 DEF Till
    <3> QED
      BY Zenon, <3>1, <3>2, <3>3, <3>4, <3>5, <3>6
  <2>6. \A msg \in mail' : msg \in mail \/ \A n \in msg.synced : Settled(n)
    BY <2>4 DEF SettledInv
  <2> QED
    BY <1>0, <2>1, <2>3, <2>5, <2>6, SettledFrame
<1>2. CASE EnginePost \/ WorkerPost
  <2>1. PICK k \in Posts, n \in engine.todo \cup worker.todo : Send(k, n)
    BY <1>2 DEF EnginePost, WorkerPost
  <2>2. n \in Sales
    BY <1>0, <2>1 DEF LoopsOK, Loops, Workers
  <2>3. /\ call'[k].stage \in {"idle", "sent"} /\ call'[k].stored = "none"
        /\ \A j \in Posts \ {k} : call'[j] = call[j]
    BY <1>0, <2>1, <2>2, SendFacts
  <2>4. CallSettled(call[k])'
    BY <1>0, <2>3, SettledStored
  <2>5. worker'.result = worker.result /\ mail' = mail /\ status' = status
    BY <1>0, <1>2 DEF EnginePost, WorkerPost, tab, Workers
  <2>6. \A j \in Posts : call'[j] = call[j] \/ CallSettled(call[j])'
    BY <2>3, <2>4
  <2> QED
    BY <1>0, <2>5, <2>6, SettledFrame
<1>3. CASE EngineReply
  <2>1. PICK k : k = engine.at
    OBVIOUS
  <2>2. /\ k \in Posts /\ call[k].stage = "answered" /\ call' = [call EXCEPT ![k] = NoCall]
        /\ worker' = worker /\ mail' = mail
    BY <1>0, <1>3, <2>1 DEF EngineReply, LoopsOK, Loops
  <2>3. PICK a : a = call[k].answer
    OBVIOUS
  <2>4. a \in Answers /\ status \in [Sales -> Statuses]
    BY <1>0, <2>2, <2>3 DEF CallsOK, CallOK, TypeInv, JournalOK
  <2>5. \/ UNCHANGED status
        \/ a # "auth" /\ status' = [status EXCEPT ![call[k].event] = Mark(a)]
    BY <1>3, <2>1, <2>3 DEF EngineReply
  <2>6. \A n \in Sales : status'[n] = "SYNCED" => status[n] = "SYNCED" \/ Settled(n)
    <3>1. a \in Done => Settled(call[k].event)
      BY <1>0, <2>2, <2>3 DEF CallSettled
    <3>2. a # "auth" => (Mark(a) = "SYNCED" => a \in Done)
      BY <2>4, MarkType
    <3> QED
      BY <2>4, <2>5, <3>1, <3>2
  <2>7. /\ call'[k].stage = "idle" /\ call'[k].stored = "none"
        /\ \A j \in Posts \ {k} : call'[j] = call[j]
    BY <1>0, <2>2, CallForgotten
  <2>8. CallSettled(call[k])'
    BY <1>0, <2>2, <2>7, SettledStored
  <2>9. \A j \in Posts : call'[j] = call[j] \/ CallSettled(call[j])'
    BY <2>7, <2>8
  <2> QED
    BY <1>0, <2>2, <2>6, <2>9, SettledFrame
<1>4. CASE WorkerReply
  <2>1. PICK k : k = worker.at
    OBVIOUS
  <2>2. /\ k \in Posts /\ call[k].stage = "answered" /\ call' = [call EXCEPT ![k] = NoCall]
        /\ worker'.result.synced = worker.result.synced \cup
                {m \in {call[k].event} : call[k].answer \in {"synced", "duplicate"}}
    BY <1>0, <1>4, <2>1, WorkerReplyFacts
  <2>3. \A n \in worker'.result.synced : n \in worker.result.synced \/ Settled(n)
    BY <1>0, <2>2 DEF CallSettled, Done
  <2>4. /\ call'[k].stage = "idle" /\ call'[k].stored = "none"
        /\ \A j \in Posts \ {k} : call'[j] = call[j]
    BY <1>0, <2>2, CallForgotten
  <2>5. CallSettled(call[k])'
    BY <1>0, <2>2, <2>4, SettledStored
  <2>6. \A j \in Posts : call'[j] = call[j] \/ CallSettled(call[j])'
    BY <2>4, <2>5
  <2>7. mail' = mail /\ status' = status
    BY <1>4 DEF WorkerReply, tab
  <2> QED
    BY <1>0, <2>3, <2>6, <2>7, SettledFrame
<1>5. CASE EngineNoAnswer \/ WorkerNoAnswer \/ FlushNoAnswer
  <2>1. PICK k \in Posts : Unheard(k)
    BY <1>0, <1>5 DEF EngineNoAnswer, WorkerNoAnswer, FlushNoAnswer, LoopsOK, Loops, Workers,
                      QueueOK
  <2>2. /\ call'[k].event = call[k].event /\ call'[k].stored = call[k].stored
        /\ call'[k].stage \in {call[k].stage, "idle"}
        /\ call'[k].stage = call[k].stage => call'[k] = call[k]
        /\ \A j \in Posts \ {k} : call'[j] = call[j]
    BY <1>0, <2>1, UnheardFacts DEF TypeInv
  <2>3. call'[k] = call[k] \/ CallSettled(call[k])'
    BY <1>0, <2>2, SettledStored
  <2>4. mail' = mail /\ \A n \in Sales : status'[n] = "SYNCED" => status[n] = "SYNCED"
    <3>1. CASE EngineNoAnswer
      BY <1>0, <3>1, NoAnswerFacts DEF EngineNoAnswer, TypeInv, Unanswered
    <3> QED
      BY <1>5, <3>1 DEF WorkerNoAnswer, FlushNoAnswer, tab
  <2>5. \A n \in worker'.result.synced : n \in worker.result.synced
    BY <1>0, <1>5 DEF EngineNoAnswer, WorkerNoAnswer, FlushNoAnswer, Asleep, NoResult, Workers
  <2>6. \A j \in Posts : call'[j] = call[j] \/ CallSettled(call[j])'
    BY <2>2, <2>3
  <2> QED
    BY <1>0, <2>4, <2>5, <2>6, SettledFrame
<1>6. CASE FlushPost
  <2>1. PICK k : k = Head(queue)
    OBVIOUS
  <2>2. k \in Posts
    BY <1>0, <1>6, <2>1, QueueHead DEF FlushPost
  <2>3. /\ call' = [call EXCEPT ![k].stage = IF @ \in {"idle", "answered"} THEN Departs ELSE @]
        /\ worker' = worker /\ mail' = mail /\ status' = status
    BY <1>6, <2>1 DEF FlushPost
  <2>4. /\ call'[k].event = call[k].event /\ call'[k].stored = call[k].stored
        /\ call'[k] # call[k] => call'[k].stage \in {"idle", "sent"}
        /\ \A j \in Posts \ {k} : call'[j] = call[j]
    BY <1>0, <2>2, <2>3, AgainFacts
  <2>5. call'[k] = call[k] \/ CallSettled(call[k])'
    BY <1>0, <2>2, <2>4, SettledStored
  <2>6. \A j \in Posts : call'[j] = call[j] \/ CallSettled(call[j])'
    BY <2>4, <2>5
  <2> QED
    BY <1>0, <2>3, <2>6, SettledFrame
<1>7. CASE FlushReply
  <2>1. PICK k : k = flush.at
    OBVIOUS
  <2>2. k \in Posts
    BY <1>0, <1>7, <2>1 DEF FlushReply, QueueOK
  <2>3. worker' = worker /\ mail' = mail /\ status' = status
    BY <1>7 DEF FlushReply
  <2>4. /\ call'[k].stage = "idle"
        /\ \/ call'[k].stored = "none"
           \/ call'[k].stored = call[k].stored /\ call'[k].event = call[k].event
        /\ \A j \in Posts \ {k} : call'[j] = call[j]
    <3>1. CASE call' = [call EXCEPT ![k] = NoCall]
      BY <1>0, <2>2, <3>1, CallForgotten
    <3>2. CASE call' = [call EXCEPT ![k].stage = "idle", ![k].answer = "none"]
      BY <1>0, <2>2, <3>2 DEF CallsOK, Calls
    <3> QED
      BY <1>7, <2>1, <3>1, <3>2 DEF FlushReply
  <2>5. CallSettled(call[k])'
    BY <1>0, <2>2, <2>4, SettledStored
  <2>6. \A j \in Posts : call'[j] = call[j] \/ CallSettled(call[j])'
    BY <2>4, <2>5
  <2> QED
    BY <1>0, <2>3, <2>6, SettledFrame
<1>8. CASE \E k \in Posts : Serves(k)
  <2>1. PICK k \in Posts : Serves(k)
    BY <1>8
  <2>2. CallSettled(call[k])'
    BY <2>1, ServesSettled
  <2>3. \A j \in Posts \ {k} : call'[j] = call[j]
    BY <1>0, <2>1, ServesShape, AnsweredFacts, TurnFacts
  <2>4. worker' = worker /\ mail' = mail /\ status' = status
    BY <2>1 DEF Serves, Server, Arrive, Sell, Release, Refuse, SaleFails, ReleaseFails, tab
  <2>5. \A j \in Posts : call'[j] = call[j] \/ CallSettled(call[j])'
    BY <2>2, <2>3
  <2> QED
    BY <1>0, <2>4, <2>5, SettledFrame
<1>9. CASE Crash
  <2>1. worker' = worker /\ mail' = mail /\ status' = status
    BY <1>9 DEF Crash, tab
  <2>2. ASSUME NEW k \in Posts, call'[k] # call[k] PROVE CallSettled(call[k])'
    <3>1. /\ call'[k].event = call[k].event /\ call'[k].stored = call[k].stored
          /\ call'[k].stage = "idle"
      BY <1>0, <1>9, <2>2, CrashFacts
    <3> QED
      BY <1>0, <3>1, SettledStored
  <2> QED
    BY <1>0, <2>1, <2>2, SettledFrame
<1> QED
  BY Zenon, Steps, <1>1, <1>2, <1>3, <1>4, <1>5, <1>6, <1>7, <1>8, <1>9 DEF Engine, Worker, Flush

\* Whatever senders, crashes and lost messages do, table sales holds one row for
\* an event: the look-up alone would not do, the UNIQUE key decides.
THEOREM SoldOnceHolds == Spec => []SoldOnce
<1>1. Init => TravelInv /\ SettledInv
  BY InitTravel, InitSettled
<1>2. TravelInv /\ SettledInv /\ [Next]_vars => (TravelInv /\ SettledInv)'
  BY NextTravel, NextSettled
<1>3. SettledInv => SoldOnce
  BY DEF SettledInv
<1> QED
  BY <1>1, <1>2, <1>3, PTL DEF Spec

\* An event is SYNCED only with its sale made and its table free, whoever marked
\* it: the engine for its answer, or a message of the worker that came late.
THEOREM SyncedHolds == Spec => []SyncedMeansSettled
<1>1. Init => TravelInv /\ SettledInv
  BY InitTravel, InitSettled
<1>2. TravelInv /\ SettledInv /\ [Next]_vars => (TravelInv /\ SettledInv)'
  BY NextTravel, NextSettled
<1>3. SettledInv => SyncedMeansSettled
  BY DEF SettledInv, SyncedMeansSettled, Settled
<1> QED
  BY <1>1, <1>2, <1>3, PTL DEF Spec

-----------------------------------------------------------------------------
(* A cancellation nobody overtakes is final *)

At == {engine.at, worker.at, flush.at}

Free(n) == /\ n \notin engine.todo /\ n \notin worker.todo
           /\ n \notin worker.result.synced /\ n \notin worker.result.review
           /\ \A msg \in mail : n \notin msg.synced /\ n \notin msg.review
           /\ \A k \in Posts : call[k].event = n => /\ call[k].stage \in {"idle", "answered"}
                                                    /\ k \notin At /\ ~Queued(k)

\* Free is another way of saying that nobody holds the event.
LEMMA FreeIsNotHeld ==
  ASSUME NEW n
  PROVE  (~Held(n) => Free(n)) /\ (Free(n)' => ~Held(n)')
<1>1. ~Held(n) => Free(n)
  BY DEF Held, Free, Unused, At
<1>2. Free(n)' => ~Held(n)'
  BY DEF Held, Free, Unused, At
<1> QED
  BY <1>1, <1>2

\* What a step must show to leave an event free.
LEMMA FreeFrame ==
  ASSUME NEW n, Free(n),
         n \notin engine'.todo, n \notin worker'.todo,
         n \notin worker'.result.synced, n \notin worker'.result.review,
         \A msg \in mail' : msg \in mail \/ msg = worker.result,
         \A k \in Posts : call'[k].event = n =>
             /\ call[k].event = n
             /\ call'[k].stage \in {call[k].stage, "idle", "answered"}
             /\ k \in At' \/ Queued(k)' => k \in At \/ Queued(k)
  PROVE  Free(n)'
<1>1. \A msg \in mail' : n \notin msg.synced /\ n \notin msg.review
  BY DEF Free
<1>2. ASSUME NEW k \in Posts, call'[k].event = n
      PROVE  call'[k].stage \in {"idle", "answered"} /\ k \notin At' /\ ~Queued(k)'
  BY <1>2 DEF Free
<1> QED
  BY <1>1, <1>2 DEF Free

LEMMA FreeSend ==
  ASSUME TypeInv, NEW n \in Sales, Free(n), NEW k \in Posts, NEW m \in Sales, m # n, Send(k, m),
         At' \subseteq At \cup {k}, queue' = queue,
         n \notin engine'.todo, n \notin worker'.todo,
         worker'.result = worker.result, mail' = mail
  PROVE  Free(n)'
<1>1. call'[k].event = m /\ \A j \in Posts \ {k} : call'[j] = call[j]
  BY SendFacts DEF TypeInv
<1>2. \A j \in Posts : call'[j].event = n =>
             /\ call[j].event = n
             /\ call'[j].stage \in {call[j].stage, "idle", "answered"}
             /\ j \in At' \/ Queued(j)' => j \in At \/ Queued(j)
  BY <1>1 DEF Queued
<1>3. n \notin worker.result.synced /\ n \notin worker.result.review
  BY DEF Free
<1> QED
  BY <1>2, <1>3, FreeFrame

\* One call changes, and it is not about the event.
LEMMA FreeKept ==
  ASSUME TypeInv, NEW n \in Sales, Free(n),
         \A k \in Posts : call'[k].event \in {call[k].event, NoSale},
         \A k \in Posts : call[k].event = n =>
             call'[k] = call[k] \/ call'[k].stage \in {"idle", "answered"},
         \A k \in Posts : k \in At' \/ Queued(k)' => k \in At \/ Queued(k),
         n \notin engine'.todo, n \notin worker'.todo,
         n \notin worker'.result.synced, n \notin worker'.result.review,
         \A msg \in mail' : msg \in mail \/ msg = worker.result
  PROVE  Free(n)'
<1>1. n # NoSale
  BY SalesAssumption
<1>2. \A k \in Posts : call'[k].event = n =>
             /\ call[k].event = n
             /\ call'[k].stage \in {call[k].stage, "idle", "answered"}
             /\ k \in At' \/ Queued(k)' => k \in At \/ Queued(k)
  BY <1>1
<1> QED
  BY <1>2, FreeFrame

LEMMA CancelStep ==
  ASSUME TravelInv, [Next]_vars, NEW n \in Sales, status[n] = "CANCELLED", Free(n)
  PROVE  status'[n] = "CANCELLED" /\ Free(n)' /\ sold'[n] = sold[n]
<1>0. /\ TypeInv /\ AtInv /\ SavedInv /\ CallsOK /\ QueueOK /\ LoopsOK /\ worker \in Workers
      /\ engine \in Loops /\ status \in [Sales -> Statuses] /\ sold \in [Sales -> Nat]
      /\ n \notin engine.todo /\ n \notin worker.todo
      /\ n \notin worker.result.synced /\ n \notin worker.result.review
      /\ n \notin Unsynced /\ n # NoSale
  BY SalesAssumption
  DEF TravelInv, TypeInv, LoopsOK, JournalOK, SalesOK, Free, Unsynced
<1>1. CASE \/ Till \/ (\E msg \in mail : Deliver(msg)) \/ EngineStart \/ FlushStart
           \/ WorkerStart \/ WorkerDone \/ UNCHANGED vars
  <2>1. call' = call /\ queue' = queue /\ sold' = sold
    BY <1>1 DEF Till, Save, Cancel, Retry, GoOffline, GoOnline, Login, Reload, Deliver,
                EngineStart, FlushStart, WorkerStart, WorkerDone, vars, tab, server
  <2>2. /\ n \notin worker'.todo /\ worker'.at \in {worker.at, NoPost}
        /\ n \notin worker'.result.synced /\ n \notin worker'.result.review
    <3>1. CASE WorkerStart
      BY <1>0, <3>1, WorkerStartFacts DEF NoResult
    <3>2. CASE ~WorkerStart
      <4>1. worker' \in {worker, Asleep, [worker EXCEPT !.attached = FALSE]}
        BY <1>1, <3>2 DEF Till, Save, Cancel, Retry, GoOffline, GoOnline, Login, Reload, Deliver,
                    EngineStart, FlushStart, WorkerDone, vars, tab
      <4> QED
        BY <1>0, <4>1 DEF Asleep, NoResult, Workers
    <3> QED
      BY <3>1, <3>2
  <2>3. n \notin engine'.todo /\ engine'.at \in {engine.at, NoPost}
    <3>1. engine' \in {engine, NoLoop, [engine EXCEPT !.todo = Unsynced]}
      BY <1>1 DEF Till, Save, Cancel, Retry, GoOffline, GoOnline, Login, Reload, Deliver,
                  EngineStart, FlushStart, WorkerStart, WorkerDone, vars, tab
    <3> QED
      BY <1>0, <3>1 DEF NoLoop, Loops
  <2>4. flush'.at \in {flush.at, NoPost}
    <3>1. flush' \in {flush, [left |-> 0, at |-> NoPost], [flush EXCEPT !.left = Len(queue)]}
      BY <1>1 DEF Till, Save, Cancel, Retry, GoOffline, GoOnline, Login, Reload, Deliver,
                  EngineStart, FlushStart, WorkerStart, WorkerDone, vars, tab
    <3> QED
      BY <1>0, <3>1 DEF QueueOK
  <2>5. \A k \in Posts : k \in At' \/ Queued(k)' => k \in At \/ Queued(k)
    BY <2>1, <2>2, <2>3, <2>4, PostsAssumption DEF At, Queued
  <2>6. \A msg \in mail' : msg \in mail \/ msg = worker.result
    BY <1>1 DEF Till, Save, Cancel, Retry, GoOffline, GoOnline, Login, Reload, Deliver,
                EngineStart, FlushStart, WorkerStart, WorkerDone, vars, tab
  <2>7. Free(n)'
    BY <1>0, <2>1, <2>2, <2>3, <2>5, <2>6, FreeKept
  <2>8. status'[n] = "CANCELLED"
    <3>1. CASE \E msg \in mail : Deliver(msg)
      BY <1>0, <3>1 DEF Deliver, Free
    <3>2. CASE Save
      BY <1>0, <3>2 DEF Save, IsFirst
    <3>3. CASE \E m \in Sales : Cancel(m)
      BY <1>0, <3>3 DEF Cancel
    <3>4. CASE \E S \in {Sales} \cup {{m} : m \in shown} : Retry(S)
      BY <1>0, <3>4 DEF Retry
    <3>5. CASE GoOffline \/ GoOnline \/ Login \/ Reload
      BY <3>5 DEF GoOffline, GoOnline, Login, Reload, tab
    <3>6. CASE EngineStart \/ FlushStart \/ WorkerStart \/ WorkerDone \/ UNCHANGED vars
      BY <3>6 DEF EngineStart, FlushStart, WorkerStart, WorkerDone, vars, tab
    <3> QED
      BY Zenon, <1>1, <3>1, <3>2, <3>3, <3>4, <3>5, <3>6 DEF Till
  <2> QED
    BY <2>1, <2>7, <2>8
<1>2. CASE EnginePost
  <2>1. PICK k \in Posts, m \in engine.todo :
           Send(k, m) /\ engine' = [todo |-> engine.todo \ {m}, at |-> k]
    BY <1>2 DEF EnginePost
  <2>2. /\ UNCHANGED <<status, sold, queue, flush, worker, mail>>
        /\ n \notin engine'.todo /\ engine'.at = k /\ m \in Sales /\ m # n
    BY <1>0, <1>2, <2>1 DEF EnginePost, server, Loops
  <2>3. At' \subseteq At \cup {k}
    BY <2>2 DEF At
  <2> QED
    BY <1>0, <2>1, <2>2, <2>3, FreeSend
<1>3. CASE WorkerPost
  <2>1. PICK k \in Posts, m \in worker.todo :
           Send(k, m) /\ worker' = [worker EXCEPT !.todo = @ \ {m}, !.at = k]
    BY <1>3 DEF WorkerPost
  <2>2. UNCHANGED <<status, sold, queue, flush, engine, mail>>
    BY <1>3 DEF WorkerPost, tab, server
  <2>3. /\ n \notin worker'.todo /\ worker'.at = k /\ worker'.result = worker.result
        /\ m \in Sales /\ m # n
    BY <1>0, <2>1 DEF Workers
  <2>4. At' \subseteq At \cup {k}
    BY <2>2, <2>3 DEF At
  <2> QED
    BY <1>0, <2>1, <2>2, <2>3, <2>4, FreeSend
<1>4. CASE EngineReply
  <2>1. PICK k : k = engine.at
    OBVIOUS
  <2>2. k \in Posts /\ k \in At /\ call' = [call EXCEPT ![k] = NoCall]
    BY <1>0, <1>4, <2>1 DEF EngineReply, Loops, At
  <2>3. UNCHANGED <<sold, queue, flush, worker, mail>>
    BY <1>4 DEF EngineReply, server
  <2>4. engine'.at = NoPost /\ engine'.todo \subseteq engine.todo
    <3>1. Break \/ Continue
      BY <1>4 DEF EngineReply
    <3> QED
      BY <1>0, <3>1, LoopMoves
  <2>5. /\ call'[k].stage = "idle" /\ call'[k].event = NoSale
        /\ \A j \in Posts \ {k} : call'[j] = call[j]
    BY <1>0, <2>2, CallForgotten
  <2>6. \A j \in Posts : j \in At' \/ Queued(j)' => j \in At \/ Queued(j)
    BY <2>3, <2>4, PostsAssumption DEF At, Queued
  <2>7. Free(n)'
    BY <1>0, <2>3, <2>4, <2>5, <2>6, FreeKept
  <2>8. call[k].event # n
    BY <2>2 DEF Free
  <2>9. UNCHANGED status \/ status' = [status EXCEPT ![call[k].event] = Mark(call[k].answer)]
    BY <1>4, <2>1 DEF EngineReply
  <2> QED
    BY <1>0, <2>3, <2>7, <2>8, <2>9
<1>5. CASE WorkerReply
  <2>1. PICK k : k = worker.at
    OBVIOUS
  <2>2. /\ k \in Posts /\ k \in At /\ call' = [call EXCEPT ![k] = NoCall]
        /\ worker'.at = NoPost /\ worker'.todo = worker.todo
        /\ worker'.result.synced = worker.result.synced \cup
                {m \in {call[k].event} : call[k].answer \in {"synced", "duplicate"}}
        /\ worker'.result.review = worker.result.review \cup
                {m \in {call[k].event} : call[k].answer = "review"}
    BY <1>0, <1>5, <2>1, WorkerReplyFacts DEF At
  <2>3. UNCHANGED <<status, sold, queue, flush, engine, mail>>
    BY <1>5 DEF WorkerReply, tab, server
  <2>4. call[k].event # n
    BY <2>2 DEF Free
  <2>5. n \notin worker'.result.synced /\ n \notin worker'.result.review
    BY <1>0, <2>2, <2>4
  <2>6. /\ call'[k].stage = "idle" /\ call'[k].event = NoSale
        /\ \A j \in Posts \ {k} : call'[j] = call[j]
    BY <1>0, <2>2, CallForgotten
  <2>7. \A j \in Posts : j \in At' \/ Queued(j)' => j \in At \/ Queued(j)
    BY <2>2, <2>3, PostsAssumption DEF At, Queued
  <2> QED
    BY <1>0, <2>2, <2>3, <2>5, <2>6, <2>7, FreeKept
<1>6. CASE EngineNoAnswer \/ WorkerNoAnswer \/ FlushNoAnswer
  <2>1. PICK k \in Posts : Unheard(k) /\ k \in At /\ (EngineNoAnswer => k = engine.at)
    BY <1>0, <1>6 DEF EngineNoAnswer, WorkerNoAnswer, FlushNoAnswer, Loops, Workers, QueueOK, At
  <2>2. UNCHANGED <<sold, mail>>
    BY <1>6 DEF EngineNoAnswer, WorkerNoAnswer, FlushNoAnswer, tab, server
  <2>3. /\ call'[k].event = call[k].event
        /\ \A j \in Posts \ {k} : call'[j] = call[j]
    BY <1>0, <2>1, UnheardFacts DEF TypeInv
  <2>4. call[k].event # n
    BY <2>1 DEF Free
  <2>5. /\ engine'.at \in {engine.at, NoPost} /\ engine'.todo \subseteq engine.todo
        /\ worker' \in {worker, Asleep, [worker EXCEPT !.at = NoPost]}
        /\ flush' = flush \/ flush' = [left |-> 0, at |-> NoPost]
    <3>1. CASE EngineNoAnswer
      BY <1>0, <3>1, NoAnswerFacts DEF EngineNoAnswer, TypeInv
    <3> QED
      BY <1>6, <3>1 DEF WorkerNoAnswer, FlushNoAnswer, tab
  <2>9. status'[n] = status[n]
    <3>1. CASE EngineNoAnswer
      BY <1>0, <2>1, <2>4, <3>1, NoAnswerFacts DEF TypeInv
    <3> QED
      BY <1>6, <3>1 DEF WorkerNoAnswer, FlushNoAnswer, tab
  <2>6. queue' = queue \/ (queue' = Append(queue, k) /\ k = engine.at)
    BY <1>6, <2>1 DEF EngineNoAnswer, WorkerNoAnswer, FlushNoAnswer, tab
  <2>7. \A j \in Posts : j \in At' \/ Queued(j)' => j \in At \/ Queued(j)
    <3>1. \A j \in Posts : j \in At' => j \in At
      BY <1>0, <2>5, PostsAssumption DEF At, Workers, Asleep
    <3>2. \A j \in Posts : Queued(j)' => Queued(j) \/ j = engine.at
      BY <1>0, <2>1, <2>6 DEF Queued, QueueOK
    <3> QED
      BY <3>1, <3>2 DEF At
  <2>8. /\ n \notin engine'.todo /\ n \notin worker'.todo
        /\ n \notin worker'.result.synced /\ n \notin worker'.result.review
    BY <1>0, <2>5 DEF Workers, Asleep, NoResult
  <2> QED
    BY <1>0, <2>2, <2>3, <2>4, <2>7, <2>8, <2>9, FreeKept
<1>7. CASE FlushPost
  <2>1. PICK k : k = Head(queue)
    OBVIOUS
  <2>2. k \in Posts /\ Queued(k)
    <3>1. flush.left > 0
      BY <1>7 DEF FlushPost
    <3>2. 1 \in 1..Len(queue)
      BY <1>0, <3>1 DEF QueueOK
    <3> QED
      BY <1>0, <2>1, <3>1, <3>2, QueueHead DEF Queued
  <2>3. /\ call' = [call EXCEPT ![k].stage = IF @ \in {"idle", "answered"} THEN Departs ELSE @]
        /\ UNCHANGED <<status, sold, queue, engine, worker, mail>>
        /\ flush' = [flush EXCEPT !.at = k]
    BY <1>7, <2>1 DEF FlushPost, server
  <2>4. /\ call'[k].event = call[k].event
        /\ \A j \in Posts \ {k} : call'[j] = call[j]
    BY <1>0, <2>2, <2>3, AgainFacts
  <2>5. call[k].event # n
    BY <2>2 DEF Free
  <2>6. \A j \in Posts : j \in At' \/ Queued(j)' => j \in At \/ Queued(j)
    BY <1>0, <2>2, <2>3 DEF At, Queued, QueueOK
  <2> QED
    BY <1>0, <2>3, <2>4, <2>5, <2>6, FreeKept
<1>8. CASE FlushReply
  <2>1. PICK k : k = flush.at
    OBVIOUS
  <2>2. k \in Posts /\ k \in At /\ flush.left > 0
    BY <1>0, <1>8, <2>1 DEF FlushReply, QueueOK, At
  <2>3. UNCHANGED <<status, sold, engine, worker, mail>> /\ flush'.at = NoPost
    BY <1>8 DEF FlushReply, server
  <2>4. call[k].event # n
    BY <2>2 DEF Free
  <2>5. /\ call'[k].event \in {call[k].event, NoSale}
        /\ \A j \in Posts \ {k} : call'[j] = call[j]
    <3>1. CASE call' = [call EXCEPT ![k] = NoCall]
      BY <1>0, <2>2, <3>1, CallForgotten
    <3>2. CASE call' = [call EXCEPT ![k].stage = "idle", ![k].answer = "none"]
      BY <1>0, <2>2, <3>2 DEF CallsOK, Calls
    <3> QED
      BY <1>8, <2>1, <3>1, <3>2 DEF FlushReply
  <2>6. \A j \in Posts : Queued(j)' => Queued(j)
    <3>1. CASE queue' = queue
      BY <3>1 DEF Queued
    <3>2. CASE queue' = Tail(queue)
      BY <1>0, <2>2, <2>3, <3>2, AtTail
    <3> QED
      BY <1>8, <3>1, <3>2 DEF FlushReply
  <2>7. \A j \in Posts : j \in At' \/ Queued(j)' => j \in At \/ Queued(j)
    BY <2>3, <2>6, PostsAssumption DEF At
  <2> QED
    BY <1>0, <2>3, <2>4, <2>5, <2>7, FreeKept
<1>9. CASE \E k \in Posts : Serves(k)
  <2>1. PICK k \in Posts : Serves(k)
    BY <1>9
  <2>2. call[k].stage \notin {"idle", "answered"}
    BY <2>1 DEF Serves, Server, Arrive, Sell, Release, Refuse, SaleFails, ReleaseFails
  <2>3. call[k].event # n
    BY <2>1, <2>2 DEF Free
  <2>4. UNCHANGED tab /\ UNCHANGED <<worker, mail>>
    BY <2>1 DEF Serves, Server, Arrive, Sell, Release, Refuse, SaleFails, ReleaseFails
  <2>5. UNCHANGED <<status, queue, flush, engine>>
    BY <2>4 DEF tab
  <2>6. sold'[n] = sold[n]
    <3>1. \/ sold' = sold
          \/ sold' = [sold EXCEPT ![call[k].event] = @ + 1]
      BY <2>1 DEF Serves, Server, Arrive, Sell, Release, Refuse, SaleFails, ReleaseFails, server
    <3> QED
      BY <1>0, <2>3, <3>1
  <2>7. /\ call'[k].event \in {call[k].event, NoSale}
        /\ \A j \in Posts \ {k} : call'[j] = call[j]
    <3>1. NoCall.event = NoSale
      BY DEF NoCall
    <3> QED
      BY <1>0, <2>1, <3>1, ServesShape, AnsweredFacts, TurnFacts
  <2>8. \A j \in Posts : j \in At' \/ Queued(j)' => j \in At \/ Queued(j)
    BY <2>4, <2>5 DEF At, Queued
  <2> QED
    BY <1>0, <2>3, <2>4, <2>5, <2>6, <2>7, <2>8, FreeKept
<1>10. CASE Crash
  <2>1. UNCHANGED <<status, sold, queue, flush, engine, worker, mail>>
    BY <1>10 DEF Crash, tab, server
  <2>2. \A k \in Posts : /\ call'[k].event = call[k].event
                         /\ call'[k] = call[k] \/ call'[k].stage = "idle"
    BY <1>0, <1>10, CrashFacts
  <2>3. \A j \in Posts : j \in At' \/ Queued(j)' => j \in At \/ Queued(j)
    BY <2>1 DEF At, Queued
  <2> QED
    BY <1>0, <2>1, <2>2, <2>3, FreeKept
<1> QED
  BY Zenon, Steps, <1>1, <1>2, <1>3, <1>4, <1>5, <1>6, <1>7, <1>8, <1>9, <1>10
  DEF Engine, Worker, Flush

\* A cancelled event that no sender holds stays cancelled, comes into no sender's
\* hands and is not sold: markCancelled holds from there on.
THEOREM CancelIsFinal == Spec => CancelHolds
<1>1. TravelInv /\ [Next]_vars => TravelInv'
  BY NextTravel
<1>2. TravelInv /\ [Next]_vars
        => [\A n \in Sales : status[n] = "CANCELLED" /\ ~Held(n)
                => status'[n] = "CANCELLED" /\ ~Held(n)' /\ sold'[n] = sold[n]]_vars
  BY CancelStep, FreeIsNotHeld
<1> QED
  BY InitTravel, <1>1, <1>2, PTL DEF Spec, CancelHolds
=============================================================================
