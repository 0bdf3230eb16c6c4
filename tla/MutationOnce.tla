--------------------------- MODULE MutationOnce ---------------------------
(***************************************************************************)
(* What an idempotency key promises to the requests that carry it          *)
(* (SamplePOS.Server/src/middleware/idempotency.ts, header): the mutation  *)
(* takes effect once, all that are told the result of another request are  *)
(* told the same one, and a request that made an effect is never refused.  *)
(* A fault may strike a request; each request it has struck allows the     *)
(* mutation one effect more, and nothing else.                             *)
(***************************************************************************)
EXTENDS Naturals, FiniteSets

CONSTANTS Requests, None

VARIABLES effects,  \* the requests whose execution took effect
          struck,   \* the requests a fault has struck
          answer    \* what each request was told

Init == /\ effects = {} /\ struck = {}
        /\ answer = [r \in Requests |-> None]

\* The result of e may be told to r: nobody else was told another's but e's.
Agrees(r, e) == \/ e = r
                \/ \A q \in Requests : answer[q] \in Requests \ {q} => answer[q] = e

\* The request may be told at once.
TakeEffect(r) == /\ answer[r] = None /\ r \notin effects
                 /\ Cardinality(effects) <= Cardinality(struck)
                 /\ effects' = effects \cup {r}
                 /\ answer' \in {answer, [answer EXCEPT ![r] = r]}
                 /\ UNCHANGED struck

\* The fault that keeps the result from being stored may strike with the answer.
Tell(r) == /\ answer[r] = None
           /\ \E e \in effects : /\ Agrees(r, e)
                                 /\ answer' = [answer EXCEPT ![r] = e]
           /\ struck' \in {struck, struck \cup {r}}
           /\ UNCHANGED effects

Refuse(r) == /\ answer[r] = None /\ r \notin effects
             /\ \E why \in {"busy", "failed"} : answer' = [answer EXCEPT ![r] = why]
             /\ UNCHANGED <<effects, struck>>

Strike(r) == /\ struck' = struck \cup {r}
             /\ UNCHANGED <<effects, answer>>

Next == \E r \in Requests : TakeEffect(r) \/ Tell(r) \/ Refuse(r) \/ Strike(r)

Spec == Init /\ [][Next]_<<effects, struck, answer>>

===========================================================================
