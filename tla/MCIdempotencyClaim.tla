------------------------ MODULE MCIdempotencyClaim ------------------------
(* IdempotencyClaim under TLC: the configurations give the requests. *)
EXTENDS IdempotencyClaim

===========================================================================
