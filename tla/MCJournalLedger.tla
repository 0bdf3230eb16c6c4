-------------------------- MODULE MCJournalLedger --------------------------
(* JournalLedger under TLC. *)
EXTENDS JournalLedger, TLC

CONSTANTS s1, s2, s3,           \* connections
          saleKey, repostKey,   \* a posting, and one of the same document under another key
          voidKey, adminKey,    \* SALE_VOID-<sale> and REVERSAL-<transaction>
          sale,                 \* their business reference
          cash, revenue

OneReference == [k \in {saleKey, repostKey} |-> sale]
DebitCash == [a \in {cash, revenue} |-> IF a = cash THEN 1 ELSE -1]
Symmetry == Permutations(Sessions)

===========================================================================
