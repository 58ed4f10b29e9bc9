-------------------------------- MODULE TopK --------------------------------
(***************************************************************************)
(* The best-K heap of src/core/topk.c: a sequence h of at most cap items,  *)
(* the worst of them first.  Better(a, b) is the order of cmp(a, b) > 0.   *)
(***************************************************************************)
EXTENDS Integers, Sequences

CONSTANT Better(_, _)

Swap(h, i, j) == [h EXCEPT ![i] = h[j], ![j] = h[i]]

RECURSIVE SiftUp(_, _)
SiftUp(h, i) ==
  IF i = 1 \/ ~Better(h[i \div 2], h[i]) THEN h
  ELSE SiftUp(Swap(h, i, i \div 2), i \div 2)

\* The worse of i and its children, the left one first.
Worst(h, i) ==
  LET l == 2 * i
      m == IF l <= Len(h) /\ Better(h[i], h[l]) THEN l ELSE i
  IN IF l + 1 <= Len(h) /\ Better(h[m], h[l + 1]) THEN l + 1 ELSE m

RECURSIVE SiftDown(_, _)
SiftDown(h, i) ==
  IF Worst(h, i) = i THEN h ELSE SiftDown(Swap(h, i, Worst(h, i)), Worst(h, i))

\* qn_topk_offer: the heap after it, and whether it kept the item.
Kept(h, cap, item) == Len(h) < cap \/ Better(item, h[1])
Offer(h, cap, item) ==
  IF Len(h) < cap THEN SiftUp(Append(h, item), Len(h) + 1)
  ELSE IF Better(item, h[1]) THEN SiftDown([h EXCEPT ![1] = item], 1)
  ELSE h
=============================================================================
