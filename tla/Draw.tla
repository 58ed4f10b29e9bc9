-------------------------------- MODULE Draw --------------------------------
(***************************************************************************)
(* How the workers draw the addresses of a sweep (cf_next_sweep): the      *)
(* engine gives every call its own step, and the step becomes an address   *)
(* through a keyed permutation (src/core/perm.c) or through the block      *)
(* scheduler (src/core/bandit.c), whose counters the workers share without *)
(* a lock.  Every atomic operation on them is a step of its own.  Which    *)
(* block the scheduler prefers depends on scores; here it may be any.      *)
(***************************************************************************)
EXTENDS Cidr, Bitwise

CONSTANTS Workers, RangeLists, Selections, Explores,
          Rounds,        \* four round functions of the permutation, for a key
          Span,          \* addresses in a block, before bandit_shape
          MaxBlocks,     \* QN_BANDIT_MAX_BLOCKS
          Attempts       \* how often a sampled block is tried, 4 in the code

VARIABLE dr

-----------------------------------------------------------------------------
(* qn_perm: four Feistel rounds, walked until the value is in the domain.  *)

\* qn_perm_init
HalfBits(domain) == CHOOSE h \in 1..16 : 4 ^ h >= domain /\ \A k \in 1..(h - 1) : 4 ^ k < domain

Feistel(x, half) ==
  LET m == 2 ^ half
      Round(lr, f) == << lr[2], lr[1] ^^ (f[lr[2]] % m) >>
      lr == FoldLeft(Round, << (x \div m) % m, x % m >>, Rounds)
  IN lr[1] * m + lr[2]

RECURSIVE Walk(_, _, _)
Walk(x, domain, half) ==
  LET y == Feistel(x, half) IN IF y < domain THEN y ELSE Walk(y, domain, half)

\* qn_perm_apply
Perm(domain, i) == IF domain < 2 THEN 0 ELSE Walk(i % domain, domain, HalfBits(domain))

-----------------------------------------------------------------------------
(* The scheduler's numbers: blocks are numbered from 0.                    *)

CeilDiv(a, b) == (a + b - 1) \div b
\* bandit_shape
SpanOf(total) == Max({Span, CeilDiv(total, MaxBlocks)})
BlocksOf(total) == CeilDiv(total, SpanOf(total))

BlockSpan(b) == Min({dr.span, dr.set.total - b * dr.span})

\* mul_div_floor: long division, one bit of b at a time.
MulDivFloor(a, b, d) ==
  LET Bit(qr, bit) ==
        LET dbl == IF qr[2] >= d - qr[2] THEN << 2 * qr[1] + 1, qr[2] - (d - qr[2]) >>
                   ELSE << 2 * qr[1], 2 * qr[2] >>
        IN IF (b \div 2 ^ bit) % 2 = 0 THEN dbl
           ELSE IF dbl[2] >= d - a THEN << dbl[1] + 1, dbl[2] - (d - a) >>
           ELSE << dbl[1], dbl[2] + a >>
  IN FoldLeft(Bit, << 0, 0 >>, [i \in 1..8 |-> 8 - i])[1]

\* explore_quota_prefix: how many explored addresses the first blocks hold.
QuotaPrefix(total, span, n, explore, blocks) ==
  LET capacity == Min({blocks * span, total}) IN
  IF blocks = 0 THEN 0
  ELSE IF blocks >= n THEN explore
  ELSE IF explore >= n
    THEN blocks + (IF total = n THEN 0 ELSE MulDivFloor(explore - n, capacity - blocks, total - n))
  ELSE MulDivFloor(explore, capacity, total)

\* Mutant: the explored addresses are not reserved in their blocks.
ReservedNot(total, span, n, explore) == [b \in 0..(n - 1) |-> 0]
\* qn_bandit_set_explore_total reserves each block's share at once.
Reserved(total, span, n, explore) ==
  [b \in 0..(n - 1) |-> QuotaPrefix(total, span, n, explore, b + 1)
                          - QuotaPrefix(total, span, n, explore, b)]

\* block_perm: a factor that is coprime to the span, and a shift.
GcdOne(a, b) == \A k \in 2..b : ~(a % k = 0 /\ b % k = 0)
BlockPerm(c, span, key) ==
  IF span < 2 THEN 0
  ELSE LET a0 == IF key % span = 0 THEN 1 ELSE key % span
           a == CHOOSE x \in 1..(span - 1) : GcdOne(x, span) /\
                  \A y \in 1..(span - 1) : GcdOne(y, span) =>
                    (x - a0) % span <= (y - a0) % span
       IN (a * c + key) % span

Offset(b, c) == b * dr.span + BlockPerm(c, BlockSpan(b), b + 1)

\* exact_explore_next
Explored(step) ==
  LET m == Perm(dr.explore, step)
      Quota(b) == QuotaPrefix(dr.set.total, dr.span, dr.n, dr.explore, b)
      b == CHOOSE b \in 0..(dr.n - 1) : m < Quota(b + 1) /\ (b = 0 \/ m >= Quota(b))
  IN Offset(b, m - Quota(b))

-----------------------------------------------------------------------------
Idle == [pc |-> "idle", step |-> 0, blk |-> 0, c |-> 0, from |-> "none", tries |-> 0, pick |-> 0]

\* The plan is the whole set; Explores are the shares of it explored first.
Init ==
  \E list \in RangeLists, sel \in Selections, e \in Explores :
    LET ranges == [i \in DOMAIN list |-> Parsed(list[i])]
        set == Sealed(ranges)
        explore == Min({e, set.total})
        n == BlocksOf(set.total)
        span == SpanOf(set.total) IN
    dr = [ranges |-> ranges, set |-> set, sel |-> sel, explore |-> explore, n |-> n, span |-> span,
          drawn |-> IF sel = "exact" THEN Reserved(set.total, span, n, explore)
                    ELSE [b \in 0..(n - 1) |-> 0],
          issued |-> 0, next |-> 0, w |-> [k \in Workers |-> Idle], probed |-> {},
          twice |-> FALSE, exhausted |-> FALSE]

Emit(d, k, pick) ==
  LET a == Nth(d.set, pick) IN
  [d EXCEPT !.probed = @ \cup {a}, !.twice = @ \/ a \in d.probed, !.w[k] = Idle,
            !.issued = IF d.sel = "uniform" THEN @ ELSE @ + 1]

Exhausted(d, k) == [d EXCEPT !.exhausted = TRUE, !.w[k] = Idle]

\* cf_next_sweep up to the first shared step of qn_bandit_next.
Enter(k) ==
  /\ dr.w[k].pc = "idle" /\ dr.next < dr.set.total
  /\ LET step == dr.next
         d == [dr EXCEPT !.next = @ + 1] IN
     dr' = CASE dr.sel = "uniform" -> Emit(d, k, Perm(dr.set.total, step))
             [] dr.issued >= dr.set.total -> Exhausted(d, k)
             [] dr.sel = "exact" /\ step < dr.explore ->
                  [d EXCEPT !.w[k] = [Idle EXCEPT !.pc = "emit", !.pick = Explored(step)]]
             [] dr.sel = "blocks" /\ step < dr.n * dr.explore ->
                  [d EXCEPT !.w[k] = [Idle EXCEPT !.pc = "take", !.from = "explore",
                                                  !.blk = Perm(dr.n, step % dr.n)]]
             [] OTHER -> [d EXCEPT !.w[k] = [Idle EXCEPT !.pc = "sample"]]

\* One attempt: a block that looks free is preferred, or the samples saw none.
Sample(k) ==
  /\ dr.w[k].pc = "sample" /\ dr.w[k].tries < Attempts
  /\ \/ \E b \in 0..(dr.n - 1) :
          /\ dr.drawn[b] < BlockSpan(b)
          /\ dr' = [dr EXCEPT !.w[k].pc = "take", !.w[k].blk = b, !.w[k].from = "sample"]
     \/ dr' = [dr EXCEPT !.w[k].tries = @ + 1]

Linear(k) ==
  /\ dr.w[k].pc = "sample" /\ dr.w[k].tries = Attempts
  /\ dr' = [dr EXCEPT !.w[k].pc = "take", !.w[k].blk = 0, !.w[k].from = "linear"]

\* take, up to its fetch_add.
Take(k) ==
  LET b == dr.w[k].blk
      c == dr.drawn[b] IN
  /\ dr.w[k].pc = "take"
  /\ dr' = [dr EXCEPT !.drawn[b] = @ + 1,
                      !.w[k].pc = IF c >= BlockSpan(b) THEN "undo" ELSE "emit",
                      !.w[k].pick = IF c >= BlockSpan(b) THEN 0 ELSE Offset(b, c)]

\* The fetch_sub of a full block, and where qn_bandit_next goes on.
Undo(k) ==
  LET r == dr.w[k]
      d == [dr EXCEPT !.drawn[r.blk] = @ - 1] IN
  /\ r.pc = "undo"
  /\ dr' = CASE r.from = "explore" -> [d EXCEPT !.w[k].pc = "sample"]
             [] r.from = "sample" -> [d EXCEPT !.w[k].pc = "sample", !.w[k].tries = @ + 1]
             [] r.blk + 1 < dr.n -> [d EXCEPT !.w[k].pc = "take", !.w[k].blk = @ + 1]
             [] OTHER -> Exhausted(d, k)

Issue(k) == dr.w[k].pc = "emit" /\ dr' = Emit(dr, k, dr.w[k].pick)

AllDrawn == dr.next = dr.set.total /\ \A k \in Workers : dr.w[k].pc = "idle"
Done == AllDrawn /\ UNCHANGED dr

Next ==
  \/ \E k \in Workers : Enter(k) \/ Sample(k) \/ Linear(k) \/ Take(k) \/ Undo(k) \/ Issue(k)
  \/ Done

-----------------------------------------------------------------------------
\* However the workers interleave on the block counters, no address is drawn
\* twice, no step is told that the set is exhausted while an address is left,
\* and a full sweep has probed exactly the addresses the range list stands for.
DrawsEachOnce ==
  /\ ~dr.twice /\ ~dr.exhausted
  /\ dr.probed \subseteq Universe(dr.ranges)
  /\ AllDrawn => dr.probed = Universe(dr.ranges)
=============================================================================
