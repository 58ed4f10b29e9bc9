-------------------------------- MODULE Cidr --------------------------------
(***************************************************************************)
(* The address set of src/core/cidr.c: prefixes are parsed, sorted, merged *)
(* and numbered, so that a scheduler can draw the address of any number    *)
(* below the total.  An address is a number of W(af) bits.  Nothing in the *)
(* program sets skip_edges, so every address of a prefix is a host.        *)
(***************************************************************************)
EXTENDS Integers, Sequences, SequencesExt, FiniteSetsExt

CONSTANTS W4, W6,        \* address widths, 32 and 128 in the code
          CapBits        \* QN_V6_SPAN_CAP is 2^CapBits, 20 in the code

W(af) == IF af = 4 THEN W4 ELSE W6
Block(p) == 2 ^ (W(p.af) - p.bits)

\* qn_prefix_hosts: a large IPv6 prefix offers only its first addresses.
Capped(p) == p.af = 6 /\ W6 - p.bits >= CapBits
Hosts(p) == IF Capped(p) THEN 2 ^ CapBits ELSE Block(p)

\* qn_cidr_parse, after the text: the host bits are cleared.
Parsed(line) ==
  [af |-> line.af, bits |-> line.bits,
   net |-> line.addr - (line.addr % 2 ^ (W(line.af) - line.bits))]

\* prefix_cmp
Precedes(a, b) ==
  IF a.af # b.af THEN a.af < b.af
  ELSE IF a.net # b.net THEN a.net < b.net ELSE a.bits < b.bits

PrefixContains(outer, inner) ==
  /\ outer.af = inner.af /\ outer.bits <= inner.bits
  /\ inner.net - (inner.net % Block(outer)) = outer.net

\* merge_siblings
Siblings(a, b) ==
  /\ a.af = b.af /\ a.bits > 0 /\ a.bits = b.bits /\ ~Capped(a)
  /\ a.net + Block(a) = b.net /\ a.net % (2 * Block(a)) = 0

Merged(a) == [a EXCEPT !.bits = @ - 1]

\* One turn of the loop in normalize_prefixes.
RECURSIVE Absorb(_, _)
Absorb(out, cur) ==
  IF out = << >> THEN << cur >>
  ELSE IF PrefixContains(Last(out), cur) THEN out
  ELSE IF Siblings(Last(out), cur) THEN Absorb(Front(out), Merged(Last(out)))
  ELSE Append(out, cur)

\* prefixes is the sequence the file gave, repeats and overlaps included.
Normalize(prefixes) == FoldLeft(Absorb, << >>, SortSeq(prefixes, Precedes))

\* qn_cidr_set_seal
CumSum(v) ==
  [i \in DOMAIN v |-> FoldLeft(LAMBDA acc, p : acc + Hosts(p), 0, SubSeq(v, 1, i))]
Sealed(prefixes) ==
  LET v == Normalize(prefixes) IN
  [v |-> v, cumsum |-> CumSum(v), total |-> IF v = << >> THEN 0 ELSE Last(CumSum(v))]

\* The binary search of qn_cidr_set_nth.
RECURSIVE Bisect(_, _, _, _)
Bisect(cumsum, idx, lo, hi) ==
  IF lo >= hi THEN lo
  ELSE LET mid == lo + (hi - lo) \div 2 IN
       IF cumsum[mid] > idx THEN Bisect(cumsum, idx, lo, mid) ELSE Bisect(cumsum, idx, mid + 1, hi)

\* qn_cidr_set_nth
Nth(s, idx) ==
  LET i == Bisect(s.cumsum, idx, 1, Len(s.v))
      base == IF i = 1 THEN 0 ELSE s.cumsum[i - 1]
  IN [af |-> s.v[i].af, addr |-> s.v[i].net + (idx - base)]

-----------------------------------------------------------------------------
\* What a prefix is for: the addresses it offers to a scan.
Offered(p) == {[af |-> p.af, addr |-> p.net + k] : k \in 0..(Hosts(p) - 1)}

\* A prefix inside another adds nothing.
Outermost(ps) == {p \in ps : \A q \in ps : PrefixContains(q, p) => q = p}

\* The addresses a list of prefixes stands for.
Universe(prefixes) == UNION {Offered(p) : p \in Outermost(ToSet(prefixes))}
=============================================================================
