---------------------------- MODULE RingProofs ----------------------------
(* The ring of src/core/ring.c for any capacity, batch and number of results:    *)
(* the indices wrap at Mod, a multiple of the capacity greater than it, and each *)
(* side decides on its own copy of the other's index.  The argument follows the  *)
(* true counts: sent and got.                                                    *)
EXTENDS Ring, SequenceTheorems, TLAPS

\* Division with remainder.
LEMMA DivMod == ASSUME NEW n \in Nat \ {0}, NEW x \in Int
  PROVE /\ x \div n \in Int /\ x % n \in 0..(n-1) /\ x = n * (x \div n) + (x % n)
OBVIOUS

\* A positive multiple is no smaller, ...
LEMMA MulPos == ASSUME NEW n \in Nat \ {0}, NEW k \in Int, k >= 1 PROVE n * k >= n
OBVIOUS

\* ... and a negative one no larger than the negative.
LEMMA MulNeg == ASSUME NEW n \in Nat \ {0}, NEW k \in Int, k <= -1 PROVE n * k <= -n
OBVIOUS

\* Multiplication over a difference, ...
LEMMA Dist == ASSUME NEW n \in Int, NEW a \in Int, NEW b \in Int PROVE n * (a - b) = n * a - n * b
OBVIOUS

\* ... over a sum, ...
LEMMA DistAdd == ASSUME NEW n \in Int, NEW a \in Int, NEW b \in Int PROVE n * (a + b) = n * a + n * b
OBVIOUS

\* ... and over a product.
LEMMA Assoc == ASSUME NEW a \in Int, NEW b \in Int, NEW c \in Int PROVE (a * b) * c = a * (b * c)
OBVIOUS

\* The remainder is unique.
LEMMA Unique == ASSUME NEW n \in Nat \ {0}, NEW q \in Int, NEW r \in 0..(n-1)
  PROVE (n * q + r) % n = r
<1> DEFINE x == n * q + r
<1>1. x \in Int OBVIOUS
<1>2. x \div n \in Int /\ x % n \in 0..(n-1) /\ x = n * (x \div n) + (x % n) BY <1>1, DivMod
<1> DEFINE k == (x \div n) - q
<1>3. k \in Int BY <1>2
<1>4. n * k = r - (x % n)
  <2>1. n * k = n * (x \div n) - n * q BY <1>2, Dist
  <2> QED BY <2>1, <1>2
<1>5. ~ (k >= 1) BY <1>3, <1>4, <1>2, MulPos
<1>6. ~ (k <= -1) BY <1>3, <1>4, <1>2, MulNeg
<1>7. k = 0 BY <1>3, <1>5, <1>6
<1>8. n * k = 0 BY <1>7
<1> QED BY <1>8, <1>4, <1>2

\* A number in terms of its quotient and remainder.
LEMMA Split == ASSUME NEW n \in Nat \ {0}, NEW x \in Int
  PROVE \E q \in Int, r \in 0..(n-1) : x = n * q + r /\ x % n = r
<1>1. x \div n \in Int /\ x % n \in 0..(n-1) /\ x = n * (x \div n) + (x % n) BY DivMod
<1> QED BY <1>1

\* The wrapped difference of two counts less than n apart is their difference.
LEMMA ModSub == ASSUME NEW n \in Nat \ {0}, NEW a \in Int, NEW b \in Int, a - b \in 0..(n-1)
  PROVE ((a % n) - (b % n)) % n = a - b
<1>1. PICK qa \in Int, ra \in 0..(n-1) : a = n * qa + ra /\ a % n = ra BY Split, Zenon
<1>2. PICK qb \in Int, rb \in 0..(n-1) : b = n * qb + rb /\ b % n = rb BY Split, Zenon
<1>3. qb - qa \in Int /\ n * (qb - qa) = n * qb - n * qa BY Dist
<1>4. ra - rb = n * (qb - qa) + (a - b) BY <1>1, <1>2, <1>3
<1>5. (n * (qb - qa) + (a - b)) % n = a - b BY <1>3, Unique
<1> QED BY <1>1, <1>2, <1>4, <1>5

\* Wrapping before an addition changes nothing after it.
LEMMA ModAdd == ASSUME NEW n \in Nat \ {0}, NEW a \in Int, NEW b \in Int
  PROVE ((a % n) + b) % n = (a + b) % n
<1>1. PICK qa \in Int, ra \in 0..(n-1) : a = n * qa + ra /\ a % n = ra BY Split, Zenon
<1>2. ra + b \in Int BY <1>1
<1>3. PICK qy \in Int, ry \in 0..(n-1) : ra + b = n * qy + ry /\ (ra + b) % n = ry BY <1>2, Split, Zenon
<1>4. qa + qy \in Int /\ n * (qa + qy) = n * qa + n * qy BY DistAdd
<1>5. a + b = n * (qa + qy) + ry BY <1>1, <1>3, <1>4
<1>6. (n * (qa + qy) + ry) % n = ry BY <1>4, Unique
<1> QED BY <1>1, <1>3, <1>5, <1>6

\* Wrapping at a multiple of c changes nothing modulo c.
LEMMA ModMod == ASSUME NEW n \in Nat \ {0}, NEW c \in Nat \ {0}, n % c = 0, NEW a \in Int
  PROVE (a % n) % c = a % c
<1>1. PICK qa \in Int, ra \in 0..(n-1) : a = n * qa + ra /\ a % n = ra BY Split
<1>2. PICK k \in Int, z \in 0..(c-1) : n = c * k + z /\ n % c = z BY Split
<1>3. n = c * k BY <1>2
<1> ra \in Int BY <1>1
<1>4. PICK qy \in Int, ry \in 0..(c-1) : ra = c * qy + ry /\ ra % c = ry BY Split, Zenon
<1>5. k * qa \in Int /\ (c * k) * qa = c * (k * qa) BY Assoc
<1>6. k * qa + qy \in Int /\ c * (k * qa + qy) = c * (k * qa) + c * qy BY <1>5, DistAdd
<1>7. n * qa = c * (k * qa) BY <1>3, <1>5
<1>8. a = c * (k * qa + qy) + ry BY <1>1, <1>4, <1>6, <1>7
<1>9. (c * (k * qa + qy) + ry) % c = ry BY <1>6, Unique
<1> QED BY <1>1, <1>4, <1>8, <1>9

\* Counts less than n apart that wrap to the same index are equal.
LEMMA ModNear == ASSUME NEW n \in Nat \ {0}, NEW a \in Int, NEW b \in Int, a % n = b % n,
                        a - b \in 0..(n-1)
  PROVE a = b
<1>1. ((a % n) - (b % n)) % n = a - b BY ModSub, Zenon
<1>2. a % n \in Int BY DivMod
<1>3. (a % n) - (b % n) = n * 0 + 0 BY <1>2
<1>4. (n * 0 + 0) % n = 0 BY Unique
<1> QED BY <1>1, <1>3, <1>4

-----------------------------------------------------------------------------
\* The unsigned difference of two indices (Sub) is that of the counts they stand for.
LEMMA SubIs == ASSUME RingParameters, NEW a \in Nat, NEW b \in Nat, a - b \in 0..Cap
  PROVE Sub(a % Mod, b % Mod) = a - b
<1>1. Mod \in Nat \ {0} /\ a - b \in 0..(Mod - 1) /\ a \in Int /\ b \in Int BY DEF RingParameters
<1> QED BY <1>1, ModSub, Zenon DEF Sub

\* An index that is advanced (Add) stands for the advanced count.
LEMMA AddIs == ASSUME RingParameters, NEW a \in Nat, NEW n \in Nat
  PROVE Add(a % Mod, n) = (a + n) % Mod
<1>1. Mod \in Nat \ {0} /\ a \in Int /\ n \in Int BY DEF RingParameters
<1> QED BY <1>1, ModAdd, Zenon DEF Add

\* The slot of an index is the slot of the count it stands for, because the capacity
\* divides the width of the indices.
LEMMA SlotIs == ASSUME RingParameters, NEW a \in Nat
  PROVE Slot(a % Mod) = a % Cap /\ a % Cap \in 0..(Cap - 1)
<1>1. Mod \in Nat \ {0} /\ Cap \in Nat \ {0} /\ Mod % Cap = 0 /\ a \in Int BY DEF RingParameters
<1> QED BY <1>1, ModMod, DivMod, Zenon DEF Slot

\* Every count has an index.
LEMMA IndexIs == ASSUME RingParameters, NEW a \in Nat
  PROVE a % Mod \in 0..(Mod - 1)
<1>1. Mod \in Nat \ {0} /\ a \in Int BY DEF RingParameters
<1> QED BY <1>1, DivMod

\* Results less than a capacity apart lie in different slots.
LEMMA OtherSlot == ASSUME RingParameters, NEW a \in Nat, NEW b \in Nat, a - b \in 1..(Cap - 1)
  PROVE a % Cap # b % Cap
<1> SUFFICES ASSUME a % Cap = b % Cap PROVE FALSE OBVIOUS
<1>1. Cap \in Nat \ {0} /\ a - b \in 0..(Cap - 1) /\ a \in Int /\ b \in Int BY DEF RingParameters
<1>2. a = b BY <1>1, ModNear, SMTT(30)
<1> QED BY <1>2

-----------------------------------------------------------------------------
\* qn_ring_init establishes the invariant.
LEMMA InitInv == ASSUME RingParameters, Init PROVE RingIInv
<1>0. 0 % Mod = 0 /\ 0 \in 0..(Mod-1)
  <2>1. Mod \in Nat \ {0} BY DEF RingParameters
  <2>2. (Mod * 0 + 0) % Mod = 0 BY <2>1, Unique
  <2> QED BY <2>1, <2>2
<1>1. Len(sent) = 0 /\ Len(got) = 0 /\ Len(cons.dst) = 0 BY DEF Init, IdleCons
<1>2. TypeOK BY <1>0 DEF Init, TypeOK, IdleProd, IdleCons, RingParameters, Torn, Items
<1>3. IndicesCount BY <1>0, <1>1 DEF Init, IndicesCount
<1>4. ProducerView BY <1>0, <1>1 DEF Init, ProducerView, IdleProd, RingParameters
<1>5. ConsumerView BY <1>0, <1>1 DEF Init, ConsumerView, IdleCons
<1>6. Stored BY <1>1 DEF Init, Stored, IdleProd
<1> QED BY <1>2, <1>3, <1>4, <1>5, <1>6 DEF RingIInv

\* qn_ring_reset keeps it.
LEMMA ResetInv == ASSUME RingParameters, RingIInv, Reset PROVE RingIInv'
<1>0. 0 % Mod = 0 /\ 0 \in 0..(Mod-1)
  <2>1. Mod \in Nat \ {0} BY DEF RingParameters
  <2>2. (Mod * 0 + 0) % Mod = 0 BY <2>1, Unique
  <2> QED BY <2>1, <2>2
<1>1. Len(sent') = 0 /\ Len(got') = 0 /\ cons'.n = 0 /\ Len(cons'.dst) = 0
  BY DEF Reset, RingIInv, ConsumerView, TypeOK
<1>2. TypeOK' BY <1>0 DEF Reset, RingIInv, TypeOK, RingParameters
<1>3. IndicesCount' BY <1>0, <1>1 DEF Reset, IndicesCount
<1>4. ProducerView' BY <1>0, <1>1 DEF Reset, ProducerView, RingParameters
<1>5. ConsumerView' BY <1>0, <1>1 DEF Reset, ConsumerView
<1>6. Stored' BY <1>1 DEF Reset, Stored
<1> QED BY <1>2, <1>3, <1>4, <1>5, <1>6 DEF RingIInv

\* The counts behind the indices: no more handed out than published, and no more than
\* a capacity unread.
LEMMA Counts == ASSUME RingParameters, RingIInv
  PROVE /\ Len(sent) \in Nat /\ Len(got) \in Nat /\ Len(got) <= Len(sent)
        /\ Cap \in Nat \ {0, 1} /\ Len(cons.dst) \in Nat /\ cons.n \in Nat
        /\ Len(got) + cons.n <= Len(sent) /\ Len(sent) - Len(got) <= Cap
        /\ prod.pc # "idle" => Len(sent) - Len(got) < Cap /\ prod.item \in Items
<1>1. Cap \in Nat \ {0, 1} /\ cons.n \in Nat BY DEF RingIInv, TypeOK, RingParameters
<1>2. Len(sent) \in Nat /\ Len(got) \in Nat BY DEF RingIInv, TypeOK
<1>3. Len(cons.dst) \in Nat BY DEF RingIInv, TypeOK
<1>4. Len(got) <= Len(sent) /\ Len(got) + cons.n <= Len(sent)
  BY <1>1, <1>2 DEF RingIInv, ConsumerView
<1>5. Len(sent) - Len(got) <= Cap /\ (prod.pc # "idle" => Len(sent) - Len(got) < Cap)
  BY <1>1, <1>2 DEF RingIInv, ProducerView
<1>6. prod.pc # "idle" => prod.item \in Items BY DEF RingIInv, Stored
<1> QED BY <1>1, <1>2, <1>3, <1>4, <1>5, <1>6

\* qn_ring_push, the check: room by the copy of the consumer's index is room.
LEMMA PushCheckInv == ASSUME RingParameters, RingIInv, PushCheck PROVE RingIInv'
<1> DEFINE P == Len(sent)
           G == Len(got)
<1>1. /\ P \in Nat /\ G \in Nat /\ Cap \in Nat /\ pushes \in Nat /\ pushes' \in Items
      /\ G <= P
  <2>1. pushes \in Nat /\ pushes' \in Items
    BY DEF RingIInv, TypeOK, RingParameters, PushCheck, Items
  <2> QED BY <2>1, Counts
<1>2. PICK c \in 0..G : /\ tailCache = c % Mod /\ P - c <= Cap
  BY DEF RingIInv, ProducerView
<1>3. PICK e \in 0..G : /\ tailCache' = e % Mod /\ P - e <= Cap
  <2>1. CASE LooksFull(tailCache)
    <3>1. tailCache' = G % Mod BY <2>1 DEF PushCheck, RingIInv, IndicesCount
    <3>2. G \in 0..G /\ P - G <= Cap BY <1>1, <1>2
    <3> QED BY <3>1, <3>2
  <2>2. CASE ~LooksFull(tailCache)
    BY <2>2, <1>2 DEF PushCheck
  <2> QED BY <2>1, <2>2
<1>4. LooksFull(tailCache') <=> P - e > Cap - 1
  <2>1. e \in Nat /\ P - e \in 0..Cap BY <1>1, <1>3
  <2>2. Sub(tail, tailCache') = P - e BY <2>1, <1>1, <1>3, SubIs DEF RingIInv, IndicesCount
  <2> QED BY <2>2 DEF LooksFull
<1>5. TypeOK'
  <2>1. tailCache' \in 0..(Mod - 1) BY DEF PushCheck, RingIInv, TypeOK
  <2>2. dropped' \in Nat BY SMTT(30) DEF PushCheck, RingIInv, TypeOK
  <2>3. prod' \in [pc : {"idle", "copy", "copying", "publish"}, item : Items \cup {Torn}]
    BY <1>1, SMTT(30) DEF PushCheck, RingIInv, TypeOK
  <2>4. pushes' \in 0..MaxPush BY <1>1 DEF PushCheck, Items, RingParameters
  <2> QED BY <2>1, <2>2, <2>3, <2>4 DEF PushCheck, RingIInv, TypeOK
<1>6. prod'.pc # "idle" => P - e < Cap
  <2>1. CASE LooksFull(tailCache') BY <2>1 DEF PushCheck
  <2>2. CASE ~LooksFull(tailCache') BY <2>2, <1>1, <1>3, <1>4
  <2> QED BY <2>1, <2>2
<1>7. ProducerView' BY <1>3, <1>6 DEF ProducerView, PushCheck
<1>8. IndicesCount' /\ ConsumerView'
  BY SMTT(30) DEF PushCheck, RingIInv, IndicesCount, ConsumerView
<1>9. Stored' BY <1>1 DEF PushCheck, RingIInv, Stored
<1> QED BY <1>5, <1>7, <1>8, <1>9 DEF RingIInv

\* qn_ring_push, the copy: the slot written holds no unread result.
LEMMA PushCopyInv == ASSUME RingParameters, RingIInv, PushCopy PROVE RingIInv'
<1> DEFINE P == Len(sent)
           G == Len(got)
           word == IF prod.pc = "copying" THEN prod.item ELSE Torn
<1>1. /\ P \in Nat /\ G \in Nat /\ Cap \in Nat \ {0, 1} /\ prod.pc # "idle" /\ G <= P
  BY Counts DEF PushCopy
<1>2. P - G < Cap BY <1>1, Counts
<1>3. Slot(tail) = P % Cap /\ P % Cap \in 0..(Cap - 1)
  BY <1>1, SlotIs, Zenon DEF RingIInv, IndicesCount
<1>4. buf' = [buf EXCEPT ![P % Cap] = word] BY <1>3 DEF PushCopy
<1>5. word \in Items \cup {Torn} BY DEF RingIInv, TypeOK
<1>6. TypeOK'
  <2>1. buf' \in [0..(Cap - 1) -> Items \cup {Torn}]
    BY <1>3, <1>4, <1>5 DEF RingIInv, TypeOK
  <2> QED BY <2>1, Zenon DEF PushCopy, RingIInv, TypeOK
<1>7. IndicesCount' /\ ConsumerView'
  BY DEF PushCopy, RingIInv, IndicesCount, ConsumerView
<1>8. ProducerView' BY <1>1 DEF PushCopy, RingIInv, ProducerView, TypeOK
<1>9. Stored'
  <2>1. ASSUME NEW i \in (G + 1)..P PROVE buf'[(i - 1) % Cap] = sent[i]
    <3>1. i - 1 \in Nat /\ P - (i - 1) \in 1..(Cap - 1) BY <1>1, <1>2
    <3>2. P % Cap # (i - 1) % Cap BY <3>1, <1>1, OtherSlot, Zenon
    <3>3. (i - 1) % Cap \in 0..(Cap - 1) BY <3>1, SlotIs, Zenon
    <3>4. buf'[(i - 1) % Cap] = buf[(i - 1) % Cap] BY <1>4, <3>2, <3>3 DEF RingIInv, TypeOK
    <3> QED BY <3>4 DEF RingIInv, Stored
  <2>2. prod'.pc = "publish" => buf'[P % Cap] = prod'.item
    <3>1. buf'[P % Cap] = word BY <1>3, <1>4 DEF RingIInv, TypeOK
    <3>2. prod'.item = prod.item /\ (prod'.pc = "publish" => prod.pc = "copying")
      BY DEF PushCopy, RingIInv, TypeOK
    <3> QED BY <3>1, <3>2
  <2>3. prod'.item \in Items BY <1>1 DEF PushCopy, RingIInv, TypeOK, Stored
  <2>4. UNCHANGED <<sent, got, cons>> BY DEF PushCopy
  <2> QED BY <2>1, <2>2, <2>3, <2>4 DEF RingIInv, Stored
<1> QED BY <1>6, <1>7, <1>8, <1>9 DEF RingIInv

\* qn_ring_push, the release: the slot published is whole.
LEMMA PushPublishInv == ASSUME RingParameters, RingIInv, PushPublish PROVE RingIInv'
<1> DEFINE P == Len(sent)
           G == Len(got)
<1>1. /\ P \in Nat /\ G \in Nat /\ Cap \in Nat \ {0, 1} /\ prod.pc = "publish" /\ G <= P
      /\ prod.item \in Items /\ sent \in Seq(Items)
  BY Counts, SMTT(30) DEF RingIInv, TypeOK, PushPublish
<1>2. /\ sent' \in Seq(Items) /\ Len(sent') = P + 1 /\ sent'[P + 1] = prod.item
      /\ \A i \in 1..P : sent'[i] = sent[i]
  BY <1>1 DEF PushPublish
<1>3. tail' = (P + 1) % Mod BY <1>1, AddIs DEF PushPublish, RingIInv, IndicesCount
<1>4. TypeOK'
  <2>1. tail' \in 0..(Mod - 1) BY <1>1, <1>3, IndexIs
  <2> QED BY <2>1, <1>2 DEF PushPublish, RingIInv, TypeOK, IdleProd
<1>5. IndicesCount' BY <1>2, <1>3 DEF PushPublish, RingIInv, IndicesCount
<1>6. ProducerView' BY <1>1, <1>2 DEF PushPublish, RingIInv, ProducerView, IdleProd
<1>7. ConsumerView' BY <1>1, <1>2 DEF PushPublish, RingIInv, ConsumerView
<1>8. Stored'
  <2>1. \A i \in 1..G : got'[i] = sent'[i]
    BY <1>1, <1>2 DEF PushPublish, RingIInv, Stored
  <2>2. \A i \in 1..Len(cons.dst) : cons'.dst[i] = sent'[G + i]
    <3>1. Len(cons.dst) \in Nat /\ G + Len(cons.dst) <= P
      BY <1>1, SMTT(30) DEF RingIInv, ConsumerView, TypeOK
    <3> QED BY <3>1, <1>1, <1>2, SMTT(30) DEF PushPublish, RingIInv, Stored
  <2>3. ASSUME NEW i \in (G + 1)..(P + 1) PROVE buf'[(i - 1) % Cap] = sent'[i]
    <3>1. CASE i = P + 1 BY <3>1, <1>1, <1>2 DEF PushPublish, RingIInv, Stored
    <3>2. CASE i # P + 1
      BY <3>2, <1>1, <1>2 DEF PushPublish, RingIInv, Stored
    <3> QED BY <3>1, <3>2
  <2> QED BY <2>1, <2>2, <2>3, <1>2, Zenon DEF PushPublish, Stored, IdleProd
<1> QED BY <1>4, <1>5, <1>6, <1>7, <1>8 DEF RingIInv

\* qn_ring_pop_batch, the check: the batch lies within what was published.
LEMMA PopCheckInv ==
  ASSUME RingParameters, RingIInv, NEW max \in 1..MaxBatch, PopCheck(max)
  PROVE  RingIInv'
<1> DEFINE P == Len(sent)
           G == Len(got)
<1>1. P \in Nat /\ G \in Nat /\ Cap \in Nat /\ G <= P /\ P - G <= Cap BY Counts
<1>2. PICK d \in G..P : headCache' = d % Mod
  <2>1. CASE head = headCache
    <3>1. headCache' = P % Mod /\ P \in G..P
      BY <2>1, <1>1 DEF PopCheck, RingIInv, IndicesCount
    <3> QED BY <3>1
  <2>2. CASE head # headCache BY <2>2 DEF PopCheck, RingIInv, ConsumerView
  <2> QED BY <2>1, <2>2
<1>3. d \in Nat /\ d - G \in 1..Cap
  <2>1. d \in Nat /\ d - G \in 0..Cap BY <1>1, <1>2
  <2>2. d # G BY <1>2 DEF PopCheck, RingIInv, IndicesCount
  <2> QED BY <2>1, <2>2, <1>1
<1>4. Sub(headCache', head) = d - G
  BY <1>1, <1>2, <1>3, SubIs DEF RingIInv, IndicesCount
<1>5. PICK n \in 1..MaxBatch : /\ n <= d - G
                               /\ cons' = [pc |-> "copy", n |-> n, dst |-> << >>]
  <2> DEFINE m == IF d - G > max THEN max ELSE d - G
  <2>1. MaxBatch \in Nat BY DEF RingParameters
  <2>2. m \in 1..MaxBatch /\ m <= d - G BY <1>3, <2>1
  <2>3. cons' = [pc |-> "copy", n |-> m, dst |-> << >>] BY <1>4 DEF PopCheck
  <2> QED BY <2>2, <2>3
<1>6. cons'.pc = "copy" /\ cons'.n = n /\ cons'.dst = << >> /\ Len(cons'.dst) = 0
  BY <1>5
<1>7. TypeOK'
  <2>1. headCache' \in 0..(Mod - 1) BY <1>2, <1>3, IndexIs
  <2>2. n \in 0..MaxBatch BY <1>5 DEF RingParameters
  <2>3. cons' \in [pc : {"idle", "copy"}, n : 0..MaxBatch, dst : Seq(Items \cup {Torn})]
    BY <1>5, <2>2
  <2> QED BY <2>1, <2>3 DEF PopCheck, RingIInv, TypeOK
<1>8. IndicesCount' /\ ProducerView' BY SMTT(30) DEF PopCheck, RingIInv, IndicesCount, ProducerView
<1>9. ConsumerView'
  <2>1. Len(got') = G /\ Len(sent') = P BY DEF PopCheck
  <2>2. d \in Len(got')..Len(sent') /\ headCache' = d % Mod /\ cons'.n <= d - Len(got')
    BY <2>1, <1>2, <1>5, <1>6
  <2>3. n >= 1 /\ 0 <= n BY <1>5
  <2> QED BY <2>2, <2>3, <1>6 DEF ConsumerView
<1>10. Stored' BY <1>6 DEF PopCheck, RingIInv, Stored
<1> QED BY <1>7, <1>8, <1>9, <1>10 DEF RingIInv

\* qn_ring_pop_batch, one copy: the slot read is the next result.
LEMMA PopCopyInv == ASSUME RingParameters, RingIInv, PopCopy PROVE RingIInv'
<1> DEFINE P == Len(sent)
           G == Len(got)
           k == Len(cons.dst)
           word == buf[(G + k) % Cap]
<1>1. /\ P \in Nat /\ G \in Nat /\ k \in Nat /\ cons.n \in Nat /\ G + k < P /\ k < cons.n
      /\ cons.pc = "copy"
  BY Counts DEF PopCopy
<1>2. Slot(Add(head, k)) = (G + k) % Cap /\ (G + k) % Cap \in 0..(Cap - 1)
  <2>1. Add(head, k) = (G + k) % Mod BY <1>1, AddIs, Zenon DEF RingIInv, IndicesCount
  <2>2. G + k \in Nat BY <1>1
  <2> QED BY <2>1, <2>2, SlotIs
<1>3. word = sent[G + k + 1]
  <2>1. G + k + 1 \in (G + 1)..P /\ (G + k + 1) - 1 = G + k BY <1>1
  <2> QED BY <2>1 DEF RingIInv, Stored
<1>4. cons' = [cons EXCEPT !.dst = Append(cons.dst, word)] BY <1>2 DEF PopCopy
<1>5. /\ word \in Items \cup {Torn}
      /\ cons.dst \in Seq(Items \cup {Torn})
  BY <1>2 DEF RingIInv, TypeOK
<1>6. /\ cons'.pc = cons.pc /\ cons'.n = cons.n /\ cons'.dst = Append(cons.dst, word)
      /\ cons' \in [pc : {"idle", "copy"}, n : 0..MaxBatch, dst : Seq(Items \cup {Torn})]
  <2> DEFINE next == Append(cons.dst, word)
  <2>1. next \in Seq(Items \cup {Torn}) BY <1>5
  <2>2. cons' = [cons EXCEPT !.dst = next] BY <1>4
  <2> HIDE DEF next
  <2>3. /\ cons'.pc = cons.pc /\ cons'.n = cons.n /\ cons'.dst = next
        /\ cons' \in [pc : {"idle", "copy"}, n : 0..MaxBatch, dst : Seq(Items \cup {Torn})]
    BY <2>1, <2>2, Zenon DEF RingIInv, TypeOK
  <2> QED BY <2>3 DEF next
<1>7. /\ Len(cons'.dst) = k + 1 /\ cons'.dst[k + 1] = word
      /\ \A i \in 1..k : cons'.dst[i] = cons.dst[i]
  BY <1>5, <1>6
<1>8. TypeOK' BY <1>6 DEF PopCopy, RingIInv, TypeOK
<1>9. IndicesCount' /\ ProducerView' BY DEF PopCopy, RingIInv, IndicesCount, ProducerView
<1>10. ConsumerView' BY <1>1, <1>6, <1>7, SMTT(30) DEF PopCopy, RingIInv, ConsumerView
<1>11. Stored'
  <2>1. ASSUME NEW i \in 1..(k + 1) PROVE cons'.dst[i] = sent[G + i]
    <3>1. CASE i = k + 1
      <4>1. G + i = G + k + 1 BY <3>1, <1>1
      <4> QED BY <4>1, <3>1, <1>3, <1>7
    <3>2. CASE i # k + 1
      <4>1. i \in 1..k BY <3>2, <1>1
      <4> QED BY <4>1, <1>7 DEF RingIInv, Stored
    <3> QED BY <3>1, <3>2
  <2> QED BY <2>1, <1>7 DEF PopCopy, RingIInv, Stored
<1> QED BY <1>8, <1>9, <1>10, <1>11 DEF RingIInv

\* qn_ring_pop_batch, the release: the batch is handed out.
LEMMA PopPublishInv == ASSUME RingParameters, RingIInv, PopPublish PROVE RingIInv'
<1> DEFINE P == Len(sent)
           G == Len(got)
           k == Len(cons.dst)
<1>1. /\ P \in Nat /\ G \in Nat /\ k \in Nat /\ cons.n = k /\ G + k <= P
      /\ P - G <= Cap /\ Cap \in Nat
  BY Counts DEF PopPublish
<1>2. /\ got \in Seq(Items \cup {Torn}) /\ cons.dst \in Seq(Items \cup {Torn})
  BY DEF RingIInv, TypeOK
<1>3. /\ got' \in Seq(Items \cup {Torn}) /\ Len(got') = G + k
      /\ \A i \in 1..G : got'[i] = got[i]
      /\ \A i \in 1..k : got'[G + i] = cons.dst[i]
  BY <1>1, <1>2 DEF PopPublish
<1>4. head' = (G + k) % Mod BY <1>1, AddIs, Zenon DEF PopPublish, RingIInv, IndicesCount
<1>5. cons' = IdleCons /\ cons'.pc = "idle" /\ cons'.n = 0 /\ Len(cons'.dst) = 0
  BY DEF PopPublish, IdleCons
<1>6. TypeOK'
  <2>0. G + k \in Nat BY <1>1
  <2>1. head' \in 0..(Mod - 1) BY <2>0, <1>4, IndexIs
  <2>2. cons' \in [pc : {"idle", "copy"}, n : 0..MaxBatch, dst : Seq(Items \cup {Torn})]
    BY <1>5, SMTT(30) DEF IdleCons, RingParameters
  <2> QED BY <2>1, <2>2, <1>3 DEF PopPublish, RingIInv, TypeOK
<1>7. IndicesCount' BY <1>3, <1>4 DEF PopPublish, RingIInv, IndicesCount
<1>8. ProducerView'
  <2>1. PICK c \in 0..G : /\ tailCache = c % Mod /\ P - c <= Cap
                          /\ prod.pc # "idle" => P - c < Cap
    BY DEF RingIInv, ProducerView
  <2>2. c \in 0..(G + k) BY <1>1, <2>1
  <2> QED BY <2>1, <2>2, <1>3, Zenon DEF PopPublish, ProducerView
<1>9. ConsumerView'
  <2>1. PICK d \in G..P : headCache = d % Mod /\ cons.n <= d - G
    BY DEF RingIInv, ConsumerView
  <2>2. d \in (G + k)..P /\ 0 <= d - (G + k) BY <1>1, <2>1
  <2> QED BY <2>1, <2>2, <1>3, <1>5 DEF PopPublish, ConsumerView
<1>10. Stored'
  <2>1. ASSUME NEW i \in 1..(G + k) PROVE got'[i] = sent[i]
    <3>1. CASE i \in 1..G BY <3>1, <1>3 DEF RingIInv, Stored
    <3>2. CASE i \notin 1..G
      <4>1. i - G \in 1..k /\ G + (i - G) = i BY <3>2, <1>1
      <4>2. got'[G + (i - G)] = cons.dst[i - G] BY <4>1, <1>3
      <4>3. cons.dst[i - G] = sent[G + (i - G)] BY <4>1 DEF RingIInv, Stored
      <4> QED BY <4>1, <4>2, <4>3
    <3> QED BY <3>1, <3>2
  <2>2. \A i \in (G + k + 1)..P : buf[(i - 1) % Cap] = sent[i]
    BY <1>1 DEF RingIInv, Stored
  <2>3. \A i \in 1..Len(cons'.dst) : FALSE BY <1>5
  <2>4. UNCHANGED <<sent, buf, prod>> BY DEF PopPublish
  <2> QED BY <2>1, <2>2, <2>3, <2>4, <1>3 DEF RingIInv, Stored
<1> QED BY <1>6, <1>7, <1>8, <1>9, <1>10 DEF RingIInv

\* Every step keeps the invariant.
LEMMA NextInv == ASSUME RingParameters, RingIInv, [Next]_vars PROVE RingIInv'
<1>1. CASE PushCheck BY <1>1, PushCheckInv
<1>2. CASE PushCopy BY <1>2, PushCopyInv
<1>3. CASE PushPublish BY <1>3, PushPublishInv
<1>4. ASSUME NEW max \in 1..MaxBatch, PopCheck(max) PROVE RingIInv' BY <1>4, PopCheckInv
<1>5. CASE PopCopy BY <1>5, PopCopyInv
<1>6. CASE PopPublish BY <1>6, PopPublishInv
<1>7. CASE Reset BY <1>7, ResetInv, SMTT(30)
<1>8. CASE UNCHANGED vars
  BY <1>8, SMTT(30) DEF vars, RingIInv, TypeOK, IndicesCount, ProducerView, ConsumerView, Stored
<1> QED BY <1>1, <1>2, <1>3, <1>4, <1>5, <1>6, <1>7, <1>8 DEF Next, Produce, Consume

\* The invariant implies that the copies are conservative, ...
LEMMA Conservative == ASSUME RingParameters, RingIInv PROVE CachesAreConservative
<1> DEFINE P == Len(sent)
           G == Len(got)
<1>1. P \in Nat /\ G \in Nat /\ Cap \in Nat /\ G <= P /\ P - G <= Cap BY Counts
<1>2. PICK c \in 0..G : tailCache = c % Mod /\ P - c <= Cap BY DEF RingIInv, ProducerView
<1>3. PICK d \in G..P : headCache = d % Mod BY DEF RingIInv, ConsumerView
<1>4. /\ c \in Nat /\ P - c \in 0..Cap /\ P - G <= P - c
      /\ d \in Nat /\ d - G \in 0..Cap /\ d - G <= P - G
      /\ P - G \in 0..Cap
  BY <1>1, <1>2, <1>3
<1>5. Sub(tail, head) = P - G BY <1>1, <1>4, SubIs DEF RingIInv, IndicesCount
<1>6. Sub(tail, tailCache) = P - c BY <1>1, <1>2, <1>4, SubIs DEF RingIInv, IndicesCount
<1>7. Sub(headCache, head) = d - G BY <1>1, <1>3, <1>4, SubIs DEF RingIInv, IndicesCount
<1> QED BY <1>2, <1>4, <1>5, <1>6, <1>7 DEF CachesAreConservative

\* ... and that results come out in order and whole.
LEMMA InOrder == ASSUME RingParameters, RingIInv PROVE InOrderAndWhole
<1> DEFINE P == Len(sent)
           G == Len(got)
           k == Len(cons.dst)
           S == Items \cup {Torn}
           out == got \o cons.dst
<1>1. P \in Nat /\ G \in Nat /\ k \in Nat /\ G + k <= P
  <2>1. k <= cons.n BY DEF RingIInv, ConsumerView
  <2> QED BY <2>1, Counts
<1>2. got \in Seq(S) /\ cons.dst \in Seq(S) /\ sent \in Seq(Items) BY DEF RingIInv, TypeOK
<1>3. /\ out \in Seq(S) /\ Len(out) = G + k
      /\ \A i \in 1..(G + k) : out[i] = IF i <= G THEN got[i] ELSE cons.dst[i - G]
  BY <1>2, ConcatProperties
<1>4. ASSUME NEW i \in 1..(G + k) PROVE out[i] = sent[i]
  <2>1. i \in 1..P BY <1>1
  <2>2. sent[i] \in S BY <2>1, <1>2, ElementOfSeq
  <2>3. CASE i <= G
    <3>1. i \in 1..G BY <2>3, <1>1
    <3>2. got[i] = sent[i] BY <3>1 DEF RingIInv, Stored
    <3> QED BY <2>2, <2>3, <3>2, <1>3
  <2>4. CASE ~(i <= G)
    <3>1. i - G \in 1..k /\ G + (i - G) = i BY <2>4, <1>1
    <3>2. cons.dst[i - G] = sent[G + (i - G)] BY <3>1 DEF RingIInv, Stored
    <3> QED BY <2>2, <2>4, <3>1, <3>2, <1>3
  <2> QED BY <2>3, <2>4
<1> QED BY <1>1, <1>3, <1>4 DEF InOrderAndWhole

\* In every reachable state, for any capacity that divides the width of the indices
\* and any batch: qn_ring keeps its types, each side's copy of the other's index is
\* conservative, and the results handed out are those published, in order and whole.
THEOREM RingCorrect == ASSUME RingParameters PROVE Spec => []RingInv
<1>1. Init => RingIInv BY InitInv
<1>2. RingIInv /\ [Next]_vars => RingIInv' BY NextInv
<1>3. RingIInv => RingInv BY Conservative, InOrder DEF RingInv, RingIInv
<1> QED BY <1>1, <1>2, <1>3, PTL DEF Spec

-----------------------------------------------------------------------------
\* What is left of a sequence after its first g elements.
LEMMA Suffix == ASSUME NEW s \in Seq(Items), NEW g \in Nat, g <= Len(s)
  PROVE /\ SubSeq(s, g + 1, Len(s)) \in Seq(Items)
        /\ Len(SubSeq(s, g + 1, Len(s))) = Len(s) - g
        /\ \A i \in 1..(Len(s) - g) : SubSeq(s, g + 1, Len(s))[i] = s[g + i]
<1> DEFINE p == Len(s)
           rest == SubSeq(s, g + 1, p)
<1>1. p \in Nat BY LenProperties
<1>2. ASSUME NEW i \in (g + 1)..p PROVE s[i] \in Items
  <2>1. i \in 1..p BY <1>1
  <2> QED BY <2>1, ElementOfSeq
<1>3. g + 1 \in Int /\ p \in Int BY <1>1
<1>4. /\ rest \in Seq(Items)
      /\ Len(rest) = IF g + 1 <= p THEN p - (g + 1) + 1 ELSE 0
      /\ \A i \in 1..(p - (g + 1) + 1) : rest[i] = s[(g + 1) + i - 1]
  BY <1>2, <1>3, SubSeqProperties
<1>5. \A i \in 1..(p - g) : i \in 1..(p - (g + 1) + 1) /\ (g + 1) + i - 1 = g + i BY <1>1
<1> HIDE DEF rest
<1>6. rest \in Seq(Items) /\ Len(rest) = p - g /\ \A i \in 1..(p - g) : rest[i] = s[g + i]
  BY <1>1, <1>4, <1>5
<1> QED BY <1>6, SMTT(30) DEF rest

\* The unread results as a queue.
LEMMA Queue == ASSUME RingParameters, RingIInv
  PROVE /\ queued \in Seq(Items) /\ Len(queued) = Len(sent) - Len(got)
        /\ \A i \in 1..(Len(sent) - Len(got)) : queued[i] = sent[Len(got) + i]
<1>1. sent \in Seq(Items) BY DEF RingIInv, TypeOK
<1> QED BY <1>1, Counts, Suffix DEF queued

\* The release of a push adds its result at the end of the queue.
LEMMA PublishEnqueues == ASSUME RingParameters, RingIInv, RingIInv', PushPublish PROVE Fifo!Enqueue
<1> DEFINE P == Len(sent)
           G == Len(got)
           item == prod.item
<1>1. /\ P \in Nat /\ G \in Nat /\ G <= P /\ P - G < Cap /\ item \in Items
  BY Counts DEF PushPublish
<1>2. /\ Len(sent') = P + 1 /\ sent'[P + 1] = item /\ got' = got
      /\ \A i \in 1..P : sent'[i] = sent[i]
  <2>1. sent \in Seq(Items) BY DEF RingIInv, TypeOK
  <2> QED BY <2>1, <1>1, AppendProperties DEF PushPublish
<1>3. /\ queued \in Seq(Items) /\ Len(queued) = P - G
      /\ \A i \in 1..(P - G) : queued[i] = sent[G + i]
  BY Queue
<1>4. /\ queued' \in Seq(Items) /\ Len(queued') = (P + 1) - G
      /\ \A i \in 1..((P + 1) - G) : queued'[i] = sent'[G + i]
  <2>1. sent' \in Seq(Items) /\ G <= Len(sent') BY <1>1, <1>2 DEF RingIInv, TypeOK
  <2>2. queued' = SubSeq(sent', G + 1, Len(sent')) BY <1>2 DEF queued
  <2> QED BY <2>1, <2>2, <1>1, <1>2, Suffix, SMTT(30)
<1>5. queued' = Append(queued, item)
  <2> DEFINE next == Append(queued, item)
  <2>1. /\ next \in Seq(Items) /\ Len(next) = P - G + 1
        /\ \A i \in 1..(P - G) : next[i] = queued[i]
        /\ next[P - G + 1] = item
    BY <1>1, <1>3, AppendProperties
  <2> HIDE DEF next
  <2>2. ASSUME NEW i \in 1..((P + 1) - G) PROVE queued'[i] = next[i]
    <3>1. CASE i = P - G + 1
      <4>1. G + i = P + 1 BY <3>1, <1>1
      <4> QED BY <3>1, <4>1, <1>2, <1>4, <2>1, SMTT(30)
    <3>2. CASE i # P - G + 1
      <4>1. i \in 1..(P - G) /\ G + i \in 1..P BY <3>2, <1>1
      <4>2. queued'[i] = sent'[G + i] BY <1>4
      <4>3. next[i] = sent[G + i] BY <4>1, <1>3, <2>1, SMTT(30)
      <4> QED BY <4>1, <4>2, <4>3, <1>2
    <3> QED BY <3>1, <3>2
  <2>3. Len(queued') = Len(next) BY <1>1, <1>4, <2>1
  <2>4. queued' = next BY <1>4, <2>1, <2>2, <2>3, SeqEqual
  <2> QED BY <2>4 DEF next
<1>6. dropped' = dropped BY DEF PushPublish
<1> QED BY <1>1, <1>3, <1>5, <1>6 DEF Fifo!Enqueue

\* The elements of s after the first g.
Rest(s, g) == SubSeq(s, g + 1, Len(s))

\* Taking g and then k elements is taking g + k.
LEMMA RestOfRest == ASSUME NEW s \in Seq(Items), NEW g \in Nat, NEW k \in Nat, NEW h \in Nat,
                           h = g + k, h <= Len(s)
  PROVE Rest(s, h) = Rest(Rest(s, g), k) /\ k <= Len(Rest(s, g))
<1> DEFINE rest == SubSeq(s, g + 1, Len(s))
<1> DEFINE p == Len(s)
           left == SubSeq(s, h + 1, p)
           right == SubSeq(rest, k + 1, Len(rest))
<1>1. p \in Nat /\ g <= p BY LenProperties
<1>2. rest \in Seq(Items) /\ Len(rest) = p - g /\ \A i \in 1..(p - g) : rest[i] = s[g + i]
  BY <1>1, Suffix
<1>3. left \in Seq(Items) /\ Len(left) = p - h /\ \A i \in 1..(p - h) : left[i] = s[h + i]
  BY Suffix
<1> HIDE DEF left, rest
<1>4. k <= Len(rest) BY <1>1, <1>2
<1>5. /\ right \in Seq(Items) /\ Len(right) = Len(rest) - k
      /\ \A i \in 1..(Len(rest) - k) : right[i] = rest[k + i]
  BY <1>2, <1>4, Suffix
<1> HIDE DEF right
<1>6. Len(right) = Len(left) BY <1>1, <1>2, <1>3, <1>5
<1>7. ASSUME NEW i \in 1..Len(left) PROVE left[i] = right[i]
  <2>1. /\ i \in 1..(p - h) /\ i \in 1..(Len(rest) - k) /\ k + i \in 1..(p - g)
        /\ g + (k + i) = h + i
    BY <1>1, <1>2, <1>3
  <2>2. left[i] = s[h + i] BY <2>1, <1>3, Zenon
  <2>3. right[i] = rest[k + i] BY <2>1, <1>5
  <2>4. rest[k + i] = s[g + (k + i)] BY <2>1, <1>2
  <2> QED BY <2>1, <2>2, <2>3, <2>4, SMTT(30)
<1>8. left = right BY <1>3, <1>5, <1>6, <1>7, SeqEqual, Zenon
<1> QED BY <1>4, <1>8 DEF left, right, rest, Rest

\* The release of a batch takes it from the front of the queue.
LEMMA PopDequeues == ASSUME RingParameters, RingIInv, PopPublish PROVE Fifo!DequeueBatch
<1> DEFINE G == Len(got)
           k == cons.n
<1>1. G \in Nat /\ k \in Nat /\ k >= 1 /\ G + k <= Len(sent)
  <2>1. k >= 1 BY DEF PopPublish, RingIInv, ConsumerView
  <2> QED BY <2>1, Counts
<1>2. Len(got') = G + k /\ sent' = sent /\ dropped' = dropped
  <2>1. got \in Seq(Items \cup {Torn}) /\ cons.dst \in Seq(Items \cup {Torn})
    BY DEF RingIInv, TypeOK
  <2> QED BY <2>1, ConcatProperties DEF PopPublish
<1>3. sent \in Seq(Items) BY DEF RingIInv, TypeOK
<1>4. PICK h \in Nat : h = G + k BY <1>1
<1>5. queued' = SubSeq(sent, h + 1, Len(sent)) BY <1>2, <1>4 DEF queued
<1>6. queued' = SubSeq(queued, k + 1, Len(queued)) /\ k <= Len(queued)
  <2>1. queued = Rest(sent, G) BY DEF queued, Rest
  <2>2. h <= Len(sent) BY <1>1, <1>4
  <2> HIDE DEF G, k
  <2>3. Rest(sent, h) = Rest(Rest(sent, G), k) /\ k <= Len(Rest(sent, G))
    BY <2>2, <1>1, <1>3, <1>4, RestOfRest
  <2> QED BY <2>1, <2>3, <1>5, Zenon DEF Rest
<1>7. k \in 1..Len(queued)
  <2>1. Len(queued) \in Nat BY Queue, LenProperties
  <2> QED BY <2>1, <1>1, <1>6, SMTT(30)
<1>8. \E n \in 1..Len(queued) : queued' = SubSeq(queued, n + 1, Len(queued)) BY <1>6, <1>7, Zenon
<1> QED BY <1>2, <1>8 DEF Fifo!DequeueBatch

\* A push that is dropped found the queue full.
LEMMA PushRefuses == ASSUME RingParameters, RingIInv, PushCheck
  PROVE Fifo!Refuse \/ UNCHANGED <<queued, dropped>>
<1> DEFINE P == Len(sent)
           G == Len(got)
<1>1. P \in Nat /\ G \in Nat /\ Cap \in Nat /\ P - G \in 0..Cap BY Counts
<1>2. queued' = queued BY DEF PushCheck, queued
<1>3. CASE LooksFull(tailCache')
  <2>1. LooksFull(tailCache) /\ tailCache' = head
    BY <1>3 DEF PushCheck, LooksFull
  <2>2. Sub(tail, tailCache') = P - G BY <2>1, <1>1, SubIs DEF RingIInv, IndicesCount
  <2>3. P - G = Cap BY <1>1, <1>3, <2>2 DEF LooksFull
  <2>4. Len(queued) = Cap BY <2>3, Queue
  <2>5. dropped' = dropped + 1 BY <1>3 DEF PushCheck
  <2> QED BY <1>2, <2>4, <2>5 DEF Fifo!Refuse
<1>4. CASE ~LooksFull(tailCache') BY <1>2, <1>4 DEF PushCheck
<1> QED BY <1>3, <1>4

\* The ring implements the bounded queue of BoundedFifo, drops included: qn_ring_push
\* refuses a result only while the queue really is full.
THEOREM RingIsBoundedFifo == ASSUME RingParameters PROVE Spec => Fifo!Spec
<1>1. Init => RingIInv BY InitInv
<1>2. RingIInv /\ [Next]_vars => RingIInv' BY NextInv
<1>3. Init => Fifo!Init
  <2> SUFFICES ASSUME Init PROVE Fifo!Init OBVIOUS
  <2>1. sent = << >> /\ got = << >> /\ dropped = 0 BY DEF Init
  <2>2. Len(sent) = 0 /\ Len(got) = 0 BY <2>1
  <2>3. queued = << >> BY <2>2, SubSeqEmpty DEF queued
  <2> QED BY <2>1, <2>3 DEF Fifo!Init
<1>4. RingIInv /\ RingIInv' /\ [Next]_vars => [Fifo!Next]_<<queued, dropped>>
  <2> SUFFICES ASSUME RingIInv, RingIInv', [Next]_vars
               PROVE  Fifo!Next \/ UNCHANGED <<queued, dropped>>
    OBVIOUS
  <2>1. CASE PushCheck BY <2>1, PushRefuses DEF Fifo!Next
  <2>2. CASE PushCopy BY <2>2 DEF PushCopy, queued
  <2>3. CASE PushPublish BY <2>3, PublishEnqueues DEF Fifo!Next
  <2>4. ASSUME NEW max \in 1..MaxBatch, PopCheck(max) PROVE UNCHANGED <<queued, dropped>>
    BY <2>4 DEF PopCheck, queued
  <2>5. CASE PopCopy BY <2>5 DEF PopCopy, queued
  <2>6. CASE PopPublish BY <2>6, PopDequeues DEF Fifo!Next
  <2>7. CASE Reset
    <3>1. sent' = << >> /\ got' = << >> /\ dropped' = 0 BY <2>7 DEF Reset
    <3>2. Len(sent') = 0 /\ Len(got') = 0 BY <3>1
    <3>3. queued' = << >> BY <3>2, SubSeqEmpty DEF queued
    <3> QED BY <3>1, <3>3 DEF Fifo!Next, Fifo!Clear
  <2>8. CASE UNCHANGED vars BY <2>8 DEF vars, queued
  <2> QED BY <2>1, <2>2, <2>3, <2>4, <2>5, <2>6, <2>7, <2>8 DEF Next, Produce, Consume
<1> QED BY <1>1, <1>2, <1>3, <1>4, PTL DEF Spec, Fifo!Spec
=============================================================================
