---------------------------- MODULE WordsProofs ----------------------------
(***************************************************************************)
(* LibHeap and PageTable keep header and page words as records.  Here is   *)
(* why they may: a record stored into a word field by field, over whatever *)
(* the word held, is read back as it was, as long as every value fits its  *)
(* field.                                                                  *)
(***************************************************************************)
EXTENDS Words, TLAPS

\* The powers of two, and division with rest by each.
LEMMA Powers == 2^4 = 16 /\ 2^8 = 256 /\ 2^16 = 65536 /\ 2^24 = 16777216
BY SMT

\* Fields of 4 bits, as in the flags.
LEMMA By16 ==
  ASSUME NEW a \in Nat, NEW r \in Nat, r < 16
  PROVE  /\ a * 16 + r \in Nat
         /\ (a * 16 + r) \div 16 = a
         /\ (a * 16 + r) % 16 = r
BY SMT

\* Fields of 8 bits.
LEMMA By256 ==
  ASSUME NEW a \in Nat, NEW r \in Nat, r < 256
  PROVE  /\ a * 256 + r \in Nat
         /\ (a * 256 + r) \div 256 = a
         /\ (a * 256 + r) % 256 = r
BY SMT

\* Fields of 16 bits.
LEMMA By65536 ==
  ASSUME NEW a \in Nat, NEW r \in Nat, r < 65536
  PROVE  /\ a * 65536 + r \in Nat
         /\ (a * 65536 + r) \div 65536 = a
         /\ (a * 65536 + r) % 65536 = r
BY SMT

\* The widest fields are masked when they are read and when they are written.
LEMMA Fits24 == ASSUME NEW s \in Nat, s < 2^24 PROVE s % 2^24 = s
BY Powers, SMT

\* The same for a page number.
LEMMA Fits16 == ASSUME NEW s \in Nat, s < 2^16 PROVE s % 2^16 = s
BY Powers, SMT

\* What the setters make of a header word, as a sum of fields.
LEMMA BlockWord ==
  ASSUME NEW w \in Nat, NEW s \in Nat, s < 2^24,
         NEW n \in Nat, n < 16, NEW f \in Nat, f < 16
  PROVE  setBlockIsF(setBlockIsNext(setBlockSize(w, s), n), f) = s * 256 + n * 16 + f
<1> DEFINE r == w % 256
           w1 == s * 256 + r
           w2 == s * 256 + n * 16 + (r % 16)
<1>1. r \in Nat /\ r < 256
  BY SMT
<1>2. setBlockSize(w, s) = w1
  BY Powers, SMT DEF setBlockSize
<1>3. w1 \div 256 = s /\ w1 % 16 = r % 16
  BY <1>1, SMT
<1>4. setBlockIsNext(w1, n) = w2
  BY <1>3, Powers, SMT DEF setBlockIsNext
<1>5. w2 \div 16 = s * 16 + n
  BY <1>1, SMT
<1>6. setBlockIsF(w2, f) = s * 256 + n * 16 + f
  BY <1>5, Powers, SMT DEF setBlockIsF
<1>7. QED
  BY <1>2, <1>4, <1>6

\* A header stored into any word is read back unchanged if its size fits 24 bits.
THEOREM BlockWordsFaithful ==
  ASSUME NEW w \in Nat, NEW h \in [size : Nat, isNext : BOOLEAN, isF : BOOLEAN],
         h.size < 2^24
  PROVE  PackBlock(w, h) \in Nat /\ UnpackBlock(PackBlock(w, h)) = h
<1> DEFINE n == Flag(h.isNext)
           f == Flag(h.isF)
           v == h.size * 256 + n * 16 + f
<1>1. n \in {0, 1} /\ f \in {0, 1} /\ (n = 1 <=> h.isNext) /\ (f = 1 <=> h.isF)
  BY DEF Flag
<1>2. n \in Nat /\ n < 16 /\ f \in Nat /\ f < 16 /\ h.size \in Nat
  BY <1>1
<1>3. PackBlock(w, h) = v
  BY <1>2, BlockWord DEF PackBlock
<1> HIDE DEF n, f
<1>4. v \in Nat /\ v % 16 = f /\ v \div 16 = h.size * 16 + n /\ v \div 256 = h.size
  BY <1>2, SMT
<1>5. getBlockSize(v) = h.size
  BY <1>4, <1>2, Fits24, Powers DEF getBlockSize
<1>6. getBlockIsNext(v) = n
  BY <1>4, <1>2, By16, Powers, SMT DEF getBlockIsNext
<1>7. getBlockIsF(v) = f
  BY <1>4, Powers DEF getBlockIsF
<1> HIDE DEF v
<1>8. UnpackBlock(v) = [size |-> h.size, isNext |-> h.isNext, isF |-> h.isF]
  BY <1>1, <1>5, <1>6, <1>7 DEF UnpackBlock
<1>9. QED
  BY <1>3, <1>4, <1>8

\* What the setters make of a word of the page table.
LEMMA PageWord ==
  ASSUME NEW w \in Nat, NEW p \in Nat, p < 2^16,
         NEW t \in Nat, t < 256, NEW f \in Nat, f < 256
  PROVE  setPageIsF(setPageThID(setPagePgID(w, p), t), f) = p * 65536 + t * 256 + f
<1> DEFINE r == w % 65536
           w1 == p * 65536 + r
           w2 == p * 65536 + t * 256 + (r % 256)
<1>1. r \in Nat /\ r < 65536
  BY SMT
<1>2. setPagePgID(w, p) = w1
  BY Fits16, Powers, SMT DEF setPagePgID
<1>3. w1 \div 65536 = p /\ w1 % 256 = r % 256
  BY <1>1, SMT
<1>4. setPageThID(w1, t) = w2
  BY <1>3, Powers, SMT DEF setPageThID
<1>5. w2 \div 256 = p * 256 + t
  BY <1>1, SMT
<1>6. setPageIsF(w2, f) = p * 65536 + t * 256 + f
  BY <1>5, Powers, SMT DEF setPageIsF
<1>7. QED
  BY <1>2, <1>4, <1>6

\* An entry of the page table stored into any word is read back unchanged if its
\* page fits 16 bits and its thread 8.
THEOREM PageWordsFaithful ==
  ASSUME NEW w \in Nat, NEW e \in [th : Nat, pg : Nat, free : BOOLEAN],
         e.pg < 2^16, e.th < 256
  PROVE  PackPage(w, e) \in Nat /\ UnpackPage(PackPage(w, e)) = e
<1> DEFINE f == Flag(e.free)
           v == e.pg * 65536 + e.th * 256 + f
<1>1. f \in {0, 1} /\ (f = 1 <=> e.free)
  BY DEF Flag
<1>2. f \in Nat /\ f < 256 /\ e.pg \in Nat /\ e.th \in Nat
  BY <1>1
<1>3. PackPage(w, e) = v
  BY <1>2, PageWord DEF PackPage
<1> HIDE DEF f
<1>4. v \in Nat /\ v % 256 = f /\ v \div 256 = e.pg * 256 + e.th /\ v \div 65536 = e.pg
  BY <1>2, SMT
<1>5. getPagePgID(v) = e.pg
  BY <1>4, <1>2, Fits16, Powers DEF getPagePgID
<1>6. getPageThID(v) = e.th
  <2>1. (e.pg * 256 + e.th) % 256 = e.th
    BY <1>2, By256
  <2>2. QED
    BY <2>1, <1>4, Powers DEF getPageThID
<1>7. getPageIsF(v) = f
  BY <1>4, Powers DEF getPageIsF
<1> HIDE DEF v
<1>8. UnpackPage(v) = [th |-> e.th, pg |-> e.pg, free |-> e.free]
  BY <1>1, <1>5, <1>6, <1>7 DEF UnpackPage
<1>9. QED
  BY <1>3, <1>4, <1>8
=============================================================================
