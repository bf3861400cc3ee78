----------------------- MODULE ScratchAllocatorProofs -----------------------
(***************************************************************************)
(* Proofs about ScratchAllocator for every set of values, every set of     *)
(* tensor sizes and every alignment: the values that are live at once are  *)
(* stored apart, and every byte of the buffer is accounted for.            *)
(*                                                                         *)
(* That live values are apart is not inductive: an allocation takes space  *)
(* from a free range, so free ranges have to be apart from live values; a  *)
(* free joins ranges, so two of them may never overlap or touch; and what  *)
(* goes at the cursor needs everything else to end before it.  That no     *)
(* byte is lost needs the alignment as well: a value placed at the cursor  *)
(* starts at the cursor only because every range ends aligned.             *)
(*                                                                         *)
(* That the sort and the pass of free compute the merge of the model       *)
(* follows from what both results have in common: gaps between the ranges, *)
(* and the bytes they cover.                                               *)
(***************************************************************************)
EXTENDS ScratchAllocator, SequenceTheorems, FiniteSetTheorems, WellFoundedInduction, TLAPS

LiveApartFromFree == \A v \in live, r \in freeRanges : Disjoint(placements[v], r)

FreeApart == \A r, s \in freeRanges : r # s => End(r) < s.offset \/ End(s) < r.offset

BelowCursor ==
    /\ \A v \in DOMAIN placements : End(placements[v]) <= cursor
    /\ \A r \in freeRanges : End(r) <= cursor

Aligned(n) == n % Alignment = 0
AlignedRange(range) == Aligned(range.offset) /\ Aligned(End(range))

AllAligned ==
    /\ \A v \in DOMAIN placements : AlignedRange(placements[v])
    /\ \A r \in freeRanges : AlignedRange(r)
    /\ Aligned(cursor)

IsFree(b) == \E r \in freeRanges : b \in Bytes(r)
IsTaken(b) == \E v \in live : b \in Bytes(placements[v])

Covered == \A b \in 0..(cursor - 1) : IsFree(b) \/ IsTaken(b)

IInv ==
    /\ TypeOK
    /\ LiveDisjoint
    /\ LiveApartFromFree
    /\ FreeApart
    /\ BelowCursor
    /\ AllAligned
    /\ Covered

-----------------------------------------------------------------------------

\* Rounding up to the alignment never goes down and keeps a size positive.
LEMMA AlignUpFacts ==
    ASSUME NEW n \in Nat
    PROVE  AlignUp(n) \in Nat /\ AlignUp(n) >= n
<1> DEFINE q == (n + Alignment - 1) \div Alignment
<1>1. Alignment \in Nat \ {0}
  BY ScratchAssumption
<1>2. q \in Nat /\ n + Alignment - 1 < Alignment * q + Alignment
  BY <1>1, SMTT(60)
<1>3. AlignUp(n) = q * Alignment
  BY DEF AlignUp
<1>4. q * Alignment = Alignment * q /\ Alignment * q \in Nat
  BY <1>1, <1>2, SMTT(30)
<1> HIDE DEF q
<1> QED
  BY <1>1, <1>2, <1>3, <1>4

\* The multiples of the alignment, and the sum of two of them.
LEMMA MultipleIsAligned ==
    ASSUME NEW q \in Nat, NEW n \in Nat, n = Alignment * q
    PROVE  Aligned(n)
BY ScratchAssumption, SMTT(30) DEF Aligned

LEMMA AlignedIsMultiple ==
    ASSUME NEW n \in Nat, Aligned(n)
    PROVE  \E q \in Nat : n = Alignment * q
<1>1. Alignment \in Nat \ {0}
  BY ScratchAssumption
<1>2. PICK q \in Nat : q = n \div Alignment
  BY <1>1, SMTT(30)
<1>3. n = Alignment * q + (n % Alignment)
  BY <1>1, <1>2, SMTT(30)
<1>4. Alignment * q \in Nat
  BY <1>1, <1>2
<1>5. n = Alignment * q
  BY <1>3, <1>4 DEF Aligned
<1> QED BY <1>5

LEMMA AlignedSum ==
    ASSUME NEW m \in Nat, NEW n \in Nat, Aligned(m), Aligned(n)
    PROVE  Aligned(m + n)
<1>1. PICK p \in Nat : m = Alignment * p
  BY AlignedIsMultiple
<1>2. PICK q \in Nat : n = Alignment * q
  BY AlignedIsMultiple
<1>3. m + n = Alignment * (p + q)
  BY <1>1, <1>2, ScratchAssumption
<1>4. p + q \in Nat /\ m + n \in Nat
  OBVIOUS
<1> QED BY <1>3, <1>4, MultipleIsAligned

\* Rounding up gives a multiple, and changes nothing that is one already.
LEMMA AlignUpAligned ==
    ASSUME NEW n \in Nat
    PROVE  Aligned(AlignUp(n)) /\ (Aligned(n) => AlignUp(n) = n)
<1> DEFINE q == (n + Alignment - 1) \div Alignment
<1>1. Alignment \in Nat \ {0}
  BY ScratchAssumption
<1>2. q \in Nat /\ AlignUp(n) = q * Alignment
  BY <1>1, SMTT(30) DEF AlignUp
<1>3. q * Alignment = Alignment * q
  BY <1>1, <1>2
<1>4. Aligned(AlignUp(n))
  <2> HIDE DEF q
  <2> QED BY <1>2, <1>3, AlignUpFacts, MultipleIsAligned
<1>5. ASSUME Aligned(n) PROVE AlignUp(n) = n
  <2>1. PICK k \in Nat : n = Alignment * k
    BY <1>5, AlignedIsMultiple
  <2>2. n + Alignment - 1 = Alignment * k + (Alignment - 1)
    BY <1>1, <2>1
  <2>3. (Alignment * k + (Alignment - 1)) \div Alignment = k
    BY <1>1, SMTT(30)
  <2>4. q = k
    BY <2>2, <2>3
  <2> HIDE DEF q
  <2> QED BY <1>2, <1>3, <2>1, <2>4
<1> QED BY <1>4, <1>5

\* What a freed range becomes: one range m that covers it and swallowed only
\* free ranges; whatever was apart from both is apart from m, and the free
\* ranges that stay do not touch m.  The bytes are those of what it is made
\* of, and it starts and ends where one of them does.
LEMMA MergedShape ==
    ASSUME IInv, NEW v \in live
    PROVE  \E m \in MemoryRange, kept \in SUBSET freeRanges :
              /\ Merged(placements[v]) = kept \cup {m}
              /\ End(m) <= cursor
              /\ \A s \in kept : End(s) < m.offset \/ End(m) < s.offset
              /\ \A x \in MemoryRange :
                    /\ Disjoint(x, placements[v])
                    /\ \A r \in freeRanges : Disjoint(x, r)
                    => Disjoint(x, m)
              /\ \A b \in Bytes(placements[v]) : b \in Bytes(m)
              /\ \A r \in freeRanges : r \in kept \/ Bytes(r) \subseteq Bytes(m)
              /\ AlignedRange(m)
<1> DEFINE p == placements[v]
           L == TouchesLeft(p)
           R == TouchesRight(p)
           from == IF L = {} THEN p.offset ELSE (CHOOSE r \in L : TRUE).offset
           to == IF R = {} THEN End(p) ELSE End(CHOOSE r \in R : TRUE)
           m == [offset |-> from, bytes |-> to - from]
           kept == freeRanges \ (L \cup R)
<1>1. /\ p \in MemoryRange
      /\ freeRanges \subseteq MemoryRange
      /\ cursor \in Nat
      /\ End(p) <= cursor
  BY DEF IInv, TypeOK, BelowCursor
<1>2. \A r \in freeRanges : Disjoint(p, r) /\ End(r) <= cursor
  BY DEF IInv, LiveApartFromFree, BelowCursor
<1>3. \A r, s \in freeRanges : r # s => End(r) < s.offset \/ End(s) < r.offset
  BY DEF IInv, FreeApart
<1>4. L \subseteq freeRanges /\ R \subseteq freeRanges
  BY DEF TouchesLeft, TouchesRight
<1>5. Merged(p) = kept \cup {m}
  BY DEF Merged
<1>6. \/ L = {} /\ from = p.offset
      \/ \E l \in freeRanges : L = {l} /\ End(l) = p.offset /\ from = l.offset
  <2>1. CASE L = {}
    BY <2>1
  <2>2. CASE L # {}
    <3>1. PICK l \in L : l = CHOOSE r \in L : TRUE
      BY <2>2
    <3>2. l \in freeRanges /\ End(l) = p.offset
      BY <3>1 DEF TouchesLeft
    <3>3. \A r \in L : r = l
      <4>1. SUFFICES ASSUME NEW r \in L, r # l PROVE FALSE
        OBVIOUS
      <4>2. r \in freeRanges /\ End(r) = p.offset
        BY DEF TouchesLeft
      <4>3. End(r) < l.offset \/ End(l) < r.offset
        BY <1>3, <3>2, <4>1, <4>2
      <4> QED
        BY <1>1, <3>2, <4>2, <4>3 DEF End, MemoryRange
    <3>4. L = {l}
      BY <3>1, <3>3
    <3>5. from = l.offset
      BY <2>2, <3>1
    <3> QED
      BY <3>2, <3>4, <3>5
  <2> QED
    BY <2>1, <2>2
<1>7. \/ R = {} /\ to = End(p)
      \/ \E h \in freeRanges : R = {h} /\ h.offset = End(p) /\ to = End(h)
  <2>1. CASE R = {}
    BY <2>1
  <2>2. CASE R # {}
    <3>1. PICK h \in R : h = CHOOSE r \in R : TRUE
      BY <2>2
    <3>2. h \in freeRanges /\ h.offset = End(p)
      BY <3>1 DEF TouchesRight
    <3>3. \A r \in R : r = h
      <4>1. SUFFICES ASSUME NEW r \in R, r # h PROVE FALSE
        OBVIOUS
      <4>2. r \in freeRanges /\ r.offset = End(p)
        BY DEF TouchesRight
      <4>3. End(r) < h.offset \/ End(h) < r.offset
        BY <1>3, <3>2, <4>1, <4>2
      <4> QED
        BY <1>1, <3>2, <4>2, <4>3 DEF End, MemoryRange
    <3>4. R = {h}
      BY <3>1, <3>3
    <3>5. to = End(h)
      BY <2>2, <3>1
    <3> QED
      BY <3>2, <3>4, <3>5
  <2> QED
    BY <2>1, <2>2
<1>8. /\ from \in Nat /\ to \in Nat
      /\ from <= p.offset /\ End(p) <= to /\ to <= cursor
      /\ p.offset < End(p)
  BY <1>1, <1>2, <1>6, <1>7 DEF End, MemoryRange
<1>9. m \in MemoryRange /\ m.offset = from /\ End(m) = to
  <2> HIDE DEF from, to
  <2> QED
    BY <1>8, <1>1 DEF End, MemoryRange
<1>10. ASSUME NEW s \in kept PROVE End(s) < from \/ to < s.offset
  <2>1. s \in freeRanges /\ s \notin L /\ s \notin R
    OBVIOUS
  <2>2. End(s) # p.offset /\ s.offset # End(p)
    BY <2>1 DEF TouchesLeft, TouchesRight
  <2>3. End(s) < p.offset \/ End(p) < s.offset
    BY <1>1, <1>2, <2>1, <2>2 DEF Disjoint, End, MemoryRange
  <2>4. CASE End(s) < p.offset
    <3>1. CASE L = {} /\ from = p.offset
      BY <2>4, <3>1
    <3>2. CASE \E l \in freeRanges : L = {l} /\ End(l) = p.offset /\ from = l.offset
      <4>1. PICK l \in freeRanges : L = {l} /\ End(l) = p.offset /\ from = l.offset
        BY <3>2
      <4>2. End(s) < l.offset \/ End(l) < s.offset
        BY <1>3, <2>1, <4>1
      <4> QED
        BY <1>1, <2>1, <2>4, <4>1, <4>2 DEF End, MemoryRange
    <3> QED
      BY <1>6, <3>1, <3>2
  <2>5. CASE End(p) < s.offset
    <3>1. CASE R = {} /\ to = End(p)
      BY <2>5, <3>1
    <3>2. CASE \E h \in freeRanges : R = {h} /\ h.offset = End(p) /\ to = End(h)
      <4>1. PICK h \in freeRanges : R = {h} /\ h.offset = End(p) /\ to = End(h)
        BY <3>2
      <4>2. End(s) < h.offset \/ End(h) < s.offset
        BY <1>3, <2>1, <4>1
      <4> QED
        BY <1>1, <2>1, <2>5, <4>1, <4>2 DEF End, MemoryRange
    <3> QED
      BY <1>7, <3>1, <3>2
  <2> QED
    BY <2>3, <2>4, <2>5
<1>11. ASSUME NEW x \in MemoryRange, Disjoint(x, p), \A r \in freeRanges : Disjoint(x, r)
       PROVE  End(x) <= from \/ to <= x.offset
  <2>1. CASE End(x) <= p.offset
    <3>1. CASE L = {} /\ from = p.offset
      BY <2>1, <3>1
    <3>2. CASE \E l \in freeRanges : L = {l} /\ End(l) = p.offset /\ from = l.offset
      <4>1. PICK l \in freeRanges : L = {l} /\ End(l) = p.offset /\ from = l.offset
        BY <3>2
      <4>2. Disjoint(x, l)
        BY <1>11, <4>1
      <4> QED
        BY <1>1, <1>11, <2>1, <4>1, <4>2 DEF Disjoint, End, MemoryRange
    <3> QED
      BY <1>6, <3>1, <3>2
  <2>2. CASE End(p) <= x.offset
    <3>1. CASE R = {} /\ to = End(p)
      BY <2>2, <3>1
    <3>2. CASE \E h \in freeRanges : R = {h} /\ h.offset = End(p) /\ to = End(h)
      <4>1. PICK h \in freeRanges : R = {h} /\ h.offset = End(p) /\ to = End(h)
        BY <3>2
      <4>2. Disjoint(x, h)
        BY <1>11, <4>1
      <4> QED
        BY <1>1, <1>11, <2>2, <4>1, <4>2 DEF Disjoint, End, MemoryRange
    <3> QED
      BY <1>7, <3>1, <3>2
  <2> QED
    BY <1>11, <2>1, <2>2 DEF Disjoint
<1>16. \A b \in Bytes(p) : b \in Bytes(m)
  <2> HIDE DEF from, to, p, m
  <2> QED BY <1>1, <1>8, <1>9 DEF Bytes, End, MemoryRange
<1>17. ASSUME NEW r \in freeRanges, r \notin kept PROVE Bytes(r) \subseteq Bytes(m)
  <2>1. r \in L \/ r \in R
    BY <1>17
  <2>2. r \in MemoryRange
    BY <1>1
  <2>3. CASE r \in L
    <3>1. from = r.offset /\ End(r) = p.offset
      BY <1>6, <2>3
    <3> HIDE DEF from, to, p, m
    <3> QED BY <1>1, <1>8, <1>9, <2>2, <3>1 DEF Bytes, End, MemoryRange
  <2>4. CASE r \in R
    <3>1. to = End(r) /\ r.offset = End(p)
      BY <1>7, <2>4
    <3> HIDE DEF from, to, p, m
    <3> QED BY <1>1, <1>8, <1>9, <2>2, <3>1 DEF Bytes, End, MemoryRange
  <2> QED BY <2>1, <2>3, <2>4
<1>18. AlignedRange(m)
  <2>1. AlignedRange(p) /\ \A r \in freeRanges : AlignedRange(r)
    BY DEF IInv, AllAligned, TypeOK
  <2>2. Aligned(from)
    BY <1>6, <2>1 DEF AlignedRange
  <2>3. Aligned(to)
    BY <1>7, <2>1 DEF AlignedRange
  <2> HIDE DEF from, to, m
  <2> QED BY <1>9, <2>2, <2>3 DEF AlignedRange
<1> HIDE DEF m, kept, from, to, p
<1>19. \A r \in freeRanges : r \in kept \/ Bytes(r) \subseteq Bytes(m)
  BY <1>17
<1>12. kept \in SUBSET freeRanges
  BY DEF kept
<1>13. \A s \in kept : End(s) < m.offset \/ End(m) < s.offset
  BY <1>9, <1>10
<1>14. \A x \in MemoryRange :
          /\ Disjoint(x, p)
          /\ \A r \in freeRanges : Disjoint(x, r)
          => Disjoint(x, m)
  BY <1>9, <1>11 DEF Disjoint
<1>15. End(m) <= cursor
  BY <1>8, <1>9
<1> QED
  BY <1>5, <1>9, <1>12, <1>13, <1>14, <1>15, <1>16, <1>18, <1>19 DEF p

-----------------------------------------------------------------------------

\* The invariant holds before anything is placed.
LEMMA InitIInv == Init => IInv
<1>1. DOMAIN <<>> = {}
  OBVIOUS
<1>2. SUFFICES ASSUME Init PROVE IInv
  OBVIOUS
<1>3. DOMAIN placements = {} /\ live = {} /\ freeRanges = {}
  BY <1>1, <1>2 DEF Init
<1>4. TypeOK
  BY <1>2, <1>3 DEF Init, TypeOK
<1>5. cursor = 0 /\ Aligned(0)
  BY <1>2, ScratchAssumption, SMTT(30) DEF Init, Aligned
<1>6. AllAligned /\ Covered
  BY <1>3, <1>5 DEF AllAligned, Covered
<1> QED
  BY <1>3, <1>4, <1>6 DEF IInv, LiveDisjoint, LiveApartFromFree, FreeApart, BelowCursor

\* Taking the front of a free range that is large enough.
LEMMA AllocFromFreeIInv ==
    ASSUME IInv, NEW value \in Values, NEW size \in Sizes, AllocFromFree(value, size)
    PROVE  IInv'
<1> DEFINE bytes == AlignUp(size)
<1>1. bytes \in Nat /\ bytes > 0
  <2>1. size \in Nat \ {0}
    BY ScratchAssumption
  <2> QED
    BY <2>1, AlignUpFacts
<1> HIDE DEF bytes
<1>2. PICK range \in freeRanges :
         /\ IsBestFit(range, bytes)
         /\ freeRanges' = Carve(range, bytes)
         /\ Place(value, range.offset, bytes)
  BY DEF AllocFromFree, bytes
<1> DEFINE new == [offset |-> range.offset, bytes |-> bytes]
           rest == [offset |-> range.offset + bytes, bytes |-> range.bytes - bytes]
<1>3. value \notin DOMAIN placements
  BY DEF AllocFromFree, CanAlloc
<1>4. range \in MemoryRange /\ range.bytes >= bytes /\ freeRanges \subseteq MemoryRange
  BY <1>2 DEF IsBestFit, Fitting, IInv, TypeOK
<1>5. /\ DOMAIN placements' = DOMAIN placements \cup {value}
      /\ placements'[value] = new
      /\ \A v \in DOMAIN placements : placements'[v] = placements[v]
      /\ live' = live \cup {value}
      /\ finalized' = finalized
  BY <1>2, <1>3 DEF Place
<1>6. cursor' = cursor
  <2>1. cursor \in Nat /\ End(range) <= cursor
    BY DEF IInv, TypeOK, BelowCursor
  <2>2. cursor' = Larger(cursor, range.offset + bytes)
    BY <1>2 DEF Place
  <2> QED
    BY <1>1, <1>4, <2>1, <2>2 DEF Larger, End, MemoryRange
<1>7. new \in MemoryRange /\ new.offset = range.offset /\ End(new) = range.offset + bytes
  BY <1>1, <1>4 DEF MemoryRange, End
<1>8. \A r \in freeRanges' :
         \/ r \in freeRanges /\ r # range
         \/ /\ r = rest /\ rest \in MemoryRange
            /\ End(rest) = End(range) /\ rest.offset = End(new)
  BY <1>1, <1>2, <1>4, <1>7 DEF Carve, MemoryRange, End
<1>9. live \subseteq DOMAIN placements /\ value \notin live
  BY <1>3 DEF IInv, TypeOK
<1> HIDE DEF new, rest
<1>10. TypeOK'
  <2>1. freeRanges' \in SUBSET MemoryRange
    BY <1>4, <1>8
  <2> QED
    BY <1>5, <1>6, <1>7, <1>9, <2>1 DEF IInv, TypeOK
<1>11. LiveDisjoint'
  <2>1. \A v \in live : Disjoint(placements[v], new)
    <3>1. SUFFICES ASSUME NEW v \in live PROVE Disjoint(placements[v], new)
      OBVIOUS
    <3>2. Disjoint(placements[v], range) /\ placements[v] \in MemoryRange
      BY <1>9 DEF IInv, LiveApartFromFree, TypeOK
    <3> QED
      BY <1>1, <1>4, <1>7, <3>2 DEF Disjoint, End, MemoryRange
  <2>2. \A v, w \in live : v # w => Disjoint(placements[v], placements[w])
    BY DEF IInv, LiveDisjoint
  <2>3. SUFFICES ASSUME NEW v \in live', NEW w \in live', v # w
                 PROVE  Disjoint(placements'[v], placements'[w])
    BY DEF LiveDisjoint, Disjoint, End
  <2>4. CASE v = value
    BY <1>5, <1>9, <2>1, <2>3, <2>4 DEF Disjoint
  <2>5. CASE w = value
    BY <1>5, <1>9, <2>1, <2>3, <2>5 DEF Disjoint
  <2>6. CASE v # value /\ w # value
    BY <1>5, <1>9, <2>2, <2>3, <2>6
  <2> QED
    BY <2>4, <2>5, <2>6
<1>12. LiveApartFromFree'
  <2>1. SUFFICES ASSUME NEW v \in live', NEW r \in freeRanges'
                 PROVE  Disjoint(placements'[v], r)
    BY DEF LiveApartFromFree, Disjoint, End
  <2>2. CASE v = value
    <3>1. CASE r \in freeRanges /\ r # range
      <4>1. End(r) < range.offset \/ End(range) < r.offset
        BY <3>1 DEF IInv, FreeApart
      <4> QED
        BY <1>1, <1>4, <1>5, <1>7, <2>2, <3>1, <4>1 DEF Disjoint, End, MemoryRange
    <3>2. CASE r = rest /\ rest.offset = End(new)
      BY <1>5, <1>7, <2>2, <3>2, <1>4, <1>1 DEF Disjoint, MemoryRange
    <3> QED
      BY <1>8, <3>1, <3>2
  <2>3. CASE v # value
    <3>1. v \in live /\ placements'[v] = placements[v] /\ placements[v] \in MemoryRange
      BY <1>5, <1>9, <2>3 DEF IInv, TypeOK
    <3>2. \A s \in freeRanges : Disjoint(placements[v], s)
      BY <3>1 DEF IInv, LiveApartFromFree
    <3>3. CASE r \in freeRanges
      BY <3>1, <3>2, <3>3
    <3>4. CASE r = rest /\ End(rest) = End(range) /\ rest.offset = End(new)
      <4>1. Disjoint(placements[v], range)
        BY <3>2
      <4> QED
        BY <1>1, <1>4, <1>7, <3>1, <3>4, <4>1 DEF Disjoint, End, MemoryRange
    <3> QED
      BY <1>8, <3>3, <3>4
  <2> QED
    BY <2>2, <2>3
<1>13. FreeApart'
  <2>1. SUFFICES ASSUME NEW r \in freeRanges', NEW s \in freeRanges', r # s
                 PROVE  End(r) < s.offset \/ End(s) < r.offset
    BY DEF FreeApart, End
  <2>2. \A x, y \in freeRanges : x # y => End(x) < y.offset \/ End(y) < x.offset
    BY DEF IInv, FreeApart
  <2>3. ASSUME NEW x \in freeRanges, x # range
        PROVE  End(x) < rest.offset \/ End(rest) < x.offset \/ rest \notin freeRanges'
    <3>1. End(x) < range.offset \/ End(range) < x.offset
      BY <2>2, <2>3
    <3>2. CASE rest \in freeRanges'
      <4>1. CASE rest \in freeRanges /\ rest # range
        BY <1>1, <1>4, <2>2, <2>3, <3>1, <4>1 DEF rest, End, MemoryRange
      <4>2. CASE End(rest) = End(range) /\ rest.offset = End(new)
        BY <1>1, <1>4, <1>7, <3>1, <4>2 DEF End, MemoryRange
      <4> QED
        BY <1>8, <3>2, <4>1, <4>2
    <3> QED
      BY <3>2
  <2> QED
    BY <1>8, <2>1, <2>2, <2>3
<1>14. BelowCursor'
  <2>1. \A r \in freeRanges : End(r) <= cursor
    BY DEF IInv, BelowCursor
  <2>2. \A r \in freeRanges' : End(r) <= cursor
    BY <1>8, <2>1
  <2>3. End(new) <= cursor
    BY <1>1, <1>4, <1>7, <2>1 DEF End, MemoryRange, IInv, TypeOK
  <2>4. \A v \in DOMAIN placements : End(placements[v]) <= cursor
    BY DEF IInv, BelowCursor
  <2> QED
    BY <1>5, <1>6, <2>2, <2>3, <2>4 DEF BelowCursor, End
<1>15. AllAligned'
  <2>1. /\ \A v \in DOMAIN placements : AlignedRange(placements[v])
        /\ \A r \in freeRanges : AlignedRange(r)
        /\ Aligned(cursor)
    BY DEF IInv, AllAligned
  <2>2. Aligned(range.offset) /\ Aligned(End(range)) /\ Aligned(bytes)
    BY <1>2, <2>1, ScratchAssumption, AlignUpAligned DEF AlignedRange, bytes
  <2>3. Aligned(range.offset + bytes)
    BY <1>1, <1>4, <2>2, AlignedSum DEF MemoryRange
  <2>4. AlignedRange(new)
    BY <1>7, <2>2, <2>3 DEF AlignedRange
  <2>5. \A r \in freeRanges' : AlignedRange(r)
    BY <1>7, <1>8, <2>1, <2>2, <2>3 DEF AlignedRange
  <2>6. \A v \in DOMAIN placements' : AlignedRange(placements'[v])
    BY <1>5, <2>1, <2>4
  <2> QED BY <1>6, <2>1, <2>5, <2>6 DEF AllAligned, AlignedRange, Aligned, End
<1>16. Covered'
  <2>1. \A b \in 0..(cursor - 1) : IsFree(b) \/ IsTaken(b)
    BY DEF IInv, Covered
  <2>2. SUFFICES ASSUME NEW b \in 0..(cursor - 1) PROVE IsFree(b)' \/ IsTaken(b)'
    BY <1>6 DEF Covered
  <2>3. CASE IsTaken(b)
    <3>1. PICK v \in live : b \in Bytes(placements[v])
      BY <2>3 DEF IsTaken
    <3>2. v \in live' /\ placements'[v] = placements[v]
      BY <1>5, <1>9
    <3> QED BY <3>1, <3>2 DEF IsTaken, Bytes, End
  <2>4. ASSUME NEW r \in freeRanges, r # range, b \in Bytes(r) PROVE IsFree(b)'
    <3>1. r \in freeRanges'
      BY <1>2, <2>4 DEF Carve
    <3> QED BY <2>4, <3>1 DEF IsFree, Bytes, End
  <2>5. CASE b \in Bytes(new)
    <3>1. value \in live' /\ placements'[value] = new
      BY <1>5
    <3> QED BY <2>5, <3>1 DEF IsTaken, Bytes, End
  <2>6. CASE b \in Bytes(range) /\ b \notin Bytes(new)
    <3>1. b \in range.offset..(End(range) - 1) /\ ~(b \in range.offset..((range.offset + bytes) - 1))
      <4>1. b \in range.offset..(End(range) - 1) /\ ~(b \in new.offset..(End(new) - 1))
        BY <2>6 DEF Bytes
      <4> QED BY <1>7, <4>1
    <3>2. range.bytes # bytes
      BY <1>1, <1>4, <3>1 DEF End, MemoryRange
    <3>3. rest \in freeRanges'
      BY <1>2, <3>2 DEF Carve, rest
    <3>4. rest.offset = range.offset + bytes /\ End(rest) = End(range)
      BY <1>1, <1>4 DEF rest, End, MemoryRange
    <3>5. b \in Bytes(rest)
      BY <1>1, <1>4, <3>1, <3>4 DEF Bytes, End, MemoryRange
    <3> QED BY <3>3, <3>5 DEF IsFree, Bytes, End
  <2> QED BY <2>1, <2>3, <2>4, <2>5, <2>6 DEF IsFree
<1> QED
  BY <1>10, <1>11, <1>12, <1>13, <1>14, <1>15, <1>16 DEF IInv

\* Placing at the cursor, above everything else.
LEMMA AllocAtCursorIInv ==
    ASSUME IInv, NEW value \in Values, NEW size \in Sizes, AllocAtCursor(value, size)
    PROVE  IInv'
<1> DEFINE bytes == AlignUp(size)
           offset == AlignUp(cursor)
           new == [offset |-> offset, bytes |-> bytes]
<1>1. bytes \in Nat /\ bytes > 0
  <2>1. size \in Nat \ {0}
    BY ScratchAssumption
  <2> QED
    BY <2>1, AlignUpFacts
<1>2. cursor \in Nat /\ offset \in Nat /\ offset >= cursor
  <2>1. cursor \in Nat
    BY DEF IInv, TypeOK
  <2> QED
    BY <2>1, AlignUpFacts
<1>3. value \notin DOMAIN placements
  BY DEF AllocAtCursor, CanAlloc
<1>4. Place(value, offset, bytes) /\ freeRanges' = freeRanges
  BY DEF AllocAtCursor
<1> HIDE DEF bytes, offset
<1>5. /\ DOMAIN placements' = DOMAIN placements \cup {value}
      /\ placements'[value] = new
      /\ \A v \in DOMAIN placements : placements'[v] = placements[v]
      /\ live' = live \cup {value}
      /\ finalized' = finalized
  BY <1>3, <1>4 DEF Place
<1>6. new \in MemoryRange /\ new.offset = offset /\ End(new) = offset + bytes
  BY <1>1, <1>2 DEF MemoryRange, End
<1>7. cursor' = End(new) /\ cursor' >= cursor /\ cursor' \in Nat
  BY <1>1, <1>2, <1>4, <1>6 DEF Place, Larger
<1>8. live \subseteq DOMAIN placements /\ value \notin live
  BY <1>3 DEF IInv, TypeOK
<1> HIDE DEF new
<1>9. TypeOK'
  BY <1>4, <1>5, <1>6, <1>7, <1>8 DEF IInv, TypeOK
<1>10. \A v \in DOMAIN placements : placements[v] \in MemoryRange /\ End(placements[v]) <= cursor
  BY DEF IInv, TypeOK, BelowCursor
<1>11. \A r \in freeRanges : r \in MemoryRange /\ End(r) <= cursor
  BY DEF IInv, TypeOK, BelowCursor
<1>12. \A v \in live : Disjoint(placements[v], new)
  BY <1>2, <1>6, <1>8, <1>10 DEF Disjoint, MemoryRange, End
<1>13. LiveDisjoint'
  <2>1. \A v, w \in live : v # w => Disjoint(placements[v], placements[w])
    BY DEF IInv, LiveDisjoint
  <2>2. SUFFICES ASSUME NEW v \in live', NEW w \in live', v # w
                 PROVE  Disjoint(placements'[v], placements'[w])
    BY DEF LiveDisjoint, Disjoint, End
  <2>3. CASE v = value
    BY <1>5, <1>8, <1>12, <2>2, <2>3 DEF Disjoint
  <2>4. CASE w = value
    BY <1>5, <1>8, <1>12, <2>2, <2>4 DEF Disjoint
  <2>5. CASE v # value /\ w # value
    BY <1>5, <1>8, <2>1, <2>2, <2>5
  <2> QED
    BY <2>3, <2>4, <2>5
<1>14. LiveApartFromFree'
  <2>1. SUFFICES ASSUME NEW v \in live', NEW r \in freeRanges
                 PROVE  Disjoint(placements'[v], r)
    BY <1>4 DEF LiveApartFromFree, Disjoint, End
  <2>2. CASE v = value
    BY <1>2, <1>5, <1>6, <1>11, <2>2 DEF Disjoint, MemoryRange, End
  <2>3. CASE v # value
    BY <1>5, <1>8, <2>3 DEF IInv, LiveApartFromFree
  <2> QED
    BY <2>2, <2>3
<1>15. FreeApart'
  BY <1>4 DEF IInv, FreeApart, End
<1>16. BelowCursor'
  <2>1. \A v \in DOMAIN placements' : End(placements'[v]) <= cursor'
    BY <1>2, <1>5, <1>7, <1>10 DEF End, MemoryRange
  <2>2. \A r \in freeRanges' : End(r) <= cursor'
    BY <1>2, <1>4, <1>7, <1>11 DEF End, MemoryRange
  <2> QED
    BY <2>1, <2>2 DEF BelowCursor, End
<1>17. Aligned(bytes) /\ Aligned(cursor) /\ offset = cursor
  <2>1. size \in Nat
    BY ScratchAssumption
  <2>2. Aligned(cursor)
    BY DEF IInv, AllAligned
  <2> QED BY <1>2, <2>1, <2>2, AlignUpAligned DEF bytes, offset
<1>18. AllAligned'
  <2>1. /\ \A v \in DOMAIN placements : AlignedRange(placements[v])
        /\ \A r \in freeRanges : AlignedRange(r)
    BY DEF IInv, AllAligned
  <2>2. Aligned(cursor + bytes)
    BY <1>1, <1>2, <1>17, AlignedSum
  <2>3. AlignedRange(new) /\ Aligned(cursor')
    BY <1>6, <1>7, <1>17, <2>2 DEF AlignedRange
  <2>4. \A v \in DOMAIN placements' : AlignedRange(placements'[v])
    BY <1>5, <2>1, <2>3
  <2> QED BY <1>4, <2>1, <2>3, <2>4 DEF AllAligned, AlignedRange, Aligned, End
<1>19. Covered'
  <2>1. \A b \in 0..(cursor - 1) : IsFree(b) \/ IsTaken(b)
    BY DEF IInv, Covered
  <2>2. SUFFICES ASSUME NEW b \in 0..(cursor' - 1) PROVE IsFree(b)' \/ IsTaken(b)'
    BY DEF Covered
  <2>3. CASE b \in 0..(cursor - 1) /\ IsFree(b)
    BY <1>4, <2>3 DEF IsFree, Bytes, End
  <2>4. CASE b \in 0..(cursor - 1) /\ IsTaken(b)
    <3>1. PICK v \in live : b \in Bytes(placements[v])
      BY <2>4 DEF IsTaken
    <3>2. v \in live' /\ placements'[v] = placements[v]
      BY <1>5, <1>8
    <3> QED BY <3>1, <3>2 DEF IsTaken, Bytes, End
  <2>5. CASE ~(b \in 0..(cursor - 1))
    <3>1. b \in cursor..(cursor' - 1)
      BY <1>2, <1>7, <2>5
    <3>2. b \in Bytes(new)
      BY <1>6, <1>7, <1>17, <3>1 DEF Bytes
    <3>3. value \in live' /\ placements'[value] = new
      BY <1>5
    <3> QED BY <3>2, <3>3 DEF IsTaken, Bytes, End
  <2> QED BY <2>1, <2>3, <2>4, <2>5
<1> QED
  BY <1>9, <1>13, <1>14, <1>15, <1>16, <1>18, <1>19 DEF IInv

\* Freeing a live value: its range joins the free ranges it touches.
LEMMA FreeIInv ==
    ASSUME IInv, NEW value \in Values, Free(value)
    PROVE  IInv'
<1>1. value \in live
  BY DEF Free, CanFree
<1>2. PICK m \in MemoryRange, kept \in SUBSET freeRanges :
         /\ Merged(placements[value]) = kept \cup {m}
         /\ End(m) <= cursor
         /\ \A s \in kept : End(s) < m.offset \/ End(m) < s.offset
         /\ \A x \in MemoryRange :
               /\ Disjoint(x, placements[value])
               /\ \A r \in freeRanges : Disjoint(x, r)
               => Disjoint(x, m)
         /\ \A b \in Bytes(placements[value]) : b \in Bytes(m)
         /\ \A r \in freeRanges : r \in kept \/ Bytes(r) \subseteq Bytes(m)
         /\ AlignedRange(m)
  BY <1>1, MergedShape
<1>3. /\ freeRanges' = kept \cup {m}
      /\ live' = live \ {value}
      /\ placements' = placements /\ cursor' = cursor /\ finalized' = finalized
  BY <1>2 DEF Free
<1>4. freeRanges \subseteq MemoryRange /\ \A v \in live : placements[v] \in MemoryRange
  BY DEF IInv, TypeOK
<1>5. TypeOK'
  BY <1>2, <1>3, <1>4 DEF IInv, TypeOK
<1>6. LiveDisjoint'
  BY <1>3 DEF IInv, LiveDisjoint, Disjoint, End
<1>7. LiveApartFromFree'
  <2>1. SUFFICES ASSUME NEW v \in live', NEW r \in freeRanges'
                 PROVE  Disjoint(placements[v], r)
    BY <1>3 DEF LiveApartFromFree, Disjoint, End
  <2>2. v \in live /\ v # value /\ placements[v] \in MemoryRange
    BY <1>3, <1>4
  <2>3. \A s \in freeRanges : Disjoint(placements[v], s)
    BY <2>2 DEF IInv, LiveApartFromFree
  <2>4. Disjoint(placements[v], placements[value])
    BY <1>1, <2>2 DEF IInv, LiveDisjoint
  <2>5. Disjoint(placements[v], m)
    BY <1>2, <2>2, <2>3, <2>4
  <2> QED
    BY <1>3, <2>3, <2>5
<1>8. FreeApart'
  <2>1. SUFFICES ASSUME NEW r \in freeRanges', NEW s \in freeRanges', r # s
                 PROVE  End(r) < s.offset \/ End(s) < r.offset
    BY DEF FreeApart, End
  <2>2. \A x, y \in freeRanges : x # y => End(x) < y.offset \/ End(y) < x.offset
    BY DEF IInv, FreeApart
  <2> QED
    BY <1>2, <1>3, <2>1, <2>2
<1>9. BelowCursor'
  <2>1. \A r \in freeRanges' : End(r) <= cursor
    BY <1>2, <1>3 DEF IInv, BelowCursor
  <2> QED
    BY <1>3, <2>1 DEF IInv, BelowCursor, End
<1>10. AllAligned'
  <2>1. \A r \in freeRanges' : AlignedRange(r)
    BY <1>2, <1>3 DEF IInv, AllAligned
  <2> QED BY <1>3, <2>1 DEF IInv, AllAligned, AlignedRange, Aligned, End
<1>11. Covered'
  <2>1. \A b \in 0..(cursor - 1) : IsFree(b) \/ IsTaken(b)
    BY DEF IInv, Covered
  <2>2. SUFFICES ASSUME NEW b \in 0..(cursor - 1) PROVE IsFree(b)' \/ IsTaken(b)'
    BY <1>3 DEF Covered
  <2>3. CASE b \in Bytes(m)
    BY <1>3, <2>3 DEF IsFree, Bytes, End
  <2>4. ASSUME NEW r \in freeRanges, b \in Bytes(r), b \notin Bytes(m) PROVE IsFree(b)'
    <3>1. r \in freeRanges'
      BY <1>2, <1>3, <2>4
    <3> QED BY <2>4, <3>1 DEF IsFree, Bytes, End
  <2>5. ASSUME NEW v \in live, b \in Bytes(placements[v]), b \notin Bytes(m) PROVE IsTaken(b)'
    <3>1. v \in live' /\ placements' = placements
      BY <1>2, <1>3, <2>5
    <3> QED BY <2>5, <3>1 DEF IsTaken, Bytes, End
  <2> QED BY <2>1, <2>3, <2>4, <2>5 DEF IsFree, IsTaken
<1> QED
  BY <1>5, <1>6, <1>7, <1>8, <1>9, <1>10, <1>11 DEF IInv

\* Every step keeps the invariant.
LEMMA NextIInv == IInv /\ [Next]_vars => IInv'
<1> SUFFICES ASSUME IInv, [Next]_vars PROVE IInv'
  OBVIOUS
<1>1. ASSUME NEW value \in Values, NEW size \in Sizes, Alloc(value, size) PROVE IInv'
  BY <1>1, AllocFromFreeIInv, AllocAtCursorIInv DEF Alloc
<1>2. ASSUME NEW value \in Values, Free(value) PROVE IInv'
  BY <1>2, FreeIInv
<1>3. CASE FinalizeLayout
  <2>1. TypeOK'
    BY <1>3 DEF FinalizeLayout, IInv, TypeOK
  <2> QED
    BY <1>3, <2>1 DEF FinalizeLayout, IInv, LiveDisjoint, LiveApartFromFree, FreeApart,
                      BelowCursor, Disjoint, End, AllAligned, AlignedRange, Aligned,
                      Covered, IsFree, IsTaken, Bytes
<1>4. CASE UNCHANGED vars
  <2>1. TypeOK'
    BY <1>4 DEF vars, IInv, TypeOK
  <2> QED
    BY <1>4, <2>1 DEF vars, IInv, LiveDisjoint, LiveApartFromFree, FreeApart,
                      BelowCursor, Disjoint, End, AllAligned, AlignedRange, Aligned,
                      Covered, IsFree, IsTaken, Bytes
<1> QED
  BY <1>1, <1>2, <1>3, <1>4 DEF Next, Finished

\* Values that are live at once never overlap, and every variable keeps its
\* type, for any values, sizes and alignment.
THEOREM ScratchDisjoint == Spec => [](TypeOK /\ LiveDisjoint)
<1>1. IInv => TypeOK /\ LiveDisjoint
  BY DEF IInv
<1> QED
  BY <1>1, InitIInv, NextIInv, PTL DEF Spec

\* The buffer of cursor bytes is divided exactly between the live values and
\* the free ranges: no byte is lost or given twice by a split or a merge, no two
\* free ranges are left unjoined, and every placement is aligned and inside.
THEOREM ScratchAccounted == Spec => []SpaceAccounted
<1>1. ASSUME IInv PROVE SpaceAccounted
  <2>1. /\ \A r \in freeRanges : r \in MemoryRange /\ End(r) <= cursor
        /\ \A v \in DOMAIN placements : placements[v] \in MemoryRange /\ End(placements[v]) <= cursor
        /\ live \subseteq DOMAIN placements /\ cursor \in Nat
    BY <1>1 DEF IInv, TypeOK, BelowCursor
  <2>2. ASSUME NEW range \in MemoryRange, End(range) <= cursor, NEW b \in Bytes(range)
        PROVE  b \in 0..(cursor - 1)
    BY <2>1, <2>2 DEF Bytes, End, MemoryRange
  <2>3. \A b : IsFree(b) \/ IsTaken(b) => b \in 0..(cursor - 1)
    BY <2>1, <2>2 DEF IsFree, IsTaken
  <2>4. \A b \in 0..(cursor - 1) : IsFree(b) \/ IsTaken(b)
    BY <1>1 DEF IInv, Covered
  <2>5. (UNION {Bytes(r) : r \in freeRanges}) \cup (UNION {Bytes(placements[v]) : v \in live})
           = 0..(cursor - 1)
    <3>1. \A b : b \in UNION {Bytes(r) : r \in freeRanges} <=> IsFree(b)
      BY DEF IsFree
    <3>2. \A b : b \in UNION {Bytes(placements[v]) : v \in live} <=> IsTaken(b)
      BY DEF IsTaken
    <3> DEFINE freed == UNION {Bytes(r) : r \in freeRanges}
               taken == UNION {Bytes(placements[v]) : v \in live}
    <3> HIDE DEF freed, taken
    <3>3. \A b : b \in freed \cup taken <=> IsFree(b) \/ IsTaken(b)
      BY <3>1, <3>2 DEF freed, taken
    <3>4. \A b : b \in freed \cup taken <=> b \in 0..(cursor - 1)
      BY <2>3, <2>4, <3>3, Zenon
    <3>5. freed \cup taken = 0..(cursor - 1)
      BY <3>4, Zenon
    <3> QED BY <3>5 DEF freed, taken
  <2>6. \A v \in DOMAIN placements :
           End(placements[v]) <= cursor /\ placements[v].offset % Alignment = 0
    BY <1>1, <2>1 DEF IInv, AllAligned, AlignedRange, Aligned
  <2> QED BY <1>1, <2>5, <2>6 DEF IInv, SpaceAccounted, LiveApartFromFree, FreeApart
<1> QED
  BY <1>1, InitIInv, NextIInv, PTL DEF Spec
-----------------------------------------------------------------------------
(* The merging pass                                                         *)

\* A set of numbers has a smallest one.
LEMMA Smallest ==
    ASSUME NEW T \in SUBSET Nat, T # {}
    PROVE  \E x \in T : \A y \in T : x <= y
<1> DEFINE R == OpToRel(<, Nat)
<1>1. IsWellFoundedOn(R, Nat)
  BY NatLessThanWellFounded, Zenon
<1>2. PICK x \in T : \A y \in T : ~(<<y, x>> \in R)
  <2> HIDE DEF R
  <2> QED BY <1>1, WFMin
<1>3. \A y \in T : <<y, x>> \in R <=> y < x
  BY DEF OpToRel
<1>4. \A y \in T : y \in Nat
  OBVIOUS
<1>5. \A y \in T : ~(y < x)
  BY <1>2, <1>3, Zenon
<1> HIDE DEF R
<1> QED BY <1>4, <1>5

LEMMA ByPrevious ==
    ASSUME NEW n \in Nat, NEW T, 0 \in T, \A k \in 1..n : k - 1 \in T => k \in T
    PROVE  \A k \in 0..n : k \in T
<1> SUFFICES ASSUME (0..n) \ T # {} PROVE FALSE
  OBVIOUS
<1>1. PICK x \in (0..n) \ T : \A y \in (0..n) \ T : x <= y
  <2> DEFINE U == (0..n) \ T
  <2>1. U \in SUBSET Nat /\ U # {}
    OBVIOUS
  <2> HIDE DEF U
  <2>2. \E x \in U : \A y \in U : x <= y
    BY <2>1, Smallest
  <2> QED BY <2>2 DEF U
<1>2. x # 0 /\ x - 1 \in T
  BY <1>1
<1> QED BY <1>1, <1>2

\* f is built from z by these steps, which stay in D.
Iterates(f, n, z, step) == f[0] = z /\ \A k \in 1..n : f[k] = step[k][f[k - 1]]
StaysIn(D, n, step) == \A k \in 1..n : \A x \in D : step[k][x] \in D

LEMMA Iteration ==
    ASSUME NEW n \in Nat, NEW D, NEW z \in D, NEW step, StaysIn(D, n, step)
    PROVE  \E f \in [0..n -> D] : Iterates(f, n, z, step)
<1> DEFINE T == {m \in 0..n : \E f \in [0..m -> D] : Iterates(f, m, z, step)}
<1>1. 0 \in T
  <2> DEFINE f == [j \in 0..0 |-> z]
  <2>1. f \in [0..0 -> D] /\ Iterates(f, 0, z, step)
    BY DEF Iterates
  <2> HIDE DEF f
  <2> QED BY <2>1
<1>2. ASSUME NEW m \in 1..n, m - 1 \in T PROVE m \in T
  <2>1. PICK f \in [0..(m - 1) -> D] : Iterates(f, m - 1, z, step)
    BY <1>2
  <2> DEFINE g == [j \in 0..m |-> IF j = m THEN step[m][f[m - 1]] ELSE f[j]]
  <2>2. g \in [0..m -> D]
    BY DEF StaysIn
  <2>3. Iterates(g, m, z, step)
    <3>1. g[0] = z
      BY <2>1 DEF Iterates
    <3>2. ASSUME NEW k \in 1..m PROVE g[k] = step[k][g[k - 1]]
      <4>1. CASE k = m
        BY <4>1
      <4>2. CASE k # m
        <5>1. k \in 1..(m - 1) /\ g[k] = f[k] /\ g[k - 1] = f[k - 1]
          BY <4>2
        <5> QED BY <2>1, <5>1 DEF Iterates
      <4> QED BY <4>1, <4>2
    <3> HIDE DEF g
    <3> QED BY <3>1, <3>2 DEF Iterates
  <2> HIDE DEF g
  <2> QED BY <2>2, <2>3
<1>3. n \in T
  <2> HIDE DEF T
  <2> QED BY <1>1, <1>2, ByPrevious
<1> QED BY <1>3

Covers(S, b) == \E r \in S : b \in Bytes(r)
Separated(S) == \A r, s \in S : r # s => End(r) < s.offset \/ End(s) < r.offset

\* Ranges with gaps between them are determined by the bytes they cover.
LEMMA SameRange ==
    ASSUME NEW S \in SUBSET MemoryRange, NEW T \in SUBSET MemoryRange,
           Separated(S), Separated(T), \A b \in Nat : Covers(S, b) <=> Covers(T, b),
           NEW r \in S
    PROVE  r \in T
<1>1. \A x \in S \cup T : /\ x.offset \in Nat /\ x.bytes \in Nat \ {0} /\ End(x) \in Nat
                          /\ x.offset < End(x) /\ x = [offset |-> x.offset, bytes |-> End(x) - x.offset]
                          /\ \A b \in Nat : b \in Bytes(x) <=> x.offset <= b /\ b < End(x)
  BY DEF MemoryRange, End, Bytes
<1>2. PICK s \in T : s.offset <= r.offset /\ r.offset < End(s)
  <2>1. Covers(S, r.offset)
    BY <1>1 DEF Covers
  <2>2. Covers(T, r.offset)
    BY <1>1, <2>1
  <2> QED BY <1>1, <2>2 DEF Covers
<1>3. s.offset = r.offset
  <2> SUFFICES ASSUME s.offset < r.offset PROVE FALSE
    BY <1>1, <1>2
  <2> DEFINE b == r.offset - 1
  <2>1. b \in Nat /\ s.offset <= b /\ b < End(s) /\ b < r.offset /\ r.offset = b + 1
    BY <1>1, <1>2
  <2> HIDE DEF b
  <2>2. Covers(S, b)
    BY <1>1, <2>1 DEF Covers
  <2>3. PICK q \in S : q.offset <= b /\ b < End(q)
    BY <1>1, <2>1, <2>2 DEF Covers
  <2>4. q # r /\ ~(End(q) < r.offset) /\ ~(End(r) < q.offset)
    BY <1>1, <2>1, <2>3
  <2> QED BY <2>4 DEF Separated
<1>4. End(s) = End(r)
  <2>1. ASSUME End(r) < End(s) PROVE FALSE
    <3> DEFINE b == End(r)
    <3>1. b \in Nat /\ s.offset <= b /\ b < End(s) /\ r.offset < b
      BY <1>1, <1>3, <2>1
    <3>2. Covers(S, b)
      BY <1>1, <3>1 DEF Covers
    <3>3. PICK q \in S : q.offset <= b /\ b < End(q)
      BY <1>1, <3>1, <3>2 DEF Covers
    <3>4. q # r /\ ~(End(q) < r.offset) /\ ~(End(r) < q.offset)
      BY <1>1, <3>1, <3>3
    <3> QED BY <3>4 DEF Separated
  <2>2. ASSUME End(s) < End(r) PROVE FALSE
    <3> DEFINE b == End(s)
    <3>1. b \in Nat /\ r.offset <= b /\ b < End(r) /\ s.offset < b
      BY <1>1, <1>3, <2>2
    <3>2. Covers(T, b)
      BY <1>1, <3>1 DEF Covers
    <3>3. PICK q \in T : q.offset <= b /\ b < End(q)
      BY <1>1, <3>1, <3>2 DEF Covers
    <3>4. q # s /\ ~(End(q) < s.offset) /\ ~(End(s) < q.offset)
      BY <1>1, <3>1, <3>3
    <3> QED BY <3>4 DEF Separated
  <2> QED BY <1>1, <2>1, <2>2
<1>5. r = s
  BY <1>1, <1>3, <1>4
<1> QED BY <1>5

\* There is a range with the lowest offset.
LEMMA LowestIs ==
    ASSUME NEW R \in SUBSET MemoryRange, R # {}
    PROVE  Lowest(R) \in R /\ \A s \in R : Lowest(R).offset <= s.offset
<1>1. \A r \in R : r.offset \in Nat
  BY DEF MemoryRange
<1> DEFINE U == {r.offset : r \in R}
<1>2. PICK n \in U : \A m \in U : n <= m
  <2>1. U \in SUBSET Nat /\ U # {}
    BY <1>1
  <2> HIDE DEF U
  <2> QED BY <2>1, Smallest
<1>3. \E r \in R : \A s \in R : r.offset <= s.offset
  BY <1>2
<1> QED BY <1>3 DEF Lowest

\* The pass has taken k ranges: what is left lies above what is merged, and
\* together they cover what the ranges did.
PassOK(R, x, k) ==
    /\ x = [rest |-> x.rest, merged |-> x.merged]
    /\ x.rest \subseteq R /\ Cardinality(x.rest) = Cardinality(R) - k
    /\ x.merged \in Seq(MemoryRange)
    /\ \A i, j \in DOMAIN x.merged : i < j => End(x.merged[i]) < x.merged[j].offset
    /\ \A i \in DOMAIN x.merged : \A r \in x.rest : End(x.merged[i]) <= r.offset
    /\ \A b \in Nat : Covers(R, b) <=>
          Covers(x.rest, b) \/ \E i \in DOMAIN x.merged : b \in Bytes(x.merged[i])

LEMMA PassStep ==
    ASSUME NEW R \in SUBSET MemoryRange, IsFiniteSet(R),
           \A r, s \in R : r # s => Disjoint(r, s),
           NEW k \in 1..Cardinality(R), NEW x, PassOK(R, x, k - 1)
    PROVE  PassOK(R, TakeLowest(x), k)
<1> DEFINE rest == x.rest
           merged == x.merged
           last == Len(merged)
           range == Lowest(rest)
           left == rest \ {range}
           touch == last > 0 /\ End(merged[last]) = range.offset
           wider == [merged EXCEPT ![last].bytes = @ + range.bytes]
           next == IF touch THEN wider ELSE Append(merged, range)
<1>1. TakeLowest(x) = [rest |-> left, merged |-> next]
  BY DEF TakeLowest
<1>2. /\ rest \subseteq R /\ Cardinality(rest) = Cardinality(R) - (k - 1)
      /\ merged \in Seq(MemoryRange)
      /\ \A i, j \in DOMAIN merged : i < j => End(merged[i]) < merged[j].offset
      /\ \A i \in DOMAIN merged : \A r \in rest : End(merged[i]) <= r.offset
      /\ \A b \in Nat : Covers(R, b) <=>
            Covers(rest, b) \/ \E i \in DOMAIN merged : b \in Bytes(merged[i])
  BY DEF PassOK
<1> HIDE DEF rest, merged
<1>3. IsFiniteSet(rest) /\ Cardinality(R) \in Nat /\ Cardinality(rest) \in Nat
  BY <1>2, FS_Subset, FS_CardinalityType
<1>4. rest # {}
  BY <1>2, <1>3, FS_EmptySet
<1>5. range \in rest /\ \A s \in rest : range.offset <= s.offset
  BY <1>2, <1>4, LowestIs
<1> HIDE DEF range
<1>6. left \subseteq R /\ Cardinality(left) = Cardinality(R) - k
  <2>1. Cardinality(left) = Cardinality(rest) - 1
    BY <1>3, <1>5, FS_RemoveElement
  <2> QED BY <1>2, <1>3, <2>1
<1>7. \A r \in R : /\ r.offset \in Nat /\ r.bytes \in Nat \ {0} /\ End(r) \in Nat
                   /\ End(r) = r.offset + r.bytes /\ r.offset < End(r)
                   /\ \A b \in Nat : b \in Bytes(r) <=> r.offset <= b /\ b < End(r)
  BY DEF MemoryRange, End, Bytes
<1>8. last \in Nat /\ DOMAIN merged = 1..last /\ \A i \in 1..last : merged[i] \in MemoryRange
  BY <1>2, LenProperties, ElementOfSeq
<1>9. \A i \in 1..last : /\ merged[i].offset \in Nat /\ merged[i].bytes \in Nat \ {0}
                         /\ End(merged[i]) = merged[i].offset + merged[i].bytes
                         /\ End(merged[i]) \in Nat /\ merged[i].offset < End(merged[i])
                         /\ \A b \in Nat : b \in Bytes(merged[i]) <=>
                               merged[i].offset <= b /\ b < End(merged[i])
  BY <1>8 DEF MemoryRange, End, Bytes
<1>10. range \in R /\ \A r \in left : r \in R /\ End(range) <= r.offset
  <2>1. \A r \in left : r \in rest /\ r # range /\ r \in R /\ Disjoint(range, r)
    BY <1>2, <1>5
  <2>2. \A r \in left : End(range) <= r.offset \/ End(r) <= range.offset
    BY <2>1 DEF Disjoint
  <2> QED BY <1>2, <1>5, <1>7, <2>1, <2>2
<1>11. \A b \in Nat : Covers(rest, b) <=> Covers(left, b) \/ b \in Bytes(range)
  BY <1>5 DEF Covers
<1> HIDE DEF last, left
<1>12. CASE touch
  <2> DEFINE new == [offset |-> merged[last].offset, bytes |-> merged[last].bytes + range.bytes]
  <2>1. last \in 1..last /\ End(merged[last]) = range.offset
    BY <1>8, <1>12
  <2>2. /\ new \in MemoryRange /\ new.offset = merged[last].offset /\ End(new) = End(range)
        /\ \A b \in Nat : b \in Bytes(new) <=> new.offset <= b /\ b < End(new)
    BY <1>7, <1>9, <1>10, <2>1 DEF MemoryRange, End, Bytes
  <2>3. [merged[last] EXCEPT !.bytes = @ + range.bytes] = new
    BY <1>8, <2>1 DEF MemoryRange
  <2>4. next = [merged EXCEPT ![last] = new]
    BY <1>12, <2>3
  <2> HIDE DEF new, next
  <2>5. next \in Seq(MemoryRange) /\ DOMAIN next = 1..last
    BY <1>2, <1>8, <2>1, <2>2, <2>4, ExceptSeq
  <2>6. \A i \in 1..last : next[i] = IF i = last THEN new ELSE merged[i]
    BY <1>8, <2>4
  <2>7. \A i, j \in 1..last : i < j => End(next[i]) < next[j].offset
    <3> TAKE i, j \in 1..last
    <3> HAVE i < j
    <3>1. i # last /\ End(merged[i]) < merged[j].offset
      BY <1>2, <1>8
    <3> QED BY <2>1, <2>2, <2>6, <3>1
  <2>8. \A i \in 1..last : \A r \in left : End(next[i]) <= r.offset
    <3> TAKE i \in 1..last
    <3> TAKE r \in left
    <3>1. CASE i = last
      BY <1>10, <2>2, <2>6, <3>1
    <3>2. CASE i # last
      BY <1>2, <1>8, <2>6, <3>2 DEF left
    <3> QED BY <3>1, <3>2
  <2>9. \A b \in Nat : (\E i \in 1..last : b \in Bytes(next[i])) <=>
           b \in Bytes(range) \/ \E i \in 1..last : b \in Bytes(merged[i])
    <3> TAKE b \in Nat
    <3>1. b \in Bytes(new) <=> b \in Bytes(range) \/ b \in Bytes(merged[last])
      BY <1>7, <1>9, <1>10, <2>1, <2>2
    <3> QED BY <2>1, <2>6, <3>1
  <2>10. \A b \in Nat : Covers(R, b) <=>
            Covers(left, b) \/ \E i \in 1..last : b \in Bytes(next[i])
    BY <1>2, <1>8, <1>11, <2>9
  <2> QED BY <1>1, <1>6, <2>5, <2>7, <2>8, <2>10 DEF PassOK
<1>13. CASE ~touch
  <2>1. next = Append(merged, range)
    BY <1>13
  <2> HIDE DEF next
  <2>2. /\ next \in Seq(MemoryRange) /\ DOMAIN next = 1..(last + 1)
        /\ \A i \in 1..last : next[i] = merged[i]
        /\ next[last + 1] = range
    BY <1>2, <1>8, <1>10, <2>1, AppendProperties DEF last
  <2>3. \A i \in 1..last : End(merged[i]) < range.offset
    <3> TAKE i \in 1..last
    <3>1. End(merged[i]) <= End(merged[last]) /\ last \in 1..last
      <4>1. last \in 1..last
        BY <1>8
      <4>2. CASE i = last
        BY <1>9, <4>2
      <4>3. CASE i # last
        <5>1. i < last /\ i \in DOMAIN merged /\ last \in DOMAIN merged
          BY <1>8, <4>1, <4>3
        <5>2. End(merged[i]) < merged[last].offset
          BY <1>2, <5>1
        <5> QED BY <1>9, <4>1, <5>2
      <4> QED BY <4>1, <4>2, <4>3
    <3>2. End(merged[last]) <= range.offset
      BY <1>2, <1>5, <1>8, <3>1
    <3>3. End(merged[last]) # range.offset
      BY <1>8, <1>13, <3>1
    <3> QED BY <1>7, <1>9, <1>10, <3>1, <3>2, <3>3
  <2>4. \A i, j \in 1..(last + 1) : i < j => End(next[i]) < next[j].offset
    <3> TAKE i, j \in 1..(last + 1)
    <3> HAVE i < j
    <3>1. i \in 1..last /\ (j \in 1..last \/ j = last + 1)
      BY <1>8
    <3> QED BY <1>2, <1>8, <2>2, <2>3, <3>1
  <2>5. \A i \in 1..(last + 1) : \A r \in left : End(next[i]) <= r.offset
    <3> TAKE i \in 1..(last + 1)
    <3> TAKE r \in left
    <3>1. i \in 1..last \/ i = last + 1
      BY <1>8
    <3>2. r \in rest
      BY DEF left
    <3> QED BY <1>2, <1>8, <1>10, <2>2, <3>1, <3>2
  <2>6. \A b \in Nat : (\E i \in 1..(last + 1) : b \in Bytes(next[i])) <=>
           b \in Bytes(range) \/ \E i \in 1..last : b \in Bytes(merged[i])
    <3>1. \A i : i \in 1..(last + 1) <=> i \in 1..last \/ i = last + 1
      BY <1>8
    <3> QED BY <2>2, <3>1
  <2>7. \A b \in Nat : Covers(R, b) <=>
            Covers(left, b) \/ \E i \in 1..(last + 1) : b \in Bytes(next[i])
    BY <1>2, <1>8, <1>11, <2>6
  <2> QED BY <1>1, <1>6, <2>2, <2>4, <2>5, <2>7 DEF PassOK
<1> QED BY <1>12, <1>13

\* What the pass makes of ranges that are apart.
LEMMA MergePassIs ==
    ASSUME NEW R \in SUBSET MemoryRange, IsFiniteSet(R),
           \A r, s \in R : r # s => Disjoint(r, s)
    PROVE  \E x : x.merged = MergePass(R) /\ PassOK(R, x, Cardinality(R))
<1> DEFINE n == Cardinality(R)
           z == [rest |-> R, merged |-> <<>>]
           D == [rest : SUBSET R, merged : Seq(MemoryRange)]
           OK(x, k) == PassOK(R, x, k)
           step == [k \in 1..n |-> [x \in D |->
                      IF OK(x, k - 1) THEN TakeLowest(x) ELSE x]]
           Is(f) == f = [k \in 0..n |-> IF k = 0 THEN z ELSE TakeLowest(f[k - 1])]
<1>1. n \in Nat
  BY FS_CardinalityType
<1>2. OK(z, 0)
  <2>1. <<>> \in Seq(MemoryRange) /\ DOMAIN <<>> = {}
    BY EmptySeq
  <2> QED BY <1>1, <2>1 DEF PassOK
<1>3. \A x, k : OK(x, k) => x \in D
  BY DEF PassOK
<1>4. \A k \in 1..n : \A x : OK(x, k - 1) => OK(TakeLowest(x), k)
  BY PassStep
<1> HIDE DEF OK, D, z, n
<1>5. StaysIn(D, n, step)
  BY <1>3, <1>4 DEF StaysIn
<1>6. z \in D
  BY <1>2, <1>3
<1>7. PICK f \in [0..n -> D] : Iterates(f, n, z, step)
  <2> HIDE DEF step, Is
  <2> QED BY <1>1, <1>5, <1>6, Iteration
<1>8. \A k \in 0..n : OK(f[k], k)
  <2> DEFINE T == {k \in 0..n : OK(f[k], k)}
  <2>1. 0 \in T
    BY <1>1, <1>2, <1>7 DEF Iterates
  <2>2. ASSUME NEW k \in 1..n, k - 1 \in T PROVE k \in T
    <3>1. k - 1 \in 0..n /\ OK(f[k - 1], k - 1)
      BY <2>2
    <3>2. f[k - 1] \in D
      BY <1>7, <3>1
    <3>3. f[k] = step[k][f[k - 1]]
      BY <1>7 DEF Iterates
    <3>4. f[k] = TakeLowest(f[k - 1])
      BY <3>1, <3>2, <3>3
    <3> QED BY <1>1, <1>4, <3>1, <3>4
  <2> HIDE DEF T
  <2>3. \A k \in 0..n : k \in T
    BY <1>1, <2>1, <2>2, ByPrevious
  <2> QED BY <2>3 DEF T
<1>9. \A k \in 1..n : f[k] = TakeLowest(f[k - 1])
  <2> TAKE k \in 1..n
  <2>1. k - 1 \in 0..n
    BY <1>1
  <2>2. OK(f[k - 1], k - 1) /\ f[k - 1] \in D
    BY <1>7, <1>8, <2>1
  <2>3. f[k] = step[k][f[k - 1]]
    BY <1>7 DEF Iterates
  <2> QED BY <2>2, <2>3
<1>10. Is(f)
  BY <1>1, <1>7, <1>9 DEF Iterates
<1>11. \A h : Is(h) => \A k \in 0..n : h[k] = f[k]
  <2> TAKE h
  <2> HAVE Is(h)
  <2> DEFINE T == {k \in 0..n : h[k] = f[k]}
  <2>1. 0 \in T
    BY <1>1, <1>7 DEF Iterates
  <2>2. ASSUME NEW k \in 1..n, k - 1 \in T PROVE k \in T
    BY <1>1, <1>9, <2>2
  <2> HIDE DEF T
  <2>3. \A k \in 0..n : k \in T
    BY <1>1, <2>1, <2>2, ByPrevious
  <2> QED BY <2>3 DEF T
<1>12. Is(CHOOSE h : Is(h))
  <2> HIDE DEF Is
  <2> QED BY <1>10
<1>13. MergePass(R) = (CHOOSE h : Is(h))[n].merged
  BY DEF MergePass, n, z
<1>14. MergePass(R) = f[n].merged
  <2> HIDE DEF Is
  <2> QED BY <1>1, <1>11, <1>12, <1>13
<1> QED BY <1>1, <1>8, <1>14 DEF OK, n

\* There are finitely many free ranges.
FiniteInv == IsFiniteSet(freeRanges)

LEMMA FiniteStays == FiniteInv /\ [Next]_vars => FiniteInv'
<1> SUFFICES ASSUME IsFiniteSet(freeRanges), [Next]_vars PROVE IsFiniteSet(freeRanges')
  BY DEF FiniteInv
<1>1. \A S, x : S \subseteq freeRanges => IsFiniteSet(S \cup {x}) /\ IsFiniteSet(S)
  BY FS_Subset, FS_AddElement
<1>2. \A range, bytes : IsFiniteSet(Carve(range, bytes))
  BY <1>1 DEF Carve
<1>3. \A range : IsFiniteSet(Merged(range))
  BY <1>1 DEF Merged
<1>4. ASSUME NEW value, NEW size, Alloc(value, size) PROVE IsFiniteSet(freeRanges')
  BY <1>2, <1>4 DEF Alloc, AllocFromFree, AllocAtCursor
<1>5. ASSUME NEW value, Free(value) PROVE IsFiniteSet(freeRanges')
  BY <1>3, <1>5 DEF Free
<1> QED BY <1>4, <1>5 DEF Next, FinalizeLayout, Finished, vars

\* The sorting and merging of free computes what Free does, whatever is freed.
THEOREM PassIsTheMerge == Spec => []MergeIsThePass
<1>1. ASSUME IInv, FiniteInv PROVE MergeIsThePass
  <2> SUFFICES ASSUME NEW v \in live
               PROVE  /\ {MergePass(freeRanges \cup {placements[v]})[i] :
                             i \in DOMAIN MergePass(freeRanges \cup {placements[v]})}
                            = Merged(placements[v])
                      /\ \A i, j \in DOMAIN MergePass(freeRanges \cup {placements[v]}) :
                            i < j => End(MergePass(freeRanges \cup {placements[v]})[i])
                                       < MergePass(freeRanges \cup {placements[v]})[j].offset
    BY DEF MergeIsThePass
  <2> DEFINE p == placements[v]
             R == freeRanges \cup {p}
             n == Cardinality(R)
             merged == MergePass(R)
             made == {merged[i] : i \in DOMAIN merged}
  <2>1. /\ freeRanges \subseteq MemoryRange /\ p \in MemoryRange
        /\ \A r \in freeRanges : Disjoint(p, r)
        /\ Separated(freeRanges)
    BY <1>1 DEF IInv, TypeOK, LiveApartFromFree, FreeApart, Separated
  <2> HIDE DEF p
  <2>2. /\ R \in SUBSET MemoryRange /\ IsFiniteSet(R)
        /\ \A r, s \in R : r # s => Disjoint(r, s)
    <3>1. \A r, s \in freeRanges : r # s => Disjoint(r, s)
      BY <2>1 DEF Separated, Disjoint, MemoryRange, End
    <3>2. \A r \in freeRanges : Disjoint(r, p)
      BY <2>1 DEF Disjoint
    <3> QED BY <1>1, <2>1, <3>1, <3>2, FS_AddElement DEF FiniteInv
  <2>3. PICK x : x.merged = merged /\ PassOK(R, x, n)
    <3> HIDE DEF R
    <3> QED BY <2>2, MergePassIs
  <2>4. n \in Nat
    BY <2>2, FS_CardinalityType
  <2> HIDE DEF merged, n
  <2>5. /\ Cardinality(x.rest) = 0 /\ IsFiniteSet(x.rest)
        /\ merged \in Seq(MemoryRange)
        /\ \A i, j \in DOMAIN merged : i < j => End(merged[i]) < merged[j].offset
        /\ \A b \in Nat : Covers(R, b) <=>
              Covers(x.rest, b) \/ \E i \in DOMAIN merged : b \in Bytes(merged[i])
    <3>1. x.rest \subseteq R /\ Cardinality(x.rest) = n - n
      BY <2>3 DEF PassOK, n
    <3> HIDE DEF R
    <3> QED BY <2>2, <2>3, <2>4, <3>1, FS_Subset DEF PassOK
  <2>6. made \subseteq MemoryRange
    BY <2>5, LenProperties, ElementOfSeq
  <2>7. Separated(made)
    <3>1. \A i \in DOMAIN merged : i \in Nat
      BY <2>5, LenProperties
    <3>2. \A i, j \in DOMAIN merged : merged[i] # merged[j] => i < j \/ j < i
      BY <3>1
    <3> QED BY <2>5, <3>2 DEF Separated
  <2>8. \A b \in Nat : Covers(made, b) <=> Covers(R, b)
    <3>1. x.rest = {}
      BY <2>5, FS_EmptySet
    <3> HIDE DEF R
    <3> QED BY <2>5, <3>1 DEF Covers
  <2>9. /\ Merged(p) \subseteq MemoryRange /\ Separated(Merged(p))
        /\ \A b \in Nat : Covers(Merged(p), b) <=> Covers(R, b)
    <3>1. PICK m \in MemoryRange, kept \in SUBSET freeRanges :
             /\ Merged(p) = kept \cup {m}
             /\ End(m) <= cursor
             /\ \A s \in kept : End(s) < m.offset \/ End(m) < s.offset
             /\ \A y \in MemoryRange :
                   /\ Disjoint(y, p)
                   /\ \A r \in freeRanges : Disjoint(y, r)
                   => Disjoint(y, m)
             /\ \A b \in Bytes(p) : b \in Bytes(m)
             /\ \A r \in freeRanges : r \in kept \/ Bytes(r) \subseteq Bytes(m)
             /\ AlignedRange(m)
      BY <1>1, MergedShape, Zenon DEF p
    <3>2. Merged(p) \subseteq MemoryRange
      BY <2>1, <3>1
    <3>3. Separated(Merged(p))
      BY <2>1, <3>1 DEF Separated
    <3>4. ASSUME NEW b \in Nat, b \in Bytes(m) PROVE Covers(R, b)
      <4> SUFFICES ASSUME ~Covers(R, b) PROVE FALSE
        OBVIOUS
      <4> DEFINE y == [offset |-> b, bytes |-> 1]
      <4>1. y \in MemoryRange /\ y.offset = b /\ End(y) = b + 1
        BY DEF MemoryRange, End
      <4>2. \A r \in R : b \notin Bytes(r)
        BY DEF Covers
      <4>3. \A r \in MemoryRange : b \notin Bytes(r) => Disjoint(y, r)
        BY <4>1 DEF Disjoint, MemoryRange, End, Bytes
      <4>4. Disjoint(y, m)
        BY <2>1, <3>1, <4>1, <4>2, <4>3
      <4>5. b \notin Bytes(m)
        BY <4>1, <4>4 DEF Disjoint, MemoryRange, End, Bytes
      <4> QED BY <3>4, <4>5
    <3>5. \A b \in Nat : Covers(Merged(p), b) => Covers(R, b)
      BY <3>1, <3>4 DEF Covers
    <3>6. \A b \in Nat : Covers(R, b) => Covers(Merged(p), b)
      BY <3>1 DEF Covers
    <3> QED BY <3>2, <3>3, <3>5, <3>6
  <2>10. made = Merged(p)
    <3> DEFINE S == Merged(p)
    <3>1. S \in SUBSET MemoryRange /\ made \in SUBSET MemoryRange
      BY <2>6, <2>9
    <3>2. \A b \in Nat : Covers(S, b) <=> Covers(made, b)
      BY <2>8, <2>9
    <3> HIDE DEF S, made
    <3>3. \A r \in S : r \in made
      BY <2>7, <2>9, <3>1, <3>2, SameRange DEF S
    <3>4. \A r \in made : r \in S
      BY <2>7, <2>9, <3>1, <3>2, SameRange DEF S
    <3> QED BY <3>3, <3>4 DEF S
  <2> QED BY <2>5, <2>10 DEF merged, p
<1>2. Init => FiniteInv
  BY FS_EmptySet DEF Init, FiniteInv
<1> QED BY <1>1, <1>2, InitIInv, NextIInv, FiniteStays, PTL DEF Spec
=============================================================================
