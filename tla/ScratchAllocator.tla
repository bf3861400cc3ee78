-------------------------- MODULE ScratchAllocator --------------------------
(***************************************************************************)
(* CudaScratchAllocator: places the temporary tensors of a program inside  *)
(* one buffer whose size is not known until every value has been placed.   *)
(* Freed ranges are reused best fit; what does not fit goes at the cursor. *)
(*                                                                         *)
(* The free list is a vector sorted by offset in which no two ranges       *)
(* touch, so it is the same thing as the set of its ranges.  A range of no *)
(* bytes, which an empty tensor would reserve, is left out: it covers      *)
(* nothing.                                                                *)
(***************************************************************************)
EXTENDS Integers, FiniteSets, Sequences

CONSTANTS
    Values,     \* the values that may be given scratch storage
    Sizes,      \* tensorBytes of their descriptors
    Alignment   \* kScratchAlignment

ASSUME ScratchAssumption ==
    /\ Sizes \subseteq Nat \ {0}
    /\ Alignment \in Nat \ {0}

VARIABLES
    freeRanges,   \* freeRanges_
    placements,   \* placements_, by value
    live,         \* the values v with live_[v]
    cursor,       \* cursor_
    finalized     \* finalized_

vars == <<freeRanges, placements, live, cursor, finalized>>

End(range) == range.offset + range.bytes
Bytes(range) == range.offset..(End(range) - 1)
AlignUp(n) == ((n + Alignment - 1) \div Alignment) * Alignment
Larger(a, b) == IF a > b THEN a ELSE b

Init ==
    /\ freeRanges = {}
    /\ placements = <<>>
    /\ live = {}
    /\ cursor = 0
    /\ finalized = FALSE

\* The loop over freeRanges_: the smallest range that is large enough, the
\* lowest of those of one size.
Fitting(bytes) == {range \in freeRanges : range.bytes >= bytes}

IsBestFit(range, bytes) ==
    /\ range \in Fitting(bytes)
    /\ \A other \in Fitting(bytes) :
          \/ range.bytes < other.bytes
          \/ range.bytes = other.bytes /\ range.offset <= other.offset

Carve_KeepsBytes(range, bytes) ==
    (freeRanges \ {range}) \cup
        (IF range.bytes = bytes THEN {}
         ELSE {[offset |-> range.offset + bytes, bytes |-> range.bytes]})

\* The front of the range is taken; nothing is left of a range that fits.
Carve(range, bytes) ==
    (freeRanges \ {range}) \cup
        (IF range.bytes = bytes THEN {}
         ELSE {[offset |-> range.offset + bytes, bytes |-> range.bytes - bytes]})

Place(value, offset, bytes) ==
    /\ placements' = [v \in DOMAIN placements \cup {value} |->
                         IF v = value THEN [offset |-> offset, bytes |-> bytes]
                                      ELSE placements[v]]
    /\ live' = live \cup {value}
    /\ cursor' = Larger(cursor, offset + bytes)
    /\ UNCHANGED finalized

CanAlloc(value) == ~finalized /\ value \notin DOMAIN placements

AllocFromFree(value, size) ==
    LET bytes == AlignUp(size)
    IN  /\ CanAlloc(value)
        /\ \E range \in freeRanges :
              /\ IsBestFit(range, bytes)
              /\ freeRanges' = Carve(range, bytes)
              /\ Place(value, range.offset, bytes)

MustGrow(bytes) == Fitting(bytes) = {}

AllocAtCursor(value, size) ==
    LET bytes == AlignUp(size)
    IN  /\ CanAlloc(value)
        /\ MustGrow(bytes)
        /\ Place(value, AlignUp(cursor), bytes)
        /\ UNCHANGED freeRanges

Alloc(value, size) == AllocFromFree(value, size) \/ AllocAtCursor(value, size)

\* The sort and the merging pass: the freed range joins the range that ends
\* where it starts and the one that starts where it ends.
TouchesLeft(range) == {r \in freeRanges : End(r) = range.offset}
TouchesRight(range) == {r \in freeRanges : r.offset = End(range)}

Merged_KeepsNeighbours(range) == freeRanges \cup {range}
Merged(range) ==
    LET left == TouchesLeft(range)
        right == TouchesRight(range)
        from == IF left = {} THEN range.offset ELSE (CHOOSE r \in left : TRUE).offset
        to == IF right = {} THEN End(range) ELSE End(CHOOSE r \in right : TRUE)
    IN  (freeRanges \ (left \cup right)) \cup {[offset |-> from, bytes |-> to - from]}

\* The same as free computes it: of the ranges in the order of their offsets,
\* each extends the last one of the new list or is appended to it.
Lowest(ranges) == CHOOSE r \in ranges : \A s \in ranges : r.offset <= s.offset

TakeLowest(pass) ==
    LET range == Lowest(pass.rest)
        merged == pass.merged
        last == Len(merged)
    IN  [rest |-> pass.rest \ {range},
         merged |-> IF last > 0 /\ End(merged[last]) = range.offset
                    THEN [merged EXCEPT ![last].bytes = @ + range.bytes]
                    ELSE Append(merged, range)]

MergePass(ranges) ==
    LET pass[k \in 0..Cardinality(ranges)] ==
            IF k = 0 THEN [rest |-> ranges, merged |-> <<>>] ELSE TakeLowest(pass[k - 1])
    IN  pass[Cardinality(ranges)].merged

CanFree(value) == ~finalized /\ value \in live

Free(value) ==
    /\ CanFree(value)
    /\ live' = live \ {value}
    /\ freeRanges' = Merged(placements[value])
    /\ UNCHANGED <<placements, cursor, finalized>>

\* finalizeLayout: the layout is the placements, in a buffer of cursor bytes.
\* Every later call fails.
FinalizeLayout ==
    /\ ~finalized
    /\ finalized' = TRUE
    /\ UNCHANGED <<freeRanges, placements, live, cursor>>

Finished == finalized /\ UNCHANGED vars

Next ==
    \/ \E value \in Values :
          \/ \E size \in Sizes : Alloc(value, size)
          \/ Free(value)
    \/ FinalizeLayout
    \/ Finished

Spec == Init /\ [][Next]_vars

-----------------------------------------------------------------------------
(* Properties *)

MemoryRange == [offset : Nat, bytes : Nat \ {0}]
Disjoint(r, s) == End(r) <= s.offset \/ End(s) <= r.offset

\* Every variable has its type, and only a value that was placed is live.
TypeOK ==
    /\ freeRanges \in SUBSET MemoryRange
    /\ DOMAIN placements \subseteq Values
    /\ \A v \in DOMAIN placements : placements[v] \in MemoryRange
    /\ live \subseteq DOMAIN placements
    /\ cursor \in Nat
    /\ finalized \in BOOLEAN

\* Two values that are live at once never share a byte, however their
\* allocations and frees were ordered and whatever ranges were split and
\* merged in between.
LiveDisjoint ==
    \A v, w \in live : v # w => Disjoint(placements[v], placements[w])

\* The buffer is exactly divided: every byte below the cursor belongs to a
\* live value or to one free range, and no two free ranges overlap or touch.
\* A range lost or counted twice by the merging pass shows here.  Every
\* placement starts at an aligned offset and stays below the cursor, so that
\* finalizeLayout's own errors are never reached.
SpaceAccounted ==
    /\ (UNION {Bytes(r) : r \in freeRanges}) \cup (UNION {Bytes(placements[v]) : v \in live})
          = 0..(cursor - 1)
    /\ \A v \in live, r \in freeRanges : Disjoint(placements[v], r)
    /\ \A r, s \in freeRanges : r # s => End(r) < s.offset \/ End(s) < r.offset
    /\ \A v \in DOMAIN placements :
          /\ End(placements[v]) <= cursor
          /\ placements[v].offset % Alignment = 0

\* Whichever live value is freed next, the sort and the merging pass give the
\* ranges that Free leaves, in the order of their offsets and with a gap between
\* any two; on that order the search of the next alloc relies.
MergeIsThePass ==
    \A v \in live :
        LET merged == MergePass(freeRanges \cup {placements[v]})
        IN  /\ {merged[i] : i \in DOMAIN merged} = Merged(placements[v])
            /\ \A i, j \in DOMAIN merged : i < j => End(merged[i]) < merged[j].offset
=============================================================================
