------------------------------ MODULE CpuPages -------------------------------
(***************************************************************************)
(* Paged tensors of the CPU device: BumpAllocator and FixedPagePool of     *)
(* src/core/Allocator.cpp and the tensors that src/device/cpu/             *)
(* CpuDevice.cpp builds from their pages.  Sizes count elements.           *)
(*                                                                         *)
(* A page holds, for each of the prefix places before the dimension that   *)
(* grows, pageSize rows of trailing elements.  A pool is                   *)
(*   [prefix, trailing, pageSize, initial, max, align] (max 0: no limit)   *)
(* with what it owns: used and data of its arena, the offsets of its pages *)
(* and the stack of free ones.  Pages are numbered from 1.                 *)
(***************************************************************************)
EXTENDS Integers, SequencesExt

CONSTANTS
  PoolDescs,     \* pools that may be created
  PagedTensors,  \* identities of tensors: numbers
  Lengths,       \* lengths a tensor may be allocated with
  Chunks,        \* chunks that may be appended, by the elements of a row
  MaxLength      \* bound on the length of a tensor

RowElements(p) == p.prefix * p.trailing

\* Pools have places and rows of something, and chunks are of whole rows.
ASSUME PagesAssumption ==
  /\ \A desc \in PoolDescs :
       /\ \A field \in {desc.prefix, desc.trailing, desc.pageSize, desc.align} : field \in Nat \ {0}
       /\ desc.initial \in Nat /\ desc.max \in Nat
       /\ RowElements(desc) \in DOMAIN Chunks
  /\ \A n \in DOMAIN Chunks : \A chunk \in Chunks[n] :
       chunk \in Seq(ToSet(chunk)) /\ chunk # <<>> /\ Len(chunk) % n = 0
  /\ Lengths \subseteq Nat

VARIABLES
  pool,     \* the pool, or NoPool
  tensors,  \* [pages, length] of each tensor, or NoTensor
  lost,     \* pages that neither a tensor nor the pool gives back
  refused   \* the last operation was refused a page

pagesVars == <<pool, tensors, lost, refused>>

NoPool == [pageSize |-> 0]
NoTensor == [length |-> -1]
Live == {t \in PagedTensors : tensors[t] # NoTensor}

PageElements(p) == p.prefix * p.pageSize * p.trailing
AlignUp(n, align) == ((n + align - 1) \div align) * align
CeilDiv(n, d) == (n + d - 1) \div d

\* FixedPagePool::add_page; page is 0 when there is none to be had.
AddPage(p) ==
  LET at == AlignUp(p.used, p.align)
      end == at + PageElements(p)
      resized == [i \in 1..end |-> IF i \in DOMAIN p.data THEN p.data[i] ELSE <<"zero">>]
  IN IF p.max > 0 /\ (Len(p.offsets) >= p.max \/ end > p.max * PageElements(p))
     THEN [pool |-> p, page |-> 0]
     ELSE [pool |-> [p EXCEPT !.used = end, !.data = resized, !.offsets = Append(@, at)],
           page |-> Len(p.offsets) + 1]
AllocatePage(p) ==
  IF p.free # <<>> THEN [pool |-> [p EXCEPT !.free = Front(@)], page |-> Last(p.free)]
  ELSE AddPage(p)
DeallocatePage(p, page) == [p EXCEPT !.free = Append(@, page)]

EmptyPool(desc) ==
  [prefix |-> desc.prefix, trailing |-> desc.trailing, pageSize |-> desc.pageSize,
   align |-> desc.align, max |-> desc.max,
   used |-> 0, data |-> <<>>, offsets |-> <<>>, free |-> <<>>]
\* FixedPagePool::initialize: [pool, ok].
Initialize(desc) ==
  LET made[i \in 0..desc.initial] ==
        IF i = 0 THEN [pool |-> EmptyPool(desc), ok |-> TRUE]
        ELSE LET r == made[i - 1]
                 added == AddPage(r.pool)
             IN IF ~r.ok \/ added.page = 0 THEN [pool |-> r.pool, ok |-> FALSE]
                ELSE [pool |-> DeallocatePage(added.pool, added.page), ok |-> TRUE]
  IN made[desc.initial]

\* reservePaged: pages are taken until there are n, or none is left.
Reserve(p, pages, n) ==
  LET missing == IF n > Len(pages) THEN n - Len(pages) ELSE 0
      taken[i \in 0..missing] ==
        IF i = 0 THEN [pool |-> p, pages |-> pages, ok |-> TRUE]
        ELSE LET r == taken[i - 1]
                 got == AllocatePage(r.pool)
             IN IF ~r.ok \/ got.page = 0 THEN [pool |-> r.pool, pages |-> r.pages, ok |-> FALSE]
                ELSE [pool |-> got.pool, pages |-> Append(r.pages, got.page), ok |-> TRUE]
  IN taken[missing]

\* Mutant: the places of a page are taken to be one row apart.
Place_Adjacent(p, pages, x, g, e) ==
  p.offsets[pages[g \div p.pageSize + 1]] + (x + (g % p.pageSize)) * p.trailing + e + 1

\* Where the element e of row g, place x, of a tensor with these pages lies.
Place(p, pages, x, g, e) ==
  p.offsets[pages[g \div p.pageSize + 1]] + (x * p.pageSize + (g % p.pageSize)) * p.trailing + e + 1

\* A chunk holds, place by place, its rows.
ChunkLength(p, chunk) == Len(chunk) \div RowElements(p)
WriteChunk(p, pages, from, chunk) ==
  LET length == ChunkLength(p, chunk)
      copied == (0..(p.prefix - 1)) \X (0..(length - 1)) \X (0..(p.trailing - 1))
      At(c) == Place(p, pages, c[1], from + c[2], c[3])
      Source(c) == chunk[(c[1] * length + c[2]) * p.trailing + c[3] + 1]
  IN [p EXCEPT !.data = [i \in DOMAIN @ |->
        IF \E c \in copied : At(c) = i THEN Source(CHOOSE c \in copied : At(c) = i) ELSE @[i]]]

\* read(DevicePagedTensorView): the tensor laid out like a chunk.
ReadPaged(t) ==
  LET length == tensors[t].length
  IN [i \in 1..(pool.prefix * length * pool.trailing) |->
        LET e == (i - 1) % pool.trailing
            row == (i - 1) \div pool.trailing
        IN pool.data[Place(pool, tensors[t].pages, row \div length, row % length, e)]]

-----------------------------------------------------------------------------
PagesInit ==
  /\ pool = NoPool /\ tensors = [t \in PagedTensors |-> NoTensor]
  /\ lost = {} /\ refused = FALSE

CreatePagedPool(desc) ==
  LET made == Initialize(desc)
  IN /\ pool = NoPool
     /\ pool' = IF made.ok THEN made.pool ELSE NoPool
     /\ refused' = ~made.ok
     /\ UNCHANGED <<tensors, lost>>

DestroyPagedPool ==
  /\ pool # NoPool /\ Live = {}
  /\ pool' = NoPool /\ lost' = {} /\ refused' = FALSE
  /\ UNCHANGED tensors

\* A tensor that cannot have all its pages is forgotten, with those it took.
AllocPaged(t, length) ==
  /\ pool # NoPool /\ tensors[t] = NoTensor
  /\ LET r == Reserve(pool, <<>>, CeilDiv(length, pool.pageSize))
     IN /\ pool' = r.pool
        /\ tensors' = IF r.ok THEN [tensors EXCEPT ![t] = [pages |-> r.pages, length |-> length]] ELSE tensors
        /\ lost' = IF r.ok THEN lost ELSE lost \cup ToSet(r.pages)
        /\ refused' = ~r.ok

\* Mutant: the first page stays with nobody.
DeallocPaged_KeepsFirst(t) ==
  /\ t \in Live /\ tensors[t].pages # <<>>
  /\ pool' = [pool EXCEPT !.free = @ \o Tail(tensors[t].pages)]
  /\ tensors' = [tensors EXCEPT ![t] = NoTensor]
  /\ refused' = FALSE
  /\ UNCHANGED lost

\* deallocate puts the pages on the stack, one by one; it refuses one that is
\* there already, which OwnedOnce excludes.
DeallocPaged(t) ==
  /\ t \in Live
  /\ pool' = [pool EXCEPT !.free = @ \o tensors[t].pages]
  /\ tensors' = [tensors EXCEPT ![t] = NoTensor]
  /\ refused' = FALSE
  /\ UNCHANGED lost

\* A tensor that cannot have all its pages keeps those it took, and its rows.
AppendPaged(t, chunk) ==
  /\ t \in Live
  /\ tensors[t].length + ChunkLength(pool, chunk) <= MaxLength
  /\ LET from == tensors[t].length
         length == from + ChunkLength(pool, chunk)
         r == Reserve(pool, tensors[t].pages, CeilDiv(length, pool.pageSize))
     IN /\ pool' = IF r.ok THEN WriteChunk(r.pool, r.pages, from, chunk) ELSE r.pool
        /\ tensors' = [tensors EXCEPT ![t] = [pages |-> r.pages, length |-> IF r.ok THEN length ELSE from]]
        /\ refused' = ~r.ok
  /\ UNCHANGED lost

PagesNext(descs) ==
  \/ \E desc \in descs : CreatePagedPool(desc)
  \/ DestroyPagedPool
  \/ \E t \in PagedTensors, length \in Lengths : AllocPaged(t, length)
  \/ \E t \in PagedTensors : DeallocPaged(t)
  \/ \E t \in Live : \E chunk \in Chunks[RowElements(pool)] : AppendPaged(t, chunk)

PagesSpec == PagesInit /\ [][PagesNext(PoolDescs)]_pagesVars

-----------------------------------------------------------------------------
Owned(t) == ToSet(tensors[t].pages)
Elements(p, page) == (p.offsets[page] + 1)..(p.offsets[page] + PageElements(p))

OwnedOnce ==
  /\ IsInjective(pool.free) /\ \A t \in Live : IsInjective(tensors[t].pages)
  /\ \A t, u \in Live : t # u => Owned(t) \cap Owned(u) = {}
  /\ \A t \in Live : Owned(t) \cap (ToSet(pool.free) \cup lost) = {}
  /\ ToSet(pool.free) \cap lost = {}
  /\ DOMAIN pool.offsets = ToSet(pool.free) \cup lost \cup UNION {Owned(t) : t \in Live}
PagesApart ==
  /\ \A i, j \in DOMAIN pool.offsets : i # j => Elements(pool, i) \cap Elements(pool, j) = {}
  /\ \A i \in DOMAIN pool.offsets : Elements(pool, i) \subseteq DOMAIN pool.data
RefusedWhenFull ==
  refused /\ PageElements(pool) % pool.align = 0 => pool.free = <<>> /\ Len(pool.offsets) = pool.max

\* Every page is free, or one tensor's, or lost, once; no two pages share an
\* element of the arena; and a pool whose pages need no padding refuses one only
\* when it has given out all it may have.
PagesAccounted == pool # NoPool => OwnedOnce /\ PagesApart /\ RefusedWhenFull

\* <<the rows of a tensor>>; a row is, for each place, its elements.
RowsOf(t) ==
  IF tensors[t] = NoTensor THEN <<>>
  ELSE LET data == ReadPaged(t)
       IN <<[g \in 1..tensors[t].length |->
             [i \in 1..(pool.prefix * pool.trailing) |->
                data[(((((i - 1) \div pool.trailing) * tensors[t].length) + g - 1) * pool.trailing)
                       + ((i - 1) % pool.trailing) + 1]]]>>
\* The same for a chunk.
ChunkRows(p, chunk) ==
  LET length == ChunkLength(p, chunk)
  IN [g \in 1..length |->
        [i \in 1..(p.prefix * p.trailing) |->
           chunk[((((i - 1) \div p.trailing) * length + g - 1) * p.trailing) + ((i - 1) % p.trailing) + 1]]]

\* Tensors that share a pool are lists of rows of their own: an append that is
\* refused, a tensor given up and pages that change owner show in no other.
Abstract == INSTANCE RowStore WITH
  Tensors <- PagedTensors,
  Batches <- UNION {{ChunkRows(desc, chunk) : chunk \in Chunks[RowElements(desc)]} : desc \in PoolDescs},
  rows <- [t \in PagedTensors |-> RowsOf(t)]
ImplementsRows == Abstract!Spec
=============================================================================
