------------------------- MODULE PagedCacheProofs --------------------------
(***************************************************************************)
(* Proofs about PagedCache, for any pools, any number of tensors and calls *)
(* and any length of the stream: pages have one owner, the rows a tensor   *)
(* appended stay where its page table leads, and what the host gives to    *)
(* the stream is still good when the device reaches it.                    *)
(***************************************************************************)
EXTENDS PagedCache, SequenceTheorems, FiniteSetTheorems, WellFoundedInduction, TLAPS

Tables == Tensors \X Nat
Phases == {"reserve", "host", "device", "copy", "finish"}
Early == {"reserve", "host", "device"}

TensorRecords ==
    [state : {"unborn", "live", "dead"}, born : Nat, length : Nat, pages : Seq(Nat),
     synced : Nat, host : Nat, hostCap : Nat, dev : Nat, devCap : Nat,
     devMade : Nat, retired : SUBSET Nat]

CopyCommands == [op : {"copy"}, host : Tables, dev : Tables, first : Nat, last : Nat]
FreeCommands == [op : {"free"}, dev : Tables]
WriteCommands ==
    [op : {"write"}, t : Tensors, page : Nat, slot : Nat, at : Nat, rows : Nat]
AttendCommands == [op : {"attend"}, t : Tensors, length : Nat, dev : Tables]
Commands == CopyCommands \cup FreeCommands \cup WriteCommands \cup AttendCommands

PlainCalls == [op : {"alloc", "reserve"}, t : Tensors, phase : Phases, pages : Nat]
AppendCalls ==
    [op : {"append"}, t : Tensors, phase : Phases, pages : Nat,
     chunk : Nat, done : Nat, source : {"host", "device"}]
AttendCalls == [op : {"attend"}, t : Tensors, phase : Phases]
Calls == PlainCalls \cup AppendCalls \cup AttendCalls

\* A map from tables to their entries.
IsMemory(mem) == DOMAIN mem \subseteq Tables /\ \A x \in DOMAIN mem : mem[x] \in Seq(Nat)

TypeOK ==
    /\ desc \in Descs
    /\ poolLive \in BOOLEAN
    /\ created \in Nat
    /\ freePages \in Seq(Nat)
    /\ tensor \in [Tensors -> TensorRecords]
    /\ IsMemory(hostMem)
    /\ IsMemory(devMem)
    /\ stream \in Seq(Commands)
    /\ pageData \in [Pages -> [0..(PageSize - 1) -> Nat \X Nat]]
    /\ call \in Calls \cup {NoCall}

Mine(t) == call # NoCall /\ call.t = t

-----------------------------------------------------------------------------
(* Pages have one owner *)

\* The ids in use are the first ones.
IdsInv ==
    \E n \in 0..MaxTensors : \A t \in Tensors : tensor[t].state # "unborn" <=> t <= n

\* A call works for a tensor that is alive.
CallerInv == call # NoCall => Live(call.t)

PoolInv ==
    /\ created <= desc.maxPages
    /\ ~poolLive => \A t \in Tensors : ~Live(t)
    /\ \A i \in 1..Len(freePages) : freePages[i] \in 1..created
    /\ \A i, j \in 1..Len(freePages) : i # j => freePages[i] # freePages[j]

OwnerInv(t) ==
    Live(t) =>
      /\ \A i \in 1..Len(tensor[t].pages) : tensor[t].pages[i] \in 1..created
      /\ \A i, j \in 1..Len(tensor[t].pages) : i # j => tensor[t].pages[i] # tensor[t].pages[j]
      /\ \A i \in 1..Len(tensor[t].pages), j \in 1..Len(freePages) :
            tensor[t].pages[i] # freePages[j]
      /\ \A u \in Tensors \ {t} : Live(u) =>
            \A i \in 1..Len(tensor[t].pages), j \in 1..Len(tensor[u].pages) :
               tensor[t].pages[i] # tensor[u].pages[j]

OwnersInv == IdsInv /\ CallerInv /\ PoolInv /\ \A t \in Tensors : OwnerInv(t)

-----------------------------------------------------------------------------
(* What the host has prepared, and what the stream will still do *)

\* The entries of a table are the first pages of its tensor.
Leads(table, pages) ==
    /\ Len(table) <= Len(pages)
    /\ \A k \in 1..Len(table) : table[k] = pages[k]

\* Row k of t is in its page, or one of the first n commands writes it there.
WritesRow(c, t, k) == c.op = "write" /\ c.t = t /\ k \in c.at..(c.at + c.rows - 1)
RowReady(t, k, n) ==
    \/ pageData[tensor[t].pages[k \div PageSize + 1]][k % PageSize] = <<t, k>>
    \/ \E i \in 1..n : WritesRow(stream[i], t, k)

\* Entry k of a device table names its page, or one of the first n commands
\* copies it there.
FillsEntry(c, table, k) == c.op = "copy" /\ c.dev = table /\ k \in c.first..c.last
EntryReady(t, table, k, n) ==
    \/ devMem[table][k] = tensor[t].pages[k]
    \/ \E i \in 1..n : FillsEntry(stream[i], table, k)

\* Phase by phase, what the call has already done.
CallInv ==
    call # NoCall =>
      LET x == tensor[call.t]
          count == Len(x.pages)
      IN  /\ call.phase = "device" =>
                /\ Stale(call.t)
                /\ x.host > 0 /\ Len(hostMem[<<call.t, x.host>>]) = count
          /\ call.phase \in {"copy", "finish"} => x.synced = count
          /\ call.op = "alloc" =>
                /\ call.phase # "copy"
                /\ call.phase \in Early => x.synced = 0
                /\ call.phase # "reserve" => CeilDiv(x.length, PageSize) <= count
                /\ call.pages = CeilDiv(x.length, PageSize)
                /\ x.born = x.length
          /\ call.op = "reserve" => call.phase # "copy"
          /\ call.op = "attend" =>
                /\ call.phase \notin {"reserve", "copy"}
                /\ x.length > 0
          /\ call.op = "append" =>
                /\ call.pages = CeilDiv(x.length + call.chunk, PageSize)
                /\ call.phase # "reserve" => call.pages <= count
                /\ call.chunk > 0
                /\ call.phase \in Early => call.done = 0
                /\ call.phase = "copy" => call.done < call.chunk
                /\ call.phase = "finish" => call.done = call.chunk

HostInv(t) ==
    /\ \A table \in TablesOf(hostMem, t) :
          /\ tensor[t].state # "unborn"
          /\ Live(t) => Leads(hostMem[table], tensor[t].pages)
    /\ Live(t) /\ tensor[t].host = 0 => tensor[t].hostCap = 0 /\ tensor[t].synced = 0
    /\ Live(t) /\ tensor[t].host > 0 =>
          /\ <<t, tensor[t].host>> \in DOMAIN hostMem
          /\ tensor[t].synced <= Len(hostMem[<<t, tensor[t].host>>])

DevInv(t) ==
    LET x == tensor[t]
    IN  Live(t) =>
          /\ x.synced <= Len(x.pages)
          /\ x.dev <= x.devMade
          /\ x.dev = 0 => x.synced = 0 /\ x.devCap = 0
          /\ x.dev > 0 =>
                /\ x.synced \in 1..x.devCap
                /\ <<t, x.dev>> \in DOMAIN devMem
                /\ Len(devMem[<<t, x.dev>>]) = x.devCap
          /\ \A k \in 1..x.synced : EntryReady(t, <<t, x.dev>>, k, Len(stream))

RowsWritten(t) ==
    tensor[t].length + (IF Mine(t) /\ call.op = "append" THEN call.done ELSE 0)

RowsInv(t) ==
    Live(t) =>
      /\ \/ CeilDiv(tensor[t].length, PageSize) <= Len(tensor[t].pages)
         \/ Mine(t) /\ call.op = "alloc" /\ call.phase = "reserve"
      /\ tensor[t].born <= tensor[t].length
      /\ \A k \in tensor[t].born..(RowsWritten(t) - 1) : RowReady(t, k, Len(stream))

\* A command works for a tensor that is alive, which keeps what it names.
CommandTensor(c) == IF c.op = "write" THEN c.t ELSE c.dev[1]

WriteInv(c) ==
    LET x == tensor[c.t]
    IN  /\ c.at \div PageSize < Len(x.pages)
        /\ c.page = x.pages[c.at \div PageSize + 1]
        /\ c.slot = c.at % PageSize
        /\ c.rows \in 1..(PageSize - c.slot)

CopyInv(c) ==
    /\ c.host[1] = c.dev[1]
    /\ c.host \in DOMAIN hostMem
    /\ c.first >= 1
    /\ c.last <= Len(hostMem[c.host])

TableInv(i) ==
    LET c == stream[i]
    IN  /\ c.dev \in DOMAIN devMem
        /\ c.dev[2] <= tensor[c.dev[1]].devMade
        /\ c.op = "free" => c.dev[2] # tensor[c.dev[1]].dev
        /\ \A j \in 1..(i - 1) : stream[j].op = "free" => stream[j].dev # c.dev

AttendInv(i) ==
    LET c == stream[i]
        x == tensor[c.t]
    IN  /\ c.dev[1] = c.t
        /\ c.length <= x.length
        /\ \A k \in x.born..(c.length - 1) :
              /\ RowReady(c.t, k, i - 1)
              /\ k \div PageSize < Len(devMem[c.dev])
              /\ EntryReady(c.t, c.dev, k \div PageSize + 1, i - 1)

CommandInv(i) ==
    LET c == stream[i]
    IN  /\ Live(CommandTensor(c))
        /\ tensor[CommandTensor(c)].synced > 0
        /\ c.op = "write" => WriteInv(c)
        /\ c.op # "write" => TableInv(i)
        /\ c.op = "copy" => CopyInv(c)
        /\ c.op = "attend" => AttendInv(i)

StreamInv == \A i \in 1..Len(stream) : CommandInv(i)

TensorInv(t) == HostInv(t) /\ DevInv(t) /\ RowsInv(t)

\* The inductive invariant.
IInv ==
    /\ TypeOK
    /\ OwnersInv
    /\ CallInv
    /\ \A t \in Tensors : TensorInv(t)
    /\ StreamInv

-----------------------------------------------------------------------------
(* Arithmetic of positions and pages *)

LEMMA PageNumber == ASSUME NEW k \in Nat, NEW n \in Nat \ {0} PROVE k \div n \in Nat
OBVIOUS

LEMMA SlotNumber == ASSUME NEW k \in Nat, NEW n \in Nat \ {0} PROVE k % n \in 0..(n - 1)
OBVIOUS

LEMMA Position ==
    ASSUME NEW k \in Nat, NEW n \in Nat \ {0}
    PROVE  k = n * (k \div n) + (k % n)
OBVIOUS

LEMMA PositionUnique ==
    ASSUME NEW k \in Nat, NEW n \in Nat \ {0}, NEW q \in Nat, NEW r \in 0..(n - 1),
           k = n * q + r
    PROVE  k \div n = q /\ k % n = r
OBVIOUS

LEMMA PageCount == ASSUME NEW k \in Nat, NEW n \in Nat \ {0} PROVE CeilDiv(k, n) \in Nat
BY DEF CeilDiv

\* Enough pages for k rows hold every position before k.
LEMMA PagesHold ==
    ASSUME NEW k \in Nat, NEW n \in Nat \ {0}, NEW i \in 0..(k - 1)
    PROVE  i \div n < CeilDiv(k, n)
BY DEF CeilDiv

LEMMA MoreRowsMorePages ==
    ASSUME NEW k \in Nat, NEW m \in Nat, NEW n \in Nat \ {0}, k <= m
    PROVE  CeilDiv(k, n) <= CeilDiv(m, n)
BY DEF CeilDiv

\* The positions after k on its page.
LEMMA SamePage ==
    ASSUME NEW k \in Nat, NEW n \in Nat \ {0}, NEW d \in Nat, (k % n) + d < n
    PROVE  (k + d) \div n = k \div n /\ (k + d) % n = (k % n) + d
<1> DEFINE q == k \div n  r == k % n
<1>1. q \in Nat /\ r \in 0..(n - 1) /\ k = n * q + r
  BY PageNumber, SlotNumber, Position
<1>2. n * q \in Nat
  BY <1>1
<1> HIDE DEF q, r
<1>3. k + d = n * q + (r + d) /\ r + d \in 0..(n - 1)
  BY <1>1, <1>2 DEF r
<1>4. PICK m \in Nat, e \in 0..(n - 1) : m = k + d /\ e = r + d /\ m = n * q + e
  BY <1>3
<1>5. m \div n = q /\ m % n = e
  <2>1. q \in Nat /\ m \in Nat /\ n \in Nat \ {0} /\ e \in 0..(n - 1) /\ m = n * q + e
    BY <1>1, <1>4
  <2> QED BY ONLY <2>1, PositionUnique, Zenon
<1>6. (k + d) \div n = q /\ (k + d) % n = r + d
  BY <1>4, <1>5, Zenon
<1> QED BY <1>6 DEF q, r

\* Two positions on one page.
LEMMA OnOnePage ==
    ASSUME NEW j \in Nat, NEW k \in Nat, NEW n \in Nat \ {0}, j \div n = k \div n
    PROVE  k = j + (k % n) - (j % n)
<1>1. j = n * (j \div n) + (j % n) /\ k = n * (k \div n) + (k % n)
  BY Position
<1>2. n * (j \div n) \in Nat /\ n * (k \div n) = n * (j \div n)
  BY PageNumber
<1>3. j % n \in Nat /\ k % n \in Nat
  BY SlotNumber
<1> QED BY <1>1, <1>2, <1>3

LEMMA PageSizes ==
    ASSUME desc \in Descs
    PROVE  /\ PageSize \in Nat \ {0}
           /\ desc.maxPages \in Nat \ {0}
           /\ desc.initialPages \in Nat
           /\ desc.growLengths \subseteq Nat
           /\ desc.reserves \subseteq Nat
           /\ desc.maxPending \in Nat
BY PagedAssumption DEF PageSize

LEMMA Bigness == ASSUME NEW a \in Nat, NEW b \in Nat PROVE GrownCapacity(a, b) \in Nat /\ GrownCapacity(a, b) >= a
BY DEF GrownCapacity, Bigger

LEMMA WithDomain ==
    ASSUME NEW mem, NEW table, NEW entries
    PROVE  /\ DOMAIN With(mem, table, entries) = DOMAIN mem \cup {table}
           /\ With(mem, table, entries)[table] = entries
           /\ \A x \in DOMAIN mem \ {table} : With(mem, table, entries)[x] = mem[x]
BY DEF With

LEMMA WithoutDomain ==
    ASSUME NEW mem, NEW tables
    PROVE  /\ DOMAIN Without(mem, tables) = DOMAIN mem \ tables
           /\ \A x \in DOMAIN mem \ tables : Without(mem, tables)[x] = mem[x]
BY DEF Without

LEMMA WithIsMemory ==
    ASSUME NEW mem, IsMemory(mem), NEW table \in Tables, NEW entries \in Seq(Nat)
    PROVE  IsMemory(With(mem, table, entries))
<1>1. \A x \in DOMAIN mem \cup {table} :
         With(mem, table, entries)[x] = IF x = table THEN entries ELSE mem[x]
  BY DEF With
<1>2. DOMAIN With(mem, table, entries) = DOMAIN mem \cup {table}
  BY DEF With
<1> QED BY <1>1, <1>2 DEF IsMemory

LEMMA WithoutIsMemory ==
    ASSUME NEW mem, IsMemory(mem), NEW tables
    PROVE  IsMemory(Without(mem, tables))
<1>1. \A x \in DOMAIN mem \ tables : Without(mem, tables)[x] = mem[x]
  BY DEF Without
<1>2. DOMAIN Without(mem, tables) = DOMAIN mem \ tables
  BY DEF Without
<1> QED BY <1>1, <1>2 DEF IsMemory

-----------------------------------------------------------------------------
(* What the types say *)

LEMMA PageSizeIs ==
    ASSUME TypeOK
    PROVE  PageSize \in Nat \ {0} /\ Pages = 1..desc.maxPages /\ desc.maxPages \in Nat
BY PageSizes DEF TypeOK, Pages

LEMMA Fields ==
    ASSUME TypeOK, NEW t \in Tensors
    PROVE  /\ tensor[t] \in TensorRecords
           /\ tensor[t].born \in Nat /\ tensor[t].length \in Nat
           /\ tensor[t].pages \in Seq(Nat) /\ Len(tensor[t].pages) \in Nat
           /\ tensor[t].synced \in Nat
           /\ tensor[t].host \in Nat /\ tensor[t].hostCap \in Nat
           /\ tensor[t].dev \in Nat /\ tensor[t].devCap \in Nat /\ tensor[t].devMade \in Nat
           /\ tensor[t].retired \subseteq Nat
<1>1. tensor \in [Tensors -> TensorRecords]
  BY DEF TypeOK
<1>2. tensor[t] \in TensorRecords
  BY <1>1
<1>3. tensor[t].pages \in Seq(Nat)
  BY <1>2 DEF TensorRecords
<1> QED BY <1>2, <1>3 DEF TensorRecords

LEMMA CallFields ==
    ASSUME TypeOK, call # NoCall
    PROVE  /\ call.t \in Tensors /\ call.phase \in Phases
           /\ \/ call \in PlainCalls \/ call \in AppendCalls \/ call \in AttendCalls
           /\ call.op \in {"alloc", "reserve", "append", "attend"}
           /\ call.op \in {"alloc", "reserve"} => call \in PlainCalls /\ call.pages \in Nat
           /\ call.op = "append" =>
                /\ call \in AppendCalls
                /\ call.pages \in Nat /\ call.chunk \in Nat /\ call.done \in Nat
                /\ call.source \in {"host", "device"}
           /\ call.op = "attend" => call \in AttendCalls
<1>1. \/ call \in PlainCalls \/ call \in AppendCalls \/ call \in AttendCalls
  BY DEF TypeOK, Calls
<1>2. CASE call \in PlainCalls
  BY <1>2 DEF PlainCalls
<1>3. CASE call \in AppendCalls
  BY <1>3 DEF AppendCalls
<1>4. CASE call \in AttendCalls
  BY <1>4 DEF AttendCalls
<1> QED BY <1>1, <1>2, <1>3, <1>4

LEMMA CommandFields ==
    ASSUME TypeOK, NEW i \in 1..Len(stream)
    PROVE  /\ Len(stream) \in Nat
           /\ stream[i] \in Commands
           /\ CommandTensor(stream[i]) \in Tensors
           /\ stream[i].op \in {"copy", "free", "write", "attend"}
           /\ stream[i].op # "write" =>
                /\ stream[i].dev \in Tables
                /\ stream[i].dev[1] \in Tensors /\ stream[i].dev[2] \in Nat
                /\ stream[i].dev = <<stream[i].dev[1], stream[i].dev[2]>>
           /\ stream[i].op = "write" => stream[i] \in WriteCommands
           /\ stream[i].op = "copy" => stream[i] \in CopyCommands
           /\ stream[i].op = "attend" => stream[i] \in AttendCommands
<1>1. Len(stream) \in Nat /\ stream[i] \in Commands
  BY DEF TypeOK
<1>2. CASE stream[i] \in WriteCommands
  BY <1>1, <1>2 DEF WriteCommands, CommandTensor
<1>3. CASE stream[i] \in CopyCommands
  BY <1>1, <1>3 DEF CopyCommands, CommandTensor, Tables
<1>4. CASE stream[i] \in FreeCommands
  BY <1>1, <1>4 DEF FreeCommands, CommandTensor, Tables
<1>5. CASE stream[i] \in AttendCommands
  BY <1>1, <1>5 DEF AttendCommands, CommandTensor, Tables
<1> QED BY <1>1, <1>2, <1>3, <1>4, <1>5 DEF Commands

-----------------------------------------------------------------------------
(* Steps that only move the call of the host thread on *)

LEMMA OnlyCallMoves ==
    ASSUME IInv,
           UNCHANGED <<poolVars, tensor, tableVars, stream, pageData>>,
           call' \in Calls \cup {NoCall},
           call' # NoCall => Live(call'.t),
           CallInv',
           \A t \in Tensors : Live(t) => RowsWritten(t)' <= RowsWritten(t),
           \A t \in Tensors : Live(t) =>
             \/ CeilDiv(tensor[t].length, PageSize) <= Len(tensor[t].pages)
             \/ (Mine(t) /\ call.op = "alloc" /\ call.phase = "reserve")'
    PROVE  IInv'
<1>0. /\ desc' = desc /\ poolLive' = poolLive /\ created' = created
      /\ freePages' = freePages /\ tensor' = tensor /\ hostMem' = hostMem
      /\ devMem' = devMem /\ stream' = stream /\ pageData' = pageData
      /\ PageSize' = PageSize /\ Pages' = Pages
  BY DEF poolVars, tableVars, PageSize, Pages
<1>1. TypeOK'
  BY <1>0 DEF IInv, TypeOK, IsMemory
<1>2. OwnersInv'
  <2>1. CallerInv'
    BY <1>0 DEF CallerInv, Live
  <2>2. IdsInv' /\ PoolInv'
    BY <1>0 DEF IInv, OwnersInv, IdsInv, PoolInv, Live
  <2>3. \A t \in Tensors : OwnerInv(t)'
    BY <1>0 DEF IInv, OwnersInv, OwnerInv, Live
  <2> QED BY <2>1, <2>2, <2>3 DEF OwnersInv
<1>3. \A t \in Tensors : TensorInv(t)'
  <2> SUFFICES ASSUME NEW t \in Tensors PROVE TensorInv(t)'
    OBVIOUS
  <2>1. TensorInv(t)
    BY DEF IInv
  <2>2. HostInv(t)' /\ DevInv(t)'
    BY <2>1, <1>0 DEF TensorInv, HostInv, DevInv, Live, Leads, TablesOf, EntryReady, FillsEntry
  <2>3. ASSUME Live(t) PROVE \A k \in tensor[t].born..(RowsWritten(t)' - 1) :
                                RowReady(t, k, Len(stream))'
    <3>1. RowsWritten(t)' <= RowsWritten(t)
      BY <2>3
    <3>2. RowsWritten(t) \in Int /\ RowsWritten(t)' \in Int
      <4>1. tensor[t].length \in Nat
        BY Fields DEF IInv
      <4>2. Mine(t) /\ call.op = "append" => call.done \in Nat
        BY CallFields DEF IInv, Mine
      <4>3. Mine(t)' /\ call'.op = "append" => call'.done \in Nat
        BY <1>1 DEF Mine, Calls, PlainCalls, AppendCalls, AttendCalls
      <4> QED BY <4>1, <4>2, <4>3, <1>0 DEF RowsWritten
    <3>3. \A k \in tensor[t].born..(RowsWritten(t) - 1) : RowReady(t, k, Len(stream))
      BY <2>1, <2>3 DEF TensorInv, RowsInv
    <3>4. tensor[t].born \in Nat
      BY Fields DEF IInv
    <3>5. \A k \in tensor[t].born..(RowsWritten(t)' - 1) : RowReady(t, k, Len(stream))
      BY <3>1, <3>2, <3>3, <3>4
    <3> QED BY <3>5, <1>0 DEF RowReady, WritesRow
  <2>4. RowsInv(t)'
    BY <2>1, <2>3, <1>0 DEF TensorInv, RowsInv, Live, Mine
  <2> QED BY <2>2, <2>4 DEF TensorInv
<1>4. StreamInv'
  <2> SUFFICES ASSUME NEW i \in 1..Len(stream) PROVE CommandInv(i)'
    BY <1>0 DEF StreamInv
  <2>1. CommandInv(i)
    BY DEF IInv, StreamInv
  <2>2. CommandTensor(stream[i])' = CommandTensor(stream[i])
    BY <1>0 DEF CommandTensor
  <2>3. WriteInv(stream[i]) => WriteInv(stream[i])'
    BY <1>0 DEF WriteInv
  <2>4. (TableInv(i) => TableInv(i)') /\ (CopyInv(stream[i]) => CopyInv(stream[i])')
    BY <1>0 DEF TableInv, CopyInv
  <2>5. AttendInv(i) => AttendInv(i)'
    <3>1. \A t, k, n : RowReady(t, k, n)' <=> RowReady(t, k, n)
      BY <1>0 DEF RowReady, WritesRow
    <3>2. \A t, x, k, n : EntryReady(t, x, k, n)' <=> EntryReady(t, x, k, n)
      BY <1>0 DEF EntryReady, FillsEntry
    <3> QED BY <1>0, <3>1, <3>2 DEF AttendInv
  <2> QED BY <2>1, <2>2, <2>3, <2>4, <2>5, <1>0 DEF CommandInv, Live
<1> QED BY <1>1, <1>2, <1>3, <1>4 DEF IInv

LEMMA NoCallNow ==
    ASSUME IInv, call = NoCall, NEW t \in Tensors, Live(t)
    PROVE  /\ RowsWritten(t) = tensor[t].length
           /\ CeilDiv(tensor[t].length, PageSize) <= Len(tensor[t].pages)
<1>1. tensor[t].length \in Nat
  BY Fields DEF IInv
<1>2. ~Mine(t)
  BY DEF Mine
<1> QED BY <1>1, <1>2 DEF RowsWritten, IInv, TensorInv, RowsInv

LEMMA CallsStart ==
    ASSUME IInv, NEW t \in Tensors,
           \/ \E count \in desc.reserves : CallReserve(t, count)
           \/ \E chunk \in Chunks, source \in {"host", "device"} : CallAppend(t, chunk, source)
           \/ CallAttend(t)
    PROVE  IInv'
<1>0. /\ TypeOK /\ Live(t) /\ call = NoCall
      /\ PageSize \in Nat \ {0} /\ desc.reserves \subseteq Nat
      /\ tensor[t].length \in Nat
  BY Fields, PageSizes DEF IInv, CallReserve, CallAppend, CallAttend, TypeOK
<1>1. /\ UNCHANGED <<poolVars, tensor, tableVars, stream, pageData>>
      /\ call' \in Calls /\ call'.t = t
      /\ call'.phase \in {"reserve", "host"}
      /\ call'.op \in {"reserve", "append", "attend"}
      /\ call'.op = "append" => /\ call'.pages = CeilDiv(tensor[t].length + call'.chunk, PageSize)
                                /\ call'.chunk > 0 /\ call'.done = 0
                                /\ call'.phase = "reserve"
      /\ call'.op = "attend" => tensor[t].length > 0 /\ call'.phase = "host"
  <2>1. CASE \E count \in desc.reserves : CallReserve(t, count)
    BY <2>1, <1>0 DEF CallReserve, Calls, PlainCalls, Phases
  <2>2. CASE \E chunk \in Chunks, source \in {"host", "device"} : CallAppend(t, chunk, source)
    <3>1. PICK chunk \in Chunks, source \in {"host", "device"} : CallAppend(t, chunk, source)
      BY <2>2
    <3>2. chunk \in Nat \ {0}
      BY PagedAssumption
    <3>3. CeilDiv(tensor[t].length + chunk, PageSize) \in Nat
      <4>1. tensor[t].length + chunk \in Nat
        BY <1>0, <3>2
      <4> QED BY <1>0, <4>1, PageCount
    <3> QED BY <3>1, <3>2, <3>3 DEF CallAppend, Calls, AppendCalls, Phases
  <2>3. CASE CallAttend(t)
    BY <2>3, <1>0 DEF CallAttend, Calls, AttendCalls, Phases
  <2> QED BY <2>1, <2>2, <2>3
<1>2. CallInv'
  BY <1>1 DEF CallInv, PageSize, poolVars, Early
<1>3. \A u \in Tensors : Live(u) => RowsWritten(u)' <= RowsWritten(u)
  <2> SUFFICES ASSUME NEW u \in Tensors, Live(u) PROVE RowsWritten(u)' <= RowsWritten(u)
    OBVIOUS
  <2>1. RowsWritten(u) = tensor[u].length /\ tensor[u].length \in Nat
    BY <1>0, NoCallNow, Fields
  <2>2. RowsWritten(u)' = tensor[u].length + (IF Mine(u)' /\ call'.op = "append" THEN call'.done ELSE 0)
    BY <1>1 DEF RowsWritten
  <2> QED BY <1>1, <2>1, <2>2
<1>4. \A u \in Tensors : Live(u) => CeilDiv(tensor[u].length, PageSize) <= Len(tensor[u].pages)
  BY <1>0, NoCallNow
<1> QED BY <1>0, <1>1, <1>2, <1>3, <1>4, OnlyCallMoves

LEMMA ReservedStep == ASSUME IInv, Reserved PROVE IInv'
<1>0. /\ TypeOK /\ call # NoCall /\ Live(call.t) /\ call.t \in Tensors
      /\ CallInv
  BY CallFields DEF IInv, Reserved, OwnersInv, CallerInv
<1>1. /\ UNCHANGED <<poolVars, tensor, tableVars, stream, pageData>>
      /\ call' = [call EXCEPT !.phase = "host"]
      /\ call.phase = "reserve"
      /\ Len(tensor[call.t].pages) >= call.pages
  BY DEF Reserved
<1>2. call.op # "attend"
  BY <1>0, <1>1 DEF CallInv
<1>3. /\ call' \in Calls /\ call' # NoCall
      /\ call'.t = call.t /\ call'.op = call.op /\ call'.phase = "host"
      /\ call'.pages = call.pages
      /\ call.op = "append" => call'.done = call.done /\ call'.chunk = call.chunk
  BY <1>0, <1>1, <1>2, CallFields DEF Calls, PlainCalls, AppendCalls, Phases, NoCall
<1>4. call.pages \in Nat /\ Len(tensor[call.t].pages) \in Nat
  BY <1>0, <1>2, CallFields, Fields
<1>5. CallInv'
  BY <1>0, <1>1, <1>3, <1>4 DEF CallInv, PageSize, poolVars, Early
<1>6. \A t \in Tensors : RowsWritten(t)' = RowsWritten(t)
  BY <1>0, <1>1, <1>3 DEF RowsWritten, Mine
<1>7. \A t \in Tensors : Live(t) => CeilDiv(tensor[t].length, PageSize) <= Len(tensor[t].pages)
  BY <1>0, <1>1, <1>4 DEF IInv, TensorInv, RowsInv, Mine, CallInv
<1>8. \A t \in Tensors : RowsWritten(t) \in Int
  BY <1>0, Fields, CallFields DEF RowsWritten, Mine
<1> QED BY <1>0, <1>1, <1>3, <1>5, <1>6, <1>7, <1>8, OnlyCallMoves

LEMMA TableIsCurrentStep == ASSUME IInv, TableIsCurrent PROVE IInv'
<1>0. /\ TypeOK /\ call # NoCall /\ Live(call.t) /\ call.t \in Tensors
      /\ CallInv
  BY CallFields DEF IInv, TableIsCurrent, OwnersInv, CallerInv
<1>1. /\ UNCHANGED <<poolVars, tensor, tableVars, stream, pageData>>
      /\ call' = [call EXCEPT !.phase = AfterSync]
      /\ call.phase = "host"
      /\ ~Stale(call.t)
  BY DEF TableIsCurrent
<1>2. /\ AfterSync = IF call.op = "append" THEN "copy" ELSE "finish"
      /\ AfterSync \in {"copy", "finish"}
  BY DEF AfterSync
<1>3. /\ call' \in Calls /\ call' # NoCall
      /\ call'.t = call.t /\ call'.op = call.op /\ call'.phase = AfterSync
      /\ call.op \in {"alloc", "append"} => call'.pages = call.pages
      /\ call.op = "append" => call'.done = call.done /\ call'.chunk = call.chunk
  BY <1>0, <1>1, <1>2, CallFields DEF Calls, PlainCalls, AppendCalls, AttendCalls, Phases, NoCall
<1>4. tensor[call.t].synced = Len(tensor[call.t].pages)
  <2>1. DevInv(call.t)
    BY <1>0 DEF IInv, TensorInv
  <2>2. tensor[call.t].synced <= Len(tensor[call.t].pages)
    BY <1>0, <2>1 DEF DevInv
  <2>3. tensor[call.t].synced \in Nat /\ Len(tensor[call.t].pages) \in Nat
    BY <1>0, Fields
  <2> QED BY <1>1, <2>2, <2>3 DEF Stale
<1>5. CallInv'
  BY <1>0, <1>1, <1>2, <1>3, <1>4 DEF CallInv, PageSize, poolVars, Early
<1>6. \A t \in Tensors : RowsWritten(t)' = RowsWritten(t)
  BY <1>0, <1>1, <1>3 DEF RowsWritten, Mine
<1>7. \A t \in Tensors : Live(t) => CeilDiv(tensor[t].length, PageSize) <= Len(tensor[t].pages)
  BY <1>0, <1>1 DEF IInv, TensorInv, RowsInv, Mine
<1>8. \A t \in Tensors : RowsWritten(t) \in Int
  BY <1>0, Fields, CallFields DEF RowsWritten, Mine
<1> QED BY <1>0, <1>1, <1>3, <1>5, <1>6, <1>7, <1>8, OnlyCallMoves

\* A call that gives up after its tensor was made, or returns.
LEMMA CallEnds ==
    ASSUME IInv,
           UNCHANGED <<poolVars, tensor, tableVars, stream, pageData>>,
           call # NoCall, call' = NoCall,
           call.op # "alloc" \/ call.phase # "reserve"
    PROVE  IInv'
<1>1. CallInv'
  BY DEF CallInv
<1>2. \A t \in Tensors : Live(t) => RowsWritten(t)' <= RowsWritten(t)
  <2> SUFFICES ASSUME NEW t \in Tensors PROVE RowsWritten(t)' <= RowsWritten(t)
    OBVIOUS
  <2>1. tensor[t].length \in Nat /\ (Mine(t) /\ call.op = "append" => call.done \in Nat)
    BY Fields, CallFields DEF IInv, Mine
  <2>2. RowsWritten(t)' = tensor[t].length + 0
    BY DEF RowsWritten, Mine
  <2> QED BY <2>1, <2>2 DEF RowsWritten
<1>3. \A t \in Tensors : Live(t) => CeilDiv(tensor[t].length, PageSize) <= Len(tensor[t].pages)
  BY DEF IInv, TensorInv, RowsInv, Mine
<1> QED BY <1>1, <1>2, <1>3, OnlyCallMoves

LEMMA ReturnStep == ASSUME IInv, Return PROVE IInv'
BY CallEnds DEF Return

-----------------------------------------------------------------------------
(* What stays ready while the host goes on *)

\* Commands are only added to the stream.
StreamGrows ==
    /\ desc' = desc /\ pageData' = pageData
    /\ Len(stream') \in Nat /\ Len(stream) \in Nat /\ Len(stream) <= Len(stream')
    /\ \A i \in 1..Len(stream) : stream'[i] = stream[i]

\* A tensor keeps what the commands in the stream name.
TensorGrows(t) ==
    /\ tensor'[t].state = tensor[t].state
    /\ tensor'[t].born = tensor[t].born
    /\ tensor[t].length <= tensor'[t].length
    /\ tensor[t].synced <= tensor'[t].synced
    /\ tensor[t].devMade <= tensor'[t].devMade
    /\ tensor'[t].dev = tensor[t].dev \/ tensor'[t].dev > tensor[t].devMade
    /\ Leads(tensor[t].pages, tensor'[t].pages)
    /\ \A n \in Nat : tensor[t].synced > 0 /\ <<t, n>> \in DOMAIN hostMem =>
          <<t, n>> \in DOMAIN hostMem' /\ Len(hostMem[<<t, n>>]) <= Len(hostMem'[<<t, n>>])
    /\ \A n \in 0..tensor[t].devMade : <<t, n>> \in DOMAIN devMem =>
          <<t, n>> \in DOMAIN devMem' /\ devMem'[<<t, n>>] = devMem[<<t, n>>]

LEMMA RowReadyKept ==
    ASSUME StreamGrows, NEW t, NEW k, NEW n \in Int, NEW m \in Int,
           n <= m, n <= Len(stream),
           tensor'[t].pages[k \div PageSize + 1] = tensor[t].pages[k \div PageSize + 1],
           RowReady(t, k, n)
    PROVE  RowReady(t, k, m)'
<1>1. PageSize' = PageSize
  BY DEF StreamGrows, PageSize
<1>2. CASE pageData[tensor[t].pages[k \div PageSize + 1]][k % PageSize] = <<t, k>>
  BY <1>1, <1>2 DEF StreamGrows, RowReady
<1>3. CASE \E i \in 1..n : WritesRow(stream[i], t, k)
  <2>1. PICK i \in 1..n : WritesRow(stream[i], t, k)
    BY <1>3
  <2>2. i \in 1..m /\ stream'[i] = stream[i]
    BY DEF StreamGrows
  <2> QED BY <2>1, <2>2 DEF RowReady, WritesRow
<1> QED BY <1>2, <1>3 DEF RowReady

LEMMA EntryReadyKept ==
    ASSUME StreamGrows, NEW t, NEW table, NEW k, NEW n \in Int, NEW m \in Int,
           n <= m, n <= Len(stream),
           devMem'[table] = devMem[table],
           tensor'[t].pages[k] = tensor[t].pages[k],
           EntryReady(t, table, k, n)
    PROVE  EntryReady(t, table, k, m)'
<1>1. CASE devMem[table][k] = tensor[t].pages[k]
  BY <1>1 DEF EntryReady
<1>2. CASE \E i \in 1..n : FillsEntry(stream[i], table, k)
  <2>1. PICK i \in 1..n : FillsEntry(stream[i], table, k)
    BY <1>2
  <2>2. i \in 1..m /\ stream'[i] = stream[i]
    BY DEF StreamGrows
  <2> QED BY <2>1, <2>2 DEF EntryReady, FillsEntry
<1> QED BY <1>1, <1>2 DEF EntryReady

\* Every row of a tensor whose table was synced has a page.
LEMMA RowsHavePages ==
    ASSUME IInv, NEW t \in Tensors, Live(t), tensor[t].synced > 0,
           NEW k \in 0..(tensor[t].length - 1)
    PROVE  /\ k \div PageSize \in Nat /\ k \div PageSize < Len(tensor[t].pages)
           /\ k \div PageSize + 1 \in 1..Len(tensor[t].pages)
           /\ k % PageSize \in 0..(PageSize - 1)
<1>1. PageSize \in Nat \ {0} /\ tensor[t].length \in Nat /\ Len(tensor[t].pages) \in Nat
  BY PageSizeIs, Fields DEF IInv
<1>2. k \in Nat
  BY <1>1
<1>3. ~(Mine(t) /\ call.op = "alloc" /\ call.phase = "reserve")
  BY DEF IInv, CallInv, Mine, Early
<1>4. CeilDiv(tensor[t].length, PageSize) <= Len(tensor[t].pages)
  BY <1>3 DEF IInv, TensorInv, RowsInv
<1>5. k \div PageSize < CeilDiv(tensor[t].length, PageSize)
  BY <1>1, PagesHold
<1>6. CeilDiv(tensor[t].length, PageSize) \in Nat /\ k \div PageSize \in Nat
      /\ k % PageSize \in 0..(PageSize - 1)
  BY <1>1, <1>2, PageCount, PageNumber, SlotNumber
<1> QED BY <1>1, <1>4, <1>5, <1>6

LEMMA CommandKept ==
    ASSUME IInv, TypeOK', StreamGrows, NEW i \in 1..Len(stream),
           TensorGrows(CommandTensor(stream[i]))
    PROVE  CommandInv(i)'
<1>a. PICK c \in Commands : c = stream[i]
  BY CommandFields DEF IInv
<1>b. PICK t \in Tensors : t = CommandTensor(c)
  BY <1>a, CommandFields DEF IInv
<1>0. /\ c = stream[i] /\ t = CommandTensor(c)
      /\ stream'[i] = c
      /\ i \in 1..Len(stream')
      /\ TensorGrows(t)
  BY <1>a, <1>b DEF StreamGrows
<1>1. CommandInv(i)
  BY DEF IInv, StreamInv
<1>2. Live(t) /\ tensor[t].synced > 0
  BY <1>0, <1>1 DEF CommandInv
<1>3. /\ tensor[t].synced \in Nat /\ tensor[t].length \in Nat /\ tensor[t].born \in Nat
      /\ tensor[t].devMade \in Nat /\ tensor[t].dev \in Nat
      /\ tensor[t].pages \in Seq(Nat) /\ Len(tensor[t].pages) \in Nat
      /\ tensor'[t].synced \in Nat /\ tensor'[t].length \in Nat
      /\ tensor'[t].devMade \in Nat /\ tensor'[t].dev \in Nat
      /\ Len(tensor'[t].pages) \in Nat
  <2>1. tensor'[t] \in TensorRecords
    BY <1>0 DEF TypeOK
  <2>2. tensor'[t].pages \in Seq(Nat)
    BY <2>1 DEF TensorRecords
  <2>3. /\ tensor'[t].synced \in Nat /\ tensor'[t].length \in Nat
        /\ tensor'[t].devMade \in Nat /\ tensor'[t].dev \in Nat
    BY <2>1 DEF TensorRecords
  <2>4. Len(tensor'[t].pages) \in Nat
    BY <2>2
  <2> QED BY <2>3, <2>4, Fields DEF IInv
<1>4. Live(t)' /\ tensor'[t].synced > 0
  BY <1>0, <1>2, <1>3 DEF Live, TensorGrows
<1>5. PageSize' = PageSize /\ PageSize \in Nat \ {0}
  BY PageSizeIs DEF IInv, PageSize, StreamGrows
<1>6. c.op # "write" =>
        /\ c.dev[1] = t /\ c.dev[2] \in Nat /\ c.dev = <<t, c.dev[2]>>
  BY <1>0, CommandFields DEF CommandTensor, IInv
<1>7. ASSUME c.op = "write" PROVE WriteInv(c)'
  <2>1. WriteInv(c) /\ t = c.t
    BY <1>0, <1>1, <1>7 DEF CommandInv, CommandTensor
  <2>2. c.at \in Nat
    BY <1>0, <1>7, CommandFields DEF WriteCommands, IInv
  <2>3. c.at \div PageSize \in Nat
    BY <1>5, <2>2, PageNumber
  <2>4. /\ c.at \div PageSize < Len(tensor[t].pages)
        /\ c.page = tensor[t].pages[c.at \div PageSize + 1]
        /\ c.slot = c.at % PageSize /\ c.rows \in 1..(PageSize - c.slot)
    BY <2>1 DEF WriteInv
  <2>5. PICK q \in Nat : q = c.at \div PageSize
    BY <2>3
  <2>6. q + 1 \in 1..Len(tensor[t].pages)
    <3>1. q < Len(tensor[t].pages) /\ Len(tensor[t].pages) \in Nat
      BY <1>3, <2>4, <2>5
    <3> QED BY <3>1
  <2>7. q < Len(tensor'[t].pages) /\ tensor'[t].pages[q + 1] = tensor[t].pages[q + 1]
    <3>1. Leads(tensor[t].pages, tensor'[t].pages)
      BY <1>0 DEF TensorGrows
    <3>2. tensor'[t].pages[q + 1] = tensor[t].pages[q + 1]
      BY <2>6, <3>1 DEF Leads
    <3>3. Len(tensor[t].pages) <= Len(tensor'[t].pages)
      BY <3>1 DEF Leads
    <3> QED BY <1>3, <2>6, <3>2, <3>3
  <2> QED BY <1>5, <2>1, <2>4, <2>5, <2>7 DEF WriteInv
<1>8. ASSUME c.op # "write" PROVE TableInv(i)' /\ devMem'[c.dev] = devMem[c.dev]
  <2>1. TableInv(i)
    BY <1>0, <1>1, <1>8 DEF CommandInv
  <2>2. c.dev \in DOMAIN devMem /\ c.dev[2] \in 0..tensor[t].devMade
    BY <1>0, <1>3, <1>6, <1>8, <2>1 DEF TableInv
  <2>3. c.dev \in DOMAIN devMem' /\ devMem'[c.dev] = devMem[c.dev]
    BY <1>0, <1>6, <1>8, <2>2 DEF TensorGrows
  <2>4. c.dev[2] <= tensor'[t].devMade
    <3>1. tensor[t].devMade <= tensor'[t].devMade
      BY <1>0 DEF TensorGrows
    <3> QED BY <1>3, <2>2, <3>1
  <2>5. c.op = "free" => c.dev[2] # tensor'[t].dev
    BY <1>0, <1>3, <1>6, <1>8, <2>1, <2>2 DEF TableInv, TensorGrows
  <2>6. \A j \in 1..(i - 1) : j \in 1..Len(stream) /\ stream'[j] = stream[j]
    BY DEF StreamGrows
  <2> QED BY <1>0, <1>6, <1>8, <2>1, <2>3, <2>4, <2>5, <2>6 DEF TableInv
<1>9. ASSUME c.op = "copy" PROVE CopyInv(c)'
  <2>1. CopyInv(c)
    BY <1>0, <1>1, <1>9 DEF CommandInv
  <2>2. c.host \in Tables /\ c.host[1] = t
    BY <1>0, <1>6, <1>0, <1>9, <2>1, CommandFields DEF CopyInv, CopyCommands, IInv
  <2>3. c.host[2] \in Nat /\ c.host = <<t, c.host[2]>>
    BY <2>2 DEF Tables
  <2>4. c.host \in DOMAIN hostMem' /\ Len(hostMem[c.host]) <= Len(hostMem'[c.host])
    BY <1>0, <1>2, <2>1, <2>3 DEF CopyInv, TensorGrows
  <2>5. c.last \in Nat
    BY <1>0, <1>9, CommandFields DEF CopyCommands, IInv
  <2>6. hostMem[c.host] \in Seq(Nat) /\ hostMem'[c.host] \in Seq(Nat)
    BY <1>0, <2>1, <2>4 DEF CopyInv, IInv, TypeOK, IsMemory
  <2>7. Len(hostMem[c.host]) \in Nat /\ Len(hostMem'[c.host]) \in Nat
    BY <2>6
  <2> QED BY <1>0, <2>1, <2>4, <2>5, <2>7 DEF CopyInv
<1>10. ASSUME c.op = "attend" PROVE AttendInv(i)'
  <2>1. AttendInv(i) /\ TableInv(i)
    BY <1>0, <1>1, <1>10 DEF CommandInv
  <2>2. c.t = t /\ c.length \in Nat
    BY <1>0, <1>6, <1>0, <1>10, <2>1, CommandFields DEF AttendInv, AttendCommands, IInv
  <2>3. devMem'[c.dev] = devMem[c.dev]
    BY <1>8, <1>10
  <2>4. c.length <= tensor[t].length /\ c.length <= tensor'[t].length
    BY <1>0, <1>3, <2>1, <2>2 DEF AttendInv, TensorGrows
  <2>5. ASSUME NEW k \in tensor[t].born..(c.length - 1)
        PROVE  /\ RowReady(t, k, i - 1)'
               /\ k \div PageSize < Len(devMem'[c.dev])
               /\ EntryReady(t, c.dev, k \div PageSize + 1, i - 1)'
    <3>1. k \in 0..(tensor[t].length - 1)
      <4>1. tensor[t].born \in Nat /\ tensor[t].length \in Nat /\ c.length \in Nat
        BY <1>3, <2>2
      <4> QED BY <2>4, <4>1
    <3>2. k \div PageSize + 1 \in 1..Len(tensor[t].pages)
      BY <1>0, <1>2, <3>1, RowsHavePages
    <3>3. tensor'[t].pages[k \div PageSize + 1] = tensor[t].pages[k \div PageSize + 1]
      BY <1>0, <3>2 DEF TensorGrows, Leads
    <3>4. /\ RowReady(t, k, i - 1)
          /\ k \div PageSize < Len(devMem[c.dev])
          /\ EntryReady(t, c.dev, k \div PageSize + 1, i - 1)
      BY <1>0, <2>1, <2>2 DEF AttendInv
    <3>5. i - 1 \in Int /\ i - 1 <= i - 1 /\ i - 1 <= Len(stream)
      BY DEF StreamGrows
    <3>6. RowReady(t, k, i - 1)'
      BY <3>3, <3>4, <3>5, RowReadyKept
    <3>7. EntryReady(t, c.dev, k \div PageSize + 1, i - 1)'
      <4>1. PICK e : e = k \div PageSize + 1
        OBVIOUS
      <4>2. EntryReady(t, c.dev, e, i - 1)'
        BY <2>3, <3>3, <3>4, <3>5, <4>1, EntryReadyKept
      <4> QED BY <1>5, <4>1, <4>2
    <3> QED BY <2>3, <3>4, <3>6, <3>7
  <2>6. tensor'[t].born = tensor[t].born
    BY <1>0 DEF TensorGrows
  <2>7. c.dev[1] = c.t
    BY <1>0, <2>1 DEF AttendInv
    <2> QED BY <1>0, <1>5, <2>2, <2>4, <2>5, <2>6, <2>7 DEF AttendInv
<1>11. CommandTensor(stream'[i]) = t /\ CommandTensor(c) = t
  BY <1>0
<1> QED BY <1>0, <1>4, <1>7, <1>8, <1>9, <1>10, <1>11 DEF CommandInv

\* The rows an append has issued have pages too.
LEMMA WrittenHavePages ==
    ASSUME IInv, NEW t \in Tensors, Live(t), NEW k \in tensor[t].born..(RowsWritten(t) - 1)
    PROVE  /\ k \in Nat
           /\ k \div PageSize \in Nat /\ k \div PageSize < Len(tensor[t].pages)
           /\ k \div PageSize + 1 \in 1..Len(tensor[t].pages)
           /\ k % PageSize \in 0..(PageSize - 1)
<1>1. /\ PageSize \in Nat \ {0}
      /\ tensor[t].length \in Nat /\ tensor[t].born \in Nat /\ Len(tensor[t].pages) \in Nat
  BY PageSizeIs, Fields DEF IInv
<1>2. RowsInv(t) /\ CallInv /\ TypeOK
  BY DEF IInv, TensorInv
<1>3. PICK n \in Nat : RowsWritten(t) <= n /\ CeilDiv(n, PageSize) <= Len(tensor[t].pages)
  <2>1. CASE Mine(t) /\ call.op = "append" /\ call.phase # "reserve"
    <3>1. /\ call.chunk \in Nat /\ call.done \in Nat /\ call.done <= call.chunk
          /\ CeilDiv(tensor[t].length + call.chunk, PageSize) <= Len(tensor[t].pages)
      BY <1>2, <2>1, CallFields DEF CallInv, Mine, Early, Phases
    <3>2. RowsWritten(t) <= tensor[t].length + call.chunk
      BY <1>1, <2>1, <3>1 DEF RowsWritten
    <3> QED BY <1>1, <3>1, <3>2
  <2>2. CASE Mine(t) /\ call.op = "append" /\ call.phase = "reserve"
    <3>1. call.done = 0
      BY <1>2, <2>2 DEF CallInv, Mine, Early
    <3>2. RowsWritten(t) = tensor[t].length
      BY <1>1, <3>1 DEF RowsWritten
    <3> QED BY <1>1, <1>2, <2>2, <3>2 DEF RowsInv
  <2>3. CASE ~(Mine(t) /\ call.op = "append")
    <3>1. RowsWritten(t) = tensor[t].length
      BY <1>1, <2>3 DEF RowsWritten
    <3>2. tensor[t].born # tensor[t].length
      BY <1>1, <3>1
    <3>3. CeilDiv(tensor[t].length, PageSize) <= Len(tensor[t].pages)
      BY <1>2, <3>2 DEF RowsInv, CallInv, Mine
    <3> QED BY <1>1, <3>1, <3>3
  <2> QED BY <2>1, <2>2, <2>3
<1>4. RowsWritten(t) \in Int
  BY <1>1, <1>2, CallFields DEF RowsWritten, Mine
<1>5. k \in 0..(n - 1) /\ k \in Nat
  BY <1>1, <1>3, <1>4
<1>6. k \div PageSize < CeilDiv(n, PageSize)
  BY <1>1, <1>5, PagesHold
<1>7. CeilDiv(n, PageSize) \in Nat /\ k \div PageSize \in Nat /\ k % PageSize \in 0..(PageSize - 1)
  BY <1>1, <1>5, PageCount, PageNumber, SlotNumber
<1> QED BY <1>1, <1>3, <1>5, <1>6, <1>7

HostTablesSame(t) ==
    \A x \in Tables : x[1] = t =>
      /\ x \in DOMAIN hostMem' <=> x \in DOMAIN hostMem
      /\ x \in DOMAIN hostMem => hostMem'[x] = hostMem[x]
DevTablesSame(t) ==
    \A x \in Tables : x[1] = t =>
      /\ x \in DOMAIN devMem' <=> x \in DOMAIN devMem
      /\ x \in DOMAIN devMem => devMem'[x] = devMem[x]

LEMMA HostKept ==
    ASSUME IInv, NEW t \in Tensors, IsMemory(hostMem'), HostTablesSame(t),
           tensor'[t].state = tensor[t].state, tensor'[t].pages = tensor[t].pages,
           tensor'[t].host = tensor[t].host, tensor'[t].hostCap = tensor[t].hostCap,
           tensor'[t].synced = tensor[t].synced
    PROVE  HostInv(t)'
<1>1. HostInv(t) /\ IsMemory(hostMem) /\ tensor[t].host \in Nat
  BY Fields DEF IInv, TensorInv, TypeOK
<1>2. ASSUME NEW x \in TablesOf(hostMem', t) PROVE x \in TablesOf(hostMem, t) /\ hostMem'[x] = hostMem[x]
  BY <1>2 DEF TablesOf, HostTablesSame, IsMemory
<1>3. <<t, tensor[t].host>> \in Tables /\ <<t, tensor[t].host>>[1] = t
  BY <1>1 DEF Tables
<1>4. \A x \in TablesOf(hostMem', t) :
          /\ tensor'[t].state # "unborn"
          /\ Live(t)' => Leads(hostMem'[x], tensor'[t].pages)
  BY <1>1, <1>2 DEF HostInv, Live
<1>5. Live(t)' /\ tensor'[t].host = 0 => tensor'[t].hostCap = 0 /\ tensor'[t].synced = 0
  BY <1>1 DEF HostInv, Live
<1>6. Live(t)' /\ tensor'[t].host > 0 =>
          /\ <<t, tensor'[t].host>> \in DOMAIN hostMem'
          /\ tensor'[t].synced <= Len(hostMem'[<<t, tensor'[t].host>>])
  BY <1>1, <1>3 DEF HostInv, Live, HostTablesSame
<1> QED BY <1>4, <1>5, <1>6 DEF HostInv

LEMMA DevKept ==
    ASSUME IInv, StreamGrows, NEW t \in Tensors,
           <<t, tensor[t].dev>> \in DOMAIN devMem => <<t, tensor[t].dev>> \in DOMAIN devMem',
           devMem'[<<t, tensor[t].dev>>] = devMem[<<t, tensor[t].dev>>] \/ tensor[t].dev = 0,
           tensor'[t].state = tensor[t].state,
           Live(t) => Leads(tensor[t].pages, tensor'[t].pages),
           Live(t) => Len(tensor'[t].pages) \in Nat,
           tensor'[t].dev = tensor[t].dev, tensor'[t].devCap = tensor[t].devCap,
           tensor'[t].synced = tensor[t].synced,
           tensor'[t].devMade \in Nat, tensor[t].devMade <= tensor'[t].devMade
    PROVE  DevInv(t)'
<1> SUFFICES ASSUME Live(t) PROVE DevInv(t)'
  BY DEF DevInv, Live
<1>1. /\ DevInv(t)
      /\ tensor[t].dev \in Nat /\ tensor[t].synced \in Nat /\ tensor[t].devCap \in Nat
      /\ tensor[t].devMade \in Nat /\ Len(tensor[t].pages) \in Nat
  BY Fields DEF IInv, TensorInv
<1>2. ASSUME NEW k \in 1..tensor[t].synced
      PROVE  EntryReady(t, <<t, tensor[t].dev>>, k, Len(stream))'
  <2>1. EntryReady(t, <<t, tensor[t].dev>>, k, Len(stream))
    BY <1>1 DEF DevInv
  <2>2. tensor[t].dev > 0
    BY <1>1 DEF DevInv
  <2>3. tensor'[t].pages[k] = tensor[t].pages[k]
    <3>1. Leads(tensor[t].pages, tensor'[t].pages)
      OBVIOUS
    <3>2. k \in 1..Len(tensor[t].pages)
      BY <1>1 DEF DevInv
    <3> QED BY <3>1, <3>2 DEF Leads
  <2>4. PICK table : table = <<t, tensor[t].dev>>
    OBVIOUS
  <2>5. PICK m \in Nat : m = Len(stream')
    BY DEF StreamGrows
  <2>6. PICK n \in Nat : n = Len(stream)
    BY DEF StreamGrows
  <2>7. n <= m
    BY <2>5, <2>6 DEF StreamGrows
  <2>8. devMem'[table] = devMem[table] /\ EntryReady(t, table, k, n)
    BY <2>1, <2>2, <2>4, <2>6
  <2>9. EntryReady(t, table, k, m)'
    BY <2>3, <2>6, <2>7, <2>8, EntryReadyKept
  <2> QED BY <2>4, <2>5, <2>9
<1>3. Len(tensor[t].pages) <= Len(tensor'[t].pages)
  BY DEF Leads
<1>4. tensor[t].synced <= Len(tensor[t].pages) /\ tensor[t].dev <= tensor[t].devMade
  BY <1>1 DEF DevInv
<1>5. tensor'[t].synced <= Len(tensor'[t].pages)
  BY <1>1, <1>3, <1>4
<1>6. tensor'[t].dev <= tensor'[t].devMade
  BY <1>1, <1>4
<1> QED BY <1>1, <1>2, <1>5, <1>6 DEF DevInv, Live

LEMMA RowsKept ==
    ASSUME IInv, StreamGrows, NEW t \in Tensors, tensor'[t].state = tensor[t].state,
           tensor'[t].born = tensor[t].born,
           tensor'[t].length \in Nat, tensor[t].length <= tensor'[t].length,
           Live(t) => Leads(tensor[t].pages, tensor'[t].pages),
           Live(t) => RowsWritten(t)' \in Int /\ RowsWritten(t)' <= RowsWritten(t),
           Live(t) => \/ CeilDiv(tensor'[t].length, PageSize) <= Len(tensor'[t].pages)
                      \/ (Mine(t) /\ call.op = "alloc" /\ call.phase = "reserve")'
    PROVE  RowsInv(t)'
<1> SUFFICES ASSUME Live(t) PROVE RowsInv(t)'
  BY DEF RowsInv, Live
<1>1. /\ RowsInv(t) /\ tensor[t].born \in Nat /\ tensor[t].length \in Nat
      /\ RowsWritten(t) \in Int
  BY Fields, CallFields DEF IInv, TensorInv, RowsWritten, Mine
<1>2. PageSize' = PageSize
  BY DEF StreamGrows, PageSize
<1>3. ASSUME NEW k \in tensor[t].born..(RowsWritten(t)' - 1)
      PROVE  RowReady(t, k, Len(stream))'
  <2>1. k \in tensor[t].born..(RowsWritten(t) - 1)
    BY <1>1
  <2>2. k \div PageSize + 1 \in 1..Len(tensor[t].pages)
    BY <2>1, WrittenHavePages
  <2>3. tensor'[t].pages[k \div PageSize + 1] = tensor[t].pages[k \div PageSize + 1]
    BY <2>2 DEF Leads
  <2>4. RowReady(t, k, Len(stream))
    BY <1>1, <2>1 DEF RowsInv
  <2>5. PICK m \in Nat : m = Len(stream')
    BY DEF StreamGrows
  <2>6. PICK n \in Nat : n = Len(stream)
    BY DEF StreamGrows
  <2>7. n <= m
    BY <2>5, <2>6 DEF StreamGrows
  <2>8. RowReady(t, k, m)'
    BY <2>3, <2>4, <2>6, <2>7, RowReadyKept
  <2> QED BY <2>5, <2>8
<1>4. tensor'[t].born <= tensor'[t].length
  BY <1>1 DEF RowsInv
<1> QED BY <1>2, <1>3, <1>4 DEF RowsInv

\* A tensor the step does not touch.
LEMMA OtherTensor ==
    ASSUME IInv, StreamGrows, NEW t \in Tensors, IsMemory(hostMem'),
           tensor'[t] = tensor[t], HostTablesSame(t), DevTablesSame(t), ~Mine(t), ~Mine(t)'
    PROVE  TensorInv(t)' /\ TensorGrows(t)
<1>1. /\ tensor[t].dev \in Nat /\ tensor[t].devMade \in Nat /\ Len(tensor[t].pages) \in Nat
      /\ tensor[t].length \in Nat /\ tensor[t].synced \in Nat
      /\ TensorInv(t)
  BY Fields DEF IInv
<1>2. Leads(tensor[t].pages, tensor'[t].pages)
  BY <1>1 DEF Leads
<1>3. HostInv(t)'
  BY HostKept
<1>4. \A n \in Nat : <<t, n>> \in Tables /\ <<t, n>>[1] = t
  BY DEF Tables
<1>5. ASSUME Live(t), tensor[t].dev > 0
      PROVE  /\ <<t, tensor[t].dev>> \in DOMAIN devMem'
             /\ devMem'[<<t, tensor[t].dev>>] = devMem[<<t, tensor[t].dev>>]
  BY <1>1, <1>4, <1>5 DEF DevTablesSame, TensorInv, DevInv
<1>6. DevInv(t)'
  <2>1. CASE ~Live(t)
    BY <2>1 DEF DevInv, Live
  <2>2. CASE Live(t) /\ tensor[t].dev > 0
    BY <1>1, <1>2, <1>5, <2>2, DevKept
  <2>3. CASE Live(t) /\ tensor[t].dev = 0
    BY <1>1, <2>3 DEF DevInv, Live, TensorInv
  <2> QED BY <1>1, <2>1, <2>2, <2>3
<1>7. RowsWritten(t) = tensor[t].length /\ RowsWritten(t)' = tensor[t].length
  BY <1>1 DEF RowsWritten
<1>8. RowsInv(t)'
  <2>1. Live(t) => CeilDiv(tensor[t].length, PageSize) <= Len(tensor[t].pages)
    BY <1>1 DEF TensorInv, RowsInv
  <2> QED BY <1>1, <1>2, <1>7, <2>1, RowsKept
<1>9. TensorGrows(t)
  <2>1. \A n \in Nat : <<t, n>> \in DOMAIN hostMem =>
          <<t, n>> \in DOMAIN hostMem' /\ Len(hostMem[<<t, n>>]) <= Len(hostMem'[<<t, n>>])
    <3> SUFFICES ASSUME NEW n \in Nat, <<t, n>> \in DOMAIN hostMem
                 PROVE  /\ <<t, n>> \in DOMAIN hostMem'
                        /\ Len(hostMem[<<t, n>>]) <= Len(hostMem'[<<t, n>>])
      OBVIOUS
    <3>1. <<t, n>> \in DOMAIN hostMem' /\ hostMem'[<<t, n>>] = hostMem[<<t, n>>]
      BY <1>4 DEF HostTablesSame
    <3>2. Len(hostMem[<<t, n>>]) \in Nat
      BY DEF IInv, TypeOK, IsMemory
    <3> QED BY <3>1, <3>2
  <2>2. \A n \in 0..tensor[t].devMade : <<t, n>> \in DOMAIN devMem =>
          <<t, n>> \in DOMAIN devMem' /\ devMem'[<<t, n>>] = devMem[<<t, n>>]
    BY <1>1, <1>4 DEF DevTablesSame
  <2> QED BY <1>1, <1>2, <2>1, <2>2 DEF TensorGrows
<1> QED BY <1>3, <1>6, <1>8, <1>9 DEF TensorInv

-----------------------------------------------------------------------------
(* Owners of pages *)

LEMMA OwnersKept ==
    ASSUME IInv, UNCHANGED poolVars,
           \A t \in Tensors : tensor'[t].state = tensor[t].state /\ tensor'[t].pages = tensor[t].pages,
           call' # NoCall => call # NoCall /\ call'.t = call.t
    PROVE  OwnersInv'
<1>1. /\ desc' = desc /\ poolLive' = poolLive /\ created' = created /\ freePages' = freePages
      /\ \A t \in Tensors : Live(t)' = Live(t)
  BY DEF poolVars, Live
<1>2. IdsInv' /\ PoolInv'
  BY <1>1 DEF IInv, OwnersInv, IdsInv, PoolInv
<1>3. CallerInv'
  <2>1. call # NoCall => call.t \in Tensors
    BY CallFields DEF IInv
  <2> QED BY <1>1, <2>1 DEF IInv, OwnersInv, CallerInv
<1>4. ASSUME NEW t \in Tensors PROVE OwnerInv(t)'
  <2>1. OwnerInv(t)
    BY DEF IInv, OwnersInv
  <2>2. tensor'[t].pages = tensor[t].pages /\ Live(t)' = Live(t)
    BY <1>1
  <2>3. \A u \in Tensors \ {t} : tensor'[u].pages = tensor[u].pages /\ Live(u)' = Live(u)
    BY <1>1
  <2> QED BY <1>1, <2>1, <2>2, <2>3 DEF OwnerInv
<1> QED BY <1>2, <1>3, <1>4 DEF OwnersInv

\* The id of a new tensor is the first one not in use.
LEMMA NextId ==
    ASSUME IInv
    PROVE  LET id == Cardinality({t \in Tensors : tensor[t].state # "unborn"}) + 1
           IN  id \in Tensors =>
                 /\ tensor[id].state = "unborn"
                 /\ \A t \in Tensors : tensor[t].state # "unborn" <=> t < id
<1>1. PICK n \in 0..MaxTensors : \A t \in Tensors : tensor[t].state # "unborn" <=> t <= n
  BY DEF IInv, OwnersInv, IdsInv
<1>2. MaxTensors \in Nat
  BY PagedAssumption
<1>3. {t \in Tensors : tensor[t].state # "unborn"} = 1..n
  BY <1>1, <1>2 DEF Tensors
<1>4. Cardinality(1..n) = n
  BY <1>1, <1>2, FS_Interval
<1>5. Cardinality({t \in Tensors : tensor[t].state # "unborn"}) = n
  BY <1>3, <1>4
<1>6. n + 1 \in Tensors => tensor[n + 1].state = "unborn"
  BY <1>1, <1>2 DEF Tensors
<1>7. \A t \in Tensors : t <= n <=> t < n + 1
  BY <1>1, <1>2 DEF Tensors
<1> QED BY <1>1, <1>5, <1>6, <1>7

\* allocate_page: a page nobody has.
LEMMA TakenPageIs ==
    ASSUME IInv, CanTakePage
    PROVE  /\ TakenPage \in 1..(created + 1)
           /\ TakenPage <= created => freePages # <<>> /\ TakenPage = freePages[Len(freePages)]
           /\ freePages # <<>> => TakenPage \in 1..created
           /\ \A t \in Tensors : Live(t) =>
                \A i \in 1..Len(tensor[t].pages) : tensor[t].pages[i] # TakenPage
<1>1. freePages \in Seq(Nat) /\ created \in Nat /\ Len(freePages) \in Nat
  BY DEF IInv, TypeOK
<1>2. PoolInv /\ \A t \in Tensors : OwnerInv(t)
  BY DEF IInv, OwnersInv
<1>3. CASE freePages # <<>>
  <2>1. TakenPage = freePages[Len(freePages)] /\ Len(freePages) \in 1..Len(freePages)
    BY <1>1, <1>3 DEF TakenPage, Last
  <2>2. TakenPage \in 1..created
    BY <1>2, <2>1 DEF PoolInv
  <2>3. \A t \in Tensors : Live(t) =>
           \A i \in 1..Len(tensor[t].pages) : tensor[t].pages[i] # TakenPage
    BY <1>2, <2>1 DEF OwnerInv
  <2> QED BY <1>1, <1>3, <2>1, <2>2, <2>3
<1>4. CASE freePages = <<>>
  <2>1. TakenPage = created + 1
    BY <1>4 DEF TakenPage
  <2>2. \A t \in Tensors : Live(t) =>
           \A i \in 1..Len(tensor[t].pages) : tensor[t].pages[i] # TakenPage
    BY <1>1, <1>2, <2>1 DEF OwnerInv
  <2> QED BY <1>1, <1>4, <2>1, <2>2
<1> QED BY <1>3, <1>4

LEMMA ReserveOwners == ASSUME IInv, ReservePage PROVE OwnersInv'
<1>0. /\ TypeOK /\ call # NoCall /\ call.t \in Tensors /\ Live(call.t)
      /\ CanTakePage
  BY CallFields DEF IInv, ReservePage, OwnersInv, CallerInv
<1> PICK me \in Tensors : me = call.t
  BY <1>0
<1> PICK new : new = TakenPage
  OBVIOUS
<1>1. /\ desc' = desc /\ poolLive' = poolLive /\ call' = call
      /\ tensor' = [tensor EXCEPT ![me].pages = Append(@, new)]
      /\ IF freePages # <<>> THEN freePages' = Front(freePages) /\ created' = created
                             ELSE freePages' = freePages /\ created' = created + 1
      /\ freePages # <<>> \/ created < desc.maxPages
  BY <1>0 DEF ReservePage, CanTakePage
<1>2. /\ new \in 1..(created + 1)
      /\ new <= created => freePages # <<>> /\ new = freePages[Len(freePages)]
      /\ freePages # <<>> => new \in 1..created
      /\ \A t \in Tensors : Live(t) =>
            \A i \in 1..Len(tensor[t].pages) : tensor[t].pages[i] # new
  BY <1>0, TakenPageIs
<1>3. /\ created \in Nat /\ freePages \in Seq(Nat) /\ Len(freePages) \in Nat
      /\ desc.maxPages \in Nat /\ tensor \in [Tensors -> TensorRecords]
      /\ tensor[me].pages \in Seq(Nat) /\ Len(tensor[me].pages) \in Nat
  BY <1>0, PageSizeIs, Fields DEF TypeOK
<1>4. /\ created' \in Nat /\ created <= created' /\ new \in 1..created'
      /\ created' <= desc.maxPages
      /\ Len(freePages') \in Nat /\ Len(freePages') <= Len(freePages)
      /\ \A i \in 1..Len(freePages') : freePages'[i] = freePages[i] /\ freePages'[i] # new
  <2>1. PoolInv
    BY DEF IInv, OwnersInv
  <2>2. CASE freePages # <<>>
    <3>1. /\ Len(freePages) \in 1..Len(freePages)
          /\ freePages' = SubSeq(freePages, 1, Len(freePages) - 1)
      BY <1>1, <1>3, <2>2 DEF Front
    <3>a. Len(freePages) >= 1
      BY <3>1
    <3>b. Len(freePages) - 1 \in Nat
      BY <1>3, <3>a
    <3>2. PICK n \in Nat : n = Len(freePages) - 1
      BY <3>b
    <3>3. Len(freePages') = n /\ \A i \in 1..n : freePages'[i] = freePages[i]
      BY <1>3, <3>1, <3>2
    <3>4. \A i \in 1..n : i \in 1..Len(freePages) /\ freePages[i] # freePages[Len(freePages)]
      BY <1>3, <2>1, <3>1, <3>2 DEF PoolInv
    <3>5. new = freePages[Len(freePages)] /\ new \in 1..created /\ created' = created
      BY <1>1, <1>2, <1>3, <2>2
    <3>6. created <= desc.maxPages
      BY <2>1 DEF PoolInv
    <3> QED BY <1>3, <3>2, <3>3, <3>4, <3>5, <3>6
  <2>3. CASE freePages = <<>>
    BY <1>1, <1>2, <1>3, <2>1, <2>3 DEF PoolInv
  <2> QED BY <2>2, <2>3
<1>5. /\ \A t \in Tensors : tensor'[t].state = tensor[t].state
      /\ \A t \in Tensors \ {me} : tensor'[t].pages = tensor[t].pages
      /\ tensor'[me].pages = Append(tensor[me].pages, new)
  BY <1>1, <1>3 DEF TensorRecords
<1>6. \A t \in Tensors : Live(t)' = Live(t)
  BY <1>5 DEF Live
<1>7. /\ Len(tensor'[me].pages) = Len(tensor[me].pages) + 1
      /\ \A i \in 1..Len(tensor'[me].pages) :
            tensor'[me].pages[i] = IF i \in 1..Len(tensor[me].pages) THEN tensor[me].pages[i] ELSE new
      /\ \A i \in 1..Len(tensor'[me].pages) :
            i \notin 1..Len(tensor[me].pages) => i = Len(tensor[me].pages) + 1
  BY <1>3, <1>5
<1>8. IdsInv' /\ CallerInv'
  BY <1>0, <1>1, <1>5, <1>6 DEF IInv, OwnersInv, IdsInv, CallerInv
<1>9. PoolInv'
  <2>1. PoolInv
    BY DEF IInv, OwnersInv
  <2>2. \A i \in 1..Len(freePages') : i \in 1..Len(freePages)
    BY <1>3, <1>4
  <2>3. \A i \in 1..Len(freePages') : freePages'[i] \in 1..created'
    <3>1. \A i \in 1..Len(freePages) : freePages[i] \in 1..created
      BY <2>1 DEF PoolInv
    <3>2. 1..created \subseteq 1..created'
      BY <1>3, <1>4
    <3> QED BY <1>4, <2>2, <3>1, <3>2
  <2>4. \A i, j \in 1..Len(freePages') : i # j => freePages'[i] # freePages'[j]
    BY <1>4, <2>1, <2>2 DEF PoolInv
  <2> QED BY <1>1, <1>4, <1>6, <2>1, <2>3, <2>4 DEF PoolInv
<1>10. ASSUME NEW t \in Tensors PROVE OwnerInv(t)'
  <2> SUFFICES ASSUME Live(t) PROVE OwnerInv(t)'
    BY <1>6 DEF OwnerInv
  <2>1. Live(t) /\ OwnerInv(t) /\ OwnerInv(me) /\ Live(me)
    BY <1>0 DEF IInv, OwnersInv
  <2>2. CASE t # me
    <3>1. \A i \in 1..Len(tensor'[t].pages) : tensor'[t].pages[i] \in 1..created'
      <4>1. \A i \in 1..Len(tensor[t].pages) : tensor[t].pages[i] \in 1..created
        BY <2>1 DEF OwnerInv
      <4>2. 1..created \subseteq 1..created'
        BY <1>3, <1>4
      <4> QED BY <1>5, <2>2, <4>1, <4>2
    <3>2. \A i, j \in 1..Len(tensor'[t].pages) : i # j => tensor'[t].pages[i] # tensor'[t].pages[j]
      BY <1>5, <2>1, <2>2 DEF OwnerInv
    <3>3. \A i \in 1..Len(tensor'[t].pages), j \in 1..Len(freePages') :
             tensor'[t].pages[i] # freePages'[j]
      <4>1. \A j \in 1..Len(freePages') : j \in 1..Len(freePages) /\ freePages'[j] = freePages[j]
        BY <1>3, <1>4
      <4>2. tensor'[t].pages = tensor[t].pages
        BY <1>5, <2>2
      <4> QED BY <2>1, <2>2, <4>1, <4>2 DEF OwnerInv
    <3>4. ASSUME NEW u \in Tensors \ {t}, Live(u),
                 NEW i \in 1..Len(tensor'[t].pages), NEW j \in 1..Len(tensor'[u].pages)
          PROVE  tensor'[t].pages[i] # tensor'[u].pages[j]
      <4>1. tensor'[t].pages[i] = tensor[t].pages[i] /\ i \in 1..Len(tensor[t].pages)
        BY <1>5, <2>2
      <4>2. CASE u # me
        BY <1>5, <2>1, <3>4, <4>1, <4>2 DEF OwnerInv
      <4>3. CASE u = me /\ j \in 1..Len(tensor[me].pages)
        BY <1>7, <2>1, <3>4, <4>1, <4>3 DEF OwnerInv
      <4>4. CASE u = me /\ j \notin 1..Len(tensor[me].pages)
        <5>1. tensor'[u].pages[j] = new
          BY <1>7, <4>4
        <5> QED BY <1>2, <4>1, <5>1
      <4> QED BY <4>2, <4>3, <4>4
    <3> QED BY <1>6, <3>1, <3>2, <3>3, <3>4 DEF OwnerInv
  <2>3. CASE t = me
    <3>1. \A i \in 1..Len(tensor'[me].pages) : tensor'[me].pages[i] \in 1..created'
      <4>1. \A i \in 1..Len(tensor[me].pages) : tensor[me].pages[i] \in 1..created
        BY <2>1 DEF OwnerInv
      <4>2. 1..created \subseteq 1..created'
        BY <1>3, <1>4
      <4> QED BY <1>4, <1>7, <4>1, <4>2
    <3>2. ASSUME NEW i \in 1..Len(tensor'[me].pages), NEW j \in 1..Len(tensor'[me].pages), i # j
          PROVE  tensor'[me].pages[i] # tensor'[me].pages[j]
      <4>1. CASE i \in 1..Len(tensor[me].pages) /\ j \in 1..Len(tensor[me].pages)
        <5>1. tensor[me].pages[i] # tensor[me].pages[j]
          BY <2>1, <3>2, <4>1 DEF OwnerInv
        <5>2. tensor'[me].pages[i] = tensor[me].pages[i] /\ tensor'[me].pages[j] = tensor[me].pages[j]
          BY <1>7, <4>1
        <5> QED BY <5>1, <5>2
      <4>2. CASE i \in 1..Len(tensor[me].pages) /\ j \notin 1..Len(tensor[me].pages)
        <5>1. tensor'[me].pages[i] = tensor[me].pages[i] /\ tensor'[me].pages[j] = new
          BY <1>7, <4>2
        <5>2. tensor[me].pages[i] # new
          BY <1>2, <2>1, <4>2
        <5> QED BY <5>1, <5>2
      <4>3. CASE i \notin 1..Len(tensor[me].pages) /\ j \in 1..Len(tensor[me].pages)
        BY <1>2, <1>7, <2>1, <4>3
      <4>4. CASE i \notin 1..Len(tensor[me].pages) /\ j \notin 1..Len(tensor[me].pages)
        BY <1>7, <3>2, <4>4
      <4> QED BY <4>1, <4>2, <4>3, <4>4
    <3>3. ASSUME NEW i \in 1..Len(tensor'[me].pages), NEW j \in 1..Len(freePages')
          PROVE  tensor'[me].pages[i] # freePages'[j]
      <4>1. j \in 1..Len(freePages) /\ freePages'[j] = freePages[j] /\ freePages'[j] # new
        BY <1>3, <1>4
      <4>2. CASE i \in 1..Len(tensor[me].pages)
        BY <1>7, <2>1, <4>1, <4>2 DEF OwnerInv
      <4>3. CASE i \notin 1..Len(tensor[me].pages)
        BY <1>7, <4>1, <4>3
      <4> QED BY <4>2, <4>3
    <3>4. ASSUME NEW u \in Tensors \ {me}, Live(u),
                 NEW i \in 1..Len(tensor'[me].pages), NEW j \in 1..Len(tensor'[u].pages)
          PROVE  tensor'[me].pages[i] # tensor'[u].pages[j]
      <4>1. tensor'[u].pages[j] = tensor[u].pages[j] /\ j \in 1..Len(tensor[u].pages)
        BY <1>5
      <4>2. CASE i \in 1..Len(tensor[me].pages)
        BY <1>7, <2>1, <3>4, <4>1, <4>2 DEF OwnerInv
      <4>3. CASE i \notin 1..Len(tensor[me].pages)
        BY <1>2, <1>7, <3>4, <4>1, <4>3
      <4> QED BY <4>2, <4>3
    <3> QED BY <1>6, <2>3, <3>1, <3>2, <3>3, <3>4 DEF OwnerInv
  <2> QED BY <2>2, <2>3
<1> QED BY <1>8, <1>9, <1>10 DEF OwnersInv

-----------------------------------------------------------------------------
(* Steps of the host, one by one *)

LEMMA StreamKept ==
    ASSUME IInv, TypeOK', StreamGrows,
           \A t \in Tensors : Live(t) /\ tensor[t].synced > 0 => TensorGrows(t),
           \A i \in 1..Len(stream') : i \notin 1..Len(stream) => CommandInv(i)'
    PROVE  StreamInv'
<1> SUFFICES ASSUME NEW i \in 1..Len(stream)' PROVE CommandInv(i)'
  BY DEF StreamInv
<1>1. CASE i \in 1..Len(stream)
  <2>1. CommandTensor(stream[i]) \in Tensors
    BY <1>1, CommandFields DEF IInv
  <2>2. Live(CommandTensor(stream[i])) /\ tensor[CommandTensor(stream[i])].synced > 0
    BY <1>1 DEF IInv, StreamInv, CommandInv
  <2> QED BY <1>1, <2>1, <2>2, CommandKept
<1> QED BY <1>1

\* A step of the call of me that leaves the tables alone.
LEMMA TablesSame ==
    ASSUME UNCHANGED tableVars, NEW t \in Tensors
    PROVE  HostTablesSame(t) /\ DevTablesSame(t)
BY DEF tableVars, HostTablesSame, DevTablesSame

LEMMA StreamSame ==
    ASSUME IInv, UNCHANGED stream, desc' = desc, pageData' = pageData
    PROVE  StreamGrows
<1>1. Len(stream) \in Nat
  BY DEF IInv, TypeOK
<1> QED BY <1>1 DEF StreamGrows

LEMMA ReserveStep == ASSUME IInv, ReservePage PROVE IInv'
<1>0. /\ TypeOK /\ call # NoCall /\ call.t \in Tensors /\ Live(call.t)
      /\ CanTakePage /\ call.phase = "reserve"
  BY CallFields DEF IInv, ReservePage, OwnersInv, CallerInv
<1>1. PICK me \in Tensors : me = call.t
  BY <1>0
<1>2. PICK new : new = TakenPage
  OBVIOUS
<1>3. /\ desc' = desc /\ poolLive' = poolLive /\ call' = call
      /\ tensor' = [tensor EXCEPT ![me].pages = Append(@, new)]
      /\ UNCHANGED <<tableVars, stream, pageData>>
      /\ IF freePages # <<>> THEN freePages' = Front(freePages) /\ created' = created
                             ELSE freePages' = freePages /\ created' = created + 1
      /\ PageSize' = PageSize /\ Pages' = Pages
  BY <1>1, <1>2 DEF ReservePage, PageSize, Pages
<1>4. new \in Nat /\ created \in Nat /\ freePages \in Seq(Nat)
  BY <1>0, <1>2, TakenPageIs DEF TypeOK
<1>5. tensor \in [Tensors -> TensorRecords] /\ tensor[me].pages \in Seq(Nat)
      /\ tensor[me].length \in Nat /\ Len(tensor[me].pages) \in Nat
      /\ tensor[me].synced \in Nat /\ tensor[me].devMade \in Nat
  BY <1>0, Fields DEF TypeOK
<1>6. /\ \A t \in Tensors \ {me} : tensor'[t] = tensor[t]
      /\ tensor'[me] = [tensor[me] EXCEPT !.pages = Append(@, new)]
      /\ tensor' \in [Tensors -> TensorRecords]
  <2>1. Append(tensor[me].pages, new) \in Seq(Nat)
    BY <1>4, <1>5
  <2>2. PICK old \in TensorRecords : old = tensor[me]
    BY <1>5
  <2>3. PICK pages \in Seq(Nat) : pages = Append(tensor[me].pages, new)
    BY <2>1
  <2>4. [old EXCEPT !.pages = pages] \in TensorRecords
    BY DEF TensorRecords
  <2>5. tensor' = [tensor EXCEPT ![me] = [old EXCEPT !.pages = pages]]
    BY <1>3, <1>5, <2>2, <2>3
  <2>6. tensor'[me] = [tensor[me] EXCEPT !.pages = Append(@, new)]
    BY <1>3, <1>5
  <2> QED BY <1>5, <2>4, <2>5, <2>6
<1>7. /\ tensor'[me].state = tensor[me].state /\ tensor'[me].born = tensor[me].born
      /\ tensor'[me].length = tensor[me].length /\ tensor'[me].synced = tensor[me].synced
      /\ tensor'[me].host = tensor[me].host /\ tensor'[me].hostCap = tensor[me].hostCap
      /\ tensor'[me].dev = tensor[me].dev /\ tensor'[me].devCap = tensor[me].devCap
      /\ tensor'[me].devMade = tensor[me].devMade
      /\ tensor'[me].pages = Append(tensor[me].pages, new)
  <2>1. PICK old \in TensorRecords : old = tensor[me]
    BY <1>5
  <2>2. tensor'[me] = [old EXCEPT !.pages = Append(old.pages, new)]
    BY <1>6, <2>1
  <2> QED BY <2>1, <2>2 DEF TensorRecords
<1>8. Len(tensor'[me].pages) = Len(tensor[me].pages) + 1
      /\ Leads(tensor[me].pages, tensor'[me].pages)
  BY <1>4, <1>5, <1>7 DEF Leads
<1>9. TypeOK'
  <2>1. freePages' \in Seq(Nat) /\ created' \in Nat
    <3>1. CASE freePages # <<>>
      <4>1. freePages' = SubSeq(freePages, 1, Len(freePages) - 1)
        BY <1>3, <3>1 DEF Front
      <4> QED BY <1>3, <1>4, <3>1, <4>1
    <3>2. CASE freePages = <<>>
      BY <1>3, <1>4, <3>2
    <3> QED BY <3>1, <3>2
  <2>2. hostMem' = hostMem /\ devMem' = devMem
    BY <1>3 DEF tableVars
  <2>3. stream' = stream /\ pageData' = pageData
    BY <1>3
  <2> QED BY <1>0, <1>3, <1>6, <2>1, <2>2, <2>3 DEF TypeOK, IsMemory
<1>10. OwnersInv'
  BY ReserveOwners
<1>11. CallInv'
  <2>1. CallInv
    BY DEF IInv
  <2> QED BY <1>0, <1>1, <1>3, <1>7, <2>1 DEF CallInv
<1>12. StreamGrows /\ IsMemory(hostMem')
  BY <1>0, <1>3, <1>9, StreamSame DEF TypeOK
<1>13. ASSUME NEW t \in Tensors, t # me PROVE TensorInv(t)' /\ TensorGrows(t)
  <2>1. ~Mine(t) /\ ~Mine(t)'
    BY <1>1, <1>3, <1>13 DEF Mine
  <2> QED BY <1>3, <1>6, <1>12, <1>13, <2>1, TablesSame, OtherTensor
<1>14. HostInv(me)'
  <2>1. HostInv(me) /\ hostMem' = hostMem
    BY <1>3 DEF IInv, TensorInv, tableVars
  <2>2. ASSUME NEW x \in TablesOf(hostMem, me) PROVE Leads(hostMem[x], tensor'[me].pages)
    <3>1. Leads(hostMem[x], tensor[me].pages) /\ x \in DOMAIN hostMem
      BY <1>0, <1>1, <2>1 DEF HostInv, TablesOf
    <3>2. hostMem[x] \in Seq(Nat)
      BY <1>0, <3>1 DEF TypeOK, IsMemory
    <3> QED BY <1>4, <1>5, <1>7, <1>8, <3>1, <3>2 DEF Leads
  <2>3. Live(me)' = Live(me)
    BY <1>7 DEF Live
  <2> QED BY <1>7, <2>1, <2>2, <2>3 DEF HostInv, TablesOf
<1>15. DevInv(me)'
  <2>1. devMem' = devMem
    BY <1>3 DEF tableVars
  <2>2. /\ tensor'[me].devMade \in Nat /\ tensor[me].devMade <= tensor'[me].devMade
        /\ Len(tensor'[me].pages) \in Nat
    BY <1>5, <1>7, <1>8
  <2>3. <<me, tensor[me].dev>> \in DOMAIN devMem => <<me, tensor[me].dev>> \in DOMAIN devMem'
    BY <2>1
  <2>4. devMem'[<<me, tensor[me].dev>>] = devMem[<<me, tensor[me].dev>>] \/ tensor[me].dev = 0
    BY <2>1
  <2> QED BY <1>7, <1>8, <1>12, <2>2, <2>3, <2>4, DevKept
<1>16. RowsInv(me)'
  <2>1. RowsWritten(me)' = RowsWritten(me) /\ RowsWritten(me) \in Int
    BY <1>0, <1>3, <1>5, <1>7, CallFields DEF RowsWritten, Mine
  <2>2. \/ CeilDiv(tensor'[me].length, PageSize) <= Len(tensor'[me].pages)
        \/ (Mine(me) /\ call.op = "alloc" /\ call.phase = "reserve")'
    <3>1. RowsInv(me) /\ PageSize \in Nat \ {0}
      BY <1>0, PageSizeIs DEF IInv, TensorInv
    <3>2. CeilDiv(tensor[me].length, PageSize) \in Nat
      BY <1>5, <3>1, PageCount
    <3> QED BY <1>0, <1>1, <1>3, <1>5, <1>7, <1>8, <3>1, <3>2 DEF RowsInv, Mine
  <2>3. tensor'[me].length \in Nat /\ tensor[me].length <= tensor'[me].length
        /\ RowsWritten(me)' \in Int /\ RowsWritten(me)' <= RowsWritten(me)
    BY <1>5, <1>7, <2>1
  <2> QED BY <1>7, <1>8, <1>12, <2>2, <2>3, RowsKept
<1>17. TensorGrows(me)
  <2>1. hostMem' = hostMem /\ devMem' = devMem
    BY <1>3 DEF tableVars
  <2>2. \A n \in Nat : <<me, n>> \in DOMAIN hostMem => Len(hostMem[<<me, n>>]) \in Nat
    BY <1>0 DEF TypeOK, IsMemory
  <2> QED BY <1>5, <1>7, <1>8, <2>1, <2>2 DEF TensorGrows
<1>18. StreamInv'
  BY <1>3, <1>9, <1>12, <1>13, <1>17, StreamKept
<1> QED BY <1>9, <1>10, <1>11, <1>13, <1>14, <1>15, <1>16, <1>18 DEF IInv, TensorInv

LEMMA NothingLives ==
    ASSUME IInv, \A t \in Tensors : ~Live(t)
    PROVE  Len(stream) = 0 /\ call = NoCall
<1>1. Len(stream) \in Nat
  BY DEF IInv, TypeOK
<1>2. ASSUME 1 \in 1..Len(stream) PROVE FALSE
  <2>1. CommandInv(1) /\ CommandTensor(stream[1]) \in Tensors
    BY <1>2, CommandFields DEF IInv, StreamInv
  <2> QED BY <2>1 DEF CommandInv
<1>3. call = NoCall
  BY CallFields DEF IInv, OwnersInv, CallerInv
<1> QED BY <1>1, <1>2, <1>3

LEMMA PoolSteps == ASSUME IInv, CreatePool \/ DestroyPool PROVE IInv'
<1>1. /\ call = NoCall
      /\ \A t \in Tensors : ~Live(t)
      /\ UNCHANGED <<desc, tensor, tableVars, stream, call>>
      /\ poolLive' \in BOOLEAN
      /\ created' \in 0..1
      /\ freePages' = <<>> \/ (created' = 1 /\ freePages' = <<1>>)
      /\ pageData' = pageData \/ pageData' = [p \in Pages |-> EmptyPage]
  <2>1. CASE CreatePool
    <3>1. \A t \in Tensors : ~Live(t)
      BY <2>1 DEF CreatePool, IInv, OwnersInv, PoolInv
    <3> QED BY <2>1, <3>1 DEF CreatePool
  <2>2. CASE DestroyPool
    <3>1. \A t \in Tensors : ~Live(t)
      BY <2>2 DEF DestroyPool, LiveTensors
    <3>2. 0 \in 0..1 /\ FALSE \in BOOLEAN
      OBVIOUS
    <3> QED BY <2>2, <3>1, <3>2 DEF DestroyPool
  <2> QED BY <2>1, <2>2
<1>2. /\ desc' = desc /\ tensor' = tensor /\ hostMem' = hostMem /\ devMem' = devMem
      /\ stream' = stream /\ call' = call
      /\ PageSize' = PageSize /\ Pages' = Pages
  BY <1>1 DEF tableVars, PageSize, Pages
<1>3. TypeOK /\ PageSize \in Nat \ {0} /\ desc.maxPages \in Nat \ {0}
  BY PageSizes DEF IInv, TypeOK
<1>4. TypeOK'
  <2>1. freePages' \in Seq(Nat)
    <3>1. <<>> \in Seq(Nat) /\ <<1>> \in Seq(Nat)
      OBVIOUS
    <3> QED BY <1>1, <3>1
  <2>2. EmptyPage \in [0..(PageSize - 1) -> Nat \X Nat]
    BY DEF EmptyPage, NoRow
  <2>3. pageData' \in [Pages -> [0..(PageSize - 1) -> Nat \X Nat]]
    BY <1>1, <1>3, <2>2 DEF TypeOK
  <2>4. created' \in Nat /\ poolLive' \in BOOLEAN
    BY <1>1
  <2> QED BY <1>2, <1>3, <2>1, <2>3, <2>4 DEF TypeOK, IsMemory
<1>5. OwnersInv'
  <2>1. IdsInv' /\ CallerInv'
    BY <1>2 DEF IInv, OwnersInv, IdsInv, CallerInv, Live
  <2>2. \A t \in Tensors : ~Live(t)'
    BY <1>1, <1>2 DEF Live
  <2>3. /\ \A i \in 1..Len(freePages') : freePages'[i] \in 1..created'
        /\ \A i, j \in 1..Len(freePages') : i # j => freePages'[i] # freePages'[j]
    <3>1. CASE freePages' = <<>>
      BY <3>1
    <3>2. CASE created' = 1 /\ freePages' = <<1>>
      BY <3>2
    <3> QED BY <1>1, <3>1, <3>2
  <2>4. PoolInv'
    BY <1>1, <1>2, <1>3, <2>2, <2>3 DEF PoolInv
  <2> QED BY <2>1, <2>2, <2>4 DEF OwnersInv, OwnerInv
<1>6. CallInv'
  BY <1>1, <1>2 DEF CallInv
<1>7. ASSUME NEW t \in Tensors PROVE TensorInv(t)'
  <2>1. HostInv(t) /\ ~Live(t) /\ ~Live(t)'
    BY <1>1, <1>2 DEF IInv, TensorInv, Live
  <2>2. HostInv(t)'
    BY <1>2, <2>1 DEF HostInv, TablesOf
  <2> QED BY <2>1, <2>2 DEF TensorInv, DevInv, RowsInv
<1>8. StreamInv'
  BY <1>1, <1>2, NothingLives DEF StreamInv
<1> QED BY <1>4, <1>5, <1>6, <1>7, <1>8 DEF IInv

LEMMA AllocStarts ==
    ASSUME IInv, NEW grow \in desc.growLengths, CallAlloc(grow)
    PROVE  IInv'
<1>0. TypeOK /\ PageSize \in Nat \ {0} /\ grow \in Nat /\ poolLive
  BY PageSizes DEF IInv, TypeOK, CallAlloc
<1>1. PICK id \in Tensors :
         /\ tensor[id].state = "unborn"
         /\ \A t \in Tensors : tensor[t].state # "unborn" <=> t < id
         /\ tensor' = [tensor EXCEPT ![id] =
                         [Unborn EXCEPT !.state = "live", !.born = grow, !.length = grow]]
         /\ call' = [op |-> "alloc", t |-> id, phase |-> "reserve",
                     pages |-> CeilDiv(grow, PageSize)]
  BY NextId DEF CallAlloc
<1>2. /\ desc' = desc /\ poolLive' = poolLive /\ created' = created /\ freePages' = freePages
      /\ hostMem' = hostMem /\ devMem' = devMem /\ stream' = stream /\ pageData' = pageData
      /\ PageSize' = PageSize /\ Pages' = Pages /\ call = NoCall
      /\ UNCHANGED tableVars
  BY DEF CallAlloc, poolVars, tableVars, PageSize, Pages
<1>3. /\ tensor'[id] = [Unborn EXCEPT !.state = "live", !.born = grow, !.length = grow]
      /\ \A t \in Tensors \ {id} : tensor'[t] = tensor[t]
  BY <1>0, <1>1 DEF TypeOK
<1>4. /\ tensor'[id] \in TensorRecords
      /\ tensor'[id].state = "live" /\ tensor'[id].born = grow /\ tensor'[id].length = grow
      /\ tensor'[id].pages = <<>> /\ tensor'[id].synced = 0
      /\ tensor'[id].host = 0 /\ tensor'[id].hostCap = 0
      /\ tensor'[id].dev = 0 /\ tensor'[id].devCap = 0 /\ tensor'[id].devMade = 0
  <2>1. tensor'[id] = [state |-> "live", born |-> grow, length |-> grow, pages |-> <<>>,
                       synced |-> 0, host |-> 0, hostCap |-> 0, dev |-> 0, devCap |-> 0,
                       devMade |-> 0, retired |-> {}]
    BY <1>3 DEF Unborn
  <2>2. <<>> \in Seq(Nat) /\ {} \subseteq Nat
    OBVIOUS
  <2> QED BY <1>0, <2>1, <2>2 DEF TensorRecords
<1>5. CeilDiv(grow, PageSize) \in Nat
  BY <1>0, PageCount
<1>6. call' \in Calls /\ call'.t = id /\ call'.op = "alloc" /\ call'.phase = "reserve"
      /\ call' # NoCall /\ call'.pages = CeilDiv(grow, PageSize)
  BY <1>1, <1>5 DEF Calls, PlainCalls, Phases, NoCall
<1>7. TypeOK'
  <2>1. tensor' \in [Tensors -> TensorRecords]
    BY <1>0, <1>1, <1>3, <1>4 DEF TypeOK
  <2> QED BY <1>0, <1>2, <1>6, <2>1 DEF TypeOK, IsMemory
<1>8. OwnersInv'
  <2>1. IdsInv'
    <3>1. id \in 0..MaxTensors /\ MaxTensors \in Nat
      BY PagedAssumption DEF Tensors
    <3>2. \A t \in Tensors : tensor'[t].state # "unborn" <=> t <= id
      BY <1>1, <1>3, <1>4, <3>1 DEF Tensors
    <3> QED BY <3>1, <3>2 DEF IdsInv
  <2>2. CallerInv'
    BY <1>4, <1>6 DEF CallerInv, Live
  <2>3. PoolInv'
    BY <1>0, <1>2 DEF IInv, OwnersInv, PoolInv
  <2>4. \A t \in Tensors \ {id} : Live(t)' = Live(t)
    BY <1>3 DEF Live
  <2>5. OwnerInv(id)'
    BY <1>4 DEF OwnerInv
  <2>6. ASSUME NEW t \in Tensors \ {id} PROVE OwnerInv(t)'
    <3>1. OwnerInv(t) /\ tensor'[t].pages = tensor[t].pages
      BY <1>3 DEF IInv, OwnersInv
    <3>2. \A u \in Tensors \ {t} : Live(u)' =>
             \/ Live(u) /\ tensor'[u].pages = tensor[u].pages
             \/ tensor'[u].pages = <<>>
      BY <1>3, <1>4, <2>4
    <3> QED BY <1>2, <2>4, <3>1, <3>2 DEF OwnerInv
  <2> QED BY <2>1, <2>2, <2>3, <2>5, <2>6 DEF OwnersInv
<1>9. CallInv'
  BY <1>2, <1>4, <1>6 DEF CallInv
<1>10. StreamGrows /\ IsMemory(hostMem')
  BY <1>0, <1>2, <1>7, StreamSame DEF TypeOK
<1>11. ASSUME NEW t \in Tensors \ {id} PROVE TensorInv(t)' /\ TensorGrows(t)
  <2>1. ~Mine(t) /\ ~Mine(t)'
    BY <1>2, <1>6 DEF Mine
  <2> QED BY <1>2, <1>3, <1>10, <2>1, TablesSame, OtherTensor
<1>12. TensorInv(id)'
  <2>1. TablesOf(hostMem', id) = {}
    <3>1. TablesOf(hostMem, id) = {}
      BY <1>1 DEF IInv, TensorInv, HostInv
    <3> QED BY <1>2, <3>1 DEF TablesOf
  <2>2. HostInv(id)' /\ DevInv(id)'
    BY <1>4, <2>1 DEF HostInv, DevInv
  <2>3. RowsWritten(id)' = grow
    BY <1>0, <1>4, <1>6 DEF RowsWritten
  <2>4. RowsInv(id)'
    BY <1>0, <1>4, <1>6, <2>3 DEF RowsInv, Mine
  <2> QED BY <2>2, <2>4 DEF TensorInv
<1>13. StreamInv'
  <2>1. \A t \in Tensors : Live(t) => TensorGrows(t)
    BY <1>1, <1>11 DEF Live
  <2> QED BY <1>2, <1>7, <1>10, <2>1, StreamKept
<1> QED BY <1>7, <1>8, <1>9, <1>11, <1>12, <1>13 DEF IInv

LEMMA DeadRecord ==
    /\ [Unborn EXCEPT !.state = "dead"] \in TensorRecords
    /\ [Unborn EXCEPT !.state = "dead"].state = "dead"
<1>1. PICK r : r = [Unborn EXCEPT !.state = "dead"]
  OBVIOUS
<1>2. r = [state |-> "dead", born |-> 0, length |-> 0, pages |-> <<>>,
           synced |-> 0, host |-> 0, hostCap |-> 0, dev |-> 0, devCap |-> 0,
           devMade |-> 0, retired |-> {}]
  BY <1>1 DEF Unborn
<1>3. PICK zero \in Nat : zero = 0
  OBVIOUS
<1>a. <<>> \in Seq(Nat)
  OBVIOUS
<1>4. PICK none \in Seq(Nat) : none = <<>>
  BY <1>a, Zenon
<1>5. PICK state \in {"unborn", "live", "dead"} : state = "dead"
  OBVIOUS
<1>6. r = [state |-> state, born |-> zero, length |-> zero, pages |-> none,
           synced |-> zero, host |-> zero, hostCap |-> zero, dev |-> zero, devCap |-> zero,
           devMade |-> zero, retired |-> {}]
  BY <1>2, <1>3, <1>4, <1>5
<1>7. r \in TensorRecords
  BY <1>6 DEF TensorRecords
<1> QED BY <1>1, <1>2, <1>7

\* A tensor is erased, by deallocPaged or by an allocPaged that failed.
LEMMA TensorDies ==
    ASSUME IInv, NEW me \in Tensors, Live(me), NEW gone,
           \A x \in gone : x[1] = me,
           desc' = desc, UNCHANGED <<stream, pageData>>,
           poolLive' = poolLive, created' = created, freePages' \in Seq(Nat),
           tensor' = [tensor EXCEPT ![me] = [Unborn EXCEPT !.state = "dead"]],
           hostMem' = Without(hostMem, gone),
           devMem' = Without(devMem, {<<me, tensor[me].dev>>}),
           call = NoCall \/ call.t = me, call' = NoCall,
           tensor[me].synced = 0 \/ stream = <<>>,
           PoolInv', \A t \in Tensors \ {me} : OwnerInv(t)'
    PROVE  IInv'
<1>0. TypeOK /\ PageSize' = PageSize /\ Pages' = Pages
  BY DEF IInv, PageSize, Pages
<1>1. /\ tensor'[me] \in TensorRecords /\ tensor'[me].state = "dead"
      /\ \A t \in Tensors \ {me} : tensor'[t] = tensor[t]
      /\ tensor' \in [Tensors -> TensorRecords]
  <2>1. tensor \in [Tensors -> TensorRecords]
    BY <1>0 DEF TypeOK
  <2>2. tensor'[me] = [Unborn EXCEPT !.state = "dead"]
    BY <2>1
  <2>3. tensor'[me] \in TensorRecords /\ tensor'[me].state = "dead"
    BY <2>2, DeadRecord
  <2> QED BY <2>1, <2>3
<1>2. IsMemory(hostMem') /\ IsMemory(devMem')
  BY <1>0, WithoutIsMemory DEF TypeOK
<1>3. TypeOK'
  <2>1. call' \in Calls \cup {NoCall}
    OBVIOUS
  <2> QED BY <1>0, <1>1, <1>2, <2>1 DEF TypeOK
<1>4. OwnersInv'
  <2>1. IdsInv'
    <3>1. PICK n \in 0..MaxTensors : \A t \in Tensors : tensor[t].state # "unborn" <=> t <= n
      BY DEF IInv, OwnersInv, IdsInv
    <3>2. tensor[me].state # "unborn"
      BY DEF Live
    <3>3. \A t \in Tensors : tensor'[t].state # "unborn" <=> t <= n
      BY <1>1, <3>1, <3>2
    <3> QED BY <3>3 DEF IdsInv
  <2>2. CallerInv' /\ OwnerInv(me)'
    BY <1>1 DEF CallerInv, OwnerInv, Live
  <2> QED BY <2>1, <2>2 DEF OwnersInv
<1>5. CallInv'
  BY DEF CallInv
<1>6. StreamGrows
  BY StreamSame
<1>7. ASSUME NEW t \in Tensors \ {me} PROVE TensorInv(t)' /\ TensorGrows(t)
  <2>1. ~Mine(t) /\ ~Mine(t)'
    BY DEF Mine
  <2>2. HostTablesSame(t)
    <3>1. /\ DOMAIN hostMem' = DOMAIN hostMem \ gone
          /\ \A x \in DOMAIN hostMem \ gone : hostMem'[x] = hostMem[x]
      BY DEF Without
    <3> QED BY <3>1 DEF HostTablesSame
  <2>3. DevTablesSame(t)
    <3>1. PICK dropped : dropped = {<<me, tensor[me].dev>>}
      OBVIOUS
    <3>2. /\ DOMAIN devMem' = DOMAIN devMem \ dropped
          /\ \A x \in DOMAIN devMem \ dropped : devMem'[x] = devMem[x]
      BY <3>1 DEF Without
    <3>3. \A x \in dropped : x[1] = me
      BY <3>1
    <3> QED BY <3>2, <3>3 DEF DevTablesSame
  <2> QED BY <1>1, <1>2, <1>6, <2>1, <2>2, <2>3, OtherTensor
<1>8. TensorInv(me)'
  <2>1. ~Live(me)' /\ tensor'[me].state # "unborn"
    BY <1>1 DEF Live
  <2> QED BY <2>1 DEF TensorInv, HostInv, DevInv, RowsInv
<1>9. StreamInv'
  <2>1. CASE stream = <<>>
    BY <2>1 DEF StreamInv
  <2>2. CASE tensor[me].synced = 0
    <3>1. \A t \in Tensors : Live(t) /\ tensor[t].synced > 0 => TensorGrows(t)
      BY <1>7, <2>2
    <3> QED BY <1>3, <1>6, <3>1, StreamKept
  <2> QED BY <2>1, <2>2
<1> QED BY <1>3, <1>4, <1>5, <1>7, <1>8, <1>9 DEF IInv

LEMMA GivesUp ==
    ASSUME IInv, call # NoCall, call.phase \in {"reserve", "host", "device", "copy"},
           Abandon, UNCHANGED <<poolVars, stream, pageData>>
    PROVE  IInv'
<1>0. /\ TypeOK /\ CallInv /\ call.t \in Tensors /\ Live(call.t)
      /\ desc' = desc /\ poolLive' = poolLive /\ created' = created /\ freePages' = freePages
  BY CallFields DEF IInv, OwnersInv, CallerInv, poolVars
<1>1. CASE call.op # "alloc"
  BY <1>1, CallEnds DEF Abandon
<1>2. CASE call.op = "alloc"
  <2>1. PICK me \in Tensors : me = call.t
    BY <1>0
  <2>2. /\ tensor' = [tensor EXCEPT ![me] = [Unborn EXCEPT !.state = "dead"]]
        /\ hostMem' = Without(hostMem, TablesOf(hostMem, me))
        /\ devMem' = Without(devMem, {<<me, tensor[me].dev>>})
        /\ call' = NoCall
    BY <1>2, <2>1 DEF Abandon
  <2>3. tensor[me].synced = 0
    BY <1>0, <1>2, <2>1 DEF CallInv, Early
  <2>4. \A x \in TablesOf(hostMem, me) : x[1] = me
    BY DEF TablesOf
  <2>5. /\ ~Live(me)' /\ \A t \in Tensors \ {me} : tensor'[t] = tensor[t]
        /\ \A t \in Tensors \ {me} : Live(t)' = Live(t)
    BY <1>0, <2>2 DEF TypeOK, Live, Unborn
  <2>6. PoolInv'
    BY <1>0, <2>5 DEF IInv, OwnersInv, PoolInv
  <2>7. ASSUME NEW t \in Tensors \ {me} PROVE OwnerInv(t)'
    <3>1. OwnerInv(t) /\ tensor'[t].pages = tensor[t].pages
      BY <2>5 DEF IInv, OwnersInv
    <3>2. \A u \in Tensors \ {t} : Live(u)' => Live(u) /\ tensor'[u].pages = tensor[u].pages
      BY <2>5
    <3>3. Live(t)' = Live(t)
      BY <2>5
    <3> QED BY <1>0, <3>1, <3>2, <3>3 DEF OwnerInv
  <2>8. freePages' \in Seq(Nat) /\ Live(me) /\ (call = NoCall \/ call.t = me)
    BY <1>0, <2>1 DEF TypeOK
  <2> HIDE DEF IInv
  <2> QED BY <1>0, <2>2, <2>3, <2>4, <2>6, <2>7, <2>8, TensorDies
<1> QED BY <1>1, <1>2

LEMMA FailedCalls == ASSUME IInv, PoolExhausted \/ CudaFails PROVE IInv'
BY GivesUp DEF PoolExhausted, CudaFails

LEMMA DeallocStep == ASSUME IInv, NEW me \in Tensors, DeallocPaged(me) PROVE IInv'
<1>0. /\ TypeOK /\ Live(me) /\ call = NoCall /\ call' = NoCall /\ stream = <<>>
      /\ desc' = desc /\ poolLive' = poolLive /\ created' = created
      /\ UNCHANGED <<stream, pageData>>
      /\ freePages' = freePages \o tensor[me].pages
      /\ tensor' = [tensor EXCEPT ![me] = [Unborn EXCEPT !.state = "dead"]]
      /\ hostMem' = Without(hostMem, {<<me, n>> : n \in tensor[me].retired \cup {tensor[me].host}})
      /\ devMem' = Without(devMem, {<<me, tensor[me].dev>>})
  BY DEF IInv, DeallocPaged, Quiet, ReturnedPages
<1>1. /\ freePages \in Seq(Nat) /\ tensor[me].pages \in Seq(Nat)
      /\ Len(freePages) \in Nat /\ Len(tensor[me].pages) \in Nat
  BY <1>0, Fields DEF TypeOK
<1>2. /\ freePages' \in Seq(Nat)
      /\ Len(freePages') = Len(freePages) + Len(tensor[me].pages)
      /\ \A i \in 1..Len(freePages') :
            freePages'[i] = IF i <= Len(freePages) THEN freePages[i]
                                                   ELSE tensor[me].pages[i - Len(freePages)]
  BY <1>0, <1>1
<1>3. \A i \in 1..Len(freePages') :
         \/ i \in 1..Len(freePages) /\ freePages'[i] = freePages[i]
         \/ /\ i \notin 1..Len(freePages)
            /\ i - Len(freePages) \in 1..Len(tensor[me].pages)
            /\ freePages'[i] = tensor[me].pages[i - Len(freePages)]
  BY <1>1, <1>2
<1>4. PoolInv /\ OwnerInv(me) /\ \A t \in Tensors : OwnerInv(t)
  BY DEF IInv, OwnersInv
<1>5. /\ ~Live(me)' /\ \A t \in Tensors \ {me} : tensor'[t] = tensor[t]
      /\ \A t \in Tensors \ {me} : Live(t)' = Live(t)
  BY <1>0 DEF TypeOK, Live, Unborn
<1>6. PoolInv'
  <2>1. \A i \in 1..Len(freePages') : freePages'[i] \in 1..created'
    BY <1>0, <1>3, <1>4 DEF PoolInv, OwnerInv
  <2>2. ASSUME NEW i \in 1..Len(freePages'), NEW j \in 1..Len(freePages'), i # j
        PROVE  freePages'[i] # freePages'[j]
    <3>1. CASE i \in 1..Len(freePages) /\ j \in 1..Len(freePages)
      BY <1>3, <1>4, <2>2, <3>1 DEF PoolInv
    <3>2. CASE i \in 1..Len(freePages) /\ j \notin 1..Len(freePages)
      BY <1>0, <1>3, <1>4, <3>2 DEF OwnerInv
    <3>3. CASE i \notin 1..Len(freePages) /\ j \in 1..Len(freePages)
      BY <1>0, <1>3, <1>4, <3>3 DEF OwnerInv
    <3>4. CASE i \notin 1..Len(freePages) /\ j \notin 1..Len(freePages)
      <4>1. i - Len(freePages) # j - Len(freePages)
        BY <1>1, <1>2, <2>2
      <4> QED BY <1>0, <1>3, <1>4, <3>4, <4>1 DEF OwnerInv
    <3> QED BY <3>1, <3>2, <3>3, <3>4
  <2>3. created' <= desc'.maxPages /\ (~poolLive' => \A t \in Tensors : ~Live(t)')
    BY <1>0, <1>4, <1>5 DEF PoolInv
  <2> QED BY <2>1, <2>2, <2>3 DEF PoolInv
<1>7. ASSUME NEW t \in Tensors \ {me} PROVE OwnerInv(t)'
  <2>1. OwnerInv(t) /\ tensor'[t].pages = tensor[t].pages /\ Live(t)' = Live(t)
    BY <1>4, <1>5
  <2>2. \A u \in Tensors \ {t} : Live(u)' => Live(u) /\ tensor'[u].pages = tensor[u].pages
    BY <1>5
  <2>3. ASSUME Live(t), NEW i \in 1..Len(tensor[t].pages), NEW j \in 1..Len(freePages')
        PROVE  tensor[t].pages[i] # freePages'[j]
    BY <1>0, <1>3, <2>1, <2>3 DEF OwnerInv
  <2> QED BY <1>0, <2>1, <2>2, <2>3 DEF OwnerInv
<1>8. \A x \in {<<me, n>> : n \in tensor[me].retired \cup {tensor[me].host}} : x[1] = me
  OBVIOUS
<1> QED BY <1>0, <1>2, <1>6, <1>7, <1>8, TensorDies

LEMMA FirstEntries ==
    ASSUME NEW s \in Seq(Nat), NEW n \in Nat, n <= Len(s)
    PROVE  /\ SubSeq(s, 1, n) \in Seq(Nat) /\ Len(SubSeq(s, 1, n)) = n
           /\ \A k \in 1..n : SubSeq(s, 1, n)[k] = s[k]
OBVIOUS

LEMMA LastEntries ==
    ASSUME NEW p \in Seq(Nat), NEW n \in Nat, NEW m \in Nat, n <= m, m = Len(p)
    PROVE  /\ SubSeq(p, n + 1, m) \in Seq(Nat) /\ Len(SubSeq(p, n + 1, m)) = m - n
           /\ \A k \in 1..(m - n) : SubSeq(p, n + 1, m)[k] = p[n + k]
OBVIOUS

\* The entries of a table that was synced before, and the new pages after them.
LEMMA TableEntries ==
    ASSUME NEW s \in Seq(Nat), NEW p \in Seq(Nat), NEW n \in Nat, n <= Len(s), n <= Len(p),
           \A k \in 1..n : s[k] = p[k]
    PROVE  /\ SubSeq(s, 1, n) \o SubSeq(p, n + 1, Len(p)) \in Seq(Nat)
           /\ Len(SubSeq(s, 1, n) \o SubSeq(p, n + 1, Len(p))) = Len(p)
           /\ Leads(SubSeq(s, 1, n) \o SubSeq(p, n + 1, Len(p)), p)
<1>1. PICK m \in Nat : m = Len(p) /\ n <= m
  OBVIOUS
<1>2. PICK a : a = SubSeq(s, 1, n)
  OBVIOUS
<1>3. PICK b : b = SubSeq(p, n + 1, m)
  OBVIOUS
<1>4. a \in Seq(Nat) /\ Len(a) = n /\ \A k \in 1..n : a[k] = s[k]
  BY <1>2, FirstEntries
<1>5. b \in Seq(Nat) /\ Len(b) = m - n /\ \A k \in 1..(m - n) : b[k] = p[n + k]
  BY <1>1, <1>3, LastEntries
<1>6. PICK e : e = a \o b
  OBVIOUS
<1>7. /\ e \in Seq(Nat) /\ Len(e) = Len(a) + Len(b)
      /\ \A k \in 1..(Len(a) + Len(b)) : e[k] = IF k <= Len(a) THEN a[k] ELSE b[k - Len(a)]
  BY <1>4, <1>5, <1>6, ConcatProperties
<1>8. Len(a) + Len(b) = m
  BY <1>1, <1>4, <1>5
<1>9. Len(e) = m
  BY <1>7, <1>8
<1>10. Len(a) = n
  BY <1>4
<1>11. \A k \in 1..m : e[k] = IF k <= n THEN a[k] ELSE b[k - n]
  BY <1>7, <1>8, <1>10, Zenon
<1>12. ASSUME NEW k \in 1..m PROVE e[k] = p[k]
  <2>1. CASE k <= n
    <3>1. k \in 1..n /\ e[k] = a[k] /\ s[k] = p[k]
      BY <1>11, <2>1
    <3> QED BY <1>4, <3>1
  <2>2. CASE ~(k <= n)
    <3>1. k - n \in 1..(m - n) /\ e[k] = b[k - n] /\ n + (k - n) = k
      BY <1>1, <1>11, <2>2
    <3>2. b[k - n] = p[n + (k - n)]
      BY <1>5, <3>1
    <3> QED BY <3>1, <3>2
  <2> QED BY <2>1, <2>2
<1>13. Len(e) <= Len(p) /\ \A k \in 1..Len(e) : e[k] = p[k]
  BY <1>1, <1>9, <1>12
<1>14. e = SubSeq(s, 1, n) \o SubSeq(p, n + 1, Len(p))
  BY <1>1, <1>2, <1>3, <1>6, Zenon
<1> QED BY <1>1, <1>7, <1>9, <1>13, <1>14, Zenon DEF Leads

LEMMA FillStep == ASSUME IInv, FillHostTable PROVE IInv'
<1>0. /\ TypeOK /\ CallInv /\ call # NoCall /\ call.t \in Tensors /\ Live(call.t)
      /\ call.phase = "host"
  BY CallFields DEF IInv, FillHostTable, OwnersInv, CallerInv
<1>1. PICK me \in Tensors : me = call.t
  BY <1>0
<1>2. PICK old \in TensorRecords : old = tensor[me]
  BY <1>0, Fields
<1>3. PICK count \in Nat : count = Len(old.pages)
  BY <1>0, <1>2, Fields
<1> DEFINE grows == count > old.hostCap
           drop == grows /\ old.host > 0 /\ ~(old.synced > 0)
<1>6. PICK table : table = IF grows THEN old.host + 1 ELSE old.host
  OBVIOUS
<1>7. PICK kept : kept = IF old.host = 0 THEN <<>> ELSE SubSeq(hostMem[<<me, old.host>>], 1, old.synced)
  OBVIOUS
<1>8. PICK entries : entries = kept \o SubSeq(old.pages, old.synced + 1, count)
  OBVIOUS
<1>9. PICK dropped : dropped = IF drop THEN {<<me, old.host>>} ELSE {}
  OBVIOUS
<1>10. /\ Stale(me)
       /\ hostMem' = With(Without(hostMem, dropped), <<me, table>>, entries)
       /\ tensor' = [tensor EXCEPT
               ![me].host = table,
               ![me].hostCap = IF grows THEN GrownCapacity(count, old.hostCap) ELSE @,
               ![me].retired = IF grows /\ old.host > 0 /\ ~drop THEN @ \cup {old.host} ELSE @]
       /\ call' = [call EXCEPT !.phase = "device"]
       /\ desc' = desc /\ UNCHANGED <<poolVars, devMem, stream, pageData>>
       /\ PageSize' = PageSize /\ Pages' = Pages
  BY <1>1, <1>2, <1>3, <1>6, <1>7, <1>8, <1>9
     DEF FillHostTable, RetireHostTable, poolVars, PageSize, Pages
<1>11. /\ old.host \in Nat /\ old.hostCap \in Nat /\ old.synced \in Nat
       /\ old.pages \in Seq(Nat) /\ old.retired \subseteq Nat /\ old.synced < count
       /\ old.length \in Nat /\ old.born \in Nat /\ old.devMade \in Nat
  BY <1>0, <1>2, <1>3, <1>10, Fields DEF Stale
<1>12. /\ HostInv(me) /\ DevInv(me) /\ RowsInv(me)
       /\ old.host = 0 => old.hostCap = 0 /\ old.synced = 0
       /\ old.host > 0 => /\ <<me, old.host>> \in DOMAIN hostMem
                          /\ old.synced <= Len(hostMem[<<me, old.host>>])
  BY <1>0, <1>1, <1>2 DEF IInv, TensorInv, HostInv
<1>13. entries \in Seq(Nat) /\ Len(entries) = count /\ Leads(entries, old.pages)
  <2>1. PICK s \in Seq(Nat) : /\ kept = SubSeq(s, 1, old.synced) /\ old.synced <= Len(s)
                              /\ \A k \in 1..old.synced : s[k] = old.pages[k]
    <3>1. CASE old.host = 0
      <4>1. old.pages \in Seq(Nat) /\ SubSeq(old.pages, 1, 0) = <<>> /\ 0 <= Len(old.pages)
        BY <1>11
      <4>2. old.synced = 0
        BY <1>12, <3>1
      <4>3. kept = SubSeq(old.pages, 1, old.synced)
        BY <1>7, <3>1, <4>1, <4>2
      <4> QED BY <4>1, <4>2, <4>3
    <3>2. CASE old.host > 0
      <4>1. PICK s : s = hostMem[<<me, old.host>>]
        OBVIOUS
      <4>2. <<me, old.host>> \in TablesOf(hostMem, me)
        BY <1>12, <3>2 DEF TablesOf
      <4>3. Leads(s, old.pages) /\ s \in Seq(Nat) /\ old.synced <= Len(s)
        BY <1>0, <1>1, <1>2, <1>12, <3>2, <4>1, <4>2 DEF HostInv, TypeOK, IsMemory
      <4>4. \A k \in 1..old.synced : s[k] = old.pages[k]
        BY <1>11, <4>3 DEF Leads
      <4>5. old.host # 0
        BY <3>2
      <4>6. kept = SubSeq(s, 1, old.synced)
        BY <1>7, <4>1, <4>5
      <4> QED BY <4>3, <4>4, <4>6
    <3>3. old.host = 0 \/ old.host > 0
      BY <1>11
    <3> QED BY <3>1, <3>2, <3>3, Zenon
  <2>2. old.synced <= Len(old.pages) /\ old.pages \in Seq(Nat) /\ old.synced \in Nat
    BY <1>3, <1>11
  <2>3. /\ SubSeq(s, 1, old.synced) \o SubSeq(old.pages, old.synced + 1, Len(old.pages)) \in Seq(Nat)
        /\ Len(SubSeq(s, 1, old.synced) \o SubSeq(old.pages, old.synced + 1, Len(old.pages)))
              = Len(old.pages)
        /\ Leads(SubSeq(s, 1, old.synced) \o SubSeq(old.pages, old.synced + 1, Len(old.pages)),
                 old.pages)
    BY <2>1, <2>2, TableEntries
  <2>4. entries = SubSeq(s, 1, old.synced) \o SubSeq(old.pages, old.synced + 1, Len(old.pages))
    BY <1>3, <1>8, <2>1, Zenon
  <2> QED BY <1>3, <2>3, <2>4, Zenon
<1>14. /\ table \in Nat /\ table > 0
       /\ <<me, table>> \in Tables
       /\ drop => old.synced = 0
  BY <1>6, <1>11, <1>12 DEF Tables
<1>15. /\ DOMAIN hostMem' = (DOMAIN hostMem \ dropped) \cup {<<me, table>>}
       /\ hostMem'[<<me, table>>] = entries
       /\ \A x \in DOMAIN hostMem \ (dropped \cup {<<me, table>>}) : hostMem'[x] = hostMem[x]
  BY <1>10 DEF With, Without
<1>16. IsMemory(hostMem')
  <2>1. IsMemory(Without(hostMem, dropped))
    BY <1>0, WithoutIsMemory DEF TypeOK
  <2> QED BY <1>10, <1>13, <1>14, <2>1, WithIsMemory
<1>17. /\ \A t \in Tensors \ {me} : tensor'[t] = tensor[t]
       /\ tensor'[me].state = old.state /\ tensor'[me].born = old.born
       /\ tensor'[me].length = old.length /\ tensor'[me].pages = old.pages
       /\ tensor'[me].synced = old.synced /\ tensor'[me].host = table
       /\ tensor'[me].dev = old.dev /\ tensor'[me].devCap = old.devCap
       /\ tensor'[me].devMade = old.devMade
       /\ tensor' \in [Tensors -> TensorRecords]
  <2>1. GrownCapacity(count, old.hostCap) \in Nat
    BY <1>11, Bigness
  <2>2. PICK cap \in Nat : cap = IF grows THEN GrownCapacity(count, old.hostCap) ELSE old.hostCap
    BY <1>11, <2>1
  <2>3. PICK ret \in SUBSET Nat : ret = IF grows /\ old.host > 0 /\ ~drop THEN old.retired \cup {old.host}
                                                                          ELSE old.retired
    BY <1>11
  <2>4. tensor \in [Tensors -> TensorRecords]
    BY <1>0 DEF TypeOK
  <2>5. tensor' = [tensor EXCEPT ![me] = [old EXCEPT !.host = table, !.hostCap = cap, !.retired = ret]]
    BY <1>2, <1>10, <2>2, <2>3, <2>4 DEF TensorRecords
  <2>6. tensor'[me] = [old EXCEPT !.host = table, !.hostCap = cap, !.retired = ret]
    BY <2>4, <2>5
  <2> QED BY <1>14, <2>4, <2>5, <2>6 DEF TensorRecords
<1>18. /\ call' \in Calls /\ call' # NoCall /\ call'.t = me /\ call'.op = call.op
       /\ call'.phase = "device"
       /\ call.op \in {"alloc", "append"} => call'.pages = call.pages
       /\ call.op = "append" => call'.done = call.done /\ call'.chunk = call.chunk
  BY <1>0, <1>1, <1>10, CallFields DEF Calls, PlainCalls, AppendCalls, AttendCalls, Phases, NoCall
<1>19. TypeOK'
  <2>1. poolLive' = poolLive /\ created' = created /\ freePages' = freePages
        /\ devMem' = devMem /\ stream' = stream /\ pageData' = pageData
    BY <1>10 DEF poolVars
  <2> QED BY <1>0, <1>10, <1>16, <1>17, <1>18, <2>1 DEF TypeOK, IsMemory
<1>20. OwnersInv'
  BY <1>0, <1>1, <1>2, <1>10, <1>17, <1>18, OwnersKept
<1>21. CallInv'
  <2>1. Stale(me)' /\ tensor'[me].host > 0 /\ Len(hostMem'[<<me, tensor'[me].host>>]) = count
    BY <1>3, <1>11, <1>13, <1>14, <1>15, <1>17 DEF Stale
  <2>2. CallInv /\ me = call.t /\ old = tensor[me]
    BY <1>0, <1>1, <1>2
  <2>3. /\ call'.t = me /\ call'.op = call.op /\ call'.phase = "device"
        /\ call.phase = "host" /\ call.phase \in Early
        /\ PageSize' = PageSize
        /\ tensor'[me].length = old.length /\ tensor'[me].born = old.born
        /\ tensor'[me].pages = old.pages /\ tensor'[me].synced = old.synced
    BY <1>0, <1>10, <1>17, <1>18 DEF Early
  <2>4. CASE call.op = "alloc"
    BY <1>0, <1>3, <1>18, <2>1, <2>2, <2>3, <2>4 DEF CallInv
  <2>5. CASE call.op = "append"
    BY <1>0, <1>3, <1>18, <2>1, <2>2, <2>3, <2>5 DEF CallInv
  <2>6. CASE call.op \notin {"alloc", "append"}
    BY <1>0, <1>3, <2>1, <2>2, <2>3, <2>6 DEF CallInv
  <2> QED BY <2>4, <2>5, <2>6
<1>22. StreamGrows
  BY <1>10, StreamSame
<1>23. ASSUME NEW t \in Tensors \ {me} PROVE TensorInv(t)' /\ TensorGrows(t)
  <2>1. ~Mine(t) /\ ~Mine(t)'
    BY <1>1, <1>18 DEF Mine
  <2>2. \A x \in dropped \cup {<<me, table>>} : x[1] = me
    BY <1>9
  <2>3. HostTablesSame(t) /\ DevTablesSame(t)
    BY <1>10, <1>15, <2>2 DEF HostTablesSame, DevTablesSame
  <2> QED BY <1>16, <1>17, <1>22, <2>1, <2>3, OtherTensor
<1>24. TensorInv(me)'
  <2>1. Live(me)' /\ Live(me)
    BY <1>0, <1>1, <1>2, <1>17 DEF Live
  <2>2. HostInv(me)'
    <3>1. ASSUME NEW x \in TablesOf(hostMem', me) PROVE Leads(hostMem'[x], old.pages)
      <4>1. CASE x = <<me, table>>
        BY <1>13, <1>15, <4>1
      <4>2. CASE x # <<me, table>>
        <5>1. x \in TablesOf(hostMem, me) /\ hostMem'[x] = hostMem[x]
          BY <1>15, <4>2 DEF TablesOf
        <5> QED BY <1>2, <1>12, <2>1, <5>1 DEF HostInv
      <4> QED BY <4>1, <4>2
    <3>2. tensor'[me].state # "unborn"
      BY <2>1 DEF Live
    <3> QED BY <1>11, <1>13, <1>14, <1>15, <1>17, <3>1, <3>2 DEF HostInv
  <2>3. Leads(tensor[me].pages, tensor'[me].pages) /\ Len(tensor'[me].pages) \in Nat
    BY <1>2, <1>3, <1>17 DEF Leads
  <2>4. DevInv(me)'
    <3>1. tensor'[me].devMade \in Nat /\ tensor[me].devMade <= tensor'[me].devMade
      BY <1>2, <1>11, <1>17
    <3>2. devMem' = devMem
      BY <1>10
    <3>3. <<me, tensor[me].dev>> \in DOMAIN devMem => <<me, tensor[me].dev>> \in DOMAIN devMem'
      BY <3>2
    <3>4. devMem'[<<me, tensor[me].dev>>] = devMem[<<me, tensor[me].dev>>] \/ tensor[me].dev = 0
      BY <3>2
    <3> QED BY <1>2, <1>17, <1>22, <2>3, <3>1, <3>3, <3>4, DevKept
  <2>5. RowsInv(me)'
    <3>1. RowsWritten(me)' = RowsWritten(me) /\ RowsWritten(me) \in Int
      BY <1>0, <1>1, <1>2, <1>11, <1>17, <1>18, CallFields DEF RowsWritten, Mine
    <3>2. CeilDiv(tensor'[me].length, PageSize) <= Len(tensor'[me].pages)
      BY <1>0, <1>2, <1>12, <1>17, <2>1 DEF RowsInv, Mine
    <3>3. RowsWritten(me)' \in Int /\ RowsWritten(me)' <= RowsWritten(me)
          /\ tensor'[me].length \in Nat /\ tensor[me].length <= tensor'[me].length
      BY <1>2, <1>11, <1>17, <3>1
    <3> QED BY <1>2, <1>17, <1>22, <2>3, <3>2, <3>3, RowsKept
  <2> QED BY <2>2, <2>4, <2>5 DEF TensorInv
<1>25. TensorGrows(me)
  <2>1. Leads(tensor[me].pages, tensor'[me].pages)
    BY <1>2, <1>3, <1>17 DEF Leads
  <2>2. ASSUME NEW n \in Nat, tensor[me].synced > 0, <<me, n>> \in DOMAIN hostMem
        PROVE  /\ <<me, n>> \in DOMAIN hostMem'
               /\ Len(hostMem[<<me, n>>]) <= Len(hostMem'[<<me, n>>])
    <3>1. dropped = {}
      BY <1>2, <1>9, <1>14, <2>2
    <3>2. <<me, n>> \in TablesOf(hostMem, me)
      BY <2>2 DEF TablesOf
    <3>3. Leads(hostMem[<<me, n>>], old.pages)
      BY <1>0, <1>1, <1>2, <1>12, <3>2 DEF HostInv
    <3>4. Len(hostMem[<<me, n>>]) <= count /\ Len(hostMem[<<me, n>>]) \in Nat
      BY <1>0, <1>3, <2>2, <3>3 DEF Leads, TypeOK, IsMemory
    <3>5. CASE <<me, n>> = <<me, table>>
      BY <1>13, <1>15, <3>4, <3>5
    <3>6. CASE <<me, n>> # <<me, table>>
      BY <1>15, <2>2, <3>1, <3>4, <3>6
    <3> QED BY <3>5, <3>6
  <2>3. \A n \in 0..tensor[me].devMade : <<me, n>> \in DOMAIN devMem =>
          <<me, n>> \in DOMAIN devMem' /\ devMem'[<<me, n>>] = devMem[<<me, n>>]
    BY <1>10
  <2> QED BY <1>2, <1>11, <1>17, <2>1, <2>2, <2>3 DEF TensorGrows
<1>26. StreamInv'
  <2>1. stream' = stream
    BY <1>10
  <2> QED BY <1>19, <1>22, <1>23, <1>25, <2>1, StreamKept
<1> QED BY <1>19, <1>20, <1>21, <1>23, <1>24, <1>26 DEF IInv

LEMMA IssueOne ==
    ASSUME IInv, NEW c \in Commands, stream' = stream \o <<c>>,
           desc' = desc, pageData' = pageData
    PROVE  /\ StreamGrows /\ stream' \in Seq(Commands)
           /\ Len(stream') = Len(stream) + 1 /\ stream'[Len(stream) + 1] = c
<1>1. PICK s \in Seq(Commands) : s = stream
  BY DEF IInv, TypeOK
<1>2. PICK n \in Nat : n = Len(s)
  OBVIOUS
<1>3. <<c>> \in Seq(Commands) /\ Len(<<c>>) = 1 /\ <<c>>[1] = c
  OBVIOUS
<1>4. /\ s \o <<c>> \in Seq(Commands)
      /\ Len(s \o <<c>>) = n + 1
      /\ \A i \in 1..(n + 1) : (s \o <<c>>)[i] = IF i <= n THEN s[i] ELSE <<c>>[i - n]
  BY <1>2, <1>3, ConcatProperties
<1>5. (s \o <<c>>)[n + 1] = c
  <2>1. n + 1 \in 1..(n + 1) /\ ~(n + 1 <= n) /\ (n + 1) - n = 1
    OBVIOUS
  <2> QED BY <1>3, <1>4, <2>1
<1>6. \A i \in 1..n : (s \o <<c>>)[i] = s[i]
  BY <1>4
<1> QED BY <1>1, <1>2, <1>4, <1>5, <1>6 DEF StreamGrows

LEMMA IssueTwo ==
    ASSUME IInv, NEW c \in Commands, NEW d \in Commands, stream' = stream \o (<<c>> \o <<d>>),
           desc' = desc, pageData' = pageData
    PROVE  /\ StreamGrows /\ stream' \in Seq(Commands)
           /\ Len(stream') = Len(stream) + 2
           /\ stream'[Len(stream) + 1] = c /\ stream'[Len(stream) + 2] = d
<1>1. PICK s \in Seq(Commands) : s = stream
  BY DEF IInv, TypeOK
<1>2. PICK n \in Nat : n = Len(s)
  OBVIOUS
<1>3. PICK e : e = <<c>> \o <<d>>
  OBVIOUS
<1>4. e \in Seq(Commands) /\ Len(e) = 2 /\ e[1] = c /\ e[2] = d
  <2>1. /\ <<c>> \in Seq(Commands) /\ Len(<<c>>) = 1 /\ <<c>>[1] = c
        /\ <<d>> \in Seq(Commands) /\ Len(<<d>>) = 1 /\ <<d>>[1] = d
    OBVIOUS
  <2>2. /\ e \in Seq(Commands) /\ Len(e) = 1 + 1
        /\ \A i \in 1..(1 + 1) : e[i] = IF i <= 1 THEN <<c>>[i] ELSE <<d>>[i - 1]
    BY <1>3, <2>1, ConcatProperties
  <2> QED BY <2>1, <2>2
<1>5. /\ s \o e \in Seq(Commands)
      /\ Len(s \o e) = n + 2
      /\ \A i \in 1..(n + 2) : (s \o e)[i] = IF i <= n THEN s[i] ELSE e[i - n]
  <2>1. /\ s \o e \in Seq(Commands)
        /\ Len(s \o e) = Len(s) + Len(e)
        /\ \A i \in 1..(Len(s) + Len(e)) : (s \o e)[i] = IF i <= Len(s) THEN s[i] ELSE e[i - Len(s)]
    BY <1>4, ConcatProperties, Zenon
  <2>2. Len(s) = n /\ Len(e) = 2
    BY <1>2, <1>4
  <2> QED BY <2>1, <2>2, Zenon
<1>6. (s \o e)[n + 1] = c /\ (s \o e)[n + 2] = d
  <2>1. /\ n + 1 \in 1..(n + 2) /\ ~(n + 1 <= n) /\ (n + 1) - n = 1
        /\ n + 2 \in 1..(n + 2) /\ ~(n + 2 <= n) /\ (n + 2) - n = 2
    OBVIOUS
  <2> QED BY <1>4, <1>5, <2>1
<1>7. \A i \in 1..n : (s \o e)[i] = s[i]
  BY <1>5
<1>8. stream' = s \o e
  BY <1>1, <1>3
<1> QED BY <1>1, <1>2, <1>5, <1>6, <1>7, <1>8 DEF StreamGrows

\* A new device table, and the tables there were.
LEMMA NewDeviceTable ==
    ASSUME IInv, NEW me \in Tensors, NEW table \in Nat, NEW capacity \in Nat,
           table > tensor[me].devMade,
           devMem' = With(devMem, <<me, table>>, [k \in 1..capacity |-> NoPage])
    PROVE  /\ IsMemory(devMem')
           /\ <<me, table>> \in DOMAIN devMem' /\ Len(devMem'[<<me, table>>]) = capacity
           /\ \A t \in Tensors \ {me} : DevTablesSame(t)
           /\ \A n \in 0..tensor[me].devMade : <<me, n>> \in DOMAIN devMem =>
                <<me, n>> \in DOMAIN devMem' /\ devMem'[<<me, n>>] = devMem[<<me, n>>]
<1>1. PICK entries : entries = [k \in 1..capacity |-> NoPage]
  OBVIOUS
<1>2. entries \in Seq(Nat) /\ Len(entries) = capacity
  <2>1. \A k \in 1..capacity : entries[k] \in Nat
    BY <1>1 DEF NoPage
  <2>2. entries \in [1..capacity -> Nat]
    BY <1>1 DEF NoPage
  <2> QED BY <2>2
<1>3. <<me, table>> \in Tables
  BY DEF Tables
<1>4. IsMemory(devMem')
  BY <1>1, <1>2, <1>3, WithIsMemory DEF IInv, TypeOK
<1>5. /\ DOMAIN devMem' = DOMAIN devMem \cup {<<me, table>>}
      /\ devMem'[<<me, table>>] = entries
      /\ \A x \in DOMAIN devMem \ {<<me, table>>} : devMem'[x] = devMem[x]
  BY <1>1 DEF With
<1>6. tensor[me].devMade \in Nat
  BY Fields DEF IInv
<1>7. \A n \in 0..tensor[me].devMade : <<me, n>> # <<me, table>>
  BY <1>6
<1>8. ASSUME NEW t \in Tensors \ {me} PROVE DevTablesSame(t)
  BY <1>5 DEF DevTablesSame
<1> QED BY <1>2, <1>4, <1>5, <1>7, <1>8

\* What the call in phase device starts from.
LEMMA BeforeDevice ==
    ASSUME IInv, call # NoCall, call.phase = "device"
    PROVE  LET x == tensor[call.t]
           IN  /\ TypeOK /\ CallInv /\ call.t \in Tensors /\ Live(call.t)
               /\ x.synced < Len(x.pages) /\ Len(x.pages) \in Nat
               /\ x.host \in Nat /\ x.host > 0
               /\ <<call.t, x.host>> \in DOMAIN hostMem
               /\ Len(hostMem[<<call.t, x.host>>]) = Len(x.pages)
               /\ x.dev = 0 => x.devCap = 0
               /\ x.dev > 0 => x.synced > 0 /\ <<call.t, x.dev>> \in DOMAIN devMem
               /\ CeilDiv(x.length, PageSize) <= Len(x.pages)
<1>1. TypeOK /\ CallInv /\ call.t \in Tensors /\ Live(call.t)
  BY CallFields DEF IInv, OwnersInv, CallerInv
<1>2. HostInv(call.t) /\ DevInv(call.t) /\ RowsInv(call.t)
  BY <1>1 DEF IInv, TensorInv
<1>3. /\ tensor[call.t].host \in Nat /\ tensor[call.t].synced \in Nat
      /\ Len(tensor[call.t].pages) \in Nat
  BY <1>1, Fields
<1>4. /\ tensor[call.t].host > 0
      /\ tensor[call.t].synced < Len(tensor[call.t].pages)
      /\ Len(hostMem[<<call.t, tensor[call.t].host>>]) = Len(tensor[call.t].pages)
  BY <1>1, <1>3 DEF CallInv, Stale
<1>5. <<call.t, tensor[call.t].host>> \in DOMAIN hostMem
  BY <1>1, <1>2, <1>4 DEF HostInv
<1>6. /\ tensor[call.t].dev = 0 => tensor[call.t].devCap = 0
      /\ tensor[call.t].dev > 0 =>
            tensor[call.t].synced > 0 /\ <<call.t, tensor[call.t].dev>> \in DOMAIN devMem
  BY <1>1, <1>2, <1>3 DEF DevInv
<1>7. CeilDiv(tensor[call.t].length, PageSize) <= Len(tensor[call.t].pages)
  BY <1>1, <1>2 DEF RowsInv, Mine
<1> QED BY <1>1, <1>3, <1>4, <1>5, <1>6, <1>7

LEMMA OldTableStep == ASSUME IInv, OldTableNotFreed PROVE IInv'
<1>0. call # NoCall /\ call.phase = "device"
  BY DEF OldTableNotFreed
<1>1. PICK me \in Tensors : me = call.t
  BY <1>0, BeforeDevice
<1>2. PICK old \in TensorRecords : old = tensor[me]
  BY Fields DEF IInv
<1>3. PICK count \in Nat : count = Len(old.pages)
  BY <1>2, Fields DEF IInv
<1>4. PICK table : table = old.devMade + 1
  OBVIOUS
<1>5. PICK capacity : capacity = GrownCapacity(count, old.devCap)
  OBVIOUS
<1>6. PICK c : c = CopyTable(me, old.host, table, 1, count)
  OBVIOUS
<1>7. /\ old.dev > 0 /\ call' = NoCall
      /\ stream' = stream \o <<c>>
      /\ devMem' = With(devMem, <<me, table>>, [k \in 1..capacity |-> NoPage])
      /\ tensor' = [tensor EXCEPT ![me].devMade = table]
      /\ desc' = desc /\ UNCHANGED <<poolVars, hostMem, pageData>>
      /\ PageSize' = PageSize /\ Pages' = Pages
  BY <1>1, <1>2, <1>3, <1>4, <1>5, <1>6 DEF OldTableNotFreed, Issue, poolVars, PageSize, Pages
<1>8. /\ TypeOK /\ CallInv /\ Live(me)
      /\ old.synced < count /\ old.host \in Nat /\ old.host > 0 /\ old.synced > 0
      /\ <<me, old.host>> \in DOMAIN hostMem /\ Len(hostMem[<<me, old.host>>]) = count
      /\ <<me, old.dev>> \in DOMAIN devMem
      /\ CeilDiv(old.length, PageSize) <= count
  BY <1>0, <1>1, <1>2, <1>3, <1>7, BeforeDevice
<1>9. /\ old.devMade \in Nat /\ old.devCap \in Nat /\ old.length \in Nat /\ old.dev \in Nat
      /\ old.dev <= old.devMade /\ old.synced \in Nat
      /\ table \in Nat /\ table > old.devMade
  <2>1. old.dev <= old.devMade
    BY <1>2, <1>8 DEF IInv, TensorInv, DevInv
  <2> QED BY <1>2, <1>4, <1>8, <2>1, Fields
<1>10. capacity \in Nat /\ capacity >= count
  BY <1>5, <1>9, Bigness
<1>11. c \in Commands /\ c.op = "copy" /\ c.host = <<me, old.host>> /\ c.dev = <<me, table>>
       /\ c.first = 1 /\ c.last = count
  <2>1. <<me, old.host>> \in Tables /\ <<me, table>> \in Tables
    BY <1>8, <1>9 DEF Tables
  <2> QED BY <1>6, <2>1 DEF CopyTable, CopyCommands, Commands
<1>12. /\ StreamGrows /\ stream' \in Seq(Commands)
       /\ Len(stream') = Len(stream) + 1 /\ stream'[Len(stream) + 1] = c
       /\ Len(stream) \in Nat
  <2>1. Len(stream) \in Nat
    BY <1>8 DEF TypeOK
  <2> QED BY <1>7, <1>11, <2>1, IssueOne
<1>13. /\ IsMemory(devMem')
       /\ <<me, table>> \in DOMAIN devMem' /\ Len(devMem'[<<me, table>>]) = capacity
       /\ \A t \in Tensors \ {me} : DevTablesSame(t)
       /\ \A n \in 0..old.devMade : <<me, n>> \in DOMAIN devMem =>
             <<me, n>> \in DOMAIN devMem' /\ devMem'[<<me, n>>] = devMem[<<me, n>>]
  BY <1>2, <1>7, <1>9, <1>10, NewDeviceTable
<1>14. /\ \A t \in Tensors \ {me} : tensor'[t] = tensor[t]
       /\ tensor'[me].state = old.state /\ tensor'[me].born = old.born
       /\ tensor'[me].length = old.length /\ tensor'[me].pages = old.pages
       /\ tensor'[me].synced = old.synced /\ tensor'[me].host = old.host
       /\ tensor'[me].hostCap = old.hostCap
       /\ tensor'[me].dev = old.dev /\ tensor'[me].devCap = old.devCap
       /\ tensor'[me].devMade = table
       /\ tensor' \in [Tensors -> TensorRecords]
  BY <1>2, <1>7, <1>8, <1>9 DEF TensorRecords, TypeOK
<1>15. TypeOK'
  <2>1. poolLive' = poolLive /\ created' = created /\ freePages' = freePages
        /\ hostMem' = hostMem /\ pageData' = pageData
    BY <1>7 DEF poolVars
  <2> QED BY <1>7, <1>8, <1>12, <1>13, <1>14, <2>1 DEF TypeOK, IsMemory
<1>16. OwnersInv'
  BY <1>2, <1>7, <1>14, OwnersKept
<1>17. CallInv'
  BY <1>7 DEF CallInv
<1>18. IsMemory(hostMem') /\ \A t \in Tensors : HostTablesSame(t)
  BY <1>7, <1>8 DEF HostTablesSame, TypeOK
<1>19. ASSUME NEW t \in Tensors \ {me} PROVE TensorInv(t)' /\ TensorGrows(t)
  <2>1. ~Mine(t) /\ ~Mine(t)'
    BY <1>1, <1>7 DEF Mine
  <2> QED BY <1>12, <1>13, <1>14, <1>18, <2>1, OtherTensor
<1>20. Leads(tensor[me].pages, tensor'[me].pages) /\ Len(tensor'[me].pages) \in Nat
  BY <1>2, <1>3, <1>14 DEF Leads
<1>21. TensorInv(me)'
  <2>1. HostInv(me)'
    BY <1>2, <1>14, <1>18, HostKept
  <2>2. DevInv(me)'
    <3>1. tensor'[me].devMade \in Nat /\ tensor[me].devMade <= tensor'[me].devMade
      BY <1>2, <1>9, <1>14
    <3>2. <<me, old.dev>> \in DOMAIN devMem' /\ devMem'[<<me, old.dev>>] = devMem[<<me, old.dev>>]
      BY <1>8, <1>9, <1>13
    <3> QED BY <1>2, <1>12, <1>14, <1>20, <3>1, <3>2, DevKept
  <2>3. RowsInv(me)'
    <3>1. RowsWritten(me)' = old.length
      BY <1>7, <1>9, <1>14 DEF RowsWritten, Mine
    <3>2. RowsWritten(me) \in Int /\ old.length <= RowsWritten(me)
      BY <1>0, <1>2, <1>8, <1>9, CallFields DEF RowsWritten, Mine
    <3>3. CeilDiv(tensor'[me].length, PageSize) <= Len(tensor'[me].pages)
      BY <1>3, <1>8, <1>14
    <3>4. /\ tensor'[me].length \in Nat /\ tensor[me].length <= tensor'[me].length
          /\ RowsWritten(me)' \in Int /\ RowsWritten(me)' <= RowsWritten(me)
      BY <1>2, <1>9, <1>14, <3>1, <3>2
    <3> QED BY <1>2, <1>12, <1>14, <1>20, <3>3, <3>4, RowsKept
  <2> QED BY <2>1, <2>2, <2>3 DEF TensorInv
<1>22. TensorGrows(me)
  <2>1. \A n \in Nat : <<me, n>> \in DOMAIN hostMem =>
          <<me, n>> \in DOMAIN hostMem' /\ Len(hostMem[<<me, n>>]) <= Len(hostMem'[<<me, n>>])
    <3>1. \A n \in Nat : <<me, n>> \in DOMAIN hostMem => Len(hostMem[<<me, n>>]) \in Nat
      BY <1>8 DEF TypeOK, IsMemory
    <3> QED BY <1>7, <3>1
  <2> QED BY <1>2, <1>9, <1>13, <1>14, <1>20, <2>1 DEF TensorGrows
<1>23. StreamInv'
  <2>1. ASSUME NEW i \in 1..Len(stream'), i \notin 1..Len(stream) PROVE CommandInv(i)'
    <3>1. i = Len(stream) + 1 /\ stream'[i] = c
      BY <1>12, <2>1
    <3>2. Live(me)' /\ tensor'[me].synced > 0
      BY <1>2, <1>8, <1>14 DEF Live
    <3>3. TableInv(i)'
      <4>1. ASSUME NEW j \in 1..(i - 1), stream'[j].op = "free" PROVE stream'[j].dev # c.dev
        <5>1. j \in 1..Len(stream) /\ stream'[j] = stream[j]
          BY <1>12, <3>1 DEF StreamGrows
        <5>2. CommandInv(j) /\ stream[j].op = "free"
          BY <4>1, <5>1 DEF IInv, StreamInv
        <5>3. TableInv(j)
          BY <5>2 DEF CommandInv
        <5>4. stream[j].dev = <<me, table>> => stream[j].dev[1] = me /\ stream[j].dev[2] = table
          OBVIOUS
        <5> QED BY <1>2, <1>9, <1>11, <5>1, <5>3, <5>4 DEF TableInv
      <4>2. c.dev \in DOMAIN devMem' /\ c.dev[1] = me /\ c.dev[2] = table
            /\ c.dev[2] <= tensor'[me].devMade
        BY <1>9, <1>11, <1>13, <1>14
      <4> QED BY <1>11, <3>1, <4>1, <4>2 DEF TableInv
    <3>4. CopyInv(c)'
      BY <1>3, <1>7, <1>8, <1>11 DEF CopyInv
    <3>5. CommandTensor(c) = me
      BY <1>11 DEF CommandTensor
    <3> QED BY <1>11, <3>1, <3>2, <3>3, <3>4, <3>5 DEF CommandInv
  <2> QED BY <1>12, <1>15, <1>19, <1>22, <2>1, StreamKept
<1> QED BY <1>15, <1>16, <1>17, <1>19, <1>21, <1>23 DEF IInv

LEMMA UpdateStep == ASSUME IInv, UpdateDeviceTable PROVE IInv'
<1>0. call # NoCall /\ call.phase = "device"
  BY DEF UpdateDeviceTable
<1>1. PICK me \in Tensors : me = call.t
  BY <1>0, BeforeDevice
<1>2. PICK old \in TensorRecords : old = tensor[me]
  BY Fields DEF IInv
<1>3. PICK count \in Nat : count = Len(old.pages)
  BY <1>2, Fields DEF IInv
<1> DEFINE grows == count > old.devCap
<1>4. PICK table : table = IF grows THEN old.devMade + 1 ELSE old.dev
  OBVIOUS
<1>5. PICK capacity : capacity = GrownCapacity(count, old.devCap)
  OBVIOUS
<1>6. PICK first : first = IF grows THEN 1 ELSE old.synced + 1
  OBVIOUS
<1>7. PICK c : c = CopyTable(me, old.host, table, first, count)
  OBVIOUS
<1>8. PICK f : f = FreeTable(me, old.dev)
  OBVIOUS
<1>9. /\ stream' = stream \o (<<c>> \o (IF grows /\ old.dev > 0 THEN <<f>> ELSE <<>>))
      /\ devMem' = IF grows THEN With(devMem, <<me, table>>, [k \in 1..capacity |-> NoPage])
                            ELSE devMem
      /\ tensor' = [tensor EXCEPT ![me].dev = table,
                                  ![me].devMade = Bigger(@, table),
                                  ![me].devCap = IF grows THEN capacity ELSE @,
                                  ![me].synced = count]
      /\ call' = [call EXCEPT !.phase = AfterSync]
      /\ desc' = desc /\ UNCHANGED <<poolVars, hostMem, pageData>>
      /\ PageSize' = PageSize /\ Pages' = Pages
  BY <1>1, <1>2, <1>3, <1>4, <1>5, <1>6, <1>7, <1>8
     DEF UpdateDeviceTable, Issue, FirstEntryToCopy, poolVars, PageSize, Pages
<1>10. /\ TypeOK /\ CallInv /\ Live(me)
       /\ old.synced < count /\ old.host \in Nat /\ old.host > 0
       /\ old.dev > 0 => old.synced > 0 /\ <<me, old.dev>> \in DOMAIN devMem
       /\ old.dev = 0 => old.devCap = 0
       /\ <<me, old.host>> \in DOMAIN hostMem /\ Len(hostMem[<<me, old.host>>]) = count
       /\ CeilDiv(old.length, PageSize) <= count
  BY <1>0, <1>1, <1>2, <1>3, BeforeDevice
<1>11. /\ old.devMade \in Nat /\ old.devCap \in Nat /\ old.length \in Nat /\ old.dev \in Nat
       /\ old.dev <= old.devMade /\ old.synced \in Nat /\ count > 0
  <2>1. old.dev <= old.devMade
    BY <1>2, <1>10 DEF IInv, TensorInv, DevInv
  <2> QED BY <1>2, <1>3, <1>10, <2>1, Fields
<1>12. capacity \in Nat /\ capacity >= count
  BY <1>5, <1>11, Bigness
<1>13. /\ table \in Nat /\ table > 0 /\ first \in Nat /\ first >= 1
       /\ grows => table > old.devMade /\ first = 1
       /\ ~grows => table = old.dev /\ old.dev > 0 /\ first = old.synced + 1
  BY <1>4, <1>6, <1>10, <1>11
<1>14. PICK made \in Nat : made = Bigger(old.devMade, table) /\ old.devMade <= made /\ table <= made
  BY <1>11, <1>13 DEF Bigger
<1>15. PICK cap \in Nat : cap = (IF grows THEN capacity ELSE old.devCap) /\ count <= cap
  BY <1>11, <1>12
<1>16. c \in Commands /\ c.op = "copy" /\ c.host = <<me, old.host>> /\ c.dev = <<me, table>>
       /\ c.first = first /\ c.last = count
  <2>1. <<me, old.host>> \in Tables /\ <<me, table>> \in Tables
    BY <1>10, <1>13 DEF Tables
  <2> QED BY <1>7, <1>13, <2>1 DEF CopyTable, CopyCommands, Commands
<1>17. f \in Commands /\ f.op = "free" /\ f.dev = <<me, old.dev>>
  <2>1. <<me, old.dev>> \in Tables
    BY <1>11 DEF Tables
  <2> QED BY <1>8, <2>1 DEF FreeTable, FreeCommands, Commands
<1>18. PICK n \in Nat : n = Len(stream)
  BY <1>10 DEF TypeOK
<1>19. /\ StreamGrows /\ stream' \in Seq(Commands)
       /\ n + 1 <= Len(stream') /\ stream'[n + 1] = c
       /\ \A i \in 1..Len(stream') : i \notin 1..n =>
             i = n + 1 \/ (i = n + 2 /\ grows /\ old.dev > 0 /\ stream'[i] = f)
  <2>1. CASE grows /\ old.dev > 0
    <3>1. stream' = stream \o (<<c>> \o <<f>>)
      BY <1>9, <2>1
    <3>2. /\ StreamGrows /\ stream' \in Seq(Commands)
          /\ Len(stream') = n + 2 /\ stream'[n + 1] = c /\ stream'[n + 2] = f
      BY <1>9, <1>16, <1>17, <1>18, <3>1, IssueTwo
    <3> QED BY <2>1, <3>2
  <2>2. CASE ~(grows /\ old.dev > 0)
    <3>1. <<c>> \in Seq(Commands)
      BY <1>16
    <3>2. <<c>> \o <<>> = <<c>>
      BY <3>1, ConcatEmptySeq
    <3>3. stream' = stream \o <<c>>
      BY <1>9, <2>2, <3>2
    <3>4. /\ StreamGrows /\ stream' \in Seq(Commands)
          /\ Len(stream') = n + 1 /\ stream'[n + 1] = c
      BY <1>9, <1>16, <1>18, <3>3, IssueOne
    <3> QED BY <3>4
  <2> QED BY <2>1, <2>2
<1>20. /\ IsMemory(devMem')
       /\ <<me, table>> \in DOMAIN devMem' /\ Len(devMem'[<<me, table>>]) = cap
       /\ \A t \in Tensors \ {me} : DevTablesSame(t)
       /\ \A k \in 0..old.devMade : <<me, k>> \in DOMAIN devMem =>
             <<me, k>> \in DOMAIN devMem' /\ devMem'[<<me, k>>] = devMem[<<me, k>>]
  <2>1. CASE grows
    BY <1>2, <1>9, <1>12, <1>13, <1>15, <2>1, NewDeviceTable
  <2>2. CASE ~grows
    <3>1. devMem' = devMem /\ IsMemory(devMem')
      BY <1>9, <1>10, <2>2 DEF TypeOK
    <3>2. Len(devMem[<<me, old.dev>>]) = old.devCap
      BY <1>2, <1>10, <1>13, <2>2 DEF IInv, TensorInv, DevInv
    <3> QED BY <1>10, <1>13, <1>15, <2>2, <3>1, <3>2 DEF DevTablesSame
  <2> QED BY <2>1, <2>2
<1>21. /\ \A t \in Tensors \ {me} : tensor'[t] = tensor[t]
       /\ tensor'[me].state = old.state /\ tensor'[me].born = old.born
       /\ tensor'[me].length = old.length /\ tensor'[me].pages = old.pages
       /\ tensor'[me].synced = count /\ tensor'[me].host = old.host
       /\ tensor'[me].hostCap = old.hostCap
       /\ tensor'[me].dev = table /\ tensor'[me].devCap = cap
       /\ tensor'[me].devMade = made
       /\ tensor' \in [Tensors -> TensorRecords]
  <2>1. tensor \in [Tensors -> TensorRecords]
    BY <1>10 DEF TypeOK
  <2>2. tensor' = [tensor EXCEPT ![me] =
                     [old EXCEPT !.dev = table, !.devMade = made, !.devCap = cap, !.synced = count]]
    BY <1>2, <1>9, <1>14, <1>15, <2>1 DEF TensorRecords
  <2>3. tensor'[me] = [old EXCEPT !.dev = table, !.devMade = made, !.devCap = cap, !.synced = count]
    BY <2>1, <2>2
  <2> QED BY <1>13, <2>1, <2>2, <2>3 DEF TensorRecords
<1>22. /\ AfterSync = IF call.op = "append" THEN "copy" ELSE "finish"
       /\ AfterSync \in {"copy", "finish"}
  BY DEF AfterSync
<1>23. /\ call' \in Calls /\ call' # NoCall
       /\ call'.t = call.t /\ call'.op = call.op /\ call'.phase = AfterSync
       /\ call.op \in {"alloc", "append"} => call'.pages = call.pages
       /\ call.op = "append" => call'.done = call.done /\ call'.chunk = call.chunk
  BY <1>0, <1>9, <1>10, <1>22, CallFields
     DEF Calls, PlainCalls, AppendCalls, AttendCalls, Phases, NoCall
<1>24. TypeOK'
  <2>1. poolLive' = poolLive /\ created' = created /\ freePages' = freePages
        /\ hostMem' = hostMem /\ pageData' = pageData
    BY <1>9 DEF poolVars
  <2> QED BY <1>9, <1>10, <1>19, <1>20, <1>21, <1>23, <2>1 DEF TypeOK, IsMemory
<1>25. OwnersInv'
  BY <1>0, <1>1, <1>2, <1>9, <1>21, <1>23, OwnersKept
<1>26. CallInv'
  <2>1. CallInv /\ me = call.t /\ old = tensor[me] /\ call.phase = "device"
    BY <1>0, <1>1, <1>2, <1>10
  <2>2. /\ call'.t = me /\ call'.op = call.op
        /\ call'.phase \in {"copy", "finish"} /\ call'.phase \notin Early
        /\ call'.phase = "copy" <=> call.op = "append"
    BY <1>22, <1>23, <2>1 DEF Early
  <2>3. /\ tensor'[me].synced = Len(tensor'[me].pages)
        /\ Len(tensor'[me].pages) = count /\ count = Len(old.pages)
        /\ tensor'[me].length = old.length /\ tensor'[me].born = old.born
    BY <1>3, <1>21
  <2>4. CASE call.op = "alloc"
    <3>1. call.pages = CeilDiv(old.length, PageSize) /\ old.born = old.length
          /\ call'.pages = call.pages
      BY <1>0, <1>23, <2>1, <2>4 DEF CallInv
    <3> QED BY <1>9, <1>10, <2>2, <2>3, <2>4, <3>1 DEF CallInv
  <2>5. CASE call.op = "append"
    <3>1. /\ call'.pages = call.pages /\ call'.done = call.done /\ call'.chunk = call.chunk
          /\ call.pages = CeilDiv(old.length + call.chunk, PageSize)
          /\ call.pages <= count /\ call.chunk > 0 /\ call.done = 0
      BY <1>0, <1>3, <1>23, <2>1, <2>5 DEF CallInv, Early
    <3> QED BY <1>9, <2>2, <2>3, <2>5, <3>1 DEF CallInv
  <2>6. CASE call.op \notin {"alloc", "append"}
    <3>1. call.op = "attend" => old.length > 0
      BY <1>0, <2>1 DEF CallInv
    <3> QED BY <2>2, <2>3, <2>6, <3>1 DEF CallInv
  <2> QED BY <2>4, <2>5, <2>6
<1>27. IsMemory(hostMem') /\ \A t \in Tensors : HostTablesSame(t)
  BY <1>9, <1>10 DEF HostTablesSame, TypeOK
<1>28. ASSUME NEW t \in Tensors \ {me} PROVE TensorInv(t)' /\ TensorGrows(t)
  <2>1. ~Mine(t) /\ ~Mine(t)'
    BY <1>1, <1>23 DEF Mine
  <2> QED BY <1>19, <1>20, <1>21, <1>27, <2>1, OtherTensor
<1>29. Leads(tensor[me].pages, tensor'[me].pages) /\ Len(tensor'[me].pages) \in Nat
       /\ Live(me)'
  BY <1>2, <1>3, <1>10, <1>21 DEF Leads, Live
<1>30. TensorInv(me)'
  <2>1. HostInv(me)'
    <3>1. HostInv(me) /\ hostMem' = hostMem
      BY <1>9 DEF IInv, TensorInv
    <3>2. \A x \in TablesOf(hostMem', me) :
             tensor'[me].state # "unborn" /\ Leads(hostMem'[x], tensor'[me].pages)
      BY <1>2, <1>10, <1>21, <3>1 DEF HostInv, TablesOf, Live
    <3>3. tensor'[me].host > 0 /\ <<me, tensor'[me].host>> \in DOMAIN hostMem'
          /\ tensor'[me].synced <= Len(hostMem'[<<me, tensor'[me].host>>])
          /\ tensor'[me].host # 0
      BY <1>10, <1>21, <3>1
    <3> QED BY <3>2, <3>3 DEF HostInv
  <2>2. DevInv(me)'
    <3>1. ASSUME NEW k \in 1..count PROVE EntryReady(me, <<me, table>>, k, Len(stream))'
      <4>1. PICK m \in Nat : m = Len(stream') /\ n + 1 \in 1..m
        BY <1>19, <1>18 DEF StreamGrows
      <4>2. CASE k \in first..count
        <5>1. FillsEntry(stream'[n + 1], <<me, table>>, k)
          BY <1>16, <1>19, <4>2 DEF FillsEntry
        <5>2. EntryReady(me, <<me, table>>, k, m)'
          BY <4>1, <5>1 DEF EntryReady, FillsEntry
        <5> QED BY <4>1, <5>2
      <4>3. CASE k \notin first..count
        <5>1. ~grows /\ k \in 1..old.synced /\ table = old.dev
          BY <1>11, <1>13, <4>3
        <5>2. EntryReady(me, <<me, old.dev>>, k, Len(stream))
          BY <1>2, <1>10, <5>1 DEF IInv, TensorInv, DevInv
        <5>3. PICK x : x = <<me, old.dev>>
          OBVIOUS
        <5>4. devMem'[x] = devMem[x] /\ tensor'[me].pages[k] = tensor[me].pages[k]
          BY <1>2, <1>9, <1>21, <5>1
        <5>5. EntryReady(me, x, k, n)
          BY <1>18, <5>2, <5>3
        <5>6. n \in Int /\ m \in Int /\ n <= m /\ n <= Len(stream)
          BY <1>18, <4>1
        <5>7. EntryReady(me, x, k, m)'
          BY <1>19, <5>4, <5>5, <5>6, EntryReadyKept
        <5> QED BY <4>1, <5>1, <5>3, <5>7
      <4> QED BY <4>2, <4>3
    <3>2. count \in 1..cap /\ table <= made /\ table # 0 /\ count <= Len(tensor'[me].pages)
      BY <1>3, <1>11, <1>13, <1>14, <1>15, <1>21
    <3> QED BY <1>13, <1>20, <1>21, <3>1, <3>2 DEF DevInv
  <2>3. RowsInv(me)'
    <3>1. RowsWritten(me)' = RowsWritten(me) /\ RowsWritten(me) \in Int
      BY <1>0, <1>1, <1>2, <1>10, <1>11, <1>21, <1>23, CallFields DEF RowsWritten, Mine
    <3>2. CeilDiv(tensor'[me].length, PageSize) <= Len(tensor'[me].pages)
      BY <1>3, <1>10, <1>21
    <3>3. /\ tensor'[me].length \in Nat /\ tensor[me].length <= tensor'[me].length
          /\ RowsWritten(me)' \in Int /\ RowsWritten(me)' <= RowsWritten(me)
      BY <1>2, <1>11, <1>21, <3>1
    <3> QED BY <1>2, <1>19, <1>21, <1>29, <3>2, <3>3, RowsKept
  <2> QED BY <2>1, <2>2, <2>3 DEF TensorInv
<1>31. TensorGrows(me)
  <2>1. \A k \in Nat : <<me, k>> \in DOMAIN hostMem =>
          <<me, k>> \in DOMAIN hostMem' /\ Len(hostMem[<<me, k>>]) <= Len(hostMem'[<<me, k>>])
    <3>1. \A k \in Nat : <<me, k>> \in DOMAIN hostMem => Len(hostMem[<<me, k>>]) \in Nat
      BY <1>10 DEF TypeOK, IsMemory
    <3> QED BY <1>9, <3>1
  <2>2. tensor'[me].dev = tensor[me].dev \/ tensor'[me].dev > tensor[me].devMade
    BY <1>2, <1>13, <1>21
  <2> QED BY <1>2, <1>10, <1>11, <1>14, <1>20, <1>21, <1>29, <2>1, <2>2 DEF TensorGrows
<1>32. \A i \in 1..n : stream'[i] = stream[i] /\
          (stream[i].op = "free" =>
             /\ stream[i].dev # <<me, table>> /\ stream[i].dev # <<me, old.dev>>)
  <2> SUFFICES ASSUME NEW i \in 1..n, stream[i].op = "free"
               PROVE  stream[i].dev # <<me, table>> /\ stream[i].dev # <<me, old.dev>>
    BY <1>18, <1>19 DEF StreamGrows
  <2>1. CommandInv(i)
    BY <1>18 DEF IInv, StreamInv
  <2>2. TableInv(i)
    BY <2>1 DEF CommandInv
  <2>3. \A k : stream[i].dev = <<me, k>> => stream[i].dev[1] = me /\ stream[i].dev[2] = k
    OBVIOUS
  <2> QED BY <1>2, <1>11, <1>13, <2>2, <2>3 DEF TableInv
<1>33. CommandInv(n + 1)'
  <2>1. Live(me)' /\ tensor'[me].synced > 0 /\ stream'[n + 1] = c
    BY <1>11, <1>19, <1>21, <1>29
  <2>2. TableInv(n + 1)'
    <3>1. c.dev \in DOMAIN devMem' /\ c.dev[1] = me /\ c.dev[2] = table
          /\ c.dev[2] <= tensor'[me].devMade
      BY <1>14, <1>16, <1>20, <1>21
    <3>2. \A j \in 1..((n + 1) - 1) : stream'[j].op = "free" => stream'[j].dev # c.dev
      BY <1>16, <1>32
    <3> QED BY <1>16, <2>1, <3>1, <3>2 DEF TableInv
  <2>3. CopyInv(c)'
    BY <1>9, <1>10, <1>13, <1>16 DEF CopyInv
  <2>4. CommandTensor(c) = me
    BY <1>16 DEF CommandTensor
  <2> QED BY <1>16, <2>1, <2>2, <2>3, <2>4 DEF CommandInv
<1>34. ASSUME grows, old.dev > 0, stream'[n + 2] = f PROVE CommandInv(n + 2)'
  <2>1. Live(me)' /\ tensor'[me].synced > 0
    BY <1>11, <1>21, <1>29
  <2>2. TableInv(n + 2)'
    <3>1. f.dev \in DOMAIN devMem' /\ f.dev[1] = me /\ f.dev[2] = old.dev
          /\ f.dev[2] <= tensor'[me].devMade /\ f.dev[2] # tensor'[me].dev
      BY <1>10, <1>11, <1>13, <1>14, <1>17, <1>20, <1>21, <1>34
    <3>2. ASSUME NEW j \in 1..((n + 2) - 1), stream'[j].op = "free" PROVE stream'[j].dev # f.dev
      <4>1. j # n + 1
        BY <1>16, <1>19, <3>2
      <4> QED BY <1>17, <1>32, <3>2, <4>1
    <3> QED BY <1>34, <3>1, <3>2 DEF TableInv
  <2>3. CommandTensor(f) = me
    BY <1>17 DEF CommandTensor
  <2> QED BY <1>17, <1>34, <2>1, <2>2, <2>3 DEF CommandInv
<1>35. StreamInv'
  <2>1. \A i \in 1..Len(stream') : i \notin 1..Len(stream) => CommandInv(i)'
    BY <1>18, <1>19, <1>33, <1>34
  <2> QED BY <1>19, <1>24, <1>28, <1>31, <2>1, StreamKept
<1> QED BY <1>24, <1>25, <1>26, <1>28, <1>30, <1>35 DEF IInv

\* A tensor whose pages and tables the step leaves alone.
LEMMA TablesKept ==
    ASSUME IInv, StreamGrows, UNCHANGED tableVars, NEW t \in Tensors,
           tensor'[t].state = tensor[t].state, tensor'[t].pages = tensor[t].pages,
           tensor'[t].host = tensor[t].host, tensor'[t].hostCap = tensor[t].hostCap,
           tensor'[t].synced = tensor[t].synced,
           tensor'[t].dev = tensor[t].dev, tensor'[t].devCap = tensor[t].devCap,
           tensor'[t].devMade = tensor[t].devMade,
           tensor'[t].born = tensor[t].born,
           tensor[t].length <= tensor'[t].length
    PROVE  HostInv(t)' /\ DevInv(t)' /\ TensorGrows(t) /\ Leads(tensor[t].pages, tensor'[t].pages)
<1>1. /\ hostMem' = hostMem /\ devMem' = devMem /\ IsMemory(hostMem)
      /\ tensor[t].devMade \in Nat /\ tensor[t].synced \in Nat /\ Len(tensor[t].pages) \in Nat
  BY Fields DEF IInv, TypeOK, tableVars
<1>2. Leads(tensor[t].pages, tensor'[t].pages)
  BY <1>1 DEF Leads
<1>3. HostInv(t)'
  BY <1>1, TablesSame, HostKept
<1>4. DevInv(t)'
  <2>1. /\ tensor'[t].devMade \in Nat /\ tensor[t].devMade <= tensor'[t].devMade
        /\ Len(tensor'[t].pages) \in Nat
    BY <1>1
  <2>2. <<t, tensor[t].dev>> \in DOMAIN devMem => <<t, tensor[t].dev>> \in DOMAIN devMem'
    BY <1>1
  <2>3. devMem'[<<t, tensor[t].dev>>] = devMem[<<t, tensor[t].dev>>] \/ tensor[t].dev = 0
    BY <1>1
  <2> QED BY <1>2, <2>1, <2>2, <2>3, DevKept
<1>5. \A n \in Nat : <<t, n>> \in DOMAIN hostMem => Len(hostMem[<<t, n>>]) \in Nat
  BY <1>1 DEF IsMemory
<1>6. TensorGrows(t)
  BY <1>1, <1>2, <1>5 DEF TensorGrows
<1> QED BY <1>2, <1>3, <1>4, <1>6

LEMMA AppendDoneStep == ASSUME IInv, AppendDone PROVE IInv'
<1>0. call # NoCall /\ call.op = "append" /\ call.phase = "finish" /\ call' = NoCall
  BY DEF AppendDone
<1>1. PICK me \in Tensors : me = call.t
  BY <1>0, CallFields DEF IInv
<1>2. PICK old \in TensorRecords : old = tensor[me]
  BY Fields DEF IInv
<1>3. PICK chunk \in Nat : chunk = call.chunk
  BY <1>0, CallFields DEF IInv
<1>4. /\ tensor' = [tensor EXCEPT ![me].length = @ + chunk]
      /\ UNCHANGED poolVars /\ UNCHANGED tableVars /\ UNCHANGED stream
      /\ desc' = desc /\ poolLive' = poolLive /\ created' = created /\ freePages' = freePages
      /\ hostMem' = hostMem /\ devMem' = devMem
      /\ stream' = stream /\ pageData' = pageData /\ PageSize' = PageSize /\ Pages' = Pages
  BY <1>1, <1>3 DEF AppendDone, poolVars, tableVars, PageSize, Pages
<1>5. TypeOK /\ CallInv /\ Live(me) /\ PageSize \in Nat \ {0}
  BY <1>0, <1>1, PageSizeIs DEF IInv, OwnersInv, CallerInv
<1>6. old.length \in Nat /\ Len(old.pages) \in Nat /\ old.born \in Nat
  BY <1>2, Fields DEF IInv
<1>7. /\ \A t \in Tensors \ {me} : tensor'[t] = tensor[t]
      /\ tensor'[me].state = old.state /\ tensor'[me].born = old.born
      /\ tensor'[me].length = old.length + chunk /\ tensor'[me].pages = old.pages
      /\ tensor'[me].synced = old.synced /\ tensor'[me].host = old.host
      /\ tensor'[me].hostCap = old.hostCap
      /\ tensor'[me].dev = old.dev /\ tensor'[me].devCap = old.devCap
      /\ tensor'[me].devMade = old.devMade
      /\ tensor' \in [Tensors -> TensorRecords]
  <2>1. tensor \in [Tensors -> TensorRecords]
    BY <1>5 DEF TypeOK
  <2>2. tensor'[me] = [old EXCEPT !.length = @ + chunk] /\ old.length + chunk \in Nat
    BY <1>2, <1>4, <1>6, <2>1
  <2>3. \A t \in Tensors \ {me} : tensor'[t] = tensor[t]
    BY <1>4, <2>1
  <2>4. tensor'[me] \in TensorRecords
    BY <2>2 DEF TensorRecords
  <2>5. tensor' \in [Tensors -> TensorRecords]
    BY <1>4, <2>1, <2>4
  <2> QED BY <2>2, <2>3, <2>5 DEF TensorRecords
<1>8. TypeOK'
  BY <1>0, <1>4, <1>5, <1>7 DEF TypeOK, IsMemory
<1>9. OwnersInv'
  BY <1>0, <1>2, <1>4, <1>7, OwnersKept
<1>10. CallInv'
  BY <1>0 DEF CallInv
<1>11. StreamGrows /\ IsMemory(hostMem')
  BY <1>4, <1>8, StreamSame DEF TypeOK
<1>12. ASSUME NEW t \in Tensors \ {me} PROVE TensorInv(t)' /\ TensorGrows(t)
  <2>1. ~Mine(t) /\ ~Mine(t)'
    BY <1>0, <1>1 DEF Mine
  <2> QED BY <1>4, <1>7, <1>11, <2>1, TablesSame, OtherTensor
<1>13. tensor[me].length <= tensor'[me].length
  BY <1>2, <1>6, <1>7
<1>14. /\ HostInv(me)' /\ DevInv(me)' /\ TensorGrows(me)
       /\ Leads(tensor[me].pages, tensor'[me].pages)
  BY <1>2, <1>4, <1>7, <1>11, <1>13, TablesKept
<1>15. RowsInv(me)'
  <2>1. /\ call.done = chunk
        /\ CeilDiv(old.length + chunk, PageSize) <= Len(old.pages)
    BY <1>0, <1>1, <1>2, <1>3, <1>5 DEF CallInv
  <2>2. RowsWritten(me) = old.length + chunk /\ RowsWritten(me)' = old.length + chunk
    BY <1>0, <1>1, <1>2, <1>6, <1>7, <2>1 DEF RowsWritten, Mine
  <2>3. /\ tensor'[me].length \in Nat /\ RowsWritten(me)' \in Int
        /\ RowsWritten(me)' <= RowsWritten(me)
    BY <1>6, <1>7, <2>2
  <2>4. CeilDiv(tensor'[me].length, PageSize) <= Len(tensor'[me].pages)
    BY <1>7, <2>1
  <2>5. CeilDiv(tensor'[me].length, PageSize') <= Len(tensor'[me].pages)
    BY <1>4, <2>4
  <2> QED BY <1>2, <1>7, <1>11, <1>13, <1>14, <2>3, <2>4, RowsKept
<1>16. StreamInv'
  <2>1. \A i \in 1..Len(stream') : i \in 1..Len(stream)
    BY <1>4
  <2> QED BY <1>8, <1>11, <1>12, <1>14, <2>1, StreamKept
<1> QED BY <1>8, <1>9, <1>10, <1>12, <1>14, <1>15, <1>16 DEF IInv, TensorInv

LEMMA LaunchStep == ASSUME IInv, Launch PROVE IInv'
<1>0. call # NoCall /\ call.op = "attend" /\ call.phase = "finish" /\ call' = NoCall
  BY DEF Launch
<1>1. PICK me \in Tensors : me = call.t
  BY <1>0, CallFields DEF IInv
<1>2. PICK old \in TensorRecords : old = tensor[me]
  BY Fields DEF IInv
<1>3. PICK c : c = [op |-> "attend", t |-> me, length |-> old.length, dev |-> <<me, old.dev>>]
  OBVIOUS
<1>4. /\ stream' = stream \o <<c>>
      /\ UNCHANGED poolVars /\ UNCHANGED tableVars
      /\ desc' = desc /\ poolLive' = poolLive /\ created' = created /\ freePages' = freePages
      /\ hostMem' = hostMem /\ devMem' = devMem /\ tensor' = tensor
      /\ pageData' = pageData /\ PageSize' = PageSize /\ Pages' = Pages
  BY <1>1, <1>2, <1>3 DEF Launch, Issue, poolVars, tableVars, PageSize, Pages
<1>5. TypeOK /\ CallInv /\ Live(me) /\ PageSize \in Nat \ {0}
  BY <1>0, <1>1, PageSizeIs DEF IInv, OwnersInv, CallerInv
<1>6. /\ old.length \in Nat /\ Len(old.pages) \in Nat /\ old.born \in Nat /\ old.dev \in Nat
      /\ old.synced \in Nat /\ old.devMade \in Nat /\ old.devCap \in Nat
  BY <1>2, Fields DEF IInv
<1>7. c \in Commands /\ c.op = "attend" /\ c.t = me /\ c.length = old.length
      /\ c.dev = <<me, old.dev>>
  <2>1. <<me, old.dev>> \in Tables
    BY <1>6 DEF Tables
  <2> QED BY <1>3, <1>6, <2>1 DEF AttendCommands, Commands
<1>8. PICK n \in Nat : n = Len(stream)
  BY <1>5 DEF TypeOK
<1>9. /\ StreamGrows /\ stream' \in Seq(Commands)
      /\ Len(stream') = n + 1 /\ stream'[n + 1] = c
  BY <1>4, <1>7, <1>8, IssueOne
<1>10. TypeOK'
  BY <1>0, <1>4, <1>5, <1>9 DEF TypeOK, IsMemory
<1>11. OwnersInv'
  BY <1>0, <1>4, OwnersKept
<1>12. CallInv' /\ IsMemory(hostMem')
  BY <1>0, <1>10 DEF CallInv, TypeOK
<1>13. ASSUME NEW t \in Tensors \ {me} PROVE TensorInv(t)' /\ TensorGrows(t)
  <2>1. ~Mine(t) /\ ~Mine(t)'
    BY <1>0, <1>1 DEF Mine
  <2> QED BY <1>4, <1>9, <1>12, <2>1, TablesSame, OtherTensor
<1>14. /\ HostInv(me)' /\ DevInv(me)' /\ TensorGrows(me)
       /\ Leads(tensor[me].pages, tensor'[me].pages)
  BY <1>2, <1>4, <1>6, <1>9, TablesKept
<1>15. CeilDiv(old.length, PageSize) <= Len(old.pages)
  BY <1>0, <1>2, <1>5 DEF IInv, TensorInv, RowsInv
<1>16. RowsWritten(me) = old.length /\ RowsWritten(me)' = old.length
  BY <1>0, <1>2, <1>4, <1>6 DEF RowsWritten, Mine
<1>17. RowsInv(me)'
  <2>1. /\ tensor'[me].state = tensor[me].state /\ tensor'[me].born = tensor[me].born
        /\ tensor'[me].length \in Nat /\ tensor[me].length <= tensor'[me].length
        /\ RowsWritten(me)' \in Int /\ RowsWritten(me)' <= RowsWritten(me)
    BY <1>2, <1>4, <1>6, <1>16
  <2>2. CeilDiv(tensor'[me].length, PageSize) <= Len(tensor'[me].pages)
    BY <1>2, <1>4, <1>15
  <2> QED BY <1>9, <1>14, <2>1, <2>2, RowsKept
<1>18. old.synced > 0 /\ old.synced = Len(old.pages)
  <2>1. old.length > 0 /\ old.synced = Len(old.pages)
    BY <1>0, <1>1, <1>2, <1>5 DEF CallInv
  <2>2. 0 \in 0..(old.length - 1)
    BY <1>6, <2>1
  <2>3. 0 \div PageSize < CeilDiv(old.length, PageSize)
    BY <1>5, <1>6, <2>2, PagesHold
  <2>4. CeilDiv(old.length, PageSize) \in Nat /\ 0 \div PageSize \in Nat
    BY <1>5, <1>6, PageCount, PageNumber
  <2> QED BY <1>6, <1>15, <2>1, <2>3, <2>4
<1>19. /\ <<me, old.dev>> \in DOMAIN devMem
       /\ Len(devMem[<<me, old.dev>>]) = old.devCap /\ old.synced <= old.devCap
       /\ old.dev <= old.devMade
  <2>1. DevInv(me) /\ Live(me)
    BY <1>5 DEF IInv, TensorInv
  <2>2. old.dev > 0
    BY <1>2, <1>6, <1>18, <2>1 DEF DevInv
  <2> QED BY <1>2, <1>6, <1>18, <2>1, <2>2 DEF DevInv
<1>20. CommandInv(n + 1)'
  <2>1. Live(me)' /\ tensor'[me].synced > 0 /\ stream'[n + 1] = c
    BY <1>2, <1>4, <1>5, <1>9, <1>18 DEF Live
  <2>2. TableInv(n + 1)'
    <3>1. /\ c.dev \in DOMAIN devMem' /\ c.dev[1] = me /\ c.dev[2] = old.dev
          /\ c.dev[2] <= tensor'[me].devMade
      BY <1>2, <1>4, <1>7, <1>19
    <3>2. ASSUME NEW j \in 1..((n + 1) - 1), stream'[j].op = "free" PROVE stream'[j].dev # c.dev
      <4>1. j \in 1..Len(stream) /\ stream'[j] = stream[j]
        BY <1>8, <1>9 DEF StreamGrows
      <4>2. CommandInv(j) /\ stream[j].op = "free"
        BY <3>2, <4>1 DEF IInv, StreamInv
      <4>3. TableInv(j)
        BY <4>2 DEF CommandInv
      <4>4. stream[j].dev = <<me, old.dev>> => stream[j].dev[1] = me /\ stream[j].dev[2] = old.dev
        OBVIOUS
      <4> QED BY <1>2, <1>7, <4>1, <4>2, <4>3, <4>4 DEF TableInv
    <3> QED BY <1>7, <2>1, <3>1, <3>2 DEF TableInv
  <2>3. AttendInv(n + 1)'
    <3>1. ASSUME NEW k \in old.born..(old.length - 1)
          PROVE  /\ RowReady(me, k, n)'
                 /\ k \div PageSize < Len(devMem[<<me, old.dev>>])
                 /\ EntryReady(me, <<me, old.dev>>, k \div PageSize + 1, n)'
      <4>1. k \in 0..(old.length - 1)
        BY <1>6
      <4>2. /\ k \div PageSize \in Nat /\ k \div PageSize < Len(old.pages)
            /\ k \div PageSize + 1 \in 1..Len(old.pages)
        BY <1>2, <1>5, <1>18, <4>1, RowsHavePages
      <4>3. RowReady(me, k, n)
        BY <1>2, <1>5, <1>8, <1>16 DEF IInv, TensorInv, RowsInv
      <4>4. EntryReady(me, <<me, old.dev>>, k \div PageSize + 1, n)
        BY <1>2, <1>5, <1>8, <1>18, <4>2 DEF IInv, TensorInv, DevInv
      <4>5. n \in Int /\ n <= n /\ n <= Len(stream)
        BY <1>8
      <4>6. RowReady(me, k, n)'
        BY <1>4, <1>9, <4>3, <4>5, RowReadyKept
      <4>7. EntryReady(me, <<me, old.dev>>, k \div PageSize + 1, n)'
        <5>1. PICK e : e = k \div PageSize + 1
          OBVIOUS
        <5>2. PICK x : x = <<me, old.dev>>
          OBVIOUS
        <5>3. EntryReady(me, x, e, n)'
          BY <1>4, <1>9, <4>4, <4>5, <5>1, <5>2, EntryReadyKept
        <5> QED BY <1>4, <5>1, <5>2, <5>3
      <4>8. k \div PageSize < Len(devMem[<<me, old.dev>>])
        BY <1>6, <1>18, <1>19, <4>2
      <4> QED BY <4>6, <4>7, <4>8
    <3>2. c.dev[1] = c.t /\ c.length <= tensor'[c.t].length /\ tensor'[c.t].born = old.born
      BY <1>2, <1>4, <1>6, <1>7
    <3>3. (n + 1) - 1 = n
      OBVIOUS
    <3> QED BY <1>4, <1>7, <2>1, <3>1, <3>2, <3>3 DEF AttendInv
  <2>4. CommandTensor(c) = me
    BY <1>7 DEF CommandTensor
  <2> QED BY <1>7, <2>1, <2>2, <2>3, <2>4 DEF CommandInv
<1>21. StreamInv'
  <2>1. \A i \in 1..Len(stream') : i \notin 1..Len(stream) => i = n + 1
    BY <1>8, <1>9
  <2> QED BY <1>9, <1>10, <1>13, <1>14, <1>20, <2>1, StreamKept
<1> QED BY <1>10, <1>11, <1>12, <1>13, <1>14, <1>17, <1>21 DEF IInv, TensorInv

\* The rows from d on that still fit in a page, one at least.
LEMMA RowsThatFit ==
    ASSUME NEW left \in Nat, left > 0, NEW room \in Nat, room > 0, NEW one \in BOOLEAN
    PROVE  LET fits == IF left < room THEN left ELSE room
               rows == IF one THEN 1 ELSE fits
           IN  rows \in Nat /\ rows >= 1 /\ rows <= left /\ rows <= room
OBVIOUS

LEMMA CopyStep == ASSUME IInv, CopyRows PROVE IInv'
<1>0. /\ call # NoCall /\ call.phase = "copy" /\ TypeOK /\ CallInv /\ call.t \in Tensors
      /\ Live(call.t)
  BY CallFields DEF CopyRows, IInv, OwnersInv, CallerInv
<1>1. PICK me \in Tensors : me = call.t
  BY <1>0
<1>2. PICK old \in TensorRecords : old = tensor[me]
  BY Fields DEF IInv
<1>3. /\ call.op = "append" /\ call \in AppendCalls
      /\ call.pages \in Nat /\ call.chunk \in Nat /\ call.done \in Nat
      /\ call.done < call.chunk
  <2>1. call.op = "append"
    BY <1>0, CallFields DEF CallInv
  <2> QED BY <1>0, <2>1, CallFields DEF CallInv
<1>4. /\ old.length \in Nat /\ old.born \in Nat /\ Len(old.pages) \in Nat /\ old.pages \in Seq(Nat)
      /\ old.synced \in Nat /\ PageSize \in Nat \ {0}
  BY <1>0, <1>2, Fields, PageSizeIs
<1>5. PICK at \in Nat : at = old.length + call.done
  BY <1>3, <1>4
<1>6. PICK slot \in 0..(PageSize - 1) : slot = at % PageSize
  BY <1>4, SlotNumber
<1>7. PICK q \in Nat : q = at \div PageSize
  BY <1>4, PageNumber
<1>8. PICK rows \in Nat :
         /\ rows >= 1 /\ rows <= call.chunk - call.done /\ rows <= PageSize - slot
         /\ rows = IF call.source = "host" THEN 1
                   ELSE IF call.chunk - call.done < PageSize - slot THEN call.chunk - call.done
                                                                   ELSE PageSize - slot
  <2>1. call.chunk - call.done \in Nat /\ call.chunk - call.done > 0
        /\ PageSize - slot \in Nat /\ PageSize - slot > 0
    BY <1>3, <1>4, <1>6
  <2> QED BY <2>1, RowsThatFit
<1>9. PICK c : c = [op |-> "write", t |-> me, page |-> old.pages[q + 1],
                    slot |-> slot, at |-> at, rows |-> rows]
  OBVIOUS
<1>10. /\ stream' = stream \o <<c>>
       /\ call' = [call EXCEPT !.done = @ + rows,
                               !.phase = IF call.done + rows = call.chunk THEN "finish" ELSE @]
       /\ UNCHANGED poolVars /\ UNCHANGED tableVars
       /\ desc' = desc /\ poolLive' = poolLive /\ created' = created /\ freePages' = freePages
       /\ hostMem' = hostMem /\ devMem' = devMem /\ tensor' = tensor
       /\ pageData' = pageData /\ PageSize' = PageSize /\ Pages' = Pages
  BY <1>1, <1>2, <1>5, <1>6, <1>7, <1>8, <1>9
     DEF CopyRows, Issue, poolVars, tableVars, PageSize, Pages
<1>11. /\ old.synced = Len(old.pages)
       /\ CeilDiv(old.length + call.chunk, PageSize) <= Len(old.pages)
       /\ call.pages = CeilDiv(old.length + call.chunk, PageSize)
  BY <1>0, <1>1, <1>2, <1>3 DEF CallInv
<1>12. q < Len(old.pages) /\ q + 1 \in 1..Len(old.pages) /\ old.synced > 0
  <2>1. old.length + call.chunk \in Nat /\ at \in 0..((old.length + call.chunk) - 1)
    BY <1>3, <1>4, <1>5
  <2>2. q < CeilDiv(old.length + call.chunk, PageSize)
    <3>1. PICK m \in Nat : m = old.length + call.chunk
      BY <2>1
    <3>2. at \in 0..(m - 1)
      BY <2>1, <3>1, Zenon
    <3>3. PageSize \in Nat \ {0}
      BY <1>4
    <3>4. at \div PageSize < CeilDiv(m, PageSize)
      BY <3>2, <3>3, PagesHold
    <3> QED BY <1>7, <3>1, <3>4
  <2>3. CeilDiv(old.length + call.chunk, PageSize) \in Nat
    BY <1>4, <2>1, PageCount
  <2> QED BY <1>4, <1>11, <2>2, <2>3
<1>13. /\ c \in Commands /\ c.op = "write" /\ c.t = me /\ c.page = old.pages[q + 1]
       /\ c.slot = slot /\ c.at = at /\ c.rows = rows
  <2>1. old.pages[q + 1] \in Nat /\ slot \in Nat
    BY <1>4, <1>6, <1>12
  <2> QED BY <1>9, <2>1 DEF WriteCommands, Commands
<1>14. PICK n \in Nat : n = Len(stream)
  BY <1>0 DEF TypeOK
<1>15. /\ StreamGrows /\ stream' \in Seq(Commands)
       /\ Len(stream') = n + 1 /\ stream'[n + 1] = c
  BY <1>10, <1>13, <1>14, IssueOne
<1>16. /\ call' \in AppendCalls /\ call' # NoCall /\ call'.t = me /\ call'.op = "append"
       /\ call'.pages = call.pages /\ call'.chunk = call.chunk
       /\ call'.done = call.done + rows
       /\ call'.phase = IF call.done + rows = call.chunk THEN "finish" ELSE "copy"
  <2>1. call.done + rows \in Nat
    BY <1>3
  <2>2. call' = [call EXCEPT !.done = call.done + rows,
                             !.phase = IF call.done + rows = call.chunk THEN "finish" ELSE "copy"]
    BY <1>0, <1>3, <1>10 DEF AppendCalls
  <2> QED BY <1>1, <1>3, <2>1, <2>2 DEF AppendCalls, Phases, NoCall
<1>17. TypeOK'
  <2>1. call' \in Calls \cup {NoCall}
    BY <1>16 DEF Calls
  <2> QED BY <1>0, <1>10, <1>15, <2>1 DEF TypeOK, IsMemory
<1>18. OwnersInv'
  BY <1>0, <1>1, <1>10, <1>16, OwnersKept
<1>19. CallInv'
  <2>1. call.chunk > 0 /\ call.pages <= Len(old.pages)
    BY <1>3, <1>11
  <2>2. tensor'[me].synced = Len(tensor'[me].pages) /\ tensor'[me].length = old.length
        /\ Len(tensor'[me].pages) = Len(old.pages)
    BY <1>2, <1>10, <1>11
  <2>3. call'.phase \in {"copy", "finish"} /\ call'.phase \notin Early
    BY <1>16 DEF Early
  <2>4. /\ call'.phase = "copy" => call'.done < call'.chunk
        /\ call'.phase = "finish" => call'.done = call'.chunk
    BY <1>3, <1>8, <1>16
  <2> QED BY <1>10, <1>11, <1>16, <2>1, <2>2, <2>3, <2>4 DEF CallInv
<1>20. IsMemory(hostMem') /\ tensor[me].length <= tensor'[me].length
  BY <1>2, <1>4, <1>10, <1>17 DEF TypeOK
<1>21. ASSUME NEW t \in Tensors \ {me} PROVE TensorInv(t)' /\ TensorGrows(t)
  <2>1. ~Mine(t) /\ ~Mine(t)'
    BY <1>1, <1>16 DEF Mine
  <2> QED BY <1>10, <1>15, <1>20, <2>1, TablesSame, OtherTensor
<1>22. /\ HostInv(me)' /\ DevInv(me)' /\ TensorGrows(me)
       /\ Leads(tensor[me].pages, tensor'[me].pages)
  BY <1>2, <1>10, <1>15, <1>20, TablesKept
<1>23. RowsInv(me)'
  <2>1. RowsInv(me) /\ Live(me)
    BY <1>0, <1>1 DEF IInv, TensorInv
  <2>2. RowsWritten(me) = at /\ RowsWritten(me)' = at + rows
    <3>1. RowsWritten(me) = old.length + call.done
      BY <1>0, <1>1, <1>2, <1>3 DEF RowsWritten, Mine
    <3>2. RowsWritten(me)' = old.length + (call.done + rows)
      BY <1>2, <1>10, <1>16 DEF RowsWritten, Mine
    <3> QED BY <1>3, <1>4, <1>5, <3>1, <3>2
  <2>3. ASSUME NEW k \in old.born..(at + rows - 1) PROVE RowReady(me, k, n + 1)'
    <3>1. CASE k <= at - 1
      <4>1. k \in old.born..(at - 1)
        BY <1>4, <3>1
      <4>2. RowReady(me, k, n)
        BY <1>2, <1>14, <2>1, <2>2, <4>1 DEF RowsInv
      <4>3. n \in Int /\ n + 1 \in Int /\ n <= n + 1 /\ n <= Len(stream)
        BY <1>14
      <4> QED BY <1>10, <1>15, <4>2, <4>3, RowReadyKept
    <3>2. CASE ~(k <= at - 1)
      <4>1. k \in c.at..(c.at + c.rows - 1)
        BY <1>4, <1>13, <3>2
      <4>2. WritesRow(stream'[n + 1], me, k) /\ n + 1 \in 1..(n + 1)
        BY <1>13, <1>15, <4>1 DEF WritesRow
      <4> QED BY <4>2 DEF RowReady, WritesRow
    <3> QED BY <3>1, <3>2
  <2>4. CeilDiv(tensor'[me].length, PageSize) <= Len(tensor'[me].pages)
    BY <1>3, <1>10, <2>1 DEF RowsInv, Mine
  <2>5. tensor'[me].born <= tensor'[me].length /\ tensor'[me].born = old.born
    BY <1>2, <1>10, <2>1 DEF RowsInv
  <2>6. \A k \in tensor'[me].born..(RowsWritten(me)' - 1) : RowReady(me, k, Len(stream))'
    BY <1>15, <2>2, <2>3, <2>5
  <2> QED BY <1>10, <2>4, <2>5, <2>6 DEF RowsInv
<1>24. CommandInv(n + 1)'
  <2>1. Live(me)' /\ tensor'[me].synced > 0 /\ stream'[n + 1] = c
    BY <1>0, <1>1, <1>2, <1>10, <1>12, <1>15 DEF Live
  <2>2. WriteInv(c)'
    <3>1. rows \in 1..(PageSize - slot)
      BY <1>4, <1>6, <1>8
    <3> QED BY <1>2, <1>6, <1>7, <1>10, <1>12, <1>13, <3>1 DEF WriteInv
  <2>3. CommandTensor(c) = me
    BY <1>13 DEF CommandTensor
  <2> QED BY <1>13, <2>1, <2>2, <2>3 DEF CommandInv
<1>25. StreamInv'
  <2>1. \A i \in 1..Len(stream') : i \notin 1..Len(stream) => i = n + 1
    BY <1>14, <1>15
  <2> QED BY <1>15, <1>17, <1>21, <1>22, <1>24, <2>1, StreamKept
<1> QED BY <1>17, <1>18, <1>19, <1>21, <1>22, <1>23, <1>25 DEF IInv, TensorInv

-----------------------------------------------------------------------------
(* A step of the device *)

\* The stream moves one command up.
LEMMA StreamShifts ==
    ASSUME IInv, DeviceStep
    PROVE  /\ Len(stream) \in Nat /\ Len(stream) >= 1 /\ 1 \in 1..Len(stream)
           /\ Head(stream) = stream[1]
           /\ stream' \in Seq(Commands)
           /\ Len(stream') = Len(stream) - 1
           /\ \A i \in 1..(Len(stream) - 1) : stream'[i] = stream[i + 1]
<1>1. stream \in Seq(Commands) /\ stream # <<>> /\ stream' = Tail(stream)
  BY DEF IInv, TypeOK, DeviceStep
<1>2. PICK s \in Seq(Commands) : s = stream
  BY <1>1
<1>3. s # <<>>
  BY <1>1, <1>2
<1>4. Len(s) \in Nat /\ Len(s) >= 1
  BY <1>3
<1>5. /\ Head(s) = s[1] /\ Tail(s) \in Seq(Commands) /\ Len(Tail(s)) = Len(s) - 1
      /\ \A i \in 1..(Len(s) - 1) : Tail(s)[i] = s[i + 1]
  BY <1>3
<1> QED BY <1>1, <1>2, <1>4, <1>5

\* Where a position lies in a run of rows that stays on one page.
LEMMA RowsOnPage ==
    ASSUME NEW k \in Nat, NEW at \in Nat, NEW n \in Nat \ {0},
           NEW rows \in 1..(n - (at % n)), k \in at..(at + rows - 1)
    PROVE  /\ k \div n = at \div n
           /\ k % n \in (at % n)..((at % n) + rows - 1)
           /\ at + (k % n) - (at % n) = k
<1>1. PICK d \in Nat : k = at + d /\ d < rows
  <2>1. k - at \in Nat /\ k = at + (k - at) /\ k - at < rows
    BY SlotNumber
  <2> QED BY <2>1
<1>2. at % n \in 0..(n - 1)
  BY SlotNumber
<1>3. (at % n) + d < n
  BY <1>1, <1>2
<1>4. k \div n = at \div n /\ k % n = (at % n) + d
  BY <1>1, <1>3, SamePage
<1>5. PICK r \in Nat : r = at % n
  BY <1>2
<1> QED BY <1>1, <1>4, <1>5

\* The rows the command writes.
LEMMA WriteLands ==
    ASSUME IInv, DeviceStep, stream[1].op = "write"
    PROVE  LET c == stream[1]
           IN  /\ c \in WriteCommands /\ Live(c.t) /\ c.t \in Tensors /\ WriteInv(c)
               /\ c.at \div PageSize + 1 \in 1..Len(tensor[c.t].pages)
               /\ c.page \in Pages
               /\ pageData' = [pageData EXCEPT ![c.page] = Written(c)]
<1>1. 1 \in 1..Len(stream) /\ Head(stream) = stream[1]
  BY StreamShifts
<1>2. PICK c \in WriteCommands : c = stream[1]
  BY <1>1, CommandFields DEF IInv
<1>3. CommandInv(1)
  BY <1>1 DEF IInv, StreamInv
<1>4. c.t \in Tensors /\ c.at \in Nat /\ c.op = "write"
  BY <1>2 DEF WriteCommands
<1>5. Live(c.t) /\ WriteInv(c)
  BY <1>2, <1>3, <1>4 DEF CommandInv, CommandTensor
<1>6. PICK q \in Nat : q = c.at \div PageSize
  BY <1>4, PageSizeIs, PageNumber DEF IInv
<1>7. Len(tensor[c.t].pages) \in Nat
  BY <1>4, Fields DEF IInv
<1>8. q + 1 \in 1..Len(tensor[c.t].pages) /\ c.page = tensor[c.t].pages[q + 1]
  BY <1>5, <1>6, <1>7 DEF WriteInv
<1>9. c.page \in 1..created
  BY <1>4, <1>5, <1>8 DEF IInv, OwnersInv, OwnerInv
<1>10. created <= desc.maxPages /\ created \in Nat /\ desc.maxPages \in Nat
  BY PageSizeIs DEF IInv, TypeOK, OwnersInv, PoolInv
<1>11. c.page \in Pages
  BY <1>9, <1>10 DEF Pages
<1>12. pageData' = [pageData EXCEPT ![c.page] = Written(c)]
  BY <1>1, <1>2, <1>4 DEF DeviceStep
<1> QED BY <1>2, <1>4, <1>5, <1>6, <1>8, <1>11, <1>12

LEMMA PageDataTyped == ASSUME IInv, DeviceStep PROVE pageData' \in [Pages -> [0..(PageSize - 1) -> Nat \X Nat]]
<1>1. /\ pageData \in [Pages -> [0..(PageSize - 1) -> Nat \X Nat]]
      /\ PageSize \in Nat \ {0} /\ Head(stream) = stream[1]
  BY PageSizeIs, StreamShifts DEF IInv, TypeOK
<1>2. CASE stream[1].op = "write"
  <2>1. PICK c \in WriteCommands : c = stream[1]
    BY <1>2, WriteLands
  <2>2. c.page \in Pages /\ pageData' = [pageData EXCEPT ![c.page] = Written(c)] /\ WriteInv(c)
    BY <1>2, <2>1, WriteLands
  <2>3. c.t \in Nat /\ c.at \in Nat /\ c.slot \in Nat /\ c.rows \in Nat
    BY <2>1 DEF WriteCommands, Tensors
  <2>4. ASSUME NEW s \in 0..(PageSize - 1)
        PROVE  (IF s \in c.slot..(c.slot + c.rows - 1) THEN <<c.t, c.at + s - c.slot>>
                                                       ELSE pageData[c.page][s]) \in Nat \X Nat
    <3>1. pageData[c.page][s] \in Nat \X Nat
      BY <1>1, <2>2
    <3>2. s \in c.slot..(c.slot + c.rows - 1) => c.at + s - c.slot \in Nat
      BY <1>1, <2>3
    <3> QED BY <2>3, <3>1, <3>2
  <2>5. Written(c) \in [0..(PageSize - 1) -> Nat \X Nat]
    BY <2>4 DEF Written
  <2> QED BY <1>1, <2>2, <2>5
<1>3. CASE stream[1].op # "write"
  BY <1>1, <1>3 DEF DeviceStep
<1> QED BY <1>2, <1>3

\* A row that is ready stays so when the first command has run.
LEMMA RowReadyStep ==
    ASSUME IInv, DeviceStep, NEW t \in Tensors, Live(t), NEW k \in Nat, NEW n \in Nat,
           n < Len(stream), k \div PageSize + 1 \in 1..Len(tensor[t].pages),
           RowReady(t, k, n + 1)
    PROVE  RowReady(t, k, n)'
<1>1. /\ TypeOK /\ PageSize \in Nat \ {0} /\ PageSize' = PageSize /\ tensor' = tensor
  BY PageSizeIs DEF IInv, DeviceStep, poolVars, PageSize
<1>2. PICK q : q = tensor[t].pages[k \div PageSize + 1]
  OBVIOUS
<1>3. PICK r \in 0..(PageSize - 1) : r = k % PageSize
  BY <1>1, SlotNumber
<1>4. /\ Len(stream) \in Nat /\ Head(stream) = stream[1]
      /\ \A i \in 1..(Len(stream) - 1) : stream'[i] = stream[i + 1]
  BY StreamShifts
<1>5. q \in Pages
  <2>1. q \in 1..created
    BY <1>2 DEF IInv, OwnersInv, OwnerInv
  <2>2. created <= desc.maxPages /\ created \in Nat /\ desc.maxPages \in Nat
    BY PageSizeIs DEF IInv, TypeOK, OwnersInv, PoolInv
  <2> QED BY <2>1, <2>2 DEF Pages
<1>6. CASE \E i \in 2..(n + 1) : WritesRow(stream[i], t, k)
  <2>1. PICK i \in 2..(n + 1) : WritesRow(stream[i], t, k)
    BY <1>6
  <2>2. i - 1 \in 1..n /\ i - 1 \in 1..(Len(stream) - 1) /\ (i - 1) + 1 = i
    BY <1>4
  <2>3. stream'[i - 1] = stream[i]
    BY <1>4, <2>2
  <2> QED BY <2>1, <2>2, <2>3 DEF RowReady, WritesRow
<1>7. CASE ~\E i \in 2..(n + 1) : WritesRow(stream[i], t, k)
  <2>1. pageData[q][r] = <<t, k>> \/ WritesRow(stream[1], t, k)
    <3>1. \A i \in 1..(n + 1) : i = 1 \/ i \in 2..(n + 1)
      OBVIOUS
    <3> QED BY <1>2, <1>3, <1>7, <3>1 DEF RowReady
  <2>2. SUFFICES pageData'[q][r] = <<t, k>>
    BY <1>1, <1>2, <1>3 DEF RowReady
  <2>3. CASE stream[1].op # "write"
    BY <1>4, <2>1, <2>3 DEF DeviceStep, WritesRow
  <2>4. CASE stream[1].op = "write"
    <3>1. PICK c \in WriteCommands : c = stream[1]
      BY <2>4, WriteLands
    <3>2. /\ Live(c.t) /\ c.t \in Tensors /\ WriteInv(c) /\ c.page \in Pages
          /\ c.at \div PageSize + 1 \in 1..Len(tensor[c.t].pages)
          /\ pageData' = [pageData EXCEPT ![c.page] = Written(c)]
      BY <2>4, <3>1, WriteLands
    <3>3. /\ c.at \in Nat /\ c.rows \in 1..(PageSize - (c.at % PageSize))
          /\ c.slot = c.at % PageSize
          /\ c.page = tensor[c.t].pages[c.at \div PageSize + 1]
      BY <3>1, <3>2 DEF WriteInv, WriteCommands
    <3>4. pageData'[q] = IF q = c.page THEN Written(c) ELSE pageData[q]
      BY <1>1, <1>5, <3>2 DEF TypeOK
    <3>5. Written(c)[r] = IF r \in c.slot..(c.slot + c.rows - 1) THEN <<c.t, c.at + r - c.slot>>
                                                                ELSE pageData[c.page][r]
      BY <1>3 DEF Written
    <3>6. CASE WritesRow(c, t, k)
      <4>1. c.t = t /\ k \in c.at..(c.at + c.rows - 1)
        BY <3>6 DEF WritesRow
      <4>2. /\ k \div PageSize = c.at \div PageSize
            /\ k % PageSize \in (c.at % PageSize)..((c.at % PageSize) + c.rows - 1)
            /\ c.at + (k % PageSize) - (c.at % PageSize) = k
        BY <1>1, <3>3, <4>1, RowsOnPage
      <4>3. q = c.page
        BY <1>2, <3>3, <4>1, <4>2
      <4>4. r \in c.slot..(c.slot + c.rows - 1) /\ c.at + r - c.slot = k
        BY <1>3, <3>3, <4>2
      <4> QED BY <3>4, <3>5, <4>1, <4>3, <4>4
    <3>7. CASE ~WritesRow(c, t, k)
      <4>1. pageData[q][r] = <<t, k>>
        BY <2>1, <3>1, <3>7
      <4>2. CASE q # c.page
        BY <3>4, <4>1, <4>2
      <4>3. CASE q = c.page /\ r \in c.slot..(c.slot + c.rows - 1)
        <5>1. c.t = t
          BY <1>2, <3>2, <3>3, <4>3 DEF IInv, OwnersInv, OwnerInv
        <5>2. k \div PageSize + 1 = c.at \div PageSize + 1
          BY <1>2, <3>2, <3>3, <4>3, <5>1 DEF IInv, OwnersInv, OwnerInv
        <5>3. c.at \div PageSize = k \div PageSize
          BY <1>1, <3>3, <5>2, PageNumber
        <5>4. k = c.at + (k % PageSize) - (c.at % PageSize)
          BY <1>1, <3>3, <5>3, OnOnePage
        <5> QED BY <1>3, <3>3, <3>4, <3>5, <4>3, <5>1, <5>4
      <4>4. CASE q = c.page /\ r \notin c.slot..(c.slot + c.rows - 1)
        BY <3>4, <3>5, <4>1, <4>4
      <4> QED BY <4>2, <4>3, <4>4
    <3> QED BY <3>6, <3>7
  <2> QED BY <2>3, <2>4
<1> QED BY <1>6, <1>7

\* What the command does to the device tables.
LEMMA TablesStep ==
    ASSUME IInv, DeviceStep
    PROVE  /\ IsMemory(devMem')
           /\ \A x \in DOMAIN devMem : ~(stream[1].op = "free" /\ stream[1].dev = x) =>
                /\ x \in DOMAIN devMem' /\ Len(devMem'[x]) = Len(devMem[x])
                /\ \A k \in 1..Len(devMem[x]) :
                      devMem'[x][k] = IF FillsEntry(stream[1], x, k)
                                      THEN hostMem[stream[1].host][k] ELSE devMem[x][k]
<1>1. /\ TypeOK /\ 1 \in 1..Len(stream) /\ Head(stream) = stream[1]
  BY StreamShifts DEF IInv
<1>2. PICK c \in Commands : c = stream[1]
  BY <1>1, CommandFields
<1>3. CommandInv(1)
  BY <1>1 DEF IInv, StreamInv
<1>4. IsMemory(devMem) /\ IsMemory(hostMem)
  BY <1>1 DEF TypeOK
<1>5. CASE c.op = "copy"
  <2>1. /\ CopyInv(c) /\ c.dev \in DOMAIN devMem /\ c.dev \in Tables
        /\ c.first \in Nat /\ c.last \in Nat
    BY <1>1, <1>2, <1>3, <1>5, CommandFields DEF CommandInv, TableInv, CopyCommands
  <2>2. Reaches(c)
    BY <2>1 DEF Reaches, CopyInv
  <2>3. devMem' = With(devMem, c.dev, Copied(c))
    BY <1>1, <1>2, <1>5, <2>2 DEF DeviceStep
  <2>4. PICK size \in Nat : size = Len(devMem[c.dev])
    BY <1>4, <2>1 DEF IsMemory
  <2>5. devMem[c.dev] \in Seq(Nat) /\ DOMAIN devMem[c.dev] = 1..size
    BY <1>4, <2>1, <2>4 DEF IsMemory
  <2>6. \A k \in 1..size : Copied(c)[k] = IF k \in c.first..c.last THEN hostMem[c.host][k]
                                                                   ELSE devMem[c.dev][k]
    BY <2>5 DEF Copied
  <2>7. \A k \in c.first..c.last : hostMem[c.host][k] \in Nat
    <3>1. hostMem[c.host] \in Seq(Nat)
      BY <1>4, <2>1 DEF CopyInv, IsMemory
    <3>2. \A k \in c.first..c.last : k \in 1..Len(hostMem[c.host])
      BY <2>1, <3>1 DEF CopyInv
    <3> QED BY <3>1, <3>2
  <2>8. Copied(c) \in [1..size -> Nat]
    <3>1. \A k \in 1..size : Copied(c)[k] \in Nat
      BY <2>5, <2>6, <2>7
    <3> QED BY <2>5, <3>1 DEF Copied
  <2>9. Copied(c) \in Seq(Nat) /\ Len(Copied(c)) = size
    BY <2>8
  <2>10. IsMemory(devMem')
    BY <1>4, <2>1, <2>3, <2>9, WithIsMemory
  <2>11. /\ DOMAIN devMem' = DOMAIN devMem \cup {c.dev}
         /\ devMem'[c.dev] = Copied(c)
         /\ \A x \in DOMAIN devMem \ {c.dev} : devMem'[x] = devMem[x]
    BY <2>3 DEF With
  <2>12. ASSUME NEW x \in DOMAIN devMem
         PROVE  /\ x \in DOMAIN devMem' /\ Len(devMem'[x]) = Len(devMem[x])
                /\ \A k \in 1..Len(devMem[x]) :
                      devMem'[x][k] = IF FillsEntry(c, x, k) THEN hostMem[c.host][k]
                                                             ELSE devMem[x][k]
    <3>1. CASE x = c.dev
      BY <1>5, <2>4, <2>6, <2>9, <2>11, <3>1 DEF FillsEntry
    <3>2. CASE x # c.dev
      BY <2>11, <3>2 DEF FillsEntry
    <3> QED BY <3>1, <3>2
  <2> QED BY <1>2, <2>10, <2>12
<1>6. CASE c.op = "free"
  <2>1. PICK dropped : dropped = {c.dev}
    OBVIOUS
  <2>2. devMem' = Without(devMem, dropped)
    BY <1>1, <1>2, <1>6, <2>1 DEF DeviceStep
  <2>3. /\ DOMAIN devMem' = DOMAIN devMem \ dropped
        /\ \A x \in DOMAIN devMem \ dropped : devMem'[x] = devMem[x]
    BY <2>2 DEF Without
  <2>4. IsMemory(devMem')
    BY <1>4, <2>2, WithoutIsMemory
  <2>5. \A x \in DOMAIN devMem : c.dev # x => x \in DOMAIN devMem' /\ devMem'[x] = devMem[x]
    BY <2>1, <2>3
  <2> QED BY <1>2, <1>6, <2>4, <2>5 DEF FillsEntry
<1>7. CASE c.op \notin {"copy", "free"}
  <2>1. devMem' = devMem
    BY <1>1, <1>2, <1>7 DEF DeviceStep
  <2> QED BY <1>2, <1>4, <1>7, <2>1 DEF FillsEntry
<1> QED BY <1>5, <1>6, <1>7

\* An entry that is ready stays so when the first command has run.
LEMMA EntryReadyStep ==
    ASSUME IInv, DeviceStep, NEW t \in Tensors, Live(t), NEW x \in DOMAIN devMem, x[1] = t,
           ~(stream[1].op = "free" /\ stream[1].dev = x),
           NEW k \in Nat, k \in 1..Len(devMem[x]), NEW n \in Nat, n < Len(stream),
           EntryReady(t, x, k, n + 1)
    PROVE  EntryReady(t, x, k, n)'
<1>1. /\ TypeOK /\ tensor' = tensor /\ 1 \in 1..Len(stream) /\ Len(stream) \in Nat
      /\ \A i \in 1..(Len(stream) - 1) : stream'[i] = stream[i + 1]
  BY StreamShifts DEF IInv, DeviceStep
<1>2. devMem'[x][k] = IF FillsEntry(stream[1], x, k) THEN hostMem[stream[1].host][k]
                                                     ELSE devMem[x][k]
  BY TablesStep
<1>3. CASE \E i \in 2..(n + 1) : FillsEntry(stream[i], x, k)
  <2>1. PICK i \in 2..(n + 1) : FillsEntry(stream[i], x, k)
    BY <1>3
  <2>2. i - 1 \in 1..n /\ i - 1 \in 1..(Len(stream) - 1) /\ (i - 1) + 1 = i
    BY <1>1
  <2>3. stream'[i - 1] = stream[i]
    BY <1>1, <2>2
  <2> QED BY <2>1, <2>2, <2>3 DEF EntryReady, FillsEntry
<1>4. CASE FillsEntry(stream[1], x, k)
  <2>1. PICK c \in Commands : c = stream[1]
    BY <1>1, CommandFields
  <2>2. c.op = "copy" /\ c.dev = x /\ k \in c.first..c.last
    BY <1>4, <2>1 DEF FillsEntry
  <2>3. CopyInv(c)
    BY <1>1, <2>1, <2>2 DEF IInv, StreamInv, CommandInv
  <2>4. c.host \in TablesOf(hostMem, t) /\ c.last <= Len(hostMem[c.host])
    BY <2>2, <2>3 DEF CopyInv, TablesOf
  <2>5. Leads(hostMem[c.host], tensor[t].pages) /\ hostMem[c.host] \in Seq(Nat)
    BY <1>1, <2>4 DEF IInv, TensorInv, HostInv, TablesOf, TypeOK, IsMemory
  <2>6. k \in 1..Len(hostMem[c.host])
    <3>1. c.last \in Nat /\ c.first \in Nat
      BY <1>1, <2>1, <2>2, CommandFields DEF CopyCommands
    <3> QED BY <2>2, <2>4, <2>5, <3>1
  <2>7. hostMem[c.host][k] = tensor[t].pages[k]
    BY <2>5, <2>6 DEF Leads
  <2>8. devMem'[x][k] = tensor[t].pages[k]
    BY <1>2, <1>4, <2>1, <2>7
  <2> QED BY <1>1, <2>8 DEF EntryReady
<1>5. CASE ~(\E i \in 2..(n + 1) : FillsEntry(stream[i], x, k)) /\ ~FillsEntry(stream[1], x, k)
  <2>1. \A i \in 1..(n + 1) : i = 1 \/ i \in 2..(n + 1)
    OBVIOUS
  <2>2. devMem[x][k] = tensor[t].pages[k]
    BY <1>5, <2>1 DEF EntryReady
  <2> QED BY <1>1, <1>2, <1>5, <2>2 DEF EntryReady
<1> QED BY <1>3, <1>4, <1>5

LEMMA DeviceStepKeeps == ASSUME IInv, DeviceStep PROVE IInv'
<1>0. /\ TypeOK /\ OwnersInv /\ CallInv /\ IsMemory(hostMem)
      /\ PageSize \in Nat \ {0}
  BY PageSizeIs DEF IInv, TypeOK
<1>1. /\ UNCHANGED poolVars
      /\ desc' = desc /\ poolLive' = poolLive /\ created' = created /\ freePages' = freePages
      /\ tensor' = tensor /\ hostMem' = hostMem /\ call' = call
      /\ PageSize' = PageSize /\ Pages' = Pages
  BY DEF DeviceStep, poolVars, PageSize, Pages
<1>2. PICK n \in Nat : n = Len(stream') /\ Len(stream) = n + 1
  <2>1. Len(stream') = Len(stream) - 1 /\ Len(stream) \in Nat /\ Len(stream) >= 1
    BY StreamShifts
  <2>2. Len(stream') \in Nat /\ Len(stream) = Len(stream') + 1
    BY <2>1
  <2> QED BY <2>2
<1>3. /\ stream' \in Seq(Commands)
      /\ \A i \in 1..n : stream'[i] = stream[i + 1] /\ i + 1 \in 1..Len(stream)
      /\ 1 \in 1..Len(stream)
  BY <1>2, StreamShifts
<1>4. /\ IsMemory(devMem')
      /\ \A x \in DOMAIN devMem : ~(stream[1].op = "free" /\ stream[1].dev = x) =>
            x \in DOMAIN devMem' /\ Len(devMem'[x]) = Len(devMem[x])
  BY TablesStep
<1>5. TypeOK'
  <2>1. pageData' \in [Pages' -> [0..(PageSize' - 1) -> Nat \X Nat]]
    BY <1>1, PageDataTyped
  <2> QED BY <1>0, <1>1, <1>3, <1>4, <2>1 DEF TypeOK
<1>6. OwnersInv'
  BY <1>1, OwnersKept
<1>7. CallInv'
  BY <1>0, <1>1 DEF CallInv, Stale
<1>8. ASSUME NEW t \in Tensors PROVE TensorInv(t)'
  <2>1. HostInv(t)'
    BY <1>0, <1>1, HostKept DEF HostTablesSame
  <2>2. TensorInv(t)
    BY DEF IInv
  <2>3. DevInv(t)'
    <3> SUFFICES ASSUME Live(t) PROVE DevInv(t)'
      BY <1>1 DEF DevInv, Live
    <3>1. /\ DevInv(t) /\ tensor[t].synced \in Nat /\ tensor[t].dev \in Nat
          /\ tensor[t].devCap \in Nat
      BY <1>0, <2>2, Fields DEF TensorInv
    <3>2. CASE tensor[t].dev = 0
      <4>1. tensor[t].synced = 0
        BY <3>1, <3>2 DEF DevInv
      <4> QED BY <1>1, <3>1, <3>2, <4>1 DEF DevInv
    <3>3. CASE tensor[t].dev > 0
      <4>1. PICK x \in Tables : x = <<t, tensor[t].dev>>
        BY <3>1 DEF Tables
      <4>2. x \in DOMAIN devMem /\ Len(devMem[x]) = tensor[t].devCap
            /\ tensor[t].synced \in 1..tensor[t].devCap
        BY <3>1, <3>3, <4>1 DEF DevInv
      <4>3. ~(stream[1].op = "free" /\ stream[1].dev = x)
        <5>1. stream[1].op = "free" => TableInv(1)
          BY <1>3 DEF IInv, StreamInv, CommandInv
        <5>2. stream[1].dev = x => stream[1].dev[1] = t /\ stream[1].dev[2] = tensor[t].dev
          BY <4>1
        <5> QED BY <5>1, <5>2 DEF TableInv
      <4>4. x \in DOMAIN devMem' /\ Len(devMem'[x]) = tensor[t].devCap
        BY <1>4, <4>2, <4>3
      <4>5. ASSUME NEW k \in 1..tensor[t].synced PROVE EntryReady(t, x, k, n)'
        <5>1. EntryReady(t, x, k, n + 1)
          BY <1>2, <3>1, <4>1 DEF DevInv
        <5>2. k \in Nat /\ k \in 1..Len(devMem[x]) /\ n < Len(stream)
          BY <1>2, <4>2
        <5>3. x[1] = t
          BY <4>1
        <5> QED BY <4>2, <4>3, <5>1, <5>2, <5>3, EntryReadyStep
      <4>6. \A k \in 1..tensor[t].synced : EntryReady(t, <<t, tensor[t].dev>>, k, Len(stream))'
        BY <1>1, <1>2, <4>1, <4>5
      <4> QED BY <1>1, <3>1, <3>3, <4>1, <4>2, <4>4, <4>6 DEF DevInv
    <3> QED BY <3>1, <3>2, <3>3
  <2>4. RowsInv(t)'
    <3> SUFFICES ASSUME Live(t) PROVE RowsInv(t)'
      BY <1>1 DEF RowsInv, Live
    <3>1. RowsInv(t) /\ RowsWritten(t)' = RowsWritten(t)
      BY <1>1, <2>2 DEF TensorInv, RowsWritten, Mine
    <3>2. ASSUME NEW k \in tensor[t].born..(RowsWritten(t) - 1) PROVE RowReady(t, k, n)'
      <4>1. k \in Nat /\ k \div PageSize + 1 \in 1..Len(tensor[t].pages)
        BY WrittenHavePages
      <4>2. RowReady(t, k, n + 1)
        BY <1>2, <3>1 DEF RowsInv
      <4>3. n < Len(stream)
        BY <1>2
      <4> QED BY <4>1, <4>2, <4>3, RowReadyStep
    <3>3. \A k \in tensor[t].born..(RowsWritten(t)' - 1) : RowReady(t, k, Len(stream))'
      BY <1>2, <3>1, <3>2
    <3> QED BY <1>1, <3>1, <3>3 DEF RowsInv, Mine
  <2> QED BY <2>1, <2>3, <2>4 DEF TensorInv
<1>9. ASSUME NEW i \in 1..n PROVE CommandInv(i)'
  <2>1. PICK c \in Commands : c = stream[i + 1]
    BY <1>0, <1>3, CommandFields
  <2>2. /\ stream'[i] = c /\ CommandInv(i + 1) /\ CommandTensor(c) \in Tensors
        /\ i + 1 \in 1..Len(stream)
    BY <1>0, <1>3, <2>1, CommandFields DEF IInv, StreamInv
  <2>3. PICK t \in Tensors : t = CommandTensor(c)
    BY <2>2
  <2>4. Live(t) /\ tensor[t].synced > 0
    BY <2>1, <2>2, <2>3 DEF CommandInv
  <2>5. c.op = "write" => WriteInv(c)'
    BY <1>1, <2>1, <2>2 DEF CommandInv, WriteInv
  <2>6. c.op = "copy" => CopyInv(c)'
    BY <1>1, <2>1, <2>2 DEF CommandInv, CopyInv
  <2>7. ASSUME c.op # "write"
        PROVE  /\ TableInv(i + 1) /\ c.dev \in DOMAIN devMem
               /\ ~(stream[1].op = "free" /\ stream[1].dev = c.dev)
    <3>1. TableInv(i + 1)
      BY <2>1, <2>2, <2>7 DEF CommandInv
    <3>2. 1 \in 1..((i + 1) - 1)
      OBVIOUS
    <3> QED BY <2>1, <3>1, <3>2 DEF TableInv
  <2>8. ASSUME c.op # "write" PROVE TableInv(i)'
    <3>1. c.dev \in DOMAIN devMem'
      BY <1>4, <2>7, <2>8
    <3>2. ASSUME NEW j \in 1..(i - 1), stream'[j].op = "free" PROVE stream'[j].dev # c.dev
      <4>1. j \in 1..n /\ j + 1 \in 1..((i + 1) - 1)
        OBVIOUS
      <4>2. stream'[j] = stream[j + 1]
        BY <1>3, <4>1
      <4> QED BY <2>1, <2>7, <2>8, <3>2, <4>1, <4>2 DEF TableInv
    <3> QED BY <1>1, <2>1, <2>2, <2>7, <2>8, <3>1, <3>2 DEF TableInv
  <2>9. ASSUME c.op = "attend" PROVE AttendInv(i)'
    <3>1. AttendInv(i + 1) /\ c \in AttendCommands /\ c.op # "write"
      BY <1>0, <2>1, <2>2, <2>9, CommandFields DEF CommandInv
    <3>2. c.dev[1] = c.t /\ c.t = t /\ c.length <= tensor[t].length /\ c.length \in Nat
      BY <2>1, <2>3, <2>9, <3>1 DEF AttendInv, AttendCommands, CommandTensor
    <3>3. tensor[t].born \in Nat /\ tensor[t].length \in Nat
      BY <1>0, Fields
    <3>4. Len(devMem'[c.dev]) = Len(devMem[c.dev])
      BY <1>4, <2>7, <3>1
    <3>5. ASSUME NEW k \in tensor[t].born..(c.length - 1)
          PROVE  /\ RowReady(t, k, i - 1)'
                 /\ k \div PageSize < Len(devMem'[c.dev])
                 /\ EntryReady(t, c.dev, k \div PageSize + 1, i - 1)'
      <4>1. k \in 0..(tensor[t].length - 1) /\ k \in Nat
        BY <3>2, <3>3
      <4>2. /\ k \div PageSize + 1 \in 1..Len(tensor[t].pages) /\ k \div PageSize \in Nat
        BY <2>4, <4>1, RowsHavePages
      <4>3. PICK m \in Nat : m = i - 1 /\ m + 1 = (i + 1) - 1 /\ m < Len(stream)
        BY <1>2
      <4>4. /\ RowReady(t, k, m + 1) /\ k \div PageSize < Len(devMem[c.dev])
            /\ EntryReady(t, c.dev, k \div PageSize + 1, m + 1)
        BY <2>1, <3>1, <3>2, <4>3 DEF AttendInv
      <4>5. RowReady(t, k, m)'
        BY <2>4, <4>1, <4>2, <4>3, <4>4, RowReadyStep
      <4>6. PICK e \in Nat : e = k \div PageSize + 1
        BY <4>2
      <4>7. PICK x \in DOMAIN devMem : x = c.dev
        BY <2>7, <3>1
      <4>8. e \in 1..Len(devMem[x])
        <5>1. Len(devMem[x]) \in Nat
          BY <1>0, <4>7 DEF TypeOK, IsMemory
        <5> QED BY <4>2, <4>4, <4>6, <4>7, <5>1
      <4>9. EntryReady(t, x, e, m + 1) /\ x[1] = t
        BY <3>2, <4>4, <4>6, <4>7
      <4>10. EntryReady(t, x, e, m)'
        BY <2>4, <2>7, <3>1, <4>3, <4>7, <4>8, <4>9, EntryReadyStep
      <4> QED BY <1>1, <3>4, <4>3, <4>4, <4>5, <4>6, <4>7, <4>10
    <3> QED BY <1>1, <2>2, <3>2, <3>5 DEF AttendInv
  <2> QED BY <1>1, <2>2, <2>3, <2>4, <2>5, <2>6, <2>8, <2>9 DEF CommandInv, Live
<1>10. StreamInv'
  BY <1>2, <1>9 DEF StreamInv
<1> QED BY <1>5, <1>6, <1>7, <1>8, <1>10 DEF IInv

-----------------------------------------------------------------------------
(* The invariant *)

LEMMA InitHolds == Init => IInv
<1> SUFFICES ASSUME Init PROVE IInv
  OBVIOUS
<1>1. PageSize \in Nat \ {0} /\ desc \in Descs /\ desc.maxPages \in Nat \ {0}
  BY PageSizes DEF Init
<1>2. <<>> \in Seq(Nat) /\ <<>> \in Seq(Commands) /\ {} \subseteq Nat
  OBVIOUS
<1>3. \A t \in Tensors : tensor[t] = Unborn /\ tensor[t].state = "unborn"
  BY DEF Init, Unborn
<1>4. TypeOK
  <2>1. Unborn \in TensorRecords
    BY <1>2 DEF Unborn, TensorRecords
  <2>2. tensor \in [Tensors -> TensorRecords]
    BY <2>1 DEF Init
  <2>3. EmptyPage \in [0..(PageSize - 1) -> Nat \X Nat]
    BY DEF EmptyPage, NoRow
  <2>4. pageData \in [Pages -> [0..(PageSize - 1) -> Nat \X Nat]]
    BY <2>3 DEF Init
  <2>5. IsMemory(hostMem) /\ IsMemory(devMem)
    BY DEF Init, IsMemory
  <2> QED BY <1>1, <1>2, <2>2, <2>4, <2>5 DEF Init, TypeOK
<1>5. \A t \in Tensors : ~Live(t)
  BY <1>3 DEF Live
<1>6. OwnersInv
  <2>1. IdsInv
    <3>1. 0 \in 0..MaxTensors
      BY PagedAssumption
    <3>2. \A t \in Tensors : tensor[t].state # "unborn" <=> t <= 0
      BY <1>3 DEF Tensors
    <3> QED BY <3>1, <3>2 DEF IdsInv
  <2>2. PoolInv
    BY <1>1, <1>5 DEF Init, PoolInv
  <2> QED BY <1>5, <2>1, <2>2 DEF Init, OwnersInv, CallerInv, OwnerInv
<1>7. CallInv /\ StreamInv
  BY DEF Init, CallInv, StreamInv
<1>8. \A t \in Tensors : TablesOf(hostMem, t) = {}
  BY DEF Init, TablesOf
<1> QED BY <1>4, <1>5, <1>6, <1>7, <1>8 DEF IInv, TensorInv, HostInv, DevInv, RowsInv

LEMMA Stutters == ASSUME IInv, UNCHANGED vars PROVE IInv'
<1>1. CallInv'
  BY DEF vars, IInv, CallInv, Stale, PageSize, Live
<1>2. UNCHANGED <<poolVars, tensor, tableVars, stream, pageData>> /\ call' = call
  BY DEF vars, poolVars, tableVars
<1>3. \A t \in Tensors : RowsWritten(t)' = RowsWritten(t)
  BY <1>2 DEF RowsWritten, Mine
<1>4. \A t \in Tensors : RowsWritten(t) \in Int
  BY Fields, CallFields DEF RowsWritten, Mine, IInv
<1>5. /\ call' \in Calls \cup {NoCall}
      /\ call' # NoCall => Live(call'.t)
  BY <1>2 DEF IInv, TypeOK, OwnersInv, CallerInv
<1>6. \A t \in Tensors : Live(t) =>
         \/ CeilDiv(tensor[t].length, PageSize) <= Len(tensor[t].pages)
         \/ (Mine(t) /\ call.op = "alloc" /\ call.phase = "reserve")'
  BY <1>2 DEF IInv, TensorInv, RowsInv, Mine
<1> QED BY <1>1, <1>2, <1>3, <1>4, <1>5, <1>6, OnlyCallMoves

LEMMA NextKeeps == IInv /\ [Next]_vars => IInv'
<1> SUFFICES ASSUME IInv, [Next]_vars PROVE IInv'
  OBVIOUS
<1>1. CASE CreatePool \/ DestroyPool
  BY <1>1, PoolSteps
<1>2. CASE \E grow \in desc.growLengths : CallAlloc(grow)
  BY <1>2, AllocStarts
<1>3. ASSUME NEW t \in Tensors,
             \/ \E count \in desc.reserves : CallReserve(t, count)
             \/ \E chunk \in Chunks, source \in {"host", "device"} : CallAppend(t, chunk, source)
             \/ CallAttend(t)
      PROVE  IInv'
  BY <1>3, CallsStart
<1>4. ASSUME NEW t \in Tensors, DeallocPaged(t) PROVE IInv'
  BY <1>4, DeallocStep
<1>5. CASE ReservePage
  BY <1>5, ReserveStep
<1>6. CASE Reserved
  BY <1>6, ReservedStep
<1>7. CASE PoolExhausted \/ CudaFails
  BY <1>7, FailedCalls
<1>8. CASE TableIsCurrent
  BY <1>8, TableIsCurrentStep
<1>9. CASE FillHostTable
  BY <1>9, FillStep
<1>10. CASE UpdateDeviceTable
  BY <1>10, UpdateStep
<1>11. CASE OldTableNotFreed
  BY <1>11, OldTableStep
<1>12. CASE CopyRows
  BY <1>12, CopyStep
<1>13. CASE AppendDone
  BY <1>13, AppendDoneStep
<1>14. CASE Launch
  BY <1>14, LaunchStep
<1>15. CASE Return
  BY <1>15, ReturnStep
<1>16. CASE DeviceStep
  BY <1>16, DeviceStepKeeps
<1>17. CASE UNCHANGED vars
  BY <1>17, Stutters
<1> QED BY <1>1, <1>2, <1>3, <1>4, <1>5, <1>6, <1>7, <1>8, <1>9, <1>10, <1>11, <1>12,
           <1>13, <1>14, <1>15, <1>16, <1>17 DEF Next

-----------------------------------------------------------------------------
(* What the invariant gives *)

LEMMA OwnedOnce == IInv => PagesOwnedOnce
<1> SUFFICES ASSUME IInv PROVE PagesOwnedOnce
  OBVIOUS
<1>1. PoolInv /\ TypeOK /\ \A t \in Tensors : OwnerInv(t)
  BY DEF IInv, OwnersInv
<1>2. freePages \in Seq(Nat) /\ DOMAIN freePages = 1..Len(freePages)
  BY <1>1 DEF TypeOK
<1>3. \A t \in LiveTensors : t \in Tensors /\ Live(t)
  BY DEF LiveTensors
<1>4. ASSUME NEW t \in LiveTensors PROVE DOMAIN tensor[t].pages = 1..Len(tensor[t].pages)
  <2>1. tensor[t].pages \in Seq(Nat)
    BY <1>1, <1>3, Fields
  <2> QED BY <2>1
<1>5. created <= desc.maxPages /\ ToSet(freePages) \subseteq 1..created
  BY <1>1, <1>2 DEF PoolInv, ToSet
<1>6. IsInjective(freePages)
  BY <1>1, <1>2 DEF PoolInv, IsInjective
<1>7. ASSUME NEW t \in LiveTensors
      PROVE  /\ ToSet(tensor[t].pages) \subseteq 1..created
             /\ IsInjective(tensor[t].pages)
             /\ ToSet(tensor[t].pages) \cap ToSet(freePages) = {}
  <2>1. OwnerInv(t) /\ Live(t) /\ DOMAIN tensor[t].pages = 1..Len(tensor[t].pages)
    BY <1>1, <1>3, <1>4
  <2>2. ToSet(tensor[t].pages) \subseteq 1..created
    BY <2>1 DEF OwnerInv, ToSet
  <2>3. IsInjective(tensor[t].pages)
    BY <2>1 DEF OwnerInv, IsInjective
  <2>4. ToSet(tensor[t].pages) \cap ToSet(freePages) = {}
    BY <1>2, <2>1 DEF OwnerInv, ToSet
  <2> QED BY <2>2, <2>3, <2>4
<1>8. ASSUME NEW t \in LiveTensors, NEW u \in LiveTensors, t # u
      PROVE  ToSet(tensor[t].pages) \cap ToSet(tensor[u].pages) = {}
  <2>1. OwnerInv(t) /\ Live(t) /\ Live(u) /\ u \in Tensors \ {t}
    BY <1>1, <1>3, <1>8
  <2>2. /\ DOMAIN tensor[t].pages = 1..Len(tensor[t].pages)
        /\ DOMAIN tensor[u].pages = 1..Len(tensor[u].pages)
    BY <1>4
  <2> QED BY <2>1, <2>2 DEF OwnerInv, ToSet
<1> QED BY <1>5, <1>6, <1>7, <1>8 DEF PagesOwnedOnce

\* A set of positions has a last one.
LEMMA LastPosition ==
    ASSUME NEW n \in Nat, NEW S \in SUBSET (1..n), S # {}
    PROVE  \E i \in S : \A j \in S : j <= i
<1> DEFINE Below == {d \in Nat : n - d \in S}
           R == OpToRel(<, Nat)
<1>1. IsWellFoundedOn(R, Nat)
  BY NatLessThanWellFounded
<1>2. \A x, y \in Nat : y < x => <<y, x>> \in R
  BY DEF OpToRel
<1>3. Below \in SUBSET Nat /\ Below # {}
  <2>1. PICK i \in S : TRUE
    OBVIOUS
  <2>2. n - i \in Nat /\ n - (n - i) = i
    BY <2>1
  <2> QED BY <2>1, <2>2
<1> HIDE DEF R
<1>4. PICK x \in Below : \A y \in Below : <<y, x>> \notin R
  <2> HIDE DEF Below
  <2> QED BY <1>1, <1>3, WFMin
<1>5. \A y \in Below : ~(y < x)
  BY <1>2, <1>3, <1>4, Zenon
<1>6. n - x \in S /\ x \in Nat
  BY <1>4
<1>7. ASSUME NEW j \in S PROVE j <= n - x
  <2>1. n - j \in Nat /\ n - (n - j) = j
    OBVIOUS
  <2>2. n - j \in Below
    BY <2>1
  <2>3. ~(n - j < x)
    BY <1>5, <2>2
  <2> QED BY <1>6, <2>1, <2>3
<1> QED BY <1>6, <1>7

\* A write to the slot of row k of t writes that row.
LEMMA WritesThatRow ==
    ASSUME IInv, NEW t \in Tensors, Live(t), NEW k \in Nat,
           k \div PageSize + 1 \in 1..Len(tensor[t].pages),
           NEW i \in 1..Len(stream), stream[i].op = "write",
           stream[i].page = tensor[t].pages[k \div PageSize + 1],
           k % PageSize \in stream[i].slot..(stream[i].slot + stream[i].rows - 1)
    PROVE  stream[i].t = t /\ stream[i].at + (k % PageSize) - stream[i].slot = k
<1>1. PICK c \in WriteCommands : c = stream[i]
  BY CommandFields DEF IInv
<1>2. CommandInv(i) /\ PageSize \in Nat \ {0}
  BY PageSizeIs DEF IInv, StreamInv
<1>3. c.t \in Tensors /\ c.at \in Nat
  BY <1>1 DEF WriteCommands
<1>4. Live(c.t) /\ WriteInv(c)
  BY <1>1, <1>2 DEF CommandInv, CommandTensor
<1>5. PICK q \in Nat : q = c.at \div PageSize
  BY <1>2, <1>3, PageNumber
<1>6. PICK p \in Nat : p = k \div PageSize
  BY <1>2, PageNumber
<1>7. Len(tensor[c.t].pages) \in Nat
  BY <1>3, Fields DEF IInv
<1>8. q + 1 \in 1..Len(tensor[c.t].pages) /\ c.page = tensor[c.t].pages[q + 1]
      /\ c.slot = c.at % PageSize
  BY <1>4, <1>5, <1>7 DEF WriteInv
<1>9. c.page = tensor[t].pages[p + 1] /\ p + 1 \in 1..Len(tensor[t].pages)
  BY <1>1, <1>6
<1>10. c.t = t
  <2> SUFFICES ASSUME c.t # t PROVE FALSE
    OBVIOUS
  <2>1. OwnerInv(c.t) /\ t \in Tensors \ {c.t}
    BY <1>3 DEF IInv, OwnersInv
  <2>2. tensor[c.t].pages[q + 1] # tensor[t].pages[p + 1]
    BY <1>4, <1>8, <1>9, <2>1 DEF OwnerInv
  <2> QED BY <1>8, <1>9, <2>2
<1>11. q + 1 = p + 1
  BY <1>8, <1>9, <1>10 DEF IInv, OwnersInv, OwnerInv
<1>12. c.at \div PageSize = k \div PageSize
  BY <1>5, <1>6, <1>11
<1>13. k = c.at + (k % PageSize) - (c.at % PageSize)
  <2>1. PICK a \in Nat, n \in Nat \ {0} : a = c.at /\ n = PageSize
    BY <1>2, <1>3
  <2>2. a \div n = k \div n
    BY <1>12, <2>1
  <2>3. k = a + (k % n) - (a % n)
    BY <2>2, OnOnePage
  <2> QED BY <2>1, <2>3
<1> QED BY <1>1, <1>8, <1>10, <1>13

\* A write of row k of t goes to its slot.
LEMMA WriteOfRow ==
    ASSUME IInv, NEW t, NEW k \in Nat, NEW i \in 1..Len(stream), WritesRow(stream[i], t, k)
    PROVE  /\ stream[i].op = "write"
           /\ stream[i].page = tensor[t].pages[k \div PageSize + 1]
           /\ k % PageSize \in stream[i].slot..(stream[i].slot + stream[i].rows - 1)
<1>1. PICK c \in WriteCommands : c = stream[i]
  BY CommandFields DEF WritesRow, IInv
<1>2. c.op = "write" /\ c.t = t /\ k \in c.at..(c.at + c.rows - 1)
  BY <1>1 DEF WritesRow
<1>3. WriteInv(c) /\ c.at \in Nat /\ PageSize \in Nat \ {0}
  BY <1>1, <1>2, PageSizeIs DEF IInv, StreamInv, CommandInv, WriteCommands
<1>4. /\ c.rows \in 1..(PageSize - (c.at % PageSize)) /\ c.slot = c.at % PageSize
      /\ c.page = tensor[t].pages[c.at \div PageSize + 1]
  BY <1>2, <1>3 DEF WriteInv
<1>5. /\ k \div PageSize = c.at \div PageSize
      /\ k % PageSize \in (c.at % PageSize)..((c.at % PageSize) + c.rows - 1)
      /\ c.at + (k % PageSize) - (c.at % PageSize) = k
  BY <1>2, <1>3, <1>4, RowsOnPage
<1> QED BY <1>1, <1>2, <1>4, <1>5

LEMMA RowsStay == IInv => RowsRetained
<1> SUFFICES ASSUME IInv, NEW t \in LiveTensors,
                    NEW k \in tensor[t].born..(tensor[t].length - 1)
             PROVE  /\ k \div PageSize < Len(tensor[t].pages)
                    /\ FinalRow(tensor[t].pages[k \div PageSize + 1], k % PageSize) = <<t, k>>
  BY DEF RowsRetained
<1>1. t \in Tensors /\ Live(t) /\ TypeOK
  BY DEF LiveTensors, IInv
<1>2. tensor[t].length \in Nat /\ tensor[t].born \in Nat
  BY <1>1, Fields
<1>3. RowsWritten(t) \in Int /\ tensor[t].length <= RowsWritten(t)
  BY <1>1, <1>2, CallFields DEF RowsWritten, Mine
<1>4. k \in tensor[t].born..(RowsWritten(t) - 1)
  BY <1>2, <1>3
<1>5. /\ k \in Nat /\ k \div PageSize < Len(tensor[t].pages)
      /\ k \div PageSize + 1 \in 1..Len(tensor[t].pages)
  BY <1>1, <1>4, WrittenHavePages
<1>6. RowReady(t, k, Len(stream))
  BY <1>1, <1>4 DEF IInv, TensorInv, RowsInv
<1>7. Len(stream) \in Nat /\ DOMAIN stream = 1..Len(stream)
  BY <1>1 DEF TypeOK
<1> DEFINE page == tensor[t].pages[k \div PageSize + 1]
           slot == k % PageSize
           writes == {i \in DOMAIN stream :
                        /\ stream[i].op = "write"
                        /\ stream[i].page = page
                        /\ slot \in stream[i].slot..(stream[i].slot + stream[i].rows - 1)}
<1>8. \A i \in writes : stream[i].t = t /\ stream[i].at + slot - stream[i].slot = k
  BY <1>1, <1>5, <1>7, WritesThatRow
<1>9. CASE writes = {}
  <2>1. ASSUME NEW i \in 1..Len(stream), WritesRow(stream[i], t, k) PROVE i \in writes
    <3>1. /\ stream[i].op = "write"
          /\ stream[i].page = tensor[t].pages[k \div PageSize + 1]
          /\ k % PageSize \in stream[i].slot..(stream[i].slot + stream[i].rows - 1)
      BY <1>5, <2>1, WriteOfRow
    <3> QED BY <1>7, <3>1
  <2>2. pageData[page][slot] = <<t, k>>
    BY <1>6, <1>9, <2>1 DEF RowReady
  <2>3. FinalRow(page, slot) = pageData[page][slot]
    BY <1>9 DEF FinalRow
  <2> QED BY <1>5, <2>2, <2>3
<1>10. CASE writes # {}
  <2>1. \E i \in writes : \A j \in writes : j <= i
    <3>1. writes \in SUBSET (1..Len(stream))
      BY <1>7
    <3> HIDE DEF writes
    <3> QED BY <1>7, <1>10, <3>1, LastPosition
  <2>2. PICK last : last = CHOOSE i \in writes : \A j \in writes : j <= i
    OBVIOUS
  <2>3. last \in writes
    <3> HIDE DEF writes
    <3> QED BY <2>1, <2>2
  <2>4. FinalRow(page, slot) =
          <<stream[last].t, stream[last].at + slot - stream[last].slot>>
    BY <1>10, <2>2 DEF FinalRow
  <2> QED BY <1>5, <1>8, <2>3, <2>4
<1> QED BY <1>9, <1>10

LEMMA ReadsCache == IInv => KernelReadsCache
<1> SUFFICES ASSUME IInv PROVE KernelReadsCache
  OBVIOUS
<1>1. TypeOK /\ DOMAIN stream = 1..Len(stream) /\ Len(stream) \in Nat
  BY DEF IInv, TypeOK
<1>2. ASSUME NEW i \in DOMAIN stream
      PROVE  /\ stream[i].op = "write" => poolLive /\ stream[i].page <= created
             /\ stream[i].op = "copy" => stream[i].host \in DOMAIN hostMem
             /\ stream[i].op # "write" =>
                  /\ stream[i].dev \in DOMAIN devMem
                  /\ \A j \in 1..(i - 1) : stream[j].op = "free" => stream[j].dev # stream[i].dev
  <2>1. PICK c \in Commands : c = stream[i]
    BY <1>1, CommandFields
  <2>2. CommandInv(i) /\ CommandTensor(c) \in Tensors
    BY <1>1, <2>1, CommandFields DEF IInv, StreamInv
  <2>3. poolLive
    BY <2>1, <2>2 DEF CommandInv, IInv, OwnersInv, PoolInv, TypeOK
  <2>4. c.op = "write" => c.page <= created
    <3> SUFFICES ASSUME c.op = "write" PROVE c.page <= created
      OBVIOUS
    <3>1. c \in WriteCommands /\ WriteInv(c) /\ Live(c.t) /\ c.t \in Tensors /\ c.at \in Nat
      BY <1>1, <2>1, <2>2, CommandFields DEF CommandInv, CommandTensor, WriteCommands
    <3>2. PICK q \in Nat : q = c.at \div PageSize
      BY <1>1, <3>1, PageSizeIs, PageNumber
    <3>3. Len(tensor[c.t].pages) \in Nat
      BY <1>1, <3>1, Fields
    <3>4. q + 1 \in 1..Len(tensor[c.t].pages) /\ c.page = tensor[c.t].pages[q + 1]
      BY <3>1, <3>2, <3>3 DEF WriteInv
    <3>5. c.page \in 1..created
      BY <3>1, <3>4 DEF IInv, OwnersInv, OwnerInv
    <3> QED BY <3>5
  <2> QED BY <2>1, <2>2, <2>3, <2>4 DEF CommandInv, CopyInv, TableInv
<1>3. MemoryOutlivesStream
  BY <1>2 DEF MemoryOutlivesStream
<1>4. ASSUME stream # <<>>, Head(stream).op = "attend"
      PROVE  \A k \in tensor[Head(stream).t].born..(Head(stream).length - 1) :
               LET page == devMem[Head(stream).dev][k \div PageSize + 1]
               IN  page # NoPage /\ pageData[page][k % PageSize] = <<Head(stream).t, k>>
  <2>1. 1 \in 1..Len(stream) /\ Head(stream) = stream[1]
    BY <1>1, <1>4
  <2>2. PICK c \in AttendCommands : c = stream[1]
    BY <1>1, <1>4, <2>1, CommandFields
  <2>3. CommandInv(1) /\ c.op = "attend"
    BY <2>1, <2>2 DEF IInv, StreamInv, AttendCommands
  <2>4. /\ AttendInv(1) /\ c.t \in Tensors /\ c.length \in Nat
        /\ c.dev[1] = c.t
    BY <2>2, <2>3 DEF CommandInv, AttendInv, AttendCommands
  <2>5. Live(c.t) /\ tensor[c.t].synced > 0
    BY <2>2, <2>3, <2>4 DEF CommandInv, CommandTensor
  <2>6. PICK t \in Tensors : t = c.t
    BY <2>4
  <2>7. tensor[t].born \in Nat /\ tensor[t].length \in Nat /\ c.length <= tensor[t].length
    BY <1>1, <2>2, <2>4, <2>6, Fields DEF AttendInv
  <2>8. ASSUME NEW k \in tensor[t].born..(c.length - 1)
        PROVE  /\ devMem[c.dev][k \div PageSize + 1] # NoPage
               /\ pageData[devMem[c.dev][k \div PageSize + 1]][k % PageSize] = <<t, k>>
    <3>1. RowReady(t, k, 1 - 1) /\ EntryReady(t, c.dev, k \div PageSize + 1, 1 - 1)
      BY <2>2, <2>4, <2>6 DEF AttendInv
    <3>2. ~\E i \in 1..(1 - 1) : TRUE
      OBVIOUS
    <3>3. /\ pageData[tensor[t].pages[k \div PageSize + 1]][k % PageSize] = <<t, k>>
          /\ devMem[c.dev][k \div PageSize + 1] = tensor[t].pages[k \div PageSize + 1]
      BY <3>1, <3>2 DEF RowReady, EntryReady
    <3>4. k \in 0..(tensor[t].length - 1)
      BY <2>4, <2>7
    <3>5. k \div PageSize + 1 \in 1..Len(tensor[t].pages)
      BY <2>5, <2>6, <3>4, RowsHavePages
    <3>6. tensor[t].pages[k \div PageSize + 1] \in 1..created
      BY <2>5, <2>6, <3>5 DEF IInv, OwnersInv, OwnerInv
    <3>7. tensor[t].pages[k \div PageSize + 1] # NoPage
      BY <3>6 DEF NoPage
    <3> QED BY <3>3, <3>7
  <2> QED BY <2>1, <2>2, <2>6, <2>8
<1> QED BY <1>3, <1>4 DEF KernelReadsCache

-----------------------------------------------------------------------------
(* Pages that are in use stay in use *)

\* A pool that is gone has no free pages.
EmptyPool == ~poolLive => freePages = <<>>

LEMMA EmptyInit == Init => EmptyPool
BY DEF Init, EmptyPool

LEMMA EmptyKept == IInv /\ EmptyPool /\ [Next]_vars => EmptyPool'
<1> SUFFICES ASSUME IInv, EmptyPool, [Next]_vars PROVE EmptyPool'
  OBVIOUS
<1>1. \A t \in Tensors : Live(t) => poolLive
  BY DEF IInv, OwnersInv, PoolInv, TypeOK
<1>2. CASE CreatePool \/ DestroyPool
  BY <1>2 DEF CreatePool, DestroyPool, EmptyPool
<1>3. ASSUME NEW t \in Tensors, DeallocPaged(t) PROVE EmptyPool'
  BY <1>1, <1>3 DEF DeallocPaged, EmptyPool
<1>4. CASE ReservePage
  <2>1. poolLive
    BY <1>1, <1>4, CallFields DEF IInv, ReservePage, OwnersInv, CallerInv
  <2> QED BY <1>4, <2>1 DEF ReservePage, EmptyPool
<1>5. CASE UNCHANGED poolVars
  BY <1>5 DEF poolVars, EmptyPool
<1>6. UNCHANGED poolVars \/ CreatePool \/ DestroyPool \/ ReservePage
      \/ \E t \in Tensors : DeallocPaged(t)
  BY DEF Next, vars, poolVars, CallAlloc, CallReserve, CallAppend, CallAttend, Reserved,
         PoolExhausted, CudaFails, TableIsCurrent, FillHostTable, UpdateDeviceTable,
         OldTableNotFreed, CopyRows, AppendDone, Launch, Return, DeviceStep
<1> QED BY <1>2, <1>3, <1>4, <1>5, <1>6

LEMMA InCirculation ==
    ASSUME NEW x
    PROVE  x \in Owned \cup ToSet(freePages) <=>
             \/ \E i \in DOMAIN freePages : freePages[i] = x
             \/ \E t \in Tensors : Live(t) /\ \E i \in DOMAIN tensor[t].pages : tensor[t].pages[i] = x
BY DEF Owned, ToSet, LiveTensors

LEMMA InCirculationNext ==
    ASSUME NEW x
    PROVE  x \in Owned' \cup ToSet(freePages') <=>
             \/ \E i \in DOMAIN freePages' : freePages'[i] = x
             \/ \E t \in Tensors :
                  Live(t)' /\ \E i \in DOMAIN tensor'[t].pages : tensor'[t].pages[i] = x
BY DEF Owned, ToSet, LiveTensors

\* No owner loses a page, and neither does the free stack.
LEMMA OwnersGrow ==
    ASSUME \A t \in Tensors : Live(t) =>
              /\ Live(t)'
              /\ \A i \in DOMAIN tensor[t].pages :
                    i \in DOMAIN tensor'[t].pages /\ tensor'[t].pages[i] = tensor[t].pages[i],
           \A i \in DOMAIN freePages : freePages[i] \in Owned' \cup ToSet(freePages')
    PROVE  Owned \cup ToSet(freePages) \subseteq Owned' \cup ToSet(freePages')
<1> SUFFICES ASSUME NEW x \in Owned \cup ToSet(freePages)
             PROVE  x \in Owned' \cup ToSet(freePages')
  OBVIOUS
<1>1. CASE \E i \in DOMAIN freePages : freePages[i] = x
  BY <1>1
<1>2. ASSUME NEW t \in Tensors, Live(t), NEW i \in DOMAIN tensor[t].pages,
             tensor[t].pages[i] = x
      PROVE  x \in Owned' \cup ToSet(freePages')
  BY <1>2, InCirculationNext
<1> QED BY <1>1, <1>2, InCirculation

LEMMA FreeSame ==
    ASSUME freePages' = freePages
    PROVE  \A i \in DOMAIN freePages : freePages[i] \in Owned' \cup ToSet(freePages')
BY DEF ToSet

\* A step that changes only fields of tensors other than state and pages.
LEMMA SameOwners ==
    ASSUME freePages' = freePages,
           \A t \in Tensors : tensor'[t].state = tensor[t].state
                              /\ tensor'[t].pages = tensor[t].pages
    PROVE  Owned \cup ToSet(freePages) \subseteq Owned' \cup ToSet(freePages')
BY OwnersGrow, FreeSame DEF Live

LEMMA FieldsOnly ==
    ASSUME IInv, \/ FillHostTable \/ UpdateDeviceTable \/ OldTableNotFreed \/ AppendDone
    PROVE  /\ freePages' = freePages
           /\ \A t \in Tensors : tensor'[t].state = tensor[t].state
                                 /\ tensor'[t].pages = tensor[t].pages
<1>1. /\ call # NoCall /\ freePages' = freePages
      /\ tensor \in [Tensors -> TensorRecords]
  BY DEF FillHostTable, UpdateDeviceTable, OldTableNotFreed, AppendDone, poolVars, IInv, TypeOK
<1>2. PICK me \in Tensors : me = call.t
  BY <1>1, CallFields DEF IInv
<1>3. PICK old \in TensorRecords : old = tensor[me]
  BY <1>1
<1>4. CASE FillHostTable
  <2>1. PICK a, b, c : tensor' = [tensor EXCEPT ![me].host = a, ![me].hostCap = b, ![me].retired = c]
    BY <1>2, <1>4 DEF FillHostTable
  <2> QED BY <1>1, <1>3, <2>1 DEF TensorRecords
<1>5. CASE UpdateDeviceTable
  <2>1. PICK a, b, c, d : tensor' = [tensor EXCEPT ![me].dev = a, ![me].devMade = b,
                                                   ![me].devCap = c, ![me].synced = d]
    BY <1>2, <1>5 DEF UpdateDeviceTable
  <2> QED BY <1>1, <1>3, <2>1 DEF TensorRecords
<1>6. CASE OldTableNotFreed
  <2>1. PICK a : tensor' = [tensor EXCEPT ![me].devMade = a]
    BY <1>2, <1>6 DEF OldTableNotFreed
  <2> QED BY <1>1, <1>3, <2>1 DEF TensorRecords
<1>7. CASE AppendDone
  <2>1. PICK a : tensor' = [tensor EXCEPT ![me].length = a]
    BY <1>2, <1>7 DEF AppendDone
  <2> QED BY <1>1, <1>3, <2>1 DEF TensorRecords
<1> QED BY <1>4, <1>5, <1>6, <1>7

\* The action of NoPageLost.
PagesKept ==
    \/ Owned \cup ToSet(freePages) \subseteq Owned' \cup ToSet(freePages')
    \/ ~poolLive'
    \/ (call # NoCall /\ call.op = "alloc" /\ call' = NoCall /\ call.phase # "finish")

LEMMA AbandonKeeps ==
    ASSUME Abandon, UNCHANGED poolVars, call # NoCall, call.phase # "finish"
    PROVE  PagesKept
<1>1. CASE call.op = "alloc"
  BY <1>1 DEF Abandon, PagesKept
<1>2. CASE call.op # "alloc"
  <2>1. freePages' = freePages /\ tensor' = tensor
    BY <1>2 DEF Abandon, poolVars
  <2> QED BY <2>1, SameOwners DEF PagesKept
<1> QED BY <1>1, <1>2

LEMMA ReserveKeeps == ASSUME IInv, ReservePage PROVE PagesKept
<1>1. /\ TypeOK /\ call # NoCall /\ call.t \in Tensors /\ Live(call.t) /\ CanTakePage
  BY CallFields DEF IInv, ReservePage, OwnersInv, CallerInv
<1>2. PICK me \in Tensors : me = call.t
  BY <1>1
<1>3. PICK new \in Nat : new = TakenPage
  BY <1>1, TakenPageIs DEF TypeOK
<1>4. PICK pages \in Seq(Nat) : pages = tensor[me].pages
  BY <1>1, Fields
<1>5. PICK more \in Seq(Nat) : more = Append(pages, new)
  <2>1. Append(pages, new) \in Seq(Nat)
    OBVIOUS
  <2> QED BY <2>1, Zenon
<1>6. /\ Len(pages) \in Nat /\ DOMAIN pages = 1..Len(pages)
      /\ Len(more) = Len(pages) + 1 /\ DOMAIN more = 1..(Len(pages) + 1)
      /\ \A i \in 1..Len(pages) : more[i] = pages[i]
      /\ more[Len(pages) + 1] = new
  BY <1>5
<1>7. /\ \A t \in Tensors \ {me} : tensor'[t] = tensor[t]
      /\ tensor'[me].state = tensor[me].state /\ tensor'[me].pages = more
  <2>1. tensor' = [tensor EXCEPT ![me].pages = more]
    BY <1>2, <1>3, <1>4, <1>5 DEF ReservePage
  <2>2. tensor \in [Tensors -> TensorRecords]
    BY <1>1 DEF TypeOK
  <2> QED BY <2>1, <2>2 DEF TensorRecords
<1>8. Live(me)' /\ \A t \in Tensors : Live(t) => Live(t)'
  BY <1>1, <1>2, <1>7 DEF Live
<1>9. \A t \in Tensors : Live(t) =>
        \A i \in DOMAIN tensor[t].pages :
           i \in DOMAIN tensor'[t].pages /\ tensor'[t].pages[i] = tensor[t].pages[i]
  <2>1. \A i \in DOMAIN pages : i \in DOMAIN more /\ more[i] = pages[i]
    BY <1>6
  <2>2. \A i \in DOMAIN tensor[me].pages :
           i \in DOMAIN tensor'[me].pages /\ tensor'[me].pages[i] = tensor[me].pages[i]
    BY <1>4, <1>7, <2>1
  <2>3. \A t \in Tensors \ {me} : tensor'[t].pages = tensor[t].pages
    BY <1>7
  <2> QED BY <2>2, <2>3
<1>10. new \in Owned' \cup ToSet(freePages')
  <2>1. Len(pages) + 1 \in DOMAIN more
    BY <1>6
  <2>2. Live(me)' /\ Len(pages) + 1 \in DOMAIN tensor'[me].pages
        /\ tensor'[me].pages[Len(pages) + 1] = new
    BY <1>6, <1>7, <1>8, <2>1
  <2> QED BY <2>2, InCirculationNext
<1>11. ASSUME NEW i \in DOMAIN freePages PROVE freePages[i] \in Owned' \cup ToSet(freePages')
  <2>1. freePages \in Seq(Nat) /\ freePages # <<>> /\ Len(freePages) \in Nat
        /\ DOMAIN freePages = 1..Len(freePages)
    BY <1>1 DEF TypeOK
  <2>2. freePages' = SubSeq(freePages, 1, Len(freePages) - 1) /\ new = freePages[Len(freePages)]
    BY <1>3, <2>1 DEF ReservePage, Front, TakenPage, Last
  <2>3. CASE i = Len(freePages)
    BY <1>10, <2>2, <2>3
  <2>4. CASE i # Len(freePages)
    <3>1. PICK n \in Nat : n = Len(freePages) - 1
      <4>1. Len(freePages) > 0
        BY <2>1
      <4>2. Len(freePages) - 1 \in Nat
        BY <2>1, <4>1
      <4> QED BY <4>2
    <3>2. i \in 1..n /\ n <= Len(freePages)
      BY <2>1, <2>4, <3>1
    <3>3. freePages' = SubSeq(freePages, 1, n) /\ DOMAIN freePages' = 1..n
          /\ freePages'[i] = freePages[i]
      BY <2>1, <2>2, <3>1, <3>2, FirstEntries
    <3> QED BY <3>2, <3>3, InCirculationNext
  <2> QED BY <2>3, <2>4
<1> QED BY <1>8, <1>9, <1>11, OwnersGrow DEF PagesKept

LEMMA DeallocKeeps == ASSUME IInv, NEW me \in Tensors, DeallocPaged(me) PROVE PagesKept
<1>1. PICK pages \in Seq(Nat) : pages = tensor[me].pages
  BY Fields DEF IInv
<1>2. PICK free \in Seq(Nat) : free = freePages
  BY DEF IInv, TypeOK
<1>3. freePages' = free \o pages
  BY <1>1, <1>2 DEF DeallocPaged, ReturnedPages
<1>4. /\ Len(free) \in Nat /\ Len(pages) \in Nat
      /\ DOMAIN free = 1..Len(free) /\ DOMAIN pages = 1..Len(pages)
      /\ DOMAIN (free \o pages) = 1..(Len(free) + Len(pages))
      /\ \A i \in 1..Len(free) : (free \o pages)[i] = free[i]
      /\ \A i \in 1..Len(pages) : (free \o pages)[Len(free) + i] = pages[i]
  OBVIOUS
<1>5. \A t \in Tensors \ {me} : tensor'[t] = tensor[t] /\ Live(t)' = Live(t)
  BY DEF DeallocPaged, IInv, TypeOK, Live
<1>6. ASSUME NEW x \in Owned \cup ToSet(freePages)
      PROVE  x \in Owned' \cup ToSet(freePages')
  <2>1. CASE \E i \in DOMAIN freePages : freePages[i] = x
    <3>1. PICK i \in 1..Len(free) : free[i] = x
      BY <1>2, <1>4, <2>1
    <3>2. i \in DOMAIN freePages' /\ freePages'[i] = x
      BY <1>3, <1>4, <3>1
    <3> QED BY <3>2, InCirculationNext
  <2>2. CASE \E i \in DOMAIN tensor[me].pages : tensor[me].pages[i] = x
    <3>1. PICK i \in 1..Len(pages) : pages[i] = x
      BY <1>1, <1>4, <2>2
    <3>2. Len(free) + i \in DOMAIN freePages' /\ freePages'[Len(free) + i] = x
      BY <1>3, <1>4, <3>1
    <3> QED BY <3>2, InCirculationNext
  <2>3. ASSUME NEW t \in Tensors \ {me}, Live(t), NEW i \in DOMAIN tensor[t].pages,
               tensor[t].pages[i] = x
        PROVE  x \in Owned' \cup ToSet(freePages')
    BY <1>5, <2>3, InCirculationNext
  <2> QED BY <2>1, <2>2, <2>3, InCirculation
<1> QED BY <1>6 DEF PagesKept

LEMMA NoneLost == IInv /\ EmptyPool /\ [Next]_vars => PagesKept
<1> SUFFICES ASSUME IInv, EmptyPool, [Next]_vars PROVE PagesKept
  OBVIOUS
<1>1. CASE CreatePool
  <2>1. freePages = <<>> /\ \A t \in Tensors : ~Live(t)
    BY <1>1 DEF CreatePool, EmptyPool, IInv, OwnersInv, PoolInv
  <2> QED BY <2>1, OwnersGrow DEF PagesKept
<1>2. CASE DestroyPool
  BY <1>2 DEF DestroyPool, PagesKept
<1>3. ASSUME NEW grow \in desc.growLengths, CallAlloc(grow) PROVE PagesKept
  <2>1. PICK id \in Tensors :
         /\ tensor[id].state = "unborn"
         /\ tensor' = [tensor EXCEPT ![id] =
                         [Unborn EXCEPT !.state = "live", !.born = grow, !.length = grow]]
    BY <1>3, NextId DEF CallAlloc
  <2>2. \A t \in Tensors : Live(t) => tensor'[t] = tensor[t]
    BY <2>1 DEF Live, IInv, TypeOK
  <2>3. freePages' = freePages
    BY <1>3 DEF CallAlloc, poolVars
  <2> QED BY <2>2, <2>3, OwnersGrow, FreeSame DEF PagesKept, Live
<1>4. ASSUME NEW t \in Tensors, DeallocPaged(t) PROVE PagesKept
  BY <1>4, DeallocKeeps
<1>5. CASE ReservePage
  BY <1>5, ReserveKeeps
<1>6. CASE PoolExhausted \/ CudaFails
  BY <1>6, AbandonKeeps DEF PoolExhausted, CudaFails
<1>7. CASE \/ FillHostTable \/ UpdateDeviceTable \/ OldTableNotFreed \/ AppendDone
  BY <1>7, FieldsOnly, SameOwners DEF PagesKept
<1>8. CASE UNCHANGED <<poolVars, tensor>>
  BY <1>8, SameOwners DEF PagesKept, poolVars
<1>9. \/ CreatePool \/ DestroyPool \/ ReservePage \/ PoolExhausted \/ CudaFails
      \/ FillHostTable \/ UpdateDeviceTable \/ OldTableNotFreed \/ AppendDone
      \/ \E grow \in desc.growLengths : CallAlloc(grow)
      \/ \E t \in Tensors : DeallocPaged(t)
      \/ UNCHANGED <<poolVars, tensor>>
  BY DEF Next, vars, poolVars, CallReserve, CallAppend, CallAttend, Reserved,
         TableIsCurrent, CopyRows, Launch, Return, DeviceStep
<1> QED BY <1>1, <1>2, <1>3, <1>4, <1>5, <1>6, <1>7, <1>8, <1>9

-----------------------------------------------------------------------------
(* Theorems *)

LEMMA Inductive == Spec => []IInv
<1> QED BY InitHolds, NextKeeps, PTL DEF Spec

LEMMA AlwaysEmpty == Spec => []EmptyPool
<1> QED BY Inductive, EmptyInit, EmptyKept, PTL DEF Spec

\* Whatever the pools, the sizes and the interleaving of the host thread with
\* the stream: a page of CudaPagedPool is in the free stack once or in one
\* tensor once, and the pool never makes more than its capacity.
THEOREM PagesHaveOneOwner == Spec => []PagesOwnedOnce
<1> QED BY Inductive, OwnedOnce, PTL

\* Every row that appendPaged stored in a tensor that lives is in the slot
\* its position names once the stream has run, whatever was appended,
\* reserved, freed or failed since.
THEOREM RowsAreKept == Spec => []RowsRetained
<1> QED BY Inductive, RowsStay, PTL

\* Every command finds its memory when the stream reaches it, and a kernel
\* reads, through the table it was launched with, each row of its cache.
THEOREM KernelsReadTheirCache == Spec => []KernelReadsCache
<1> QED BY Inductive, ReadsCache, PTL

\* Only an allocPaged that fails part way, or the end of the pool, takes
\* pages out of circulation.
THEOREM PagesStay == Spec => NoPageLost
<1>1. IInv /\ EmptyPool /\ [Next]_vars =>
        [ Owned \cup ToSet(freePages) \subseteq Owned' \cup ToSet(freePages')
          \/ ~poolLive'
          \/ (call # NoCall /\ call.op = "alloc" /\ call' = NoCall /\ call.phase # "finish") ]_vars
  BY NoneLost DEF PagesKept
<1> QED BY <1>1, Inductive, AlwaysEmpty, PTL DEF Spec, NoPageLost
=============================================================================
