----------------------------- MODULE PagedCache -----------------------------
(***************************************************************************)
(* The paged key/value cache of the CUDA device: a pool of equally sized   *)
(* pages, the tensors that own pages of it, and the page table each tensor *)
(* keeps twice, in pinned host memory and in device memory.                *)
(*                                                                         *)
(* Two actors share this state.  The host thread runs the calls of the     *)
(* Device interface; every CUDA command it issues goes to one stream and   *)
(* runs later, when the device reaches it.  So a host table handed to an   *)
(* asynchronous copy, a device table handed to a kernel and a page handed  *)
(* to a row copy must all outlive the call that used them.                 *)
(*                                                                         *)
(* A row of a cache is one position of its grow dimension: the row a       *)
(* tensor t appends at position k is written <<t, k>>.  A page holds       *)
(* PageSize rows.  Pages, positions in tables and tensors count from 1.    *)
(***************************************************************************)
EXTENDS Integers, FiniteSets, SequencesExt

CONSTANTS
    Descs,       \* PagedPoolDescs, each with the bounds it is tried with:
                 \*   maxPages, pageSize, initialPages
                 \*   growLengths: grow lengths a tensor is allocated with
                 \*   reserves: page counts reservePaged may be asked for
                 \*   maxPending: commands waiting in the stream
    MaxTensors,  \* bound: tensor ids handed out
    Chunks,      \* rows an append may bring
    MaxLength,   \* bound: rows of a tensor
    MaxFaults    \* bound: CUDA calls that fail

ASSUME PagedAssumption ==
    /\ \A d \in Descs :
          /\ d.maxPages \in Nat \ {0} /\ d.pageSize \in Nat \ {0} /\ d.initialPages \in Nat
          /\ d.growLengths \subseteq Nat /\ d.reserves \subseteq Nat /\ d.maxPending \in Nat
    /\ MaxTensors \in Nat
    /\ Chunks \subseteq Nat \ {0}
    /\ MaxLength \in Nat
    /\ MaxFaults \in Nat

VARIABLES
    desc,       \* the description of the pool
    poolLive,   \* the pool is in pagedPools_
    created,    \* pages_.size()
    freePages,  \* freePages_, a stack
    tensor,     \* pagedTensors_, by tensor id
    hostMem,    \* host page tables that are allocated, by table
    devMem,     \* device page tables that are allocated, by table
    stream,     \* commands issued and not yet executed
    pageData,   \* the rows in every page
    call,       \* the call the host thread is in
    faults      \* CUDA failures so far

poolVars == <<desc, poolLive, created, freePages>>
tableVars == <<hostMem, devMem>>
vars == <<desc, poolLive, created, freePages, tensor, hostMem, devMem, stream,
          pageData, call, faults>>

PageSize == desc.pageSize
Tensors == 1..MaxTensors
Pages == 1..desc.maxPages
NoPage == 0
NoRow == <<0, 0>>
NoCall == [op |-> "none"]
EmptyPage == [slot \in 0..(PageSize - 1) |-> NoRow]

Bigger(a, b) == IF a > b THEN a ELSE b
CeilDiv(n, d) == (n + d - 1) \div d

Unborn == [state |-> "unborn", born |-> 0, length |-> 0, pages |-> <<>>,
           synced |-> 0, host |-> 0, hostCap |-> 0, dev |-> 0, devCap |-> 0,
           devMade |-> 0, retired |-> {}]

Live(t) == tensor[t].state = "live"
LiveTensors == {t \in Tensors : Live(t)}
Owned == UNION {ToSet(tensor[t].pages) : t \in LiveTensors}

\* A table of t is <<t, n>>: the n-th one allocated for it.
Without(mem, tables) == [table \in DOMAIN mem \ tables |-> mem[table]]
With(mem, table, entries) ==
    [x \in DOMAIN mem \cup {table} |-> IF x = table THEN entries ELSE mem[x]]
TablesOf(mem, t) == {table \in DOMAIN mem : table[1] = t}

Init ==
    /\ desc \in Descs
    /\ poolLive = FALSE
    /\ created = 0
    /\ freePages = <<>>
    /\ tensor = [t \in Tensors |-> Unborn]
    /\ hostMem = <<>>
    /\ devMem = <<>>
    /\ stream = <<>>
    /\ pageData = [p \in Pages |-> EmptyPage]
    /\ call = NoCall
    /\ faults = 0

-----------------------------------------------------------------------------
(* The pool *)

\* initialize: every turn of the loop takes a page and puts it back, so the
\* second turn takes the page the first one made and one page is made in all.
CreatePool ==
    /\ call = NoCall
    /\ ~poolLive
    /\ poolLive' = TRUE
    /\ created' = IF desc.initialPages > 0 THEN 1 ELSE 0
    /\ freePages' = IF desc.initialPages > 0 THEN <<1>> ELSE <<>>
    /\ pageData' = [p \in Pages |-> EmptyPage]
    /\ UNCHANGED <<desc, tensor, tableVars, stream, call, faults>>

\* Refused while a tensor lives; waits for the stream, then frees every page.
DestroyPool ==
    /\ call = NoCall
    /\ poolLive
    /\ LiveTensors = {}
    /\ stream = <<>>
    /\ poolLive' = FALSE
    /\ created' = 0
    /\ freePages' = <<>>
    /\ UNCHANGED <<desc, tensor, tableVars, stream, pageData, call, faults>>

\* allocate_page: the page freed last, else a new one.
TakenPage_Peeks == IF freePages # <<>> THEN Head(freePages) ELSE created + 1
TakenPage == IF freePages # <<>> THEN Last(freePages) ELSE created + 1
CanTakePage == freePages # <<>> \/ created < desc.maxPages

-----------------------------------------------------------------------------
(* Calls of the host thread *)

\* Only engine runs and sessions call in, one at a time, with a tensor that
\* is alive; a call with an unknown id returns an error and changes nothing.
CallAlloc(grow) ==
    LET id == Cardinality({t \in Tensors : tensor[t].state # "unborn"}) + 1
    IN  /\ call = NoCall
        /\ poolLive
        /\ id \in Tensors
        /\ tensor' = [tensor EXCEPT ![id] =
                         [Unborn EXCEPT !.state = "live", !.born = grow, !.length = grow]]
        /\ call' = [op |-> "alloc", t |-> id, phase |-> "reserve",
                    pages |-> CeilDiv(grow, PageSize)]
        /\ UNCHANGED <<poolVars, tableVars, stream, pageData, faults>>

CallReserve(t, count) ==
    /\ call = NoCall
    /\ Live(t)
    /\ call' = [op |-> "reserve", t |-> t, phase |-> "reserve", pages |-> count]
    /\ UNCHANGED <<poolVars, tensor, tableVars, stream, pageData, faults>>

\* plan_paged_append: the pages the tensor needs once the chunk is in.
CallAppend(t, chunk, source) ==
    /\ call = NoCall
    /\ Live(t)
    /\ tensor[t].length + chunk <= MaxLength
    /\ call' = [op |-> "append", t |-> t, phase |-> "reserve",
                pages |-> CeilDiv(tensor[t].length + chunk, PageSize),
                chunk |-> chunk, done |-> 0, source |-> source]
    /\ UNCHANGED <<poolVars, tensor, tableVars, stream, pageData, faults>>

\* A kernel with a paged input: the table is brought up to date before the
\* launch.  Kernels only read a cache something was appended to.
CallAttend(t) ==
    /\ call = NoCall
    /\ Live(t)
    /\ tensor[t].length > 0
    /\ call' = [op |-> "attend", t |-> t, phase |-> "host"]
    /\ UNCHANGED <<poolVars, tensor, tableVars, stream, pageData, faults>>

ReservePage ==
    /\ call # NoCall /\ call.phase = "reserve"
    /\ Len(tensor[call.t].pages) < call.pages
    /\ CanTakePage
    /\ tensor' = [tensor EXCEPT ![call.t].pages = Append(@, TakenPage)]
    /\ IF freePages # <<>>
       THEN freePages' = Front(freePages) /\ UNCHANGED created
       ELSE created' = created + 1 /\ UNCHANGED freePages
    /\ UNCHANGED <<desc, poolLive, tableVars, stream, pageData, call, faults>>

Reserved ==
    /\ call # NoCall /\ call.phase = "reserve"
    /\ Len(tensor[call.t].pages) >= call.pages
    /\ call' = [call EXCEPT !.phase = "host"]
    /\ UNCHANGED <<poolVars, tensor, tableVars, stream, pageData, faults>>

\* What is left of the state when a call returns an error: allocPaged erases
\* the tensor it was making, whose destructor frees its tables and not its
\* pages; the other calls leave the tensor as it is.
Abandon ==
    /\ call' = NoCall
    /\ IF call.op = "alloc"
       THEN /\ tensor' = [tensor EXCEPT ![call.t] = [Unborn EXCEPT !.state = "dead"]]
            /\ hostMem' = Without(hostMem, TablesOf(hostMem, call.t))
            /\ devMem' = Without(devMem, {<<call.t, tensor[call.t].dev>>})
       ELSE UNCHANGED <<tensor, tableVars>>

PoolExhausted ==
    /\ call # NoCall /\ call.phase = "reserve"
    /\ Len(tensor[call.t].pages) < call.pages
    /\ ~CanTakePage
    /\ Abandon
    /\ UNCHANGED <<poolVars, stream, pageData, faults>>

\* Any CUDA call before the last step of a call may fail without effect:
\* a page, a table or a copy is refused.
CudaFails ==
    /\ call # NoCall /\ call.phase \in {"reserve", "host", "device", "copy"}
    /\ faults < MaxFaults
    /\ faults' = faults + 1
    /\ Abandon
    /\ UNCHANGED <<poolVars, stream, pageData>>

-----------------------------------------------------------------------------
(* sync_page_table *)

AfterSync == IF call.op = "append" THEN "copy" ELSE "finish"
GrownCapacity(count, capacity) == Bigger(count, Bigger(1, 2 * capacity))
Stale(t) == Len(tensor[t].pages) > tensor[t].synced

TableIsCurrent ==
    /\ call # NoCall /\ call.phase = "host"
    /\ ~Stale(call.t)
    /\ call' = [call EXCEPT !.phase = AfterSync]
    /\ UNCHANGED <<poolVars, tensor, tableVars, stream, pageData, faults>>

\* The host tables that may still be read by a copy in the stream are
\* retired, and live until the tensor is deallocated.
RetireHostTable_Never(old) == FALSE
RetireHostTable(old) == old.synced > 0

\* Lines 370-404: grow the host table if the pages do not fit in it, keep the
\* entries already copied, and write the addresses of the new pages.
FillHostTable ==
    LET t == call.t
        old == tensor[t]
        count == Len(old.pages)
        grows == count > old.hostCap
        drop == grows /\ old.host > 0 /\ ~RetireHostTable(old)
        kept == IF old.host = 0 THEN <<>> ELSE SubSeq(hostMem[<<t, old.host>>], 1, old.synced)
        table == IF grows THEN old.host + 1 ELSE old.host
    IN  /\ call # NoCall /\ call.phase = "host"
        /\ Stale(t)
        /\ hostMem' = With(Without(hostMem, IF drop THEN {<<t, old.host>>} ELSE {}),
                           <<t, table>>, kept \o SubSeq(old.pages, old.synced + 1, count))
        /\ tensor' = [tensor EXCEPT
               ![t].host = table,
               ![t].hostCap = IF grows THEN GrownCapacity(count, old.hostCap) ELSE @,
               ![t].retired = IF grows /\ old.host > 0 /\ ~drop THEN @ \cup {old.host} ELSE @]
        /\ call' = [call EXCEPT !.phase = "device"]
        /\ UNCHANGED <<poolVars, devMem, stream, pageData, faults>>

CopyTable(t, from, to, first, last) ==
    [op |-> "copy", host |-> <<t, from>>, dev |-> <<t, to>>, first |-> first, last |-> last]
FreeTable(t, table) == [op |-> "free", dev |-> <<t, table>>]

Issue(commands) ==
    /\ Len(stream) + Len(commands) <= desc.maxPending
    /\ stream' = stream \o commands

\* Lines 406-459.  A device table too small for the pages is replaced by one
\* filled from the start; the old one is freed in stream order, after the
\* kernels that still read it.  Otherwise only the new entries are copied.
FirstEntryToCopy_Skips(old) == old.synced + 2
FirstEntryToCopy(old) == old.synced + 1

UpdateDeviceTable ==
    LET t == call.t
        old == tensor[t]
        count == Len(old.pages)
        grows == count > old.devCap
        capacity == GrownCapacity(count, old.devCap)
        table == IF grows THEN old.devMade + 1 ELSE old.dev
        first == IF grows THEN 1 ELSE FirstEntryToCopy(old)
    IN  /\ call # NoCall /\ call.phase = "device"
        /\ Issue(<<CopyTable(t, old.host, table, first, count)>>
                 \o (IF grows /\ old.dev > 0 THEN <<FreeTable(t, old.dev)>> ELSE <<>>))
        /\ devMem' = IF grows THEN With(devMem, <<t, table>>, [k \in 1..capacity |-> NoPage])
                              ELSE devMem
        /\ tensor' = [tensor EXCEPT ![t].dev = table,
                                    ![t].devMade = Bigger(@, table),
                                    ![t].devCap = IF grows THEN capacity ELSE @,
                                    ![t].synced = count]
        /\ call' = [call EXCEPT !.phase = AfterSync]
        /\ UNCHANGED <<poolVars, hostMem, pageData, faults>>

\* The new table is filled and the stream-ordered free of the old one fails:
\* the call returns, the new table is forgotten and the old one stays in use.
OldTableNotFreed ==
    LET t == call.t
        old == tensor[t]
        count == Len(old.pages)
        table == old.devMade + 1
    IN  /\ call # NoCall /\ call.phase = "device"
        /\ old.dev > 0 /\ count > old.devCap
        /\ faults < MaxFaults
        /\ faults' = faults + 1
        /\ Issue(<<CopyTable(t, old.host, table, 1, count)>>)
        /\ devMem' = With(devMem, <<t, table>>,
                          [k \in 1..GrownCapacity(count, old.devCap) |-> NoPage])
        /\ tensor' = [tensor EXCEPT ![t].devMade = table]
        /\ call' = NoCall
        /\ UNCHANGED <<poolVars, hostMem, pageData>>

-----------------------------------------------------------------------------
(* Rows, launches and deallocation *)

\* One copy per page the chunk touches; the host-memory overload copies one
\* row at a time.
CopyRows ==
    LET t == call.t
        at == tensor[t].length + call.done
        slot == at % PageSize
        left == call.chunk - call.done
        fits == IF left < PageSize - slot THEN left ELSE PageSize - slot
        rows == IF call.source = "host" THEN 1 ELSE fits
    IN  /\ call # NoCall /\ call.phase = "copy"
        /\ Issue(<<[op |-> "write", t |-> t, page |-> tensor[t].pages[at \div PageSize + 1],
                    slot |-> slot, at |-> at, rows |-> rows]>>)
        /\ call' = [call EXCEPT !.done = @ + rows,
                                !.phase = IF call.done + rows = call.chunk
                                          THEN "finish" ELSE @]
        /\ UNCHANGED <<poolVars, tensor, tableVars, pageData, faults>>

\* The length grows last; the host-memory overload first waits for the
\* stream, since the caller may reuse the source.
AppendDone ==
    /\ call # NoCall /\ call.op = "append" /\ call.phase = "finish"
    /\ call.source = "host" => stream = <<>>
    /\ tensor' = [tensor EXCEPT ![call.t].length = @ + call.chunk]
    /\ call' = NoCall
    /\ UNCHANGED <<poolVars, tableVars, stream, pageData, faults>>

\* run_current: the kernel is given the device table and the length of now.
Launch ==
    /\ call # NoCall /\ call.op = "attend" /\ call.phase = "finish"
    /\ Issue(<<[op |-> "attend", t |-> call.t, length |-> tensor[call.t].length,
                dev |-> <<call.t, tensor[call.t].dev>>]>>)
    /\ call' = NoCall
    /\ UNCHANGED <<poolVars, tensor, tableVars, pageData, faults>>

Return ==
    /\ call # NoCall /\ call.op \in {"alloc", "reserve"} /\ call.phase = "finish"
    /\ call' = NoCall
    /\ UNCHANGED <<poolVars, tensor, tableVars, stream, pageData, faults>>

\* deallocPaged waits for the stream, gives the pages back and erases the
\* tensor, whose destructor frees the tables it knows of.
Quiet == stream = <<>>

ReturnedPages_ByLength(t) == SubSeq(tensor[t].pages, 1, CeilDiv(tensor[t].length, PageSize))
ReturnedPages(t) == tensor[t].pages

DeallocPaged(t) ==
    /\ call = NoCall
    /\ Live(t)
    /\ Quiet
    /\ freePages' = freePages \o ReturnedPages(t)
    /\ tensor' = [tensor EXCEPT ![t] = [Unborn EXCEPT !.state = "dead"]]
    /\ hostMem' = Without(hostMem, {<<t, n>> : n \in tensor[t].retired \cup {tensor[t].host}})
    /\ devMem' = Without(devMem, {<<t, tensor[t].dev>>})
    /\ UNCHANGED <<desc, poolLive, created, stream, pageData, call, faults>>

-----------------------------------------------------------------------------
(* The device, external: it runs the commands of the stream in order *)

\* A command whose memory is gone does nothing a reader could rely on.
Reaches(c) == c.dev \in DOMAIN devMem /\ c.host \in DOMAIN hostMem

Copied(c) ==
    [k \in DOMAIN devMem[c.dev] |->
        IF k \in c.first..c.last THEN hostMem[c.host][k] ELSE devMem[c.dev][k]]

Written(c) ==
    [slot \in 0..(PageSize - 1) |->
        IF slot \in c.slot..(c.slot + c.rows - 1) THEN <<c.t, c.at + slot - c.slot>>
                                                  ELSE pageData[c.page][slot]]

DeviceStep ==
    LET c == Head(stream)
    IN  /\ stream # <<>>
        /\ stream' = Tail(stream)
        /\ devMem' = CASE c.op = "copy" /\ Reaches(c) -> With(devMem, c.dev, Copied(c))
                       [] c.op = "free" -> Without(devMem, {c.dev})
                       [] OTHER -> devMem
        /\ pageData' = IF c.op = "write" THEN [pageData EXCEPT ![c.page] = Written(c)]
                                         ELSE pageData
        /\ UNCHANGED <<poolVars, tensor, hostMem, call, faults>>

Next ==
    \/ CreatePool
    \/ DestroyPool
    \/ \E grow \in desc.growLengths : CallAlloc(grow)
    \/ \E t \in Tensors :
          \/ \E count \in desc.reserves : CallReserve(t, count)
          \/ \E chunk \in Chunks, source \in {"host", "device"} : CallAppend(t, chunk, source)
          \/ CallAttend(t)
          \/ DeallocPaged(t)
    \/ ReservePage
    \/ Reserved
    \/ PoolExhausted
    \/ CudaFails
    \/ TableIsCurrent
    \/ FillHostTable
    \/ UpdateDeviceTable
    \/ OldTableNotFreed
    \/ CopyRows
    \/ AppendDone
    \/ Launch
    \/ Return
    \/ DeviceStep

Spec == Init /\ [][Next]_vars

-----------------------------------------------------------------------------
(* Properties *)

\* A page has at most one owner: it is in the free stack once, or in one
\* tensor once (free_page's "already freed" error is never reached).  A pool
\* never exceeds its capacity, and only pages it created are in circulation.
PagesOwnedOnce ==
    /\ created <= desc.maxPages
    /\ ToSet(freePages) \subseteq 1..created
    /\ \A t \in LiveTensors : ToSet(tensor[t].pages) \subseteq 1..created
    /\ IsInjective(freePages)
    /\ \A t \in LiveTensors :
          /\ IsInjective(tensor[t].pages)
          /\ ToSet(tensor[t].pages) \cap ToSet(freePages) = {}
    /\ \A t, u \in LiveTensors :
          t # u => ToSet(tensor[t].pages) \cap ToSet(tensor[u].pages) = {}

\* What a page slot will hold once the stream has run: the row of the last
\* pending write to it, else the row that is there.
FinalRow(page, slot) ==
    LET writes == {i \in DOMAIN stream :
                      /\ stream[i].op = "write"
                      /\ stream[i].page = page
                      /\ slot \in stream[i].slot..(stream[i].slot + stream[i].rows - 1)}
    IN  IF writes = {} THEN pageData[page][slot]
        ELSE LET w == stream[CHOOSE i \in writes : \A j \in writes : j <= i]
             IN  <<w.t, w.at + slot - w.slot>>

\* Every row a live tensor has appended is in the page its position names, or
\* on its way there: no later append, reservation, failed call or other
\* tensor that got a recycled page overwrites it.
RowsRetained ==
    \A t \in LiveTensors : \A k \in tensor[t].born..(tensor[t].length - 1) :
        /\ k \div PageSize < Len(tensor[t].pages)
        /\ FinalRow(tensor[t].pages[k \div PageSize + 1], k % PageSize) = <<t, k>>

\* No command in the stream refers to memory that is gone when it runs: host
\* tables stay while a copy reads them, a device table is freed only after
\* its last reader, pages stay while a row is written to them.
MemoryOutlivesStream ==
    \A i \in DOMAIN stream :
        LET c == stream[i]
        IN  /\ c.op = "write" => poolLive /\ c.page <= created
            /\ c.op = "copy" => c.host \in DOMAIN hostMem
            /\ c.op # "write" =>
                  /\ c.dev \in DOMAIN devMem
                  /\ \A j \in 1..(i - 1) : stream[j].op = "free" => stream[j].dev # c.dev

\* Table growth and page recycling on the host never outrun the stream: no
\* command finds its memory gone, and when the device reaches a kernel, the
\* page table it was launched with leads to the rows of its cache, each at
\* its position.
KernelReadsCache ==
    /\ MemoryOutlivesStream
    /\ stream # <<>> /\ Head(stream).op = "attend" =>
         LET c == Head(stream)
         IN  \A k \in tensor[c.t].born..(c.length - 1) :
               LET page == devMem[c.dev][k \div PageSize + 1]
               IN  page # NoPage /\ pageData[page][k % PageSize] = <<c.t, k>>

\* A page that has an owner keeps one, until the pool is destroyed: the only
\* call that may lose pages is an allocPaged that fails part way, which
\* erases the tensor holding the pages it had already taken.
NoPageLost ==
    [][ Owned \cup ToSet(freePages) \subseteq Owned' \cup ToSet(freePages')
        \/ ~poolLive'
        \/ (call # NoCall /\ call.op = "alloc" /\ call' = NoCall /\ call.phase # "finish") ]_vars

=============================================================================
