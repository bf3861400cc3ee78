---------------------------- MODULE CudaAttention ----------------------------
(***************************************************************************)
(* Attention (src/device/cuda/CudaAttentionKernels.cu and the template     *)
(* jit/templates/CudaJitAttentionDecodeKernel.cu).  One query per head is  *)
(* answered in splits of the keys that a second kernel joins; more queries *)
(* in blocks whose warps share tiles of keys and values.  A thread is a    *)
(* warp, or the one warp of a block.                                       *)
(*                                                                         *)
(* A job is [kind, bases, heads, kvHeads, tq, tk, window, scores, target,  *)
(* maxSplit, pageSize, jit, fallback, grouped, warps, perWarp, tile]:      *)
(* scores[b, h, q, k] is what query q of head h gives to key k, pageSize is*)
(* 0 when keys are not paged, grouped takes the query heads of a key head  *)
(* in one block of warps * perWarp queries.                                *)
(*                                                                         *)
(* Powers of e are exact: a weighted sum is the bag of its <<key, exponent>>.*)
(***************************************************************************)
EXTENDS CudaStream

NoScore == -1000000   \* -INFINITY
GreaterOf(a, b) == IF a > b THEN a ELSE b
LesserOf(a, b) == IF a < b THEN a ELSE b

Batches == Numbers(Len(job.bases))
HeadsPerKv == job.heads \div job.kvHeads
KeyOf(b, head, key) == <<b, head \div HeadsPerKv, key>>
Position(b, query) == job.bases[b + 1] + query
MinKey(b, query) == IF job.window > 0 THEN GreaterOf(0, Position(b, query) + 1 - job.window) ELSE 0
IsVisible(b, query, key) == key \in MinKey(b, query)..Position(b, query)

-----------------------------------------------------------------------------
(***************************************************************************)
(* The online softmax: [max, sum, out], the sums being relative to max.    *)
(***************************************************************************)
Nothing == [max |-> NoScore, sum |-> EmptyBag, out |-> EmptyBag]

Scaled(sum, by) ==
  [e \in {<<f[1], f[2] + by>> : f \in DOMAIN sum} |-> sum[<<e[1], e[2] - by>>]]

Join(run, part) ==
  LET next == GreaterOf(run.max, part.max)
      Old(sum) == IF run.max = NoScore THEN EmptyBag ELSE Scaled(sum, run.max - next)
      New(sum) == Scaled(sum, part.max - next)
  IN [max |-> next, sum |-> Old(run.sum) (+) New(part.sum), out |-> Old(run.out) (+) New(part.out)]

\* What one key adds, whose row holds k and v.
OfKey(score, k, v) ==
  [max |-> score, sum |-> SetToBag({<<k, 0>>}), out |-> SetToBag({<<v, 0>>})]

-----------------------------------------------------------------------------
(***************************************************************************)
(* The host.                                                               *)
(***************************************************************************)
\* choose_decoder_split_size; four blocks are wanted for each multiprocessor.
SplitSize ==
  LET wanted == GreaterOf(1, CeilDiv(job.target, GreaterOf(1, Len(job.bases) * job.heads)))
      enough == {n \in 1..job.maxSplit : (\E i \in 0..n : n = 2 ^ i) /\ CeilDiv(job.tk, n) >= wanted}
  IN IF enough = {} THEN 1 ELSE CHOOSE n \in enough : \A m \in enough : n >= m
Splits == CeilDiv(job.tk, SplitSize)

DecodeCommands(partial) ==
  LET places == Batches \X Numbers(job.heads) \X Numbers(Splits)
  IN <<[Alloc("partials", 0) EXCEPT !.content = [place \in places |-> 77]],
       Kernel(partial, places \X {0}, <<>>, <<>>),
       Kernel("reduce", (Batches \X Numbers(job.heads)) \X {0}, <<>>, <<>>),
       Free("partials")>>

HeadsPerBlock == IF job.grouped THEN HeadsPerKv ELSE 1
QueriesPerBlock == job.warps * job.perWarp
PrefillCommands ==
  LET blocks == Batches \X Numbers(job.heads \div HeadsPerBlock) \X Numbers(CeilDiv(job.tq, QueriesPerBlock))
      tile == Zeros(job.tile, <<>>)
  IN <<Kernel("prefill", blocks \X Numbers(HeadsPerBlock * job.warps),
              Zeros(job.perWarp, Nothing), [k |-> tile, v |-> tile])>>

Specialised == job.jit /\ job.pageSize > 0

LaunchAttention ==
  /\ todo # <<>> /\ Head(todo) = "attention"
  /\ IF job.bases = <<>> \/ job.tq = 0 \/ job.tk = 0 THEN Issue(<<>>)
     ELSE IF job.tq > 1 THEN Issue(PrefillCommands)
     ELSE IF Specialised THEN Issue(DecodeCommands("pages")) ELSE Issue(DecodeCommands("partial"))
  /\ UNCHANGED <<job, at, reg, shared, memory>>

\* When the specialised kernel cannot be launched, the general one may be.
FallBack ==
  /\ todo # <<>> /\ Head(todo) = "attention"
  /\ job.tq = 1 /\ job.bases # <<>> /\ job.tk > 0 /\ Specialised /\ job.fallback
  /\ \E n \in 0..2 :
       LET issued == SubSeq(DecodeCommands("pages"), 1, n)
       IN stream' = stream \o issued \o Cleanup(issued)
  /\ todo' = <<"decoder">>
  /\ UNCHANGED <<job, at, reg, shared, memory, failures>>

LaunchDecoder ==
  /\ todo # <<>> /\ Head(todo) = "decoder"
  /\ Issue(DecodeCommands("partial"))
  /\ UNCHANGED <<job, at, reg, shared, memory>>

-----------------------------------------------------------------------------
(***************************************************************************)
(* Decoding: a block per batch, head and split.                            *)
(***************************************************************************)
OfKeys(place, keys) ==
  LET One(run, key) ==
        LET k == KeyOf(place[1], place[2], key)
        IN Join(run, OfKey(job.scores[place[1], place[2], 0, key], k, k))
  IN FoldLeft(One, Nothing, keys)
SplitKeys(split) == split * SplitSize..(LesserOf(job.tk, (split + 1) * SplitSize) - 1)

Block(name, t) ==
  /\ Runs(name, t) /\ Goto(t, Ended)
  /\ UNCHANGED <<job, todo, stream, reg, shared, failures>>

\* Every key of the split, those that are not visible skipped.
Partial(t) ==
  LET place == t[1]
      keys == SetToSortSeq({key \in SplitKeys(place[3]) : IsVisible(place[1], 0, key)}, <)
  IN /\ Block("partial", t)
     /\ memory' = [memory EXCEPT !.partials[place] = OfKeys(place, keys)]

\* The keys of the split that are visible, page by page.
PartialOfPages(t) ==
  LET place == t[1]
      size == job.pageSize
      first == GreaterOf(place[3] * SplitSize, MinKey(place[1], 0))
      last == LesserOf(LesserOf(job.tk, (place[3] + 1) * SplitSize), Position(place[1], 0) + 1)
      OfPage(page) ==
        LET from == GreaterOf(first, page * size)
            slot == from - page * size
        IN [i \in 1..(LesserOf(last, (page + 1) * size) - from) |-> page * size + slot + i - 1]
      firstPage == first \div size
      keys == IF first >= last THEN <<>>
              ELSE FlattenSeq([i \in 1..((last - 1) \div size - firstPage + 1) |-> OfPage(firstPage + i - 1)])
  IN /\ Block("pages", t)
     /\ memory' = [memory EXCEPT !.partials[place] = OfKeys(place, keys)]

Reduce(t) ==
  LET parts == [i \in 1..Splits |-> memory.partials[<<t[1][1], t[1][2], i - 1>>]]
      Step(run, part) == IF part.sum = EmptyBag \/ part.max = NoScore THEN run ELSE Join(run, part)
  IN /\ Block("reduce", t)
     /\ memory' = [memory EXCEPT !.output[<<t[1][1], t[1][2], 0>>] = FoldLeft(Step, Nothing, parts)]

-----------------------------------------------------------------------------
(***************************************************************************)
(* Prefill: a block per batch, group of heads and block of queries.  In odd*)
(* steps its warps load a tile, in even steps each takes it in.            *)
(***************************************************************************)
HeadAt(t) == t[1][2] * HeadsPerBlock + t[2] \div job.warps
QueryAt(t, row) == t[1][3] * QueriesPerBlock + (t[2] % job.warps) * job.perWarp + row

TileStart(t) ==
  LET firstTile == MinKey(t[1][1], t[1][3] * QueriesPerBlock) \div job.tile
  IN (firstTile + (at[t][2] - 1) \div 2) * job.tile
HasTile(t) ==
  /\ TileStart(t) < job.tk
  /\ TileStart(t) <= Position(t[1][1], LesserOf((t[1][3] + 1) * QueriesPerBlock - 1, job.tq - 1))
TileKeys(t) == LesserOf(job.tile, job.tk - TileStart(t))

Load(t) ==
  LET all == HeadsPerBlock * job.warps
      own == {o \in Numbers(TileKeys(t)) : o % all = t[2]}
      Rows(old) == [o \in own |-> KeyOf(t[1][1], HeadAt(t), TileStart(t) + o)] @@ old
  IN /\ Runs("prefill", t) /\ at[t][2] % 2 = 1 /\ HasTile(t)
     /\ shared' = [shared EXCEPT ![t[1]] = [k |-> Rows(@.k), v |-> Rows(@.v)]]
     /\ Goto(t, <<at[t][1] + 1, at[t][2] + 1>>)
     /\ UNCHANGED <<job, todo, stream, reg, memory, failures>>

\* Mutant: a warp goes on to the next tile while others take this one in.
PhaseAfterTile_Same(phase) == phase

PhaseAfterTile(phase) == phase + 1

TakeIn(t) ==
  LET b == t[1][1]
      tile == shared[t[1]]
      Visible(q) == {o \in Numbers(TileKeys(t)) : IsVisible(b, q, TileStart(t) + o)}
      Score(q, o) == job.scores[b, HeadAt(t), q, tile.k[o][3]]
      OfTile(q) ==
        LET max == CHOOSE m \in {Score(q, o) : o \in Visible(q)} : \A o \in Visible(q) : m >= Score(q, o)
        IN [max |-> max,
            sum |-> SetToBag({<<tile.k[o], Score(q, o) - max>> : o \in Visible(q)}),
            out |-> SetToBag({<<tile.v[o], Score(q, o) - max>> : o \in Visible(q)})]
      taken(row) == QueryAt(t, row) < job.tq /\ Visible(QueryAt(t, row)) # {}
  IN /\ Runs("prefill", t) /\ at[t][2] % 2 = 0
     /\ reg' = [reg EXCEPT ![t] = [row \in DOMAIN @ |->
                  IF taken(row) THEN Join(@[row], OfTile(QueryAt(t, row))) ELSE @[row]]]
     /\ Goto(t, <<PhaseAfterTile(at[t][1]), at[t][2] + 1>>)
     /\ UNCHANGED <<job, todo, stream, shared, memory, failures>>

StoreQueries(t) ==
  LET own == {row \in Numbers(job.perWarp) : QueryAt(t, row) < job.tq}
      places == {<<t[1][1], HeadAt(t), QueryAt(t, row)>> : row \in own}
  IN /\ Runs("prefill", t) /\ at[t][2] % 2 = 1 /\ ~HasTile(t)
     /\ memory' = [memory EXCEPT !.output =
                     [place \in places |-> reg[t][place[3] - QueryAt(t, 0)]] @@ @]
     /\ Goto(t, Ended)
     /\ UNCHANGED <<job, todo, stream, reg, shared, failures>>

AttentionStep(t) ==
  \/ Partial(t) \/ PartialOfPages(t) \/ Reduce(t)
  \/ Load(t) \/ TakeIn(t) \/ StoreQueries(t)
AttentionHost == LaunchAttention \/ FallBack \/ LaunchDecoder

AttentionArrays ==
  [output |-> [place \in Batches \X Numbers(job.heads) \X Numbers(job.tq) |-> 77]]

-----------------------------------------------------------------------------
\* However the keys are split, paged or tiled and in whatever order the warps
\* run, every query of a run without failure is answered from the keys it may
\* see, each once and with its value, all relative to the greatest of their
\* scores, and the weights divide by the sum of just these; and nothing
\* temporary stays allocated.
KeysWeighed ==
  LET Seen(b, q) == {key \in Numbers(job.tk) : IsVisible(b, q, key)}
      Answer(b, h, q) ==
        LET scores == {job.scores[b, h, q, key] : key \in Seen(b, q)}
            max == CHOOSE m \in scores : \A n \in scores : m >= n
        IN SetToBag({<<KeyOf(b, h, key), job.scores[b, h, q, key] - max>> : key \in Seen(b, q)})
  IN job.kind = "attention" /\ Done =>
       /\ DOMAIN memory = {"output"}
       /\ failures = {} /\ job.tk > 0 =>
            \A b \in Batches, h \in Numbers(job.heads), q \in Numbers(job.tq) :
              LET answer == memory.output[b, h, q]
              IN answer.sum = answer.out
                 /\ answer.sum = IF Seen(b, q) = {} THEN EmptyBag ELSE Answer(b, h, q)
=============================================================================
