---------------------------- MODULE MCCudaKernels ----------------------------
(***************************************************************************)
(* Operations small enough to try every order of their threads.            *)
(***************************************************************************)
EXTENDS CudaKernels

\* Rows of the three kernels; "rms_norm" reduces once.
RowJobs(norms) ==
  {[kind |-> "rows", norm |-> n, rows |-> shape[1], hidden |-> shape[2], depth |-> shape[3], masked |-> m] :
     n \in norms, shape \in {<<2, 3, 1>>, <<1, 5, 2>>}, m \in {{}, 0..4}}
NoRows == {[kind |-> "rows", norm |-> "softmax", rows |-> 0, hidden |-> 3, depth |-> 1, masked |-> {}]}

\* Experts 0 and 1 exist; 2 does not.
Mixture(batch, seq, topK, hidden, ids, stale) ==
  {[kind |-> "experts", batch |-> batch, seq |-> seq, topK |-> topK, experts |-> 2, hidden |-> hidden,
    ids |-> ids, byRow |-> r, single |-> s, stale |-> stale] : r \in BOOLEAN, s \in BOOLEAN}
ExpertJobs ==
  UNION {Mixture(1, 2, 2, 1, ids, 0) : ids \in [1..4 -> 0..1] \cup {<<2, 0, 1, 1>>, <<0, 1, 2, 0>>, <<2, 2, 2, 2>>}}
    \cup UNION {Mixture(2, 1, 2, 1, ids, 3) : ids \in {<<0, 1, 1, 1>>, <<1, 0, 0, 2>>}}
    \cup Mixture(1, 1, 2, 2, <<1, 0>>, 3) \cup Mixture(1, 0, 2, 1, <<>>, 0)

\* Values of rows; 0 is the least there is.
TopK(values, k, threshold, lanes, tileWarps, finalWarps, depth) ==
  [kind |-> "topk", values |-> values, k |-> k, threshold |-> threshold, lanes |-> lanes,
   tileWarps |-> tileWarps, finalWarps |-> finalWarps, depth |-> depth]
Bits == [1..9 -> 0..1]
Mixed == {<<3, 1, 2, 0, 3, 2, 1, 0, 3>>, <<1, 2, 3, 4, 5, 6, 7, 8, 9>>, <<0, 0, 0, 0, 0, 0, 0, 0, 2>>}
TopKJobs ==
  {TopK(<<v>>, 8, 2, 4, 1, 2, 1) : v \in Bits} \cup {TopK(<<v>>, k, 2, 4, 1, 2, 1) : v \in Mixed, k \in {3, 8}}
    \cup {TopK(<<v>>, k, 2, 2, w[1], w[2], 1) : v \in Mixed, k \in {2, 4}, w \in {<<1, 1>>, <<1, 2>>, <<4, 1>>}}
    \cup {TopK(<<v, <<1, 2, 3, 4, 5>>>>, 3, 2, 2, 1, 2, 1) : v \in {<<5, 4, 3, 2, 1>>, <<0, 0, 0, 0, 1>>}}
    \cup {TopK(<<v>>, k, 10, 2, 1, 1, 2) : v \in Mixed, k \in {1, 3}}
    \cup {TopK(<<v>>, 1, 2, 2, 1, 1, 1) : v \in Mixed} \cup {TopK(<<>>, 3, 2, 2, 1, 1, 1)}

\* Scores that differ with the batch, the head, the query and the key.
Scores(bases, heads, tq, tk, pattern) ==
  [p \in Numbers(Len(bases)) \X Numbers(heads) \X Numbers(tq) \X Numbers(tk) |->
     pattern[((p[1] + 2 * p[2] + p[3] + p[4]) % Len(pattern)) + 1]]
Patterns == {<<1, 2, 3>>, <<3, 2, 1, 4>>}
Attention(bases, heads, kvHeads, tq, tk, window, pattern) ==
  [kind |-> "attention", bases |-> bases, heads |-> heads, kvHeads |-> kvHeads, tq |-> tq, tk |-> tk,
   window |-> window, scores |-> Scores(bases, heads, tq, tk, pattern), target |-> 4, maxSplit |-> 8,
   pageSize |-> 0, jit |-> FALSE, fallback |-> FALSE, grouped |-> FALSE, warps |-> 1, perWarp |-> 1, tile |-> 1]
Decodes ==
  {[Attention(<<base>>, 2, 1, 1, 5, window, p) EXCEPT !.pageSize = size, !.jit = TRUE, !.fallback = f] :
     base \in {0, 2, 4}, window \in {0, 2}, p \in Patterns, size \in {0, 2}, f \in BOOLEAN}
    \cup {[Attention(<<3, 1>>, 2, 2, 1, 4, window, p) EXCEPT !.target = 8, !.pageSize = 2, !.jit = TRUE] :
            window \in {0, 3}, p \in Patterns}
    \cup {Attention(<<2>>, 1, 1, 1, tk, 0, <<1>>) : tk \in {0, 3}}
Prefills ==
  {[Attention(<<base>>, 2, 1, tq, base + tq, window, p) EXCEPT !.grouped = TRUE, !.perWarp = n, !.tile = 2] :
     base \in {0, 2}, tq \in {2, 3}, window \in {0, 2}, p \in Patterns, n \in {1, 2}}
    \cup {[Attention(<<base>>, 1, 1, 3, base + 3, window, p) EXCEPT !.warps = 2, !.tile = n] :
            base \in {0, 2}, window \in {0, 2}, p \in Patterns, n \in {1, 2}}

AllJobs == RowJobs({"rms_norm", "softmax", "layer_norm"}) \cup NoRows \cup ExpertJobs \cup TopKJobs
             \cup Decodes \cup Prefills

\* The rows of the device's tests: two of three elements.
TwoReductions == {job1 \in RowJobs({"softmax", "layer_norm"}) : job1.rows = 2}
=============================================================================
