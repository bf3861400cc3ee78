------------------------- MODULE StreamBridgeProofs -------------------------
(***************************************************************************)
(* Proofs about StreamBridge for every number of tokens, every size of the *)
(* queue and every window of the connection: the chunks a client reads are *)
(* a well formed stream that ends truly.                                   *)
(*                                                                         *)
(* That the client's stream is true is not inductive: what the generator   *)
(* yields next lies in the queue, in the hands of the thread or on the     *)
(* wire, and the three of them, read in that order, have to tell the rest  *)
(* of the worker's story, no token missing and the ending behind the last. *)
(* They do so only as long as nobody has cancelled the call or stopped the *)
(* thread, which the generator does after its last poll.                   *)
(***************************************************************************)
EXTENDS StreamBridge, SequenceTheorems, TLAPS

Events == {"token", "done", "error"} \X Nat
Items == {"token", "done", "error", "rpc_error", "end"} \X Nat
Chunks == {"role", "content", "error", "finish", "usage", "[DONE]"} \X Nat

Carrying == [at : {"check", "put"}, item : Items]
Resting == {[at |-> "read", item |-> Item("none")], [at |-> "dead", item |-> Item("none")]}

Types ==
    /\ sent \in Nat /\ decoded \in Nat
    /\ ending \in Ended \cup {"open"}
    /\ wire \in Seq(Events) /\ pending \in Seq(Items)
    /\ reader \in Carrying \cup Resting
    /\ out \in Seq(Chunks) /\ todo \in Seq(Chunks)

\* While the generator polls, nobody interferes with the thread.
Polling == events \in {"unstarted", "first", "poll", "yield"}

StopInv ==
    /\ Polling => ~stopReader /\ ~cancelled
    /\ events \in {"last", "finally", "abandoned"} => ~cancelled
    /\ Polling /\ reader.item[1] \in {"rpc_error", "end"} => wire = <<>> /\ ending # "open"

\* What the generator will read, in order.
Held == IF reader.at \in {"check", "put"} THEN <<reader.item>> ELSE <<>>
Flow == (pending \o Held) \o wire

\* The sequence s is the rest of a stream of n tokens that ended with e, from
\* behind token d: the tokens, and then the ending before anything else.
EndItem(e) == Item(IF e = "silent" THEN "end" ELSE e)

Tells(s, n, d, e) ==
    /\ n - d \in Nat /\ n - d <= Len(s)
    /\ \A i \in 1..(n - d) : s[i] = <<"token", d + i>>
    /\ \A i \in 1..Len(s) : i > n - d => s[i][1] # "token"
    /\ n - d < Len(s) => s[(n - d) + 1] = EndItem(e)
    /\ e \in {"done", "error"} => n - d < Len(s)

FlowInv == Polling => Tells(Flow, sent, decoded, ending)

\* The form of a sequence of chunks, and the truth of its ending.
At(s, kind) == {i \in 1..Len(s) : s[i][1] = kind}
Ending(s) == At(s, "finish") \cup At(s, "error")

Story(s) ==
    /\ s # <<>> => s[1] = Role
    /\ \A i, j \in At(s, "content") : i < j => s[i][2] <= s[j][2]
    /\ \A i, j \in Ending(s) : i = j
    /\ \A i \in At(s, "[DONE]") :
          i = Len(s) /\ \E j \in 1..(i - 1) : s[j][1] \in {"finish", "error"}
    /\ \A i \in At(s, "content"), j \in Ending(s) : i < j

TrueEnding(s, n, d, e) ==
    /\ At(s, "finish") # {} => e = "done" /\ d = n
    /\ At(s, "error") # {} => e \notin {"open", "done"}

\* A stream that has not ended, of tokens up to d.
Plain(s, d) ==
    \A i \in 1..Len(s) :
        /\ s[i][1] \in {"role", "content"}
        /\ s[i][1] = "content" => s[i][2] <= d

\* What the generator has said and is about to say.
Said == out \o todo

SaidInv ==
    /\ Story(Said)
    /\ TrueEnding(Said, sent, decoded, ending)
    /\ Polling => Plain(Said, decoded)
    /\ events \in {"first", "poll", "yield", "last"} => out # <<>>
    /\ events = "unstarted" => out = <<>>
    /\ events \in {"unstarted", "first", "poll"} => todo = <<>>

IInv == TypeOK /\ Types /\ StopInv /\ FlowInv /\ SaidInv

-----------------------------------------------------------------------------
\* The rest of the worker's story, as the worker, the thread and the generator
\* move it.
LEMMA TellsToken ==
    ASSUME NEW s \in Seq(Items), NEW n \in Nat, NEW d \in Nat, Tells(s, n, d, "open")
    PROVE  Tells(Append(s, <<"token", n + 1>>), n + 1, d, "open")
<1>1. Len(s) \in Nat /\ n - d \in Nat /\ n - d <= Len(s)
  BY DEF Tells
<1>2. Len(s) = n - d
  <2> SUFFICES ASSUME n - d < Len(s) PROVE FALSE
    BY <1>1
  <2>1. s[(n - d) + 1] = <<"open", 0>>
    BY DEF Tells, EndItem, Item
  <2>2. (n - d) + 1 \in 1..Len(s)
    BY <1>1
  <2>3. s[(n - d) + 1] \in Items
    BY <2>2, ElementOfSeq
  <2> QED BY <2>1, <2>3 DEF Items
<1> DEFINE t == Append(s, <<"token", n + 1>>)
<1>3. Len(t) = Len(s) + 1 /\ t[Len(s) + 1] = <<"token", n + 1>>
      /\ \A i \in 1..Len(s) : t[i] = s[i]
  BY AppendProperties
<1> HIDE DEF t
<1>4. (n + 1) - d = Len(t) /\ (n + 1) - d = Len(s) + 1
  BY <1>1, <1>2, <1>3
<1>5. \A i \in 1..Len(t) : t[i] = <<"token", d + i>>
  <2> TAKE i \in 1..Len(t)
  <2>1. CASE i \in 1..Len(s)
    BY <1>2, <1>3, <2>1 DEF Tells
  <2>2. CASE i = Len(s) + 1
    <3>1. d + i = n + 1
      BY <1>1, <1>2, <2>2
    <3> QED BY <1>3, <2>2, <3>1
  <2> QED BY <1>1, <1>3, <2>1, <2>2
<1>6. \A i \in 1..((n + 1) - d) : t[i] = <<"token", d + i>>
  BY <1>4, <1>5
<1>7. (n + 1) - d \in Nat /\ ~((n + 1) - d < Len(t)) /\ (n + 1) - d <= Len(t)
      /\ \A i \in 1..Len(t) : ~(i > (n + 1) - d)
  BY <1>1, <1>4
<1> QED BY <1>6, <1>7 DEF Tells, t

\* One more item behind those there are.
LEMMA TellsMore ==
    ASSUME NEW s \in Seq(Items), NEW n \in Nat, NEW d \in Nat, NEW e, NEW f, NEW x \in Items,
           Tells(s, n, d, e), x[1] # "token",
           n - d < Len(s) => e = f,
           Len(s) = n - d => x = EndItem(f)
    PROVE  Tells(Append(s, x), n, d, f)
<1>1. Len(s) \in Nat /\ n - d \in Nat /\ n - d <= Len(s)
  BY DEF Tells
<1> DEFINE t == Append(s, x)
<1>2. Len(t) = Len(s) + 1 /\ t[Len(s) + 1] = x /\ \A i \in 1..Len(s) : t[i] = s[i]
  BY AppendProperties
<1> HIDE DEF t
<1>3. \A i \in 1..(n - d) : t[i] = <<"token", d + i>>
  BY <1>1, <1>2 DEF Tells
<1>4. \A i \in 1..Len(t) : i > n - d => t[i][1] # "token"
  <2> TAKE i \in 1..Len(t)
  <2>1. CASE i \in 1..Len(s)
    BY <1>2, <2>1 DEF Tells
  <2>2. CASE i = Len(s) + 1
    BY <1>2, <2>2
  <2> QED BY <1>1, <1>2, <2>1, <2>2
<1>5. t[(n - d) + 1] = EndItem(f)
  <2>1. CASE Len(s) = n - d
    BY <1>2, <2>1
  <2>2. CASE n - d < Len(s)
    <3>1. (n - d) + 1 \in 1..Len(s) /\ s[(n - d) + 1] = EndItem(e)
      BY <1>1, <2>2 DEF Tells
    <3> QED BY <1>2, <2>2, <3>1
  <2> QED BY <1>1, <2>1, <2>2
<1>6. n - d < Len(t)
  BY <1>1, <1>2
<1> QED BY <1>1, <1>3, <1>4, <1>5, <1>6 DEF Tells, t

\* A stream that ends without an event.
LEMMA TellsSilence ==
    ASSUME NEW s \in Seq(Items), NEW n \in Nat, NEW d \in Nat, Tells(s, n, d, "open"),
           NEW how \in {"rpc_error", "silent"}
    PROVE  Tells(s, n, d, how)
<1>1. Len(s) \in Nat /\ n - d \in Nat /\ n - d <= Len(s)
  BY DEF Tells
<1>2. ~(n - d < Len(s))
  <2> SUFFICES ASSUME n - d < Len(s) PROVE FALSE
    BY <1>1
  <2>1. s[(n - d) + 1] = <<"open", 0>>
    BY DEF Tells, EndItem, Item
  <2>2. (n - d) + 1 \in 1..Len(s)
    BY <1>1
  <2>3. s[(n - d) + 1] \in Items
    BY <2>2, ElementOfSeq
  <2> QED BY <2>1, <2>3 DEF Items
<1> QED BY <1>2 DEF Tells

\* The next item is a token, or it is the ending and no token is missing.
LEMMA TellsNext ==
    ASSUME NEW s \in Seq(Items), s # <<>>, NEW n \in Nat, NEW d \in Nat, NEW e,
           Tells(s, n, d, e)
    PROVE  \/ Head(s) = <<"token", d + 1>> /\ Tells(Tail(s), n, d + 1, e)
           \/ Head(s) = EndItem(e) /\ Head(s)[1] # "token" /\ n = d
<1>1. Len(s) \in Nat /\ Len(s) > 0 /\ n - d \in Nat /\ n - d <= Len(s) /\ Head(s) = s[1]
  BY EmptySeq DEF Tells
<1>2. CASE n - d = 0
  <2>1. Head(s) = EndItem(e) /\ Head(s)[1] # "token"
    BY <1>1, <1>2 DEF Tells
  <2> QED BY <1>2, <2>1
<1>3. CASE n - d > 0
  <2> DEFINE t == Tail(s)
  <2>1. Head(s) = <<"token", d + 1>>
    BY <1>1, <1>3 DEF Tells
  <2>2. Len(t) = Len(s) - 1 /\ \A i \in 1..Len(t) : t[i] = s[i + 1]
    BY HeadTailProperties
  <2> HIDE DEF t
  <2>3. n - (d + 1) = (n - d) - 1 /\ n - (d + 1) \in Nat /\ n - (d + 1) <= Len(t)
    BY <1>1, <1>3, <2>2
  <2>4. ASSUME NEW i \in 1..(n - (d + 1)) PROVE t[i] = <<"token", (d + 1) + i>>
    <3>1. i \in 1..Len(t) /\ i + 1 \in 1..(n - d) /\ d + (i + 1) = (d + 1) + i
      BY <1>1, <2>2, <2>3
    <3>2. s[i + 1] = <<"token", d + (i + 1)>>
      BY <3>1 DEF Tells
    <3> QED BY <2>2, <3>1, <3>2
  <2>5. ASSUME NEW i \in 1..Len(t), i > n - (d + 1) PROVE t[i][1] # "token"
    <3>1. i + 1 \in 1..Len(s) /\ i + 1 > n - d
      BY <1>1, <2>2, <2>3, <2>5
    <3> QED BY <2>2, <3>1 DEF Tells
  <2>6. ASSUME n - (d + 1) < Len(t) PROVE t[(n - (d + 1)) + 1] = EndItem(e)
    <3>1. n - d < Len(s) /\ (n - (d + 1)) + 1 \in 1..Len(t)
          /\ ((n - (d + 1)) + 1) + 1 = (n - d) + 1
      BY <1>1, <2>2, <2>3, <2>6
    <3>2. s[(n - d) + 1] = EndItem(e)
      BY <3>1 DEF Tells
    <3> QED BY <2>2, <3>1, <3>2
  <2>7. e \in {"done", "error"} => n - (d + 1) < Len(t)
    BY <1>1, <2>2, <2>3 DEF Tells
  <2>8. Tells(t, n, d + 1, e)
    BY <2>3, <2>4, <2>5, <2>6, <2>7 DEF Tells
  <2> QED BY <2>1, <2>8 DEF t
<1> QED BY <1>1, <1>2, <1>3

-----------------------------------------------------------------------------
\* An item moves from the wire to the thread and on to the queue: what the
\* generator will read stays the same.
LEMMA AppendIsJoin ==
    ASSUME NEW S, NEW s \in Seq(S), NEW x \in S
    PROVE  Append(s, x) = s \o <<x>> /\ <<x>> \in Seq(S)
<1>1. <<x>> \in Seq(S) /\ Len(<<x>>) = 1 /\ <<x>>[1] = x
  OBVIOUS
<1>2. Append(s, x) \in Seq(S) /\ Len(Append(s, x)) = Len(s) + 1
      /\ Append(s, x)[Len(s) + 1] = x /\ \A i \in 1..Len(s) : Append(s, x)[i] = s[i]
  BY AppendProperties
<1>3. s \o <<x>> \in Seq(S) /\ Len(s \o <<x>>) = Len(s) + 1
      /\ \A i \in 1..(Len(s) + 1) :
            (s \o <<x>>)[i] = IF i <= Len(s) THEN s[i] ELSE <<x>>[i - Len(s)]
  BY <1>1, ConcatProperties
<1>4. Len(s) \in Nat
  OBVIOUS
<1>5. \A i \in 1..(Len(s) + 1) : Append(s, x)[i] = (s \o <<x>>)[i]
  <2> TAKE i \in 1..(Len(s) + 1)
  <2>1. CASE i <= Len(s)
    BY <1>2, <1>3, <1>4, <2>1
  <2>2. CASE i = Len(s) + 1
    BY <1>1, <1>2, <1>3, <1>4, <2>2
  <2> QED BY <1>4, <2>1, <2>2
<1>6. Append(s, x) = s \o <<x>>
  BY <1>2, <1>3, <1>5, SeqEqual
<1> QED BY <1>1, <1>6

LEMMA HeadThenTail ==
    ASSUME NEW S, NEW s \in Seq(S), s # <<>>
    PROVE  s = <<Head(s)>> \o Tail(s) /\ <<Head(s)>> \in Seq(S) /\ Tail(s) \in Seq(S)
<1>1. Head(s) \in S /\ Tail(s) \in Seq(S) /\ Len(s) \in Nat /\ Len(s) > 0
      /\ Len(Tail(s)) = Len(s) - 1 /\ \A i \in 1..Len(Tail(s)) : Tail(s)[i] = s[i + 1]
      /\ Head(s) = s[1]
  BY EmptySeq, HeadTailProperties
<1>2. PICK h \in S, t \in Seq(S) : h = Head(s) /\ t = Tail(s)
  BY <1>1
<1>3. <<h>> \in Seq(S) /\ Len(<<h>>) = 1 /\ <<h>>[1] = h
  OBVIOUS
<1>4. <<h>> \o t \in Seq(S) /\ Len(<<h>> \o t) = 1 + Len(t)
      /\ \A i \in 1..(1 + Len(t)) :
            (<<h>> \o t)[i] = IF i <= 1 THEN <<h>>[i] ELSE t[i - 1]
  BY <1>3, ConcatProperties
<1>5. \A i \in 1..Len(s) : s[i] = (<<h>> \o t)[i]
  <2> TAKE i \in 1..Len(s)
  <2>1. CASE i = 1
    BY <1>1, <1>2, <1>3, <1>4, <2>1
  <2>2. CASE i > 1
    <3>1. i - 1 \in 1..Len(t) /\ (i - 1) + 1 = i /\ i \in 1..(1 + Len(t)) /\ ~(i <= 1)
      BY <1>1, <1>2, <2>2
    <3> QED BY <1>1, <1>2, <1>4, <3>1
  <2>3. i = 1 \/ i > 1
    OBVIOUS
  <2> QED BY <2>1, <2>2, <2>3, Zenon
<1>6. Len(s) = Len(<<h>> \o t)
  BY <1>1, <1>2, <1>4
<1>7. s = <<h>> \o t
  BY <1>4, <1>5, <1>6, SeqEqual
<1> QED BY <1>1, <1>2, <1>3, <1>7

LEMMA EventsAreItems == \A w \in Seq(Events) : w \in Seq(Items)
<1> TAKE w \in Seq(Events)
<1>1. w \in [1..Len(w) -> Events] /\ Len(w) \in Nat
  OBVIOUS
<1>2. \A i \in 1..Len(w) : w[i] \in Items
  <2>1. \A x \in Events : x \in Items
    BY DEF Events, Items
  <2> QED BY <1>1, <2>1
<1> QED BY <1>1, <1>2

LEMMA ItemsJoin ==
    ASSUME NEW a \in Seq(Items), NEW b \in Seq(Items), NEW c \in Seq(Items)
    PROVE  (a \o b) \o c = a \o (b \o c)
  BY ConcatAssociative

LEMMA FlowOfRead ==
    ASSUME NEW p \in Seq(Items), NEW w \in Seq(Items), w # <<>>
    PROVE  (p \o <<Head(w)>>) \o Tail(w) = (p \o <<>>) \o w
<1>1. PICK h \in Seq(Items), t \in Seq(Items) :
         h = <<Head(w)>> /\ t = Tail(w) /\ w = h \o t
  BY HeadThenTail
<1>2. (p \o h) \o t = p \o (h \o t)
  BY ItemsJoin
<1>3. p \o <<>> = p
  BY ConcatEmptySeq
<1> QED BY <1>1, <1>2, <1>3, Zenon

LEMMA FlowOfPut ==
    ASSUME NEW p \in Seq(Items), NEW w \in Seq(Items), NEW x \in Items
    PROVE  (Append(p, x) \o <<>>) \o w = (p \o <<x>>) \o w
<1>1. Append(p, x) = p \o <<x>> /\ Append(p, x) \in Seq(Items)
  BY AppendIsJoin, AppendProperties
<1>2. Append(p, x) \o <<>> = Append(p, x)
  BY <1>1, ConcatEmptySeq
<1> QED BY <1>1, <1>2, Zenon

LEMMA FlowOfWrite ==
    ASSUME NEW p \in Seq(Items), NEW h \in Seq(Items), NEW w \in Seq(Items), NEW x \in Items
    PROVE  (p \o h) \o Append(w, x) = Append((p \o h) \o w, x)
<1>1. PICK q \in Seq(Items) : q = p \o h
  BY ConcatProperties
<1>2. PICK z \in Seq(Items) : z = q \o w
  BY ConcatProperties
<1>3. Append(w, x) = w \o <<x>> /\ Append(z, x) = z \o <<x>> /\ <<x>> \in Seq(Items)
  BY AppendIsJoin
<1>4. (q \o w) \o <<x>> = q \o (w \o <<x>>)
  BY <1>3, ItemsJoin
<1> QED BY <1>1, <1>2, <1>3, <1>4, Zenon

LEMMA FlowOfPoll ==
    ASSUME NEW p \in Seq(Items), p # <<>>, NEW h \in Seq(Items), NEW w \in Seq(Items)
    PROVE  /\ (p \o h) \o w # <<>>
           /\ Head((p \o h) \o w) = Head(p)
           /\ (Tail(p) \o h) \o w = Tail((p \o h) \o w)
<1>1. PICK x \in Items, t \in Seq(Items), y \in Seq(Items) :
         x = Head(p) /\ t = Tail(p) /\ y = <<x>> /\ p = y \o t
  <2>1. Head(p) \in Items
    BY EmptySeq
  <2> QED BY <2>1, HeadThenTail
<1>2. PICK r \in Seq(Items) : r = (t \o h) \o w
  <2>1. t \o h \in Seq(Items)
    BY ConcatProperties
  <2> QED BY <2>1, ConcatProperties
<1>3. (p \o h) \o w = y \o r
  <2>1. (y \o t) \o h = y \o (t \o h)
    BY <1>1, ConcatAssociative
  <2>2. PICK u \in Seq(Items) : u = t \o h
    BY ConcatProperties
  <2>3. (y \o u) \o w = y \o (u \o w)
    BY <1>1, ConcatAssociative
  <2> QED BY <1>1, <1>2, <2>1, <2>2, <2>3, Zenon
<1>4. PICK s \in Seq(Items) : s = y \o r
  BY ConcatProperties
<1>5. Len(y) = 1 /\ y[1] = x
  BY <1>1
<1>6. Len(s) = 1 + Len(r) /\ \A i \in 1..(1 + Len(r)) :
         s[i] = IF i <= 1 THEN y[i] ELSE r[i - 1]
  <2>1. /\ Len(y \o r) = Len(y) + Len(r)
        /\ \A i \in 1..(Len(y) + Len(r)) :
              (y \o r)[i] = IF i <= Len(y) THEN y[i] ELSE r[i - Len(y)]
    BY ConcatProperties, Zenon
  <2> QED BY <1>4, <1>5, <2>1
<1>7. Len(r) \in Nat
  OBVIOUS
<1>8. s # <<>> /\ s[1] = x
  BY <1>5, <1>6, <1>7
<1>9. /\ Head(s) = s[1] /\ Tail(s) \in Seq(Items) /\ Len(Tail(s)) = Len(s) - 1
      /\ \A i \in 1..Len(Tail(s)) : Tail(s)[i] = s[i + 1]
  BY <1>8, EmptySeq, HeadTailProperties
<1>10. PICK z \in Seq(Items) : z = Tail(s)
  BY <1>9
<1>11. Len(z) = Len(r)
  BY <1>6, <1>7, <1>9, <1>10
<1>12. \A i \in 1..Len(r) : z[i] = r[i]
  <2> TAKE i \in 1..Len(r)
  <2>1. i + 1 \in 1..(1 + Len(r)) /\ ~(i + 1 <= 1) /\ (i + 1) - 1 = i
    BY <1>7
  <2>2. z[i] = s[i + 1]
    BY <1>9, <1>10, <1>11
  <2> QED BY <1>6, <2>1, <2>2
<1>13. z = r
  BY <1>11, <1>12, SeqEqual
<1> QED BY <1>1, <1>2, <1>3, <1>4, <1>8, <1>9, <1>10, <1>13, Zenon

-----------------------------------------------------------------------------
\* Two sequences of chunks one behind the other.
LEMMA Joined ==
    ASSUME NEW s \in Seq(Chunks), NEW t \in Seq(Chunks)
    PROVE  /\ s \o t \in Seq(Chunks)
           /\ Len(s) \in Nat /\ Len(t) \in Nat /\ Len(s \o t) = Len(s) + Len(t)
           /\ \A i \in 1..Len(s) : (s \o t)[i] = s[i]
           /\ \A i \in 1..Len(t) : (s \o t)[Len(s) + i] = t[i]
<1>1. Len(s) \in Nat /\ Len(t) \in Nat
  OBVIOUS
<1>2. /\ s \o t \in Seq(Chunks) /\ Len(s \o t) = Len(s) + Len(t)
      /\ \A i \in 1..(Len(s) + Len(t)) :
            (s \o t)[i] = IF i <= Len(s) THEN s[i] ELSE t[i - Len(s)]
  BY ConcatProperties
<1>3. \A i \in 1..Len(s) : (s \o t)[i] = s[i]
  BY <1>1, <1>2
<1>4. ASSUME NEW i \in 1..Len(t) PROVE (s \o t)[Len(s) + i] = t[i]
  <2>1. Len(s) + i \in 1..(Len(s) + Len(t)) /\ ~(Len(s) + i <= Len(s))
        /\ (Len(s) + i) - Len(s) = i
    BY <1>1
  <2> QED BY <1>2, <2>1
<1> QED BY <1>1, <1>2, <1>3, <1>4

\* What is well formed was so when less of it was said.
LEMMA StoryOfPrefix ==
    ASSUME NEW s \in Seq(Chunks), NEW t \in Seq(Chunks), NEW n, NEW d, NEW e
    PROVE  /\ Story(s \o t) => Story(s)
           /\ TrueEnding(s \o t, n, d, e) => TrueEnding(s, n, d, e)
           /\ Plain(s \o t, d) => Plain(s, d)
<1>1. PICK u \in Seq(Chunks) : u = s \o t
  BY Joined
<1>2. Len(s) \in Nat /\ Len(u) \in Nat /\ Len(s) <= Len(u)
      /\ \A i \in 1..Len(s) : u[i] = s[i] /\ i \in 1..Len(u)
  BY <1>1, Joined
<1>3. \A kind : At(s, kind) = At(u, kind) \cap 1..Len(s)
  BY <1>2 DEF At
<1>4. ASSUME Story(u) PROVE Story(s)
  <2>1. s # <<>> => s[1] = Role
    <3> SUFFICES ASSUME s # <<>> PROVE s[1] = Role
      OBVIOUS
    <3>1. 1 \in 1..Len(s)
      BY <1>2, EmptySeq
    <3>2. u # <<>>
      BY <1>2, <3>1
    <3> QED BY <1>2, <1>4, <3>1, <3>2 DEF Story
  <2>2. \A i, j \in At(s, "content") : i < j => s[i][2] <= s[j][2]
    BY <1>2, <1>3, <1>4 DEF Story, At
  <2>3. \A i, j \in Ending(s) : i = j
    BY <1>3, <1>4 DEF Story, Ending
  <2>4. \A i \in At(s, "[DONE]") :
           i = Len(s) /\ \E j \in 1..(i - 1) : s[j][1] \in {"finish", "error"}
    <3> TAKE i \in At(s, "[DONE]")
    <3>1. i \in At(u, "[DONE]") /\ i \in 1..Len(s)
      BY <1>3
    <3>2. i = Len(u)
      BY <1>4, <3>1 DEF Story
    <3>3. PICK j \in 1..(i - 1) : u[j][1] \in {"finish", "error"}
      BY <1>4, <3>1 DEF Story
    <3>4. j \in 1..Len(s)
      BY <1>2, <3>1
    <3> QED BY <1>2, <3>1, <3>2, <3>3, <3>4
  <2>5. \A i \in At(s, "content"), j \in Ending(s) : i < j
    BY <1>3, <1>4 DEF Story, Ending
  <2> QED BY <2>1, <2>2, <2>3, <2>4, <2>5 DEF Story
<1>5. TrueEnding(u, n, d, e) => TrueEnding(s, n, d, e)
  BY <1>3 DEF TrueEnding
<1>6. Plain(u, d) => Plain(s, d)
  BY <1>2 DEF Plain
<1> QED BY <1>1, <1>4, <1>5, <1>6, Zenon

\* Yielding a chunk does not change what is said altogether.
LEMMA SaidOfYield ==
    ASSUME NEW s \in Seq(Chunks), NEW t \in Seq(Chunks), t # <<>>
    PROVE  Append(s, Head(t)) \o Tail(t) = s \o t
<1>1. Head(t) \in Chunks
  BY EmptySeq
<1>2. PICK h \in Seq(Chunks), r \in Seq(Chunks) :
         h = <<Head(t)>> /\ r = Tail(t) /\ t = h \o r
  BY HeadThenTail
<1>3. Append(s, Head(t)) = s \o h
  BY <1>1, <1>2, AppendIsJoin
<1>4. (s \o h) \o r = s \o (h \o r)
  BY ConcatAssociative
<1> QED BY <1>2, <1>3, <1>4, Zenon

\* One more token is shown, or none.
LEMMA StoryGoesOn ==
    ASSUME NEW s \in Seq(Chunks), s # <<>>, NEW n, NEW d \in Nat, NEW e, NEW t \in Shown(d + 1),
           Story(s), TrueEnding(s, n, d, e), Plain(s, d)
    PROVE  /\ s \o t \in Seq(Chunks) /\ t \in Seq(Chunks)
           /\ Story(s \o t) /\ TrueEnding(s \o t, n, d + 1, e) /\ Plain(s \o t, d + 1)
<1>1. t \in Seq(Chunks) /\ Len(t) \in {0, 1}
      /\ \A i \in 1..Len(t) : t[i] = <<"content", d + 1>>
  <2>1. t = <<>> \/ t = << <<"content", d + 1>> >>
    BY DEF Shown
  <2>2. <<"content", d + 1>> \in Chunks
    BY DEF Chunks
  <2>3. PICK c \in Chunks : c = <<"content", d + 1>>
    BY <2>2
  <2>4. CASE t = <<>>
    BY <2>4
  <2>5. CASE t = <<c>>
    BY <2>3, <2>5
  <2> QED BY <2>1, <2>3, <2>4, <2>5
<1>2. PICK u \in Seq(Chunks) : u = s \o t
  BY <1>1, Joined
<1>3. /\ Len(s) \in Nat /\ Len(s) > 0 /\ Len(u) = Len(s) + Len(t)
      /\ \A i \in 1..Len(s) : u[i] = s[i]
      /\ \A i \in 1..Len(t) : u[Len(s) + i] = t[i]
  BY <1>1, <1>2, Joined, EmptySeq
<1>4. \A i \in 1..Len(u) : \/ i \in 1..Len(s) /\ u[i] = s[i]
                           \/ i = Len(s) + 1 /\ u[i] = <<"content", d + 1>>
  <2> TAKE i \in 1..Len(u)
  <2>1. CASE i \in 1..Len(s)
    BY <1>3, <2>1
  <2>2. CASE i \notin 1..Len(s)
    <3>1. Len(t) = 1 /\ i = Len(s) + 1 /\ 1 \in 1..Len(t)
      <4>1. PICK k \in Nat : k = Len(s)
        BY <1>3
      <4>2. CASE Len(t) = 0
        BY <1>3, <2>2, <4>2
      <4>3. CASE Len(t) = 1
        BY <1>3, <2>2, <4>1, <4>3
      <4> QED BY <1>1, <4>2, <4>3
    <3>2. u[Len(s) + 1] = t[1] /\ t[1] = <<"content", d + 1>>
      BY <1>1, <1>3, <3>1
    <3> QED BY <3>1, <3>2
  <2> QED BY <2>1, <2>2
<1>5. \A i \in 1..Len(s) : s[i][2] \in Nat /\ s[i][1] \in {"role", "content"}
      /\ (s[i][1] = "content" => s[i][2] <= d)
  <2>1. \A i \in 1..Len(s) : s[i] \in Chunks
    BY ElementOfSeq
  <2> QED BY <2>1 DEF Plain, Chunks
<1>6. Plain(u, d + 1)
  <2> SUFFICES ASSUME NEW i \in 1..Len(u)
               PROVE  u[i][1] \in {"role", "content"} /\ (u[i][1] = "content" => u[i][2] <= d + 1)
    BY DEF Plain
  <2>1. CASE i \in 1..Len(s) /\ u[i] = s[i]
    BY <1>5, <2>1
  <2>2. CASE u[i] = <<"content", d + 1>>
    BY <2>2
  <2> QED BY <1>4, <2>1, <2>2
<1>7. Ending(u) = {} /\ At(u, "[DONE]") = {} /\ At(u, "finish") = {} /\ At(u, "error") = {}
  BY <1>6 DEF Plain, Ending, At
<1>8. u[1] = Role
  <2>1. 1 \in 1..Len(s) /\ s[1] = Role
    BY <1>3 DEF Story
  <2> QED BY <1>3, <2>1
<1>9. ASSUME NEW i \in At(u, "content"), NEW j \in At(u, "content"), i < j
      PROVE  u[i][2] <= u[j][2]
  <2>1. i \in 1..Len(u) /\ j \in 1..Len(u) /\ u[i][1] = "content" /\ u[j][1] = "content"
    BY DEF At
  <2>2. i \in 1..Len(s) /\ u[i] = s[i]
    BY <1>1, <1>3, <1>4, <1>9, <2>1
  <2>3. CASE j \in 1..Len(s) /\ u[j] = s[j]
    <3>1. i \in At(s, "content") /\ j \in At(s, "content")
      BY <2>1, <2>2, <2>3 DEF At
    <3> QED BY <1>9, <2>2, <2>3, <3>1 DEF Story
  <2>4. CASE u[j] = <<"content", d + 1>>
    <3>1. s[i][2] \in Nat /\ s[i][2] <= d
      BY <1>5, <2>1, <2>2
    <3> QED BY <2>2, <2>4, <3>1
  <2> QED BY <1>4, <2>1, <2>3, <2>4
<1>10. Story(u) /\ TrueEnding(u, n, d + 1, e)
  BY <1>7, <1>8, <1>9 DEF Story, TrueEnding
<1> QED BY <1>1, <1>2, <1>6, <1>10

\* The last chunks t of a stream: content up to chunk f, which is the ending,
\* and [DONE] last of all.
Closes(t, f, d) ==
    /\ f \in 1..(Len(t) - 1)
    /\ t[f][1] \in {"finish", "error"}
    /\ \A i \in 1..Len(t) : i < f => t[i] = <<"content", d>>
    /\ \A i \in 1..Len(t) : f < i /\ i < Len(t) => t[i][1] = "usage"
    /\ t[Len(t)] = DoneMarker

LEMMA StoryEnds ==
    ASSUME NEW s \in Seq(Chunks), s # <<>>, NEW n, NEW d \in Nat, NEW e,
           NEW t \in Seq(Chunks), NEW f \in Nat, Closes(t, f, d),
           t[f][1] = "finish" => e = "done" /\ d = n,
           t[f][1] = "error" => e \notin {"open", "done"},
           Story(s), Plain(s, d)
    PROVE  s \o t \in Seq(Chunks) /\ Story(s \o t) /\ TrueEnding(s \o t, n, d, e)
<1>1. PICK u \in Seq(Chunks) : u = s \o t
  BY Joined
<1>2. PICK k \in Nat, m \in Nat : k = Len(s) /\ m = Len(t)
  OBVIOUS
<1>3. /\ k > 0 /\ Len(u) = k + m
      /\ \A i \in 1..k : u[i] = s[i]
      /\ \A i \in 1..m : u[k + i] = t[i]
  BY <1>1, <1>2, Joined, EmptySeq
<1>4. f \in 1..(m - 1) /\ m \in 1..m /\ f \in 1..m
  BY <1>2 DEF Closes
<1>5. \A i \in 1..k : /\ u[i][1] \in {"role", "content"}
                      /\ u[i][1] = "content" => u[i][2] \in Nat /\ u[i][2] <= d
  <2>1. \A i \in 1..k : s[i] \in Chunks
    BY <1>2, ElementOfSeq
  <2> QED BY <1>2, <1>3, <2>1 DEF Plain, Chunks
<1>6. ASSUME NEW i \in 1..Len(u), k < i, i < k + f PROVE u[i] = <<"content", d>>
  <2>1. i - k \in 1..m /\ i - k < f /\ k + (i - k) = i
    BY <1>3, <1>4, <1>6
  <2>2. PICK j \in 1..m : j = i - k
    BY <2>1
  <2>3. t[j] = <<"content", d>>
    BY <1>2, <2>1, <2>2 DEF Closes
  <2>4. u[i] = t[j]
    BY <1>3, <2>1, <2>2
  <2> QED BY <2>3, <2>4
<1>7. u[k + f][1] = t[f][1] /\ u[k + f][1] \in {"finish", "error"}
  BY <1>3, <1>4 DEF Closes
<1>8. ASSUME NEW i \in 1..Len(u), k + f < i, i < k + m PROVE u[i][1] = "usage"
  <2>1. i - k \in 1..m /\ f < i - k /\ i - k < m /\ k + (i - k) = i
    BY <1>3, <1>4, <1>8
  <2>2. PICK j \in 1..m : j = i - k
    BY <2>1
  <2>3. t[j][1] = "usage"
    BY <1>2, <2>1, <2>2 DEF Closes
  <2>4. u[i] = t[j]
    BY <1>3, <2>1, <2>2
  <2> QED BY <2>3, <2>4
<1>9. u[k + m] = DoneMarker
  BY <1>2, <1>3, <1>4 DEF Closes
<1>10. ASSUME NEW i \in 1..Len(u)
       PROVE  \/ i \in 1..k \/ (k < i /\ i < k + f) \/ i = k + f
              \/ (k + f < i /\ i < k + m) \/ i = k + m
  <2>1. i \in Nat /\ i >= 1 /\ i <= k + m
    BY <1>3, <1>10
  <2>2. f \in Nat /\ f < m
    BY <1>2, <1>4
  <2> QED BY ONLY <2>1, <2>2, <1>2, k \in Nat, m \in Nat
<1>11. ASSUME NEW i \in Ending(u) PROVE i = k + f
  <2>1. i \in 1..Len(u) /\ u[i][1] \in {"finish", "error"}
    BY DEF Ending, At
  <2>2. i \notin 1..k /\ ~(k < i /\ i < k + f) /\ ~(k + f < i /\ i < k + m)
    BY <1>5, <1>6, <1>8, <2>1
  <2>3. i # k + m
    BY <1>9, <2>1 DEF DoneMarker, Chunk
  <2> QED BY <1>10, <2>1, <2>2, <2>3
<1>12. ASSUME NEW i \in At(u, "[DONE]") PROVE i = k + m
  <2>1. i \in 1..Len(u) /\ u[i][1] = "[DONE]"
    BY DEF At
  <2>2. i \notin 1..k /\ ~(k < i /\ i < k + f) /\ ~(k + f < i /\ i < k + m) /\ i # k + f
    BY <1>5, <1>6, <1>7, <1>8, <2>1
  <2> QED BY <1>10, <2>1, <2>2
<1>13. ASSUME NEW i \in At(u, "content")
       PROVE  /\ i \in 1..Len(u) /\ i < k + f
              /\ u[i][2] \in Nat /\ u[i][2] <= d /\ (k < i => u[i][2] = d)
  <2>1. i \in 1..Len(u) /\ u[i][1] = "content"
    BY DEF At
  <2>2. ~(k + f < i /\ i < k + m) /\ i # k + f
    BY <1>7, <1>8, <2>1
  <2>3. i # k + m
    BY <1>9, <2>1 DEF DoneMarker, Chunk
  <2>4. CASE i \in 1..k
    BY <1>3, <1>4, <1>5, <2>1, <2>4
  <2>5. CASE k < i /\ i < k + f
    BY <1>6, <2>1, <2>5
  <2> QED BY <1>10, <2>1, <2>2, <2>3, <2>4, <2>5
<1>14. u[1] = Role
  <2>1. 1 \in 1..k /\ s[1] = Role
    BY <1>3 DEF Story
  <2> QED BY <1>3, <2>1
<1>15. ASSUME NEW i \in At(u, "content"), NEW j \in At(u, "content"), i < j
       PROVE  u[i][2] <= u[j][2]
  <2>1. CASE k < j
    <3>1. u[j][2] = d /\ u[i][2] <= d
      BY <1>13, <2>1
    <3> QED BY <3>1
  <2>2. CASE ~(k < j)
    <3>1. i \in 1..k /\ j \in 1..k
      BY <1>13, <1>15, <2>2
    <3>2. i \in At(s, "content") /\ j \in At(s, "content") /\ u[i] = s[i] /\ u[j] = s[j]
      BY <1>2, <1>3, <3>1 DEF At
    <3> QED BY <1>15, <3>2 DEF Story
  <2> QED BY <2>1, <2>2
<1>16. ASSUME NEW i \in At(u, "[DONE]")
       PROVE  i = Len(u) /\ \E j \in 1..(i - 1) : u[j][1] \in {"finish", "error"}
  <2>1. i = k + m /\ k + f \in 1..(i - 1)
    BY <1>3, <1>4, <1>12
  <2> QED BY <1>3, <1>7, <2>1
<1>17. Story(u)
  <2>1. \A i, j \in Ending(u) : i = j
    BY <1>11
  <2>2. \A i \in At(u, "content"), j \in Ending(u) : i < j
    BY <1>11, <1>13
  <2> QED BY <1>14, <1>15, <1>16, <2>1, <2>2 DEF Story
<1>18. TrueEnding(u, n, d, e)
  <2>1. ASSUME NEW i \in At(u, "finish") PROVE t[f][1] = "finish"
    <3>1. i \in Ending(u) /\ u[i][1] = "finish"
      BY DEF Ending, At
    <3> QED BY <1>7, <1>11, <3>1
  <2>2. ASSUME NEW i \in At(u, "error") PROVE t[f][1] = "error"
    <3>1. i \in Ending(u) /\ u[i][1] = "error"
      BY DEF Ending, At
    <3> QED BY <1>7, <1>11, <3>1
  <2> QED BY <2>1, <2>2 DEF TrueEnding
<1> QED BY <1>1, <1>17, <1>18

\* The chunks the generator ends with have that shape.
LEMMA ErrorCloses ==
    ASSUME NEW d \in Nat, NEW t \in ErrorChunks
    PROVE  t \in Seq(Chunks) /\ Closes(t, 1, d) /\ t[1][1] = "error"
<1>1. Chunk("error") \in Chunks /\ DoneMarker \in Chunks
  BY DEF Chunk, DoneMarker, Chunks
<1>2. PICK x \in Chunks, y \in Chunks : x = Chunk("error") /\ y = DoneMarker
  BY <1>1
<1>3. t = <<x, y>>
  BY <1>2 DEF ErrorChunks
<1>4. t \in Seq(Chunks) /\ Len(t) = 2 /\ t[1] = x /\ t[2] = y
  BY <1>3
<1>5. x[1] = "error"
  BY <1>2 DEF Chunk
<1> QED BY <1>2, <1>4, <1>5 DEF Closes

LEMMA Tuples ==
    ASSUME NEW a, NEW b, NEW c, NEW d
    PROVE  /\ Append(<<>>, a) = <<a>> /\ Append(<<a>>, b) = <<a, b>>
           /\ Append(<<a, b>>, c) = <<a, b, c>> /\ Append(<<a, b, c>>, d) = <<a, b, c, d>>
           /\ <<a>> # <<>>
<1> DEFINE S == {a, b, c, d}
<1>1. Append(<<>>, a) = <<a>>
  OBVIOUS
<1>2. Append(<<a>>, b) = <<a, b>>
  <2>1. PICK p \in Seq(S) : p = <<a>> /\ Len(p) = 1 /\ p[1] = a
    <3>1. <<a>> \in Seq(S) /\ Len(<<a>>) = 1 /\ <<a>>[1] = a
      OBVIOUS
    <3> QED BY <3>1, Zenon
  <2>2. PICK q \in Seq(S) : q = <<a, b>> /\ Len(q) = 2 /\ q[1] = a /\ q[2] = b
    <3>1. <<a, b>> \in Seq(S) /\ Len(<<a, b>>) = 2 /\ <<a, b>>[1] = a /\ <<a, b>>[2] = b
      OBVIOUS
    <3> QED BY <3>1, Zenon
  <2>3. Append(p, b) \in Seq(S) /\ Len(Append(p, b)) = 2 /\ Append(p, b)[2] = b
        /\ \A i \in 1..1 : Append(p, b)[i] = p[i]
    BY <2>1, AppendProperties
  <2>4. \A i \in 1..2 : Append(p, b)[i] = q[i]
    BY <2>1, <2>2, <2>3
  <2>5. Append(p, b) = q
    BY <2>2, <2>3, <2>4, SeqEqual
  <2> QED BY <2>1, <2>2, <2>5, Zenon
<1>3. Append(<<a, b>>, c) = <<a, b, c>>
  <2>1. PICK p \in Seq(S) : p = <<a, b>> /\ Len(p) = 2 /\ p[1] = a /\ p[2] = b
    <3>1. <<a, b>> \in Seq(S) /\ Len(<<a, b>>) = 2 /\ <<a, b>>[1] = a /\ <<a, b>>[2] = b
      OBVIOUS
    <3> QED BY <3>1, Zenon
  <2>2. PICK q \in Seq(S) : q = <<a, b, c>> /\ Len(q) = 3 /\ q[1] = a /\ q[2] = b /\ q[3] = c
    <3>1. <<a, b, c>> \in Seq(S) /\ Len(<<a, b, c>>) = 3 /\ <<a, b, c>>[1] = a /\ <<a, b, c>>[2] = b /\ <<a, b, c>>[3] = c
      OBVIOUS
    <3> QED BY <3>1, Zenon
  <2>3. Append(p, c) \in Seq(S) /\ Len(Append(p, c)) = 3 /\ Append(p, c)[3] = c
        /\ \A i \in 1..2 : Append(p, c)[i] = p[i]
    BY <2>1, AppendProperties
  <2>4. \A i \in 1..3 : Append(p, c)[i] = q[i]
    BY <2>1, <2>2, <2>3
  <2>5. Append(p, c) = q
    BY <2>2, <2>3, <2>4, SeqEqual
  <2> QED BY <2>1, <2>2, <2>5, Zenon
<1>4. Append(<<a, b, c>>, d) = <<a, b, c, d>>
  <2>1. PICK p \in Seq(S) : p = <<a, b, c>> /\ Len(p) = 3 /\ p[1] = a /\ p[2] = b /\ p[3] = c
    <3>1. <<a, b, c>> \in Seq(S) /\ Len(<<a, b, c>>) = 3 /\ <<a, b, c>>[1] = a /\ <<a, b, c>>[2] = b /\ <<a, b, c>>[3] = c
      OBVIOUS
    <3> QED BY <3>1, Zenon
  <2>2. PICK q \in Seq(S) : q = <<a, b, c, d>> /\ Len(q) = 4 /\ q[1] = a /\ q[2] = b /\ q[3] = c /\ q[4] = d
    <3>1. <<a, b, c, d>> \in Seq(S) /\ Len(<<a, b, c, d>>) = 4 /\ <<a, b, c, d>>[1] = a /\ <<a, b, c, d>>[2] = b /\ <<a, b, c, d>>[3] = c /\ <<a, b, c, d>>[4] = d
      OBVIOUS
    <3> QED BY <3>1, Zenon
  <2>3. Append(p, d) \in Seq(S) /\ Len(Append(p, d)) = 4 /\ Append(p, d)[4] = d
        /\ \A i \in 1..3 : Append(p, d)[i] = p[i]
    BY <2>1, AppendProperties
  <2>4. \A i \in 1..4 : Append(p, d)[i] = q[i]
    BY <2>1, <2>2, <2>3
  <2>5. Append(p, d) = q
    BY <2>2, <2>3, <2>4, SeqEqual
  <2> QED BY <2>1, <2>2, <2>5, Zenon
<1> QED BY <1>1, <1>2, <1>3, <1>4

LEMMA DoneCloses ==
    ASSUME decoded \in Nat, NEW t \in DoneChunks
    PROVE  t \in Seq(Chunks) /\ \E f \in Nat : Closes(t, f, decoded) /\ t[f][1] = "finish"
<1>1. /\ <<"content", decoded>> \in Chunks /\ Chunk("finish") \in Chunks
      /\ Chunk("usage") \in Chunks /\ DoneMarker \in Chunks
  BY DEF Chunk, DoneMarker, Chunks
<1>2. PICK c \in Chunks, x \in Chunks, y \in Chunks, z \in Chunks :
         /\ c = <<"content", decoded>> /\ x = Chunk("finish")
         /\ y = Chunk("usage") /\ z = DoneMarker
  BY <1>1
<1>3. x[1] = "finish" /\ y[1] = "usage"
  BY <1>2 DEF Chunk
<1>4. PICK tail \in {<<>>, <<c>>}, usage \in {<<>>, <<y>>} :
         t = ((tail \o <<x>>) \o usage) \o <<z>>
  BY <1>2 DEF DoneChunks, Shown
<1>9. t = Append(IF usage = <<>> THEN Append(tail, x) ELSE Append(Append(tail, x), y), z)
  <2>1. PICK a \in Seq(Chunks) : a = Append(tail, x) /\ tail \o <<x>> = a
    <3>1. tail \in Seq(Chunks)
      <4>1. <<>> \in Seq(Chunks) /\ <<c>> \in Seq(Chunks)
        OBVIOUS
      <4> QED BY <4>1, Zenon
    <3>2. Append(tail, x) = tail \o <<x>> /\ Append(tail, x) \in Seq(Chunks)
      BY <3>1, AppendIsJoin, AppendProperties
    <3> QED BY <3>2, Zenon
  <2>2. Append(a, y) = a \o <<y>> /\ Append(a, y) \in Seq(Chunks) /\ a \o <<>> = a
    BY <2>1, AppendIsJoin, AppendProperties, ConcatEmptySeq
  <2>3. <<y>> # <<>>
    OBVIOUS
  <2>4. PICK b \in Seq(Chunks) : b = (IF usage = <<>> THEN a ELSE Append(a, y)) /\ a \o usage = b
    <3>1. CASE usage = <<>>
      BY <2>1, <2>2, <3>1, Zenon
    <3>2. CASE usage = <<y>>
      BY <2>1, <2>2, <2>3, <3>2, Zenon
    <3> QED BY <3>1, <3>2
  <2>5. Append(b, z) = b \o <<z>>
    BY <2>4, AppendIsJoin
  <2> QED BY <1>4, <2>1, <2>4, <2>5, Zenon
<1>5. CASE tail = <<>> /\ usage = <<>>
  <2>1. t = <<x, z>>
    BY <1>9, <1>5, Tuples, Zenon
  <2>2. t \in Seq(Chunks) /\ Len(t) = 2 /\ t[1] = x /\ t[2] = z
    BY <2>1
  <2>3. Closes(t, 1, decoded)
    BY <1>2, <1>3, <2>2 DEF Closes
  <2> QED BY <1>3, <2>2, <2>3
<1>6. CASE tail = <<>> /\ usage = <<y>>
  <2>1. t = <<x, y, z>>
    BY <1>9, <1>6, Tuples, Zenon
  <2>2. t \in Seq(Chunks) /\ Len(t) = 3 /\ t[1] = x /\ t[2] = y /\ t[3] = z
    BY <2>1
  <2>3. Closes(t, 1, decoded)
    BY <1>2, <1>3, <2>2 DEF Closes
  <2> QED BY <1>3, <2>2, <2>3
<1>7. CASE tail = <<c>> /\ usage = <<>>
  <2>1. t = <<c, x, z>>
    BY <1>9, <1>7, Tuples, Zenon
  <2>2. t \in Seq(Chunks) /\ Len(t) = 3 /\ t[1] = c /\ t[2] = x /\ t[3] = z
    BY <2>1
  <2>3. Closes(t, 2, decoded)
    BY <1>2, <1>3, <2>2 DEF Closes
  <2> QED BY <1>3, <2>2, <2>3
<1>8. CASE tail = <<c>> /\ usage = <<y>>
  <2>1. t = <<c, x, y, z>>
    BY <1>9, <1>8, Tuples, Zenon
  <2>2. t \in Seq(Chunks) /\ Len(t) = 4 /\ t[1] = c /\ t[2] = x /\ t[3] = y /\ t[4] = z
    BY <2>1
  <2>3. Closes(t, 2, decoded)
    BY <1>2, <1>3, <2>2 DEF Closes
  <2> QED BY <1>3, <2>2, <2>3
<1> QED BY <1>5, <1>6, <1>7, <1>8

-----------------------------------------------------------------------------
\* What the thread holds.
LEMMA HeldIs ==
    ASSUME Types
    PROVE  /\ reader \in Carrying => reader.item \in Items /\ Held = <<reader.item>>
           /\ reader \in Resting => Held = <<>>
           /\ reader.at \in {"check", "put"} => reader \in Carrying
           /\ reader.at \in {"read", "dead"} => reader \in Resting
           /\ Held \in Seq(Items) /\ wire \in Seq(Items) /\ Flow \in Seq(Items)
<1>1. reader \in Carrying => reader.item \in Items /\ reader.at \in {"check", "put"}
  BY DEF Carrying
<1>2. reader \in Resting => reader.at \in {"read", "dead"}
  BY DEF Resting
<1>3. reader.at \in {"check", "put"} => reader \in Carrying
  BY <1>2 DEF Types
<1>4. reader.at \in {"read", "dead"} => reader \in Resting
  BY <1>1 DEF Types
<1>5. reader \in Carrying => Held = <<reader.item>>
  BY <1>1 DEF Held
<1>6. reader \in Resting => Held = <<>>
  BY <1>2 DEF Held
<1>7. Held \in Seq(Items)
  <2>1. CASE reader \in Carrying
    <3>1. PICK x \in Items : x = reader.item
      BY <1>1, <2>1
    <3>2. <<x>> \in Seq(Items)
      OBVIOUS
    <3> QED BY <1>5, <2>1, <3>1, <3>2, Zenon
  <2>2. CASE reader \in Resting
    <3>1. <<>> \in Seq(Items)
      OBVIOUS
    <3> QED BY <1>6, <2>2, <3>1, Zenon
  <2> QED BY <2>1, <2>2 DEF Types
<1>8. wire \in Seq(Items)
  BY EventsAreItems DEF Types
<1>9. Flow \in Seq(Items)
  <2>1. PICK p \in Seq(Items) : p = pending
    BY DEF Types
  <2>2. p \o Held \in Seq(Items)
    BY <1>7, ConcatProperties
  <2>3. (p \o Held) \o wire \in Seq(Items)
    BY <1>8, <2>2, ConcatProperties
  <2> QED BY <2>1, <2>3 DEF Flow
<1> QED BY <1>1, <1>3, <1>4, <1>5, <1>6, <1>7, <1>8, <1>9

\* What an item becomes in the hands of the thread.
LEMMA AfterItemIs ==
    ASSUME NEW item \in Items
    PROVE  /\ AfterItem(item) \in Carrying \cup Resting
           /\ Enqueue(item) \in Carrying
           /\ AfterRefusal(item) \in Carrying \cup Resting
           /\ item[1] \in {"token", "done", "error"} =>
                 AfterItem(item) = [at |-> "read", item |-> Item("none")]
           /\ item[1] = "rpc_error" => AfterItem(item) = Enqueue(Item("end"))
           /\ item[1] = "end" => AfterItem(item) = [at |-> "dead", item |-> Item("none")]
<1>1. item[1] \in {"token", "done", "error", "rpc_error", "end"}
  BY DEF Items
<1>2. \A x \in Items : Enqueue(x) \in Carrying
  BY DEF Enqueue, Carrying
<1>3. Item("end") \in Items
  BY DEF Item, Items
<1>4. CASE item[1] \in {"token", "done", "error"}
  <2>1. AfterItem(item) = [at |-> "read", item |-> Item("none")]
    BY <1>4 DEF AfterItem
  <2> QED BY <1>2, <1>4, <1>3, <2>1 DEF Resting, AfterRefusal
<1>5. CASE item[1] = "rpc_error"
  <2>1. AfterItem(item) = Enqueue(Item("end"))
    BY <1>5 DEF AfterItem
  <2> QED BY <1>2, <1>3, <1>5, <2>1 DEF AfterRefusal
<1>6. CASE item[1] = "end"
  <2>1. AfterItem(item) = [at |-> "dead", item |-> Item("none")]
    BY <1>6 DEF AfterItem
  <2> QED BY <1>2, <1>6, <2>1 DEF Resting, AfterRefusal
<1> QED BY <1>1, <1>4, <1>5, <1>6

LEMMA ItemTypes ==
    /\ \A how \in {"done", "error"} : Item(how) \in Events
    /\ \A how \in {"rpc_error", "end"} : Item(how) \in Items
BY DEF Item, Events, Items

LEMMA TypesMove == IInv /\ [Next]_vars => Types'
<1> SUFFICES ASSUME IInv, [Next]_vars PROVE Types'
  OBVIOUS
<1>0. /\ sent \in Nat /\ decoded \in Nat /\ ending \in Ended \cup {"open"}
      /\ wire \in Seq(Events) /\ pending \in Seq(Items)
      /\ reader \in Carrying \cup Resting
      /\ out \in Seq(Chunks) /\ todo \in Seq(Chunks)
  BY DEF IInv, Types
<1>1. CASE WorkerToken
  <2>1. sent + 1 \in Nat /\ <<"token", sent + 1>> \in Events
    BY <1>0 DEF Events
  <2>2. Append(wire, <<"token", sent + 1>>) \in Seq(Events)
    BY <1>0, <2>1, AppendProperties
  <2> QED BY <1>0, <1>1, <2>1, <2>2 DEF WorkerToken, Types, readerVars, generatorVars
<1>2. ASSUME NEW how \in Ended, WorkerEnds(how) PROVE Types'
  <2>1. wire' \in Seq(Events)
    <3>1. how \in {"done", "error"} => Append(wire, Item(how)) \in Seq(Events)
      BY <1>0, ItemTypes, AppendProperties
    <3> QED BY <1>0, <1>2, <3>1 DEF WorkerEnds
  <2> QED BY <1>0, <1>2, <2>1 DEF WorkerEnds, Types, readerVars, generatorVars
<1>3. CASE ReadEvent
  <2>1. Head(wire) \in Events /\ Tail(wire) \in Seq(Events)
    BY <1>0, <1>3, EmptySeq, HeadTailProperties DEF ReadEvent
  <2>2. Enqueue(Head(wire)) \in Carrying
    <3>1. Head(wire) \in Items
      BY <2>1 DEF Events, Items
    <3> QED BY <3>1, AfterItemIs
  <2> QED BY <1>0, <1>3, <2>1, <2>2 DEF ReadEvent, Types, generatorVars
<1>4. CASE ReadError
  BY <1>0, <1>4, ItemTypes, AfterItemIs DEF ReadError, Types, generatorVars, workerVars
<1>5. CASE ReadEnd
  BY <1>0, <1>5, ItemTypes, AfterItemIs DEF ReadEnd, Types, generatorVars, workerVars
<1>6. CASE EnqueueCheck
  <2>1. reader \in Carrying /\ reader.item \in Items
    BY <1>6, HeldIs DEF EnqueueCheck, IInv
  <2>2. AfterRefusal(reader.item) \in Carrying \cup Resting
    BY <2>1, AfterItemIs
  <2>3. [reader EXCEPT !.at = "put"] \in Carrying
    BY <2>1 DEF Carrying
  <2> QED BY <1>0, <1>6, <2>2, <2>3 DEF EnqueueCheck, Types, generatorVars, workerVars
<1>7. CASE Put
  <2>1. reader.item \in Items
    BY <1>7, HeldIs DEF Put, IInv
  <2>2. AfterItem(reader.item) \in Carrying \cup Resting
    BY <2>1, AfterItemIs
  <2>3. Append(pending, reader.item) \in Seq(Items)
    BY <1>0, <2>1, AppendProperties
  <2> QED BY <1>0, <1>7, <2>2, <2>3 DEF Put, Types, generatorVars, workerVars
<1>8. CASE PutTimesOut
  <2>1. reader.item \in Items
    BY <1>8, HeldIs DEF PutTimesOut, IInv
  <2>2. OnFull(reader.item) \in Carrying
    BY <2>1, AfterItemIs DEF OnFull
  <2> QED BY <1>0, <1>8, <2>2 DEF PutTimesOut, Types, generatorVars, workerVars
<1>9. CASE Start
  <2>1. <<Role>> \in Seq(Chunks)
    <3>1. PICK x \in Chunks : x = Role
      BY DEF Role, Chunk, Chunks
    <3>2. <<x>> \in Seq(Chunks)
      OBVIOUS
    <3> QED BY <3>1, <3>2, Zenon
  <2> QED BY <1>0, <1>9, <2>1 DEF Start, Types, workerVars, readerVars
<1>10. CASE Poll
  <2>1. PICK item \in Items : item = Head(pending)
    BY <1>0, <1>10, EmptySeq DEF Poll
  <2>2. todo' \in ChunksFor(item) /\ decoded' \in {decoded, decoded + 1} /\ pending' = Tail(pending)
    BY <1>10, <2>1 DEF Poll
  <2>3. todo' \in Seq(Chunks)
    <3>1. CASE item[1] = "token"
      <4>1. item[2] \in Nat /\ todo' \in Shown(item[2])
        BY <2>2, <3>1 DEF ChunksFor, Items
      <4>2. PICK c \in Chunks : c = <<"content", item[2]>>
        BY <4>1 DEF Chunks
      <4>3. <<>> \in Seq(Chunks) /\ <<c>> \in Seq(Chunks)
        OBVIOUS
      <4>4. todo' = <<>> \/ todo' = <<c>>
        BY <4>1, <4>2 DEF Shown
      <4> QED BY <4>3, <4>4, Zenon
    <3>2. CASE item[1] = "done"
      <4>1. todo' \in DoneChunks
        BY <2>2, <3>2 DEF ChunksFor
      <4> QED BY <1>0, <4>1, DoneCloses
    <3>3. CASE item[1] # "token" /\ item[1] # "done"
      <4>1. todo' \in ErrorChunks
        BY <2>2, <3>3 DEF ChunksFor
      <4> QED BY <1>0, <4>1, ErrorCloses
    <3> QED BY <3>1, <3>2, <3>3
  <2>4. Tail(pending) \in Seq(Items)
    BY <1>0, <1>10, HeadTailProperties DEF Poll
  <2>5. decoded' \in Nat
    BY <1>0, <2>2
  <2> QED BY <1>0, <1>10, <2>2, <2>3, <2>4, <2>5 DEF Poll, Types, workerVars, readerVars
<1>11. CASE Yield
  <2>1. Head(todo) \in Chunks /\ Tail(todo) \in Seq(Chunks)
    BY <1>0, <1>11, EmptySeq, HeadTailProperties DEF Yield
  <2>2. Append(out, Head(todo)) \in Seq(Chunks)
    BY <1>0, <2>1, AppendProperties
  <2> QED BY <1>0, <1>11, <2>1, <2>2 DEF Yield, Types, workerVars, readerVars
<1>12. CASE CancelCall
  <2>1. <<>> \in Seq(Events)
    OBVIOUS
  <2> QED BY <1>0, <1>12, <2>1 DEF CancelCall, Types, readerVars
<1>13. CASE Close
  <2>1. <<>> \in Seq(Chunks)
    OBVIOUS
  <2> QED BY <1>0, <1>13, <2>1 DEF Close, Types, readerVars, workerVars
<1>14. CASE EnterTry \/ PollSeesDisconnect \/ Yielded \/ Finally \/ Disconnect \/ UNCHANGED vars
  BY <1>0, <1>14 DEF EnterTry, PollSeesDisconnect, Yielded, Finally, Disconnect, vars, Types,
                     workerVars, readerVars, generatorVars
<1> QED BY <1>1, <1>2, <1>3, <1>4, <1>5, <1>6, <1>7, <1>8, <1>9, <1>10, <1>11, <1>12, <1>13, <1>14
        DEF Next, Worker, Reader, Generator

-----------------------------------------------------------------------------
\* Nobody stops the thread or cancels the call before the last poll, and the
\* thread reports an ending only when the worker has written everything.
LEMMA StopMoves == IInv /\ [Next]_vars => StopInv'
<1> SUFFICES ASSUME IInv, [Next]_vars PROVE StopInv'
  OBVIOUS
<1>0. StopInv /\ Types
  BY DEF IInv
<1>1. CASE WorkerToken \/ \E how \in Ended : WorkerEnds(how)
  <2>1. ending = "open" /\ UNCHANGED <<cancelled, stopReader, reader, events>>
    BY <1>1 DEF WorkerToken, WorkerEnds, readerVars, generatorVars
  <2> QED BY <1>0, <2>1 DEF StopInv, Polling
<1>2. CASE ReadEvent
  <2>1. UNCHANGED <<cancelled, stopReader, events>> /\ reader' = Enqueue(Head(wire))
    BY <1>2 DEF ReadEvent, generatorVars
  <2>2. Head(wire)[1] \in {"token", "done", "error"}
    <3>1. Head(wire) \in Events
      BY <1>0, <1>2, EmptySeq DEF ReadEvent, Types
    <3> QED BY <3>1 DEF Events
  <2>3. reader'.item = Head(wire)
    BY <2>1 DEF Enqueue
  <2> QED BY <1>0, <2>1, <2>2, <2>3 DEF StopInv, Polling
<1>3. CASE ReadError \/ ReadEnd
  <2>1. UNCHANGED <<cancelled, stopReader, events, wire, ending>>
    BY <1>3 DEF ReadError, ReadEnd, generatorVars, workerVars
  <2>2. Polling => wire = <<>> /\ ending # "open"
    BY <1>0, <1>3 DEF StopInv, ReadError, ReadEnd, RaisesRpcError, StreamIsOver, Ended
  <2> QED BY <1>0, <2>1, <2>2 DEF StopInv, Polling
<1>4. CASE EnqueueCheck \/ Put \/ PutTimesOut
  <2>1. UNCHANGED <<cancelled, stopReader, events, wire, ending>> /\ reader.at \in {"check", "put"}
    BY <1>4 DEF EnqueueCheck, Put, PutTimesOut, generatorVars, workerVars
  <2>2. PICK item \in Items : item = reader.item
    BY <1>0, <2>1, HeldIs
  <2>3. Polling => reader' \in {Enqueue(item), [reader EXCEPT !.at = "put"], AfterItem(item)}
    BY <1>0, <1>4, <2>2 DEF EnqueueCheck, Put, PutTimesOut, OnFull, StopInv
  <2>4. Polling /\ reader'.item[1] \in {"rpc_error", "end"} => item[1] \in {"rpc_error", "end"}
    <3> SUFFICES ASSUME Polling, reader'.item[1] \in {"rpc_error", "end"}
                 PROVE  item[1] \in {"rpc_error", "end"}
      OBVIOUS
    <3>1. CASE reader' = Enqueue(item)
      BY <3>1 DEF Enqueue
    <3>2. CASE reader' = [reader EXCEPT !.at = "put"]
      <4>1. reader \in Carrying
        BY <1>0, <2>1, HeldIs
      <4>2. reader'.item = reader.item
        BY <3>2, <4>1 DEF Carrying
      <4> QED BY <2>2, <4>2
    <3>3. CASE reader' = AfterItem(item) /\ item[1] \in {"token", "done", "error"}
      <4>1. reader' = [at |-> "read", item |-> Item("none")]
        BY <3>3, AfterItemIs
      <4>2. reader'.item[1] = "none"
        BY <4>1 DEF Item
      <4> QED BY <4>2
    <3>4. item[1] \in {"token", "done", "error", "rpc_error", "end"}
      BY DEF Items
    <3> QED BY <2>3, <3>1, <3>2, <3>3, <3>4
  <2> QED BY <1>0, <2>1, <2>2, <2>4 DEF StopInv, Polling
<1>5. CASE Start \/ EnterTry \/ Poll \/ PollSeesDisconnect \/ Yield \/ Yielded \/ Disconnect
  <2>1. /\ UNCHANGED <<cancelled, stopReader, wire, ending, reader>>
        /\ Polling' => Polling
        /\ events' \in {"last", "finally", "abandoned"} =>
              Polling \/ events \in {"last", "finally", "abandoned"}
    BY <1>5 DEF Start, EnterTry, Poll, PollSeesDisconnect, Yield, Yielded, Disconnect, Polling,
                workerVars, readerVars, generatorVars
  <2> QED BY <1>0, <2>1 DEF StopInv
<1>6. CASE Finally \/ CancelCall
  <2>1. events' \in {"cancel", "closed"}
    BY <1>6 DEF Finally, CancelCall
  <2> QED BY <2>1 DEF StopInv, Polling
<1>7. CASE Close
  <2>1. ~Polling' /\ cancelled' = cancelled /\ (Polling \/ events = "last")
    BY <1>7 DEF Close, AfterClose, Protected, Polling
  <2> QED BY <1>0, <2>1 DEF StopInv
<1>8. CASE UNCHANGED vars
  BY <1>0, <1>8 DEF StopInv, Polling, vars
<1> QED BY <1>1, <1>2, <1>3, <1>4, <1>5, <1>6, <1>7, <1>8 DEF Next, Worker, Reader, Generator

\* As long as the worker has not ended, what is on its way is tokens only.
LEMMA OpenTells ==
    ASSUME NEW s \in Seq(Items), NEW n \in Nat, NEW d \in Nat, Tells(s, n, d, "open")
    PROVE  Len(s) = n - d
<1>1. Len(s) \in Nat /\ n - d \in Nat /\ n - d <= Len(s)
  BY DEF Tells
<1> SUFFICES ASSUME n - d < Len(s) PROVE FALSE
  BY <1>1
<1>2. s[(n - d) + 1] = <<"open", 0>>
  BY DEF Tells, EndItem, Item
<1>3. (n - d) + 1 \in 1..Len(s)
  BY <1>1
<1>4. s[(n - d) + 1] \in Items
  BY <1>3, ElementOfSeq
<1> QED BY <1>2, <1>4 DEF Items

LEMMA FlowMoves == IInv /\ [Next]_vars => FlowInv'
<1> SUFFICES ASSUME IInv, [Next]_vars, Polling' PROVE Tells(Flow, sent, decoded, ending)'
  BY DEF FlowInv
<1>0. Types /\ StopInv /\ Types'
  BY TypesMove DEF IInv
<1>1. sent \in Nat /\ decoded \in Nat /\ Flow \in Seq(Items) /\ Held \in Seq(Items)
      /\ wire \in Seq(Items) /\ pending \in Seq(Items)
  BY <1>0, HeldIs DEF Types
<1>2. Polling /\ ~stopReader /\ ~cancelled /\ Tells(Flow, sent, decoded, ending)
  <2>1. Polling
    BY DEF Polling, vars, Next, Worker, Reader, Generator, WorkerToken, WorkerEnds, ReadEvent,
           ReadError, ReadEnd, EnqueueCheck, Put, PutTimesOut, Start, EnterTry, Poll,
           PollSeesDisconnect, Yield, Yielded, Finally, CancelCall, Close, Disconnect,
           AfterClose, Protected, generatorVars
  <2> QED BY <1>0, <2>1 DEF StopInv, IInv, FlowInv
<1>3. ASSUME Flow' = Flow, sent' = sent, decoded' = decoded, ending' = ending
      PROVE  Tells(Flow, sent, decoded, ending)'
  BY <1>2, <1>3 DEF Tells, EndItem, Item
<1>4. ASSUME UNCHANGED <<pending, reader, wire>> PROVE Flow' = Flow
  BY <1>4 DEF Flow, Held
<1>5. CASE WorkerToken
  <2>1. ending = "open" /\ ending' = "open" /\ sent' = sent + 1 /\ decoded' = decoded
        /\ wire' = Append(wire, <<"token", sent + 1>>) /\ UNCHANGED <<pending, reader>>
    BY <1>5 DEF WorkerToken, readerVars, generatorVars
  <2>2. <<"token", sent + 1>> \in Items
    BY <1>1 DEF Items
  <2>3. Flow' = Append(Flow, <<"token", sent + 1>>)
    <3>1. (pending \o Held) \o Append(wire, <<"token", sent + 1>>)
             = Append((pending \o Held) \o wire, <<"token", sent + 1>>)
      BY <1>1, <2>2, FlowOfWrite
    <3>2. Held' = Held
      BY <2>1 DEF Held
    <3> QED BY <2>1, <3>1, <3>2, Zenon DEF Flow
  <2>4. Tells(Append(Flow, <<"token", sent + 1>>), sent + 1, decoded, "open")
    BY <1>1, <1>2, <2>1, TellsToken
  <2> QED BY <2>1, <2>3, <2>4 DEF Tells, EndItem, Item
<1>6. ASSUME NEW how \in Ended, WorkerEnds(how) PROVE Tells(Flow, sent, decoded, ending)'
  <2>1. ending = "open" /\ ending' = how /\ sent' = sent /\ decoded' = decoded
        /\ UNCHANGED <<pending, reader>>
        /\ wire' = IF how \in {"done", "error"} THEN Append(wire, Item(how)) ELSE wire
    BY <1>2, <1>6 DEF WorkerEnds, readerVars, generatorVars
  <2>2. CASE how \in {"done", "error"}
    <3>1. PICK x \in Items : x = Item(how) /\ x[1] # "token" /\ x = EndItem(how)
      <4>1. Item(how) \in Items /\ Item(how)[1] = how
        BY <2>2 DEF Item, Items
      <4>2. EndItem(how) = Item(how) /\ how # "token"
        BY <2>2 DEF EndItem
      <4> QED BY <4>1, <4>2
    <3>2. Flow' = Append(Flow, x)
      <4>1. (pending \o Held) \o Append(wire, x) = Append((pending \o Held) \o wire, x)
        BY <1>1, FlowOfWrite
      <4>2. Held' = Held
        BY <2>1 DEF Held
      <4>3. wire' = Append(wire, x)
        BY <2>1, <2>2, <3>1
      <4> QED BY <2>1, <4>1, <4>2, <4>3, Zenon DEF Flow
    <3>3. Len(Flow) = sent - decoded
      BY <1>1, <1>2, <2>1, OpenTells
    <3>4. ~(sent - decoded < Len(Flow))
      BY <1>1, <3>3
    <3>5. Tells(Append(Flow, x), sent, decoded, how)
      BY <1>1, <1>2, <2>1, <3>1, <3>4, TellsMore
    <3> QED BY <2>1, <3>2, <3>5 DEF Tells, EndItem, Item
  <2>3. CASE how \in {"rpc_error", "silent"}
    <3>1. Flow' = Flow
      BY <1>4, <2>1, <2>3
    <3>2. Tells(Flow, sent, decoded, how)
      BY <1>1, <1>2, <2>1, <2>3, TellsSilence
    <3> QED BY <2>1, <3>1, <3>2 DEF Tells, EndItem, Item
  <2> QED BY <2>2, <2>3 DEF Ended
<1>7. CASE ReadEvent
  <2>1. reader.at = "read" /\ wire # <<>> /\ reader' = Enqueue(Head(wire)) /\ wire' = Tail(wire)
        /\ UNCHANGED <<pending, sent, decoded, ending>>
    BY <1>7 DEF ReadEvent, generatorVars
  <2>2. Held = <<>>
    BY <2>1 DEF Held
  <2>3. Held' = <<Head(wire)>>
    BY <2>1 DEF Held, Enqueue
  <2>4. Flow' = Flow
    BY <1>1, <2>1, <2>2, <2>3, FlowOfRead DEF Flow
  <2> QED BY <1>3, <2>1, <2>4
<1>8. CASE ReadError \/ ReadEnd
  <2>1. reader.at = "read" /\ wire = <<>> /\ UNCHANGED <<pending, wire, sent, decoded, ending>>
    BY <1>2, <1>8 DEF ReadError, ReadEnd, RaisesRpcError, StreamIsOver, generatorVars, workerVars
  <2>2. PICK x \in Items :
           /\ reader' = Enqueue(x) /\ x[1] # "token"
           /\ x = EndItem(ending) \/ ending \in {"done", "error"}
    <3>1. CASE ReadError
      <4>1. ending = "rpc_error" /\ reader' = Enqueue(Item("rpc_error"))
        BY <1>2, <3>1 DEF ReadError, RaisesRpcError
      <4>2. PICK x \in Items : x = Item("rpc_error")
        BY ItemTypes
      <4> QED BY <4>1, <4>2 DEF Item, EndItem
    <3>2. CASE ReadEnd
      <4>1. ending \in {"done", "error", "silent"} /\ reader' = Enqueue(Item("end"))
        BY <3>2 DEF ReadEnd, StreamIsOver, Ended
      <4>2. PICK x \in Items : x = Item("end")
        BY ItemTypes
      <4> QED BY <4>1, <4>2 DEF Item, EndItem
    <3> QED BY <1>8, <3>1, <3>2
  <2>3. Held = <<>> /\ Held' = <<x>>
    BY <2>1, <2>2 DEF Held, Enqueue
  <2>4. Flow' = Append(Flow, x)
    <3>1. PICK p \in Seq(Items) : p = pending
      BY <1>1
    <3>2. PICK y \in Seq(Items) : y = <<x>> /\ Append(p, x) = p \o y
      <4>1. Append(p, x) = p \o <<x>> /\ <<x>> \in Seq(Items)
        BY AppendIsJoin
      <4> QED BY <4>1, Zenon
    <3>3. PICK z \in Seq(Items) : z = p \o y
      BY ConcatProperties
    <3>4. p \o <<>> = p /\ z \o <<>> = z
      BY <3>1, <3>3, ConcatEmptySeq
    <3>5. Flow = p
      BY <2>1, <2>3, <3>1, <3>4, Zenon DEF Flow
    <3>6. Flow' = z
      BY <2>1, <2>3, <3>1, <3>2, <3>3, <3>4, Zenon DEF Flow
    <3> QED BY <3>2, <3>3, <3>5, <3>6, Zenon
  <2>5. Len(Flow) = sent - decoded => x = EndItem(ending)
    <3>1. ending \in {"done", "error"} => sent - decoded < Len(Flow)
      BY <1>2 DEF Tells
    <3>2. Len(Flow) \in Nat
      BY <1>1
    <3> QED BY <1>1, <2>2, <3>1, <3>2
  <2>6. Tells(Append(Flow, x), sent, decoded, ending)
    BY <1>1, <1>2, <2>2, <2>5, TellsMore
  <2> QED BY <2>1, <2>4, <2>6 DEF Tells, EndItem, Item
<1>9. CASE EnqueueCheck \/ PutTimesOut
  <2>1. reader.at \in {"check", "put"} /\ UNCHANGED <<pending, wire, sent, decoded, ending>>
        /\ reader' \in {[reader EXCEPT !.at = "put"], Enqueue(reader.item)}
    BY <1>2, <1>9 DEF EnqueueCheck, PutTimesOut, OnFull, generatorVars, workerVars
  <2>2. Held' = Held
    <3>1. reader \in Carrying
      BY <1>0, <2>1, HeldIs
    <3>2. reader'.at \in {"check", "put"} /\ reader'.item = reader.item
      BY <2>1, <3>1 DEF Carrying, Enqueue
    <3> QED BY <2>1, <3>2 DEF Held
  <2>3. Flow' = Flow
    BY <2>1, <2>2 DEF Flow
  <2> QED BY <1>3, <2>1, <2>3
<1>10. CASE Put
  <2>1. reader.at = "put" /\ pending' = Append(pending, reader.item)
        /\ reader' = AfterItem(reader.item) /\ UNCHANGED <<wire, sent, decoded, ending>>
    BY <1>10 DEF Put, generatorVars, workerVars
  <2>2. PICK x \in Items : x = reader.item /\ Held = <<x>>
    BY <1>0, <2>1, HeldIs
  <2>3. Flow = (Append(pending, x) \o <<>>) \o wire
    BY <1>1, <2>2, FlowOfPut DEF Flow
  <2>4. CASE x[1] \in {"token", "done", "error", "end"}
    <3>1. Held' = <<>>
      BY <2>1, <2>2, <2>4, AfterItemIs DEF Held
    <3>2. Flow' = Flow
      BY <2>1, <2>2, <2>3, <3>1 DEF Flow
    <3> QED BY <1>3, <2>1, <3>2
  <2>5. CASE x[1] = "rpc_error"
    <3>1. Held' = <<Item("end")>>
      <4>1. reader' = Enqueue(Item("end"))
        BY <2>1, <2>2, <2>5, AfterItemIs
      <4>2. reader'.at = "check" /\ reader'.item = Item("end")
        BY <4>1 DEF Enqueue
      <4> QED BY <4>2 DEF Held
    <3>2. wire = <<>>
      BY <1>0, <1>2, <2>2, <2>5 DEF StopInv
    <3>3. PICK y \in Items : y = Item("end") /\ y[1] # "token"
      BY ItemTypes DEF Item
    <3>4. PICK a \in Seq(Items) : a = Append(pending, x)
      BY <1>1, AppendProperties
    <3>5. PICK b \in Seq(Items) : b = <<y>> /\ Append(a, y) = a \o b
      <4>1. Append(a, y) = a \o <<y>> /\ <<y>> \in Seq(Items)
        BY AppendIsJoin
      <4> QED BY <4>1, Zenon
    <3>6. PICK z \in Seq(Items) : z = a \o b
      BY ConcatProperties
    <3>7. a \o <<>> = a /\ z \o <<>> = z
      BY <3>4, <3>6, ConcatEmptySeq
    <3>8. Flow = a
      BY <2>3, <3>2, <3>4, <3>7, Zenon
    <3>9. Flow' = Append(Flow, y)
      <4>1. Flow' = z
        BY <2>1, <2>2, <3>1, <3>2, <3>3, <3>4, <3>5, <3>6, <3>7, Zenon DEF Flow
      <4> QED BY <3>5, <3>6, <3>8, <4>1, Zenon
    <3>10. sent - decoded < Len(Flow)
      <4>1. Len(a) = Len(pending) + 1 /\ a[Len(a)] = x /\ Len(pending) \in Nat
        BY <1>1, <3>4, AppendProperties
      <4>2. Tells(a, sent, decoded, ending)
        BY <1>2, <3>8
      <4>3. sent - decoded \in Nat /\ sent - decoded <= Len(a)
        BY <4>2 DEF Tells
      <4>4. Len(a) # sent - decoded
        <5> SUFFICES ASSUME Len(a) = sent - decoded PROVE FALSE
          OBVIOUS
        <5>1. a[Len(a)] = <<"token", decoded + Len(a)>>
          <6>1. Len(a) \in 1..(sent - decoded)
            BY <4>1, <4>3
          <6> QED BY <4>2, <6>1 DEF Tells
        <5> QED BY <2>5, <4>1, <5>1
      <4> QED BY <3>8, <4>1, <4>3, <4>4
    <3>11. Len(Flow) # sent - decoded
      BY <1>1, <3>10
    <3>12. Tells(Append(Flow, y), sent, decoded, ending)
      BY <1>1, <1>2, <3>3, <3>11, TellsMore
    <3> QED BY <2>1, <3>9, <3>12 DEF Tells, EndItem, Item
  <2>6. x[1] \in {"token", "done", "error", "end", "rpc_error"}
    BY DEF Items
  <2> QED BY <2>4, <2>5, <2>6
<1>11. CASE Poll
  <2>1. pending # <<>> /\ pending' = Tail(pending) /\ UNCHANGED <<reader, wire, sent, ending>>
        /\ events' = (IF EndsStream(Head(pending)) THEN "last" ELSE "yield")
        /\ decoded' = (IF Head(pending)[1] = "token" THEN decoded + 1 ELSE decoded)
    BY <1>11 DEF Poll, workerVars, readerVars
  <2>2. Head(pending)[1] = "token"
    BY <2>1 DEF Polling, EndsStream
  <2>3. Flow # <<>> /\ Head(Flow) = Head(pending) /\ Flow' = Tail(Flow)
    <3>1. /\ (pending \o Held) \o wire # <<>>
          /\ Head((pending \o Held) \o wire) = Head(pending)
          /\ (Tail(pending) \o Held) \o wire = Tail((pending \o Held) \o wire)
      BY <1>1, <2>1, FlowOfPoll
    <3>2. Held' = Held
      BY <2>1 DEF Held
    <3> QED BY <2>1, <3>1, <3>2, Zenon DEF Flow
  <2>4. Tells(Tail(Flow), sent, decoded + 1, ending)
    BY <1>1, <1>2, <2>2, <2>3, TellsNext
  <2> QED BY <2>1, <2>2, <2>3, <2>4 DEF Tells, EndItem, Item
<1>12. CASE Start \/ EnterTry \/ Yield \/ Yielded \/ Disconnect \/ UNCHANGED vars
  <2>1. UNCHANGED <<pending, reader, wire, sent, decoded, ending>>
    BY <1>12 DEF Start, EnterTry, Yield, Yielded, Disconnect, vars, workerVars, readerVars,
                 generatorVars
  <2> QED BY <1>3, <1>4, <2>1
<1>13. CASE PollSeesDisconnect \/ Finally \/ CancelCall \/ Close
  <2>1. ~Polling'
    BY <1>13 DEF PollSeesDisconnect, Finally, CancelCall, Close, AfterClose, Protected, Polling
  <2> QED BY <2>1
<1> QED BY <1>5, <1>6, <1>7, <1>8, <1>9, <1>10, <1>11, <1>12, <1>13
        DEF Next, Worker, Reader, Generator

-----------------------------------------------------------------------------
\* What the generator has said and is about to say stays well formed, and its
\* ending, once it is said, stays true.
LEMMA SaidMoves == IInv /\ [Next]_vars => SaidInv'
<1> SUFFICES ASSUME IInv, [Next]_vars PROVE SaidInv'
  OBVIOUS
<1>0. Types /\ SaidInv /\ out \in Seq(Chunks) /\ todo \in Seq(Chunks)
      /\ sent \in Nat /\ decoded \in Nat
  BY DEF IInv, Types
<1>1. CASE WorkerToken \/ \E how \in Ended : WorkerEnds(how)
  <2>1. ending = "open" /\ UNCHANGED <<out, todo, events, decoded>>
    BY <1>1 DEF WorkerToken, WorkerEnds, generatorVars
  <2>2. At(Said, "finish") = {} /\ At(Said, "error") = {} /\ Said' = Said
    BY <1>0, <2>1 DEF SaidInv, TrueEnding, Said
  <2>3. TrueEnding(Said, sent, decoded, ending)'
    BY <2>2 DEF TrueEnding
  <2>4. Story(Said)' /\ (Polling => Plain(Said, decoded)')
    BY <1>0, <2>1, <2>2 DEF SaidInv
  <2> QED BY <1>0, <2>1, <2>3, <2>4 DEF SaidInv, Polling
<1>2. ASSUME UNCHANGED <<out, todo, sent, decoded, ending>>, Polling' => Polling,
             events' \in {"first", "poll", "yield", "last"} => out # <<>>,
             events' = "unstarted" => out = <<>>,
             events' \in {"unstarted", "first", "poll"} => todo = <<>>
      PROVE  SaidInv'
  <2>1. Said' = Said
    BY <1>2 DEF Said
  <2>2. Story(Said)' /\ TrueEnding(Said, sent, decoded, ending)'
        /\ (Polling => Plain(Said, decoded)')
    BY <1>0, <1>2, <2>1 DEF SaidInv
  <2> QED BY <1>2, <2>2 DEF SaidInv
<1>3. CASE Reader \/ CancelCall \/ Disconnect \/ UNCHANGED vars \/ EnterTry
           \/ PollSeesDisconnect \/ Yielded \/ Finally
  <2>1. /\ UNCHANGED <<out, todo, sent, decoded, ending>> /\ (Polling' => Polling)
        /\ \/ events' = events
           \/ events' \in {"closed", "finally", "cancel"}
           \/ events = "first" /\ events' = "poll"
           \/ events \in {"yield", "last"} /\ todo = <<>> /\ events' = "poll"
    BY <1>3 DEF Reader, ReadEvent, ReadError, ReadEnd, EnqueueCheck, Put, PutTimesOut,
                CancelCall, Disconnect, vars, EnterTry, PollSeesDisconnect, Yielded, Finally,
                Polling, generatorVars, workerVars
  <2> QED BY <1>0, <1>2, <2>1 DEF SaidInv
<1>4. CASE Start
  <2>1. out' = <<Role>> /\ todo' = <<>> /\ todo = <<>> /\ events' = "first"
    BY <1>0, <1>4 DEF Start, SaidInv
  <2>2. PICK x \in Chunks : x = Role /\ x[1] = "role"
    <3>1. Role \in Chunks /\ Role[1] = "role"
      BY DEF Role, Chunk, Chunks
    <3> QED BY <3>1
  <2>3. PICK s \in Seq(Chunks) : s = <<x>> /\ Len(s) = 1 /\ s[1] = x /\ s # <<>>
    <3>1. <<x>> \in Seq(Chunks) /\ Len(<<x>>) = 1 /\ <<x>>[1] = x /\ <<x>> # <<>>
      OBVIOUS
    <3> QED BY <3>1, Zenon
  <2>4. Said' = s
    <3>1. s \o <<>> = s
      BY ConcatEmptySeq
    <3> QED BY <2>1, <2>2, <2>3, <3>1, Zenon DEF Said
  <2>5. \A i \in 1..Len(s) : s[i][1] = "role"
    BY <2>2, <2>3
  <2>6. \A kind : kind # "role" => At(s, kind) = {}
    BY <2>5 DEF At
  <2>7. Plain(s, decoded') /\ Ending(s) = {}
    BY <2>5, <2>6 DEF Plain, Ending
  <2>8. Story(s) /\ TrueEnding(s, sent', decoded', ending')
    <3>1. At(s, "content") = {} /\ At(s, "[DONE]") = {} /\ At(s, "finish") = {}
          /\ At(s, "error") = {} /\ s[1] = Role
      BY <2>2, <2>3, <2>6
    <3> QED BY <2>7, <3>1 DEF Story, TrueEnding
  <2> QED BY <2>1, <2>2, <2>3, <2>4, <2>7, <2>8 DEF SaidInv
<1>5. CASE Poll
  <2>1. /\ events = "poll" /\ pending # <<>> /\ todo' \in ChunksFor(Head(pending))
        /\ events' = (IF EndsStream(Head(pending)) THEN "last" ELSE "yield")
        /\ decoded' = (IF Head(pending)[1] = "token" THEN decoded + 1 ELSE decoded)
        /\ UNCHANGED <<out, sent, ending>>
    BY <1>5 DEF Poll, workerVars
  <2>2. todo = <<>> /\ out # <<>> /\ Polling
    BY <1>0, <2>1 DEF SaidInv, Polling
  <2>3. Said = out
    BY <1>0, <2>2, ConcatEmptySeq DEF Said
  <2>4. Story(out) /\ TrueEnding(out, sent, decoded, ending) /\ Plain(out, decoded)
    BY <1>0, <2>2, <2>3 DEF SaidInv
  <2>5. PICK item \in Items : item = Head(pending)
    BY <1>0, <2>1, EmptySeq DEF Types
  <2>6. \/ item = <<"token", decoded + 1>>
        \/ item = EndItem(ending) /\ item[1] # "token" /\ sent = decoded
    <3>1. /\ pending \in Seq(Items) /\ Held \in Seq(Items) /\ wire \in Seq(Items)
          /\ Flow \in Seq(Items)
      BY <1>0, HeldIs DEF Types
    <3>2. Flow # <<>> /\ Head(Flow) = item
      BY <2>1, <2>5, <3>1, FlowOfPoll DEF Flow
    <3>3. Tells(Flow, sent, decoded, ending)
      BY <2>2 DEF IInv, FlowInv
    <3> QED BY <1>0, <3>1, <3>2, <3>3, TellsNext
  <2>7. CASE item = <<"token", decoded + 1>>
    <3>1. todo' \in Shown(decoded + 1) /\ decoded' = decoded + 1 /\ events' = "yield"
      BY <2>1, <2>5, <2>7 DEF ChunksFor, EndsStream
    <3>2. Story(out \o todo') /\ TrueEnding(out \o todo', sent, decoded + 1, ending)
          /\ Plain(out \o todo', decoded + 1)
      BY <1>0, <2>2, <2>4, <3>1, StoryGoesOn
    <3>3. Said' = out \o todo'
      BY <2>1 DEF Said
    <3>4. Story(Said)' /\ TrueEnding(Said, sent, decoded, ending)' /\ Plain(Said, decoded)'
      BY <2>1, <3>1, <3>2, <3>3
    <3> QED BY <2>1, <2>2, <3>1, <3>4 DEF SaidInv
  <2>8. CASE item = EndItem(ending) /\ item[1] # "token" /\ sent = decoded
    <3>1. decoded' = decoded /\ events' = "last" /\ ~Polling'
      BY <2>1, <2>5, <2>8 DEF EndsStream, Polling
    <3>2. item[1] = (IF ending = "silent" THEN "end" ELSE ending) /\ ending # "open"
      <4>1. item[1] = (IF ending = "silent" THEN "end" ELSE ending)
        BY <2>8 DEF EndItem, Item
      <4>2. item[1] # "open"
        BY DEF Items
      <4> QED BY <4>1, <4>2
    <3>3. PICK t \in Seq(Chunks), f \in Nat :
             /\ t = todo' /\ Closes(t, f, decoded)
             /\ t[f][1] = "finish" => ending = "done" /\ decoded = sent
             /\ t[f][1] = "error" => ending \notin {"open", "done"}
      <4>1. CASE item[1] = "done"
        <5>1. todo' \in DoneChunks
          BY <2>1, <2>5, <4>1 DEF ChunksFor
        <5>2. ending = "done"
          BY <3>2, <4>1
        <5> QED BY <1>0, <2>8, <5>1, <5>2, DoneCloses
      <4>2. CASE item[1] # "done"
        <5>1. todo' \in ErrorChunks
          BY <2>1, <2>5, <2>8, <4>2 DEF ChunksFor
        <5>2. ending \notin {"open", "done"}
          BY <3>2, <4>2
        <5> QED BY <1>0, <5>1, <5>2, ErrorCloses
      <4> QED BY <4>1, <4>2
    <3>4. Story(out \o t) /\ TrueEnding(out \o t, sent, decoded, ending)
      BY <1>0, <2>2, <2>4, <3>3, StoryEnds
    <3>5. Said' = out \o t
      BY <2>1, <3>3 DEF Said
    <3>6. Story(Said)' /\ TrueEnding(Said, sent, decoded, ending)'
      BY <2>1, <3>1, <3>4, <3>5
    <3> QED BY <2>1, <2>2, <3>1, <3>6 DEF SaidInv
  <2> QED BY <2>6, <2>7, <2>8
<1>6. CASE Yield
  <2>1. /\ todo # <<>> /\ out' = Append(out, Head(todo)) /\ todo' = Tail(todo)
        /\ events \in {"yield", "last"} /\ UNCHANGED <<events, sent, decoded, ending>>
    BY <1>6 DEF Yield, workerVars
  <2>2. Said' = Said
    <3>1. Append(out, Head(todo)) \o Tail(todo) = out \o todo
      BY <1>0, <2>1, SaidOfYield
    <3> QED BY <2>1, <3>1 DEF Said
  <2>3. Story(Said)' /\ TrueEnding(Said, sent, decoded, ending)'
        /\ (Polling => Plain(Said, decoded)')
    BY <1>0, <2>1, <2>2 DEF SaidInv
  <2>4. out' # <<>>
    <3>1. Head(todo) \in Chunks
      BY <1>0, <2>1, EmptySeq
    <3> QED BY <1>0, <2>1, <3>1, AppendProperties
  <2> QED BY <2>1, <2>3, <2>4 DEF SaidInv, Polling
<1>7. CASE Close
  <2>1. /\ events' \in {"finally", "abandoned"} /\ todo' = <<>>
        /\ UNCHANGED <<out, sent, decoded, ending>>
    BY <1>7 DEF Close, AfterClose, workerVars
  <2>2. Said' = out
    BY <1>0, <2>1, ConcatEmptySeq DEF Said
  <2>3. Story(out) /\ TrueEnding(out, sent, decoded, ending)
    BY <1>0, StoryOfPrefix DEF SaidInv, Said
  <2>4. Story(Said)' /\ TrueEnding(Said, sent, decoded, ending)'
    BY <2>1, <2>2, <2>3
  <2> QED BY <2>1, <2>4 DEF SaidInv, Polling
<1> QED BY <1>1, <1>3, <1>4, <1>5, <1>6, <1>7 DEF Next, Worker, Generator

\* The bounds of the wire and of the queue, and the count of tokens.
LEMMA BoundsMove == IInv /\ [Next]_vars => TypeOK'
<1> SUFFICES ASSUME IInv, [Next]_vars PROVE TypeOK'
  OBVIOUS
<1>0. /\ TypeOK /\ Types /\ sent \in Nat /\ decoded \in Nat /\ MaxTokens \in Nat
      /\ wire \in Seq(Events) /\ pending \in Seq(Items)
      /\ Window \in Nat \ {0} /\ QueueSize \in Nat \ {0}
  BY BridgeAssumption DEF IInv, Types
<1>1. CASE WorkerToken
  <2>1. /\ sent' = sent + 1 /\ sent < MaxTokens /\ Len(wire) < Window
        /\ wire' = Append(wire, <<"token", sent + 1>>)
        /\ UNCHANGED <<ending, cancelled, reader, pending, stopReader, events, decoded, connected>>
    BY <1>1 DEF WorkerToken, readerVars, generatorVars
  <2>2. Len(wire') = Len(wire) + 1 /\ Len(wire) \in Nat
    <3>1. <<"token", sent + 1>> \in Events
      BY <1>0 DEF Events
    <3> QED BY <1>0, <2>1, <3>1, AppendProperties
  <2>3. sent' \in 0..MaxTokens /\ decoded \in 0..sent' /\ Len(wire') <= Window
    BY <1>0, <2>1, <2>2 DEF TypeOK
  <2> QED BY <1>0, <2>1, <2>3 DEF TypeOK
<1>2. ASSUME NEW how \in Ended, WorkerEnds(how) PROVE TypeOK'
  <2>1. Len(wire') <= Window
    <3>1. CASE wire' = wire
      BY <1>0, <3>1 DEF TypeOK
    <3>2. CASE how \in {"done", "error"} /\ ~cancelled
      <4>1. Item(how) \in Events /\ wire' = Append(wire, Item(how)) /\ Len(wire) < Window
        BY <1>2, <3>2, ItemTypes DEF WorkerEnds
      <4>2. Len(wire') = Len(wire) + 1 /\ Len(wire) \in Nat
        BY <1>0, <4>1, AppendProperties
      <4> QED BY <1>0, <4>1, <4>2
    <3> QED BY <1>2, <3>1, <3>2 DEF WorkerEnds
  <2> QED BY <1>0, <1>2, <2>1 DEF WorkerEnds, TypeOK, readerVars, generatorVars
<1>3. reader'.at \in {"read", "check", "put", "dead"}
  <2>1. reader' \in Carrying \cup Resting
    BY TypesMove DEF Types
  <2> QED BY <2>1 DEF Carrying, Resting
<1>4. CASE ReadEvent
  <2>1. wire # <<>> /\ wire' = Tail(wire)
        /\ UNCHANGED <<sent, ending, cancelled, pending, stopReader, events, decoded, connected>>
    BY <1>4 DEF ReadEvent, generatorVars
  <2>2. Len(wire') = Len(wire) - 1 /\ Len(wire) \in Nat
    BY <1>0, <2>1, HeadTailProperties
  <2>3. Len(wire') <= Window
    BY <1>0, <2>2 DEF TypeOK
  <2> QED BY <1>0, <1>3, <2>1, <2>3 DEF TypeOK
<1>5. CASE ReadError \/ ReadEnd \/ EnqueueCheck \/ PutTimesOut
  <2>1. UNCHANGED <<sent, ending, wire, cancelled, pending, stopReader, events, decoded, connected>>
    BY <1>5 DEF ReadError, ReadEnd, EnqueueCheck, PutTimesOut, generatorVars, workerVars
  <2> QED BY <1>0, <1>3, <2>1 DEF TypeOK
<1>6. CASE Put
  <2>1. /\ Len(pending) < QueueSize /\ pending' = Append(pending, reader.item)
        /\ UNCHANGED <<sent, ending, wire, cancelled, stopReader, events, decoded, connected>>
    BY <1>6 DEF Put, HasRoom, generatorVars, workerVars
  <2>2. reader.item \in Items
    BY <1>0, <1>6, HeldIs DEF Put
  <2>3. Len(pending') = Len(pending) + 1 /\ Len(pending) \in Nat
    BY <1>0, <2>1, <2>2, AppendProperties
  <2>4. Len(pending') <= QueueSize
    BY <1>0, <2>1, <2>3
  <2> QED BY <1>0, <1>3, <2>1, <2>4 DEF TypeOK
<1>7. CASE Poll
  <2>1. /\ events = "poll" /\ pending # <<>> /\ pending' = Tail(pending)
        /\ events' \in {"last", "yield"}
        /\ decoded' = (IF Head(pending)[1] = "token" THEN decoded + 1 ELSE decoded)
        /\ UNCHANGED <<sent, ending, wire, cancelled, reader, stopReader, connected>>
    BY <1>7 DEF Poll, workerVars, readerVars
  <2>2. Len(pending') = Len(pending) - 1 /\ Len(pending) \in Nat
    BY <1>0, <2>1, HeadTailProperties
  <2>3. Len(pending') <= QueueSize
    BY <1>0, <2>2 DEF TypeOK
  <2>4. decoded' \in 0..sent
    <3>1. /\ pending \in Seq(Items) /\ Held \in Seq(Items) /\ wire \in Seq(Items)
          /\ Flow \in Seq(Items)
      BY <1>0, HeldIs DEF Types
    <3>2. Flow # <<>> /\ Head(Flow) = Head(pending)
      BY <2>1, <3>1, FlowOfPoll DEF Flow
    <3>3. Tells(Flow, sent, decoded, ending)
      BY <2>1 DEF IInv, FlowInv, Polling
    <3>4. Head(pending)[1] = "token" => Tells(Tail(Flow), sent, decoded + 1, ending)
      BY <1>0, <3>1, <3>2, <3>3, TellsNext
    <3>5. Head(pending)[1] = "token" => sent - (decoded + 1) \in Nat
      BY <3>4 DEF Tells
    <3> QED BY <1>0, <2>1, <3>5 DEF TypeOK
  <2> QED BY <1>0, <1>3, <2>1, <2>3, <2>4 DEF TypeOK, Protected
<1>8. CASE CancelCall
  <2>1. Len(<<>>) = 0
    OBVIOUS
  <2> QED BY <1>0, <1>8, <2>1 DEF CancelCall, TypeOK, Protected, readerVars
<1>9. CASE Start \/ EnterTry \/ PollSeesDisconnect \/ Yield \/ Yielded \/ Finally \/ Close
           \/ Disconnect \/ UNCHANGED vars
  <2>1. /\ UNCHANGED <<sent, ending, wire, cancelled, reader, pending, decoded>>
        /\ stopReader' \in {stopReader, TRUE} /\ connected' \in {connected, FALSE}
        /\ events' \in {events, "first", "poll", "finally", "cancel", "abandoned"}
    BY <1>9 DEF Start, EnterTry, PollSeesDisconnect, Yield, Yielded, Finally, Close, Disconnect,
                vars, AfterClose, workerVars, readerVars, generatorVars
  <2> QED BY <1>0, <2>1 DEF TypeOK, Protected
<1> QED BY <1>1, <1>2, <1>4, <1>5, <1>6, <1>7, <1>8, <1>9 DEF Next, Worker, Reader, Generator

LEMMA InitIInv == Init => IInv
<1> SUFFICES ASSUME Init PROVE IInv
  OBVIOUS
<1>1. /\ sent = 0 /\ ending = "open" /\ wire = <<>> /\ cancelled = FALSE
      /\ reader = [at |-> "read", item |-> Item("none")] /\ pending = <<>>
      /\ stopReader = FALSE /\ events = "unstarted" /\ todo = <<>> /\ decoded = 0
      /\ out = <<>> /\ connected = TRUE
  BY DEF Init
<1>2. <<>> \in Seq(Events) /\ <<>> \in Seq(Items) /\ <<>> \in Seq(Chunks) /\ Len(<<>>) = 0
  OBVIOUS
<1>3. TypeOK
  <2>1. MaxTokens \in Nat /\ Window \in Nat /\ QueueSize \in Nat
    BY BridgeAssumption
  <2>2. 0 \in 0..MaxTokens /\ 0 \in 0..sent
    BY <1>1, <2>1
  <2>3. reader.at = "read"
    BY <1>1
  <2>4. Len(wire) <= Window /\ Len(pending) <= QueueSize
    BY <1>1, <1>2, <2>1
  <2> QED BY <1>1, <2>2, <2>3, <2>4 DEF TypeOK
<1>4. Types
  BY <1>1, <1>2 DEF Types, Resting
<1>5. StopInv
  <2>1. reader.item[1] = "none"
    BY <1>1 DEF Item
  <2> QED BY <1>1, <2>1 DEF StopInv
<1>6. Flow = <<>> /\ Said = <<>>
  <2>1. <<>> \o <<>> = <<>>
    BY <1>2, ConcatEmptySeq
  <2>2. Held = <<>>
    BY <1>1 DEF Held
  <2> QED BY <1>1, <2>1, <2>2, Zenon DEF Flow, Said
<1>7. FlowInv
  <2>1. Tells(<<>>, 0, 0, "open")
    BY <1>2 DEF Tells
  <2> QED BY <1>1, <1>6, <2>1 DEF FlowInv
<1>8. SaidInv
  <2>1. \A kind : At(<<>>, kind) = {}
    BY <1>2 DEF At
  <2>2. Story(<<>>) /\ TrueEnding(<<>>, 0, 0, "open") /\ Plain(<<>>, 0)
    BY <1>2, <2>1 DEF Story, TrueEnding, Plain, Ending
  <2> QED BY <1>1, <1>6, <2>2 DEF SaidInv
<1> QED BY <1>3, <1>4, <1>5, <1>7, <1>8 DEF IInv

LEMMA Invariant == Spec => []IInv
<1>1. IInv /\ [Next]_vars => IInv'
  BY TypesMove, StopMoves, FlowMoves, SaidMoves, BoundsMove DEF IInv
<1> QED BY InitIInv, <1>1, PTL DEF Spec

-----------------------------------------------------------------------------
\* Every variable keeps its type and the queue and the connection their bounds,
\* whatever the thread and the generator do to them in between.
THEOREM BoundsKept == Spec => []TypeOK
<1>1. IInv => TypeOK
  BY DEF IInv
<1> QED BY <1>1, Invariant, PTL

\* However the worker, the thread, the generator and the client interleave, the
\* chunks the client reads are a stream in the form it expects: the role, the
\* content in the order of the tokens, one true ending, and [DONE] last.
THEOREM StreamsWellFormed == Spec => []WellFormedStream
<1>1. ASSUME IInv PROVE WellFormedStream
  <2>1. out \in Seq(Chunks) /\ todo \in Seq(Chunks)
    BY <1>1 DEF IInv, Types
  <2>2. Story(out) /\ TrueEnding(out, sent, decoded, ending)
    BY <1>1, <2>1, StoryOfPrefix DEF IInv, SaidInv, Said
  <2>3. \A kind : Kinds(kind) = At(out, kind)
    BY <2>1 DEF Kinds, At
  <2>4. out # <<>> => out[1] = Role
    BY <2>2 DEF Story
  <2>5. \A i, j \in Kinds("content") : i < j => out[i][2] <= out[j][2]
    BY <2>2, <2>3 DEF Story
  <2>6. \A i, j \in Kinds("finish") \cup Kinds("error") : i = j
    BY <2>2, <2>3 DEF Story, Ending
  <2>7. \A i \in Kinds("[DONE]") :
           i = Len(out) /\ \E j \in 1..(i - 1) : out[j][1] \in {"finish", "error"}
    BY <2>2, <2>3 DEF Story
  <2>8. \A i \in Kinds("content"), j \in Kinds("finish") \cup Kinds("error") : i < j
    BY <2>2, <2>3 DEF Story, Ending
  <2>9. Kinds("finish") # {} => ending = "done" /\ decoded = sent
    BY <2>2, <2>3 DEF TrueEnding
  <2>10. Kinds("error") # {} => ending # "done"
    BY <2>2, <2>3 DEF TrueEnding
  <2> QED BY <2>4, <2>5, <2>6, <2>7, <2>8, <2>9, <2>10 DEF WellFormedStream
<1> QED BY <1>1, Invariant, PTL
=============================================================================
