----------------------- MODULE InferenceServiceProofs -----------------------
(***************************************************************************)
(* Proofs about InferenceService, for any handlers, requests, vocabulary,  *)
(* chunk size, cache groups and pools: who owns the device, what its       *)
(* caches hold, and what the client is told.                               *)
(***************************************************************************)
EXTENDS InferenceService, SequenceTheorems, TLAPS

\* Between admission and the return of the lease; and while there is a Session.
Inside == {"admitted", "opening", "prompt", "prefilling", "emitting", "emitted",
           "decoding", "closing", "releasing"}
Evaluating == {"prompt", "prefilling", "emitting", "emitted", "decoding"}
WithSession == {"opening", "closing"} \cup Evaluating

\* The lease and the places of the handlers say the same.
LeaseInv ==
    /\ holders = {h \in Handlers : pc[h] \in Inside}
    /\ \A g, h \in Handlers : pc[g] \in Inside /\ pc[h] \in Inside => g = h

\* Only a session has caches, of pools of its own.
CachesInv ==
    \A h \in Handlers :
        /\ caches[h] # <<>> => pc[h] \in WithSession
        /\ Range(caches[h]) \subseteq DOMAIN pools
        /\ \A i, j \in 1 .. Len(caches[h]) : caches[h][i] = caches[h][j] => i = j

\* The rows of the first n positions, and how many of them a session has
\* appended to each of its caches.
Rows(n) == [row \in 1 .. n |-> row - 1]

Held(h) == CASE pc[h] = "opening" -> 0
             [] pc[h] \in {"prompt", "prefilling"} -> fed[h]
             [] pc[h] = "emitting" -> request[h].prompt + Len(out[h])
             [] OTHER -> request[h].prompt + Len(out[h]) - 1

RowsInv ==
    \A h \in Handlers : pc[h] \in {"opening"} \cup Evaluating =>
        \A p \in Range(caches[h]) : \A i \in 1 .. Len(pools[p]) :
            pools[p][i] = Rows(Held(h))

\* Where a handler is in the loops of Session::generate, and its variables.
NoStopIn(s, n) == \A i \in 1 .. n : s[i] \notin StopTokens

LoopInv(h) ==
    /\ pc[h] \in {"idle", "arriving", "queued", "admitted", "opening", "prompt", "prefilling"}
          => out[h] = <<>>
    /\ pc[h] \in {"idle", "arriving", "queued", "admitted", "opening"} => fed[h] = 0
    /\ pc[h] = "opening" => request[h].prompt > 0 /\ request[h].maxTokens >= 0
    /\ pc[h] \in Evaluating => request[h].prompt > 0 /\ request[h].maxTokens > 0
    /\ pc[h] \in {"prompt", "prefilling"} => fed[h] < request[h].prompt
    /\ pc[h] \in {"emitting", "emitted", "decoding"} => nextToken[h] \in Tokens
    /\ pc[h] \in {"emitting", "decoding"} => /\ Len(out[h]) < request[h].maxTokens
                                             /\ NoStopIn(out[h], Len(out[h]))
    /\ pc[h] \in {"emitted", "decoding"} => Len(out[h]) > 0
    /\ pc[h] = "emitted" => /\ Len(out[h]) <= request[h].maxTokens
                            /\ NoStopIn(out[h], Len(out[h]) - 1)
                            /\ out[h][Len(out[h])] = nextToken[h]

\* What the result says, as in ReasonOf.
ResultInv(h) ==
    /\ pc[h] \in {"idle", "arriving", "queued", "admitted", "opening"} \cup Evaluating
          => finish[h] = "none"
    /\ pc[h] \in {"closing", "releasing", "returning", "answered"} => finish[h] # "none"
    /\ Len(out[h]) <= IF request[h].maxTokens > 0 THEN request[h].maxTokens ELSE 0
    /\ NoStopIn(out[h], Len(out[h]) - 1)
    /\ finish[h] = "stop" => Len(out[h]) > 0 /\ out[h][Len(out[h])] \in StopTokens
    /\ finish[h] = "length" => /\ Len(out[h]) = request[h].maxTokens
                               /\ NoStopIn(out[h], Len(out[h]))

\* What the client has been told.  Before the reply it has tokens only, and
\* all of them unless something went wrong.
AnswerInv(h) ==
    /\ pc[h] # "answered" =>
          /\ status[h] = "none"
          /\ answer[h] \in Seq(Tokens)
          /\ writeFailed[h] => finish[h] = "error"
          /\ ~request[h].stream => answer[h] = <<>>
          /\ request[h].stream => answer[h] = SubSeq(out[h], 1, Len(answer[h]))
          /\ request[h].stream /\ finish[h] # "error" => answer[h] = out[h]
    /\ pc[h] = "answered" =>
          LET told == IF status[h] = "OK" THEN SubSeq(answer[h], 1, Len(answer[h]) - 1)
                                          ELSE answer[h]
          IN /\ told \in Seq(Tokens)
             /\ request[h].stream => told = SubSeq(out[h], 1, Len(told))
             /\ status[h] = "OK" =>
                   /\ ~writeFailed[h]
                   /\ Len(answer[h]) > 0
                   /\ answer[h][Len(answer[h])] = LastMessage(h)
                   /\ request[h].stream /\ finish[h] # "error" => told = out[h]

\* A run that ended late is the last one of its request, which has no answer.
LateInv(h) ==
    /\ lateRuns[h] <= 1
    /\ pc[h] \in {"idle", "arriving", "queued", "admitted", "opening"} \cup Evaluating
          => lateRuns[h] = 0
    /\ lateRuns[h] = 1 => Stopped(h) /\ finish[h] = "error" /\ status[h] # "OK"

HandlerInv(h) == LoopInv(h) /\ ResultInv(h) /\ AnswerInv(h) /\ LateInv(h)

\* What is on the device: the caches of all sessions and the pools a call
\* failed for.
LostInv ==
    /\ failed \subseteq DOMAIN pools
    /\ \A p \in DOMAIN pools : p \in failed \/ \E h \in Handlers : p \in Range(caches[h])
    /\ \A h \in Handlers : \A p \in Range(caches[h]) : p \notin failed

\* The inductive invariant.
IInv == /\ TypeOK
        /\ LeaseInv
        /\ CachesInv
        /\ LostInv
        /\ RowsInv
        /\ \A h \in Handlers : HandlerInv(h)

-----------------------------------------------------------------------------
\* The types, in a form that suits the provers.
Types ==
    /\ pc \in [Handlers -> Places]
    /\ request \in [Handlers -> [stream : BOOLEAN, valid : BOOLEAN,
                                 prompt : Nat, maxTokens : Int]]
    /\ caches \in [Handlers -> Seq(PoolIds)]
    /\ fed \in [Handlers -> Nat]
    /\ nextToken \in [Handlers -> Tokens \cup {NoToken}]
    /\ out \in [Handlers -> Seq(Tokens)]
    /\ finish \in [Handlers -> {"none", "error", "stop", "length"}]
    /\ answer \in [Handlers -> Seq(Tokens \cup {"done", "error"})]
    /\ writeFailed \in [Handlers -> BOOLEAN]
    /\ status \in [Handlers -> {"none", "OK", "CANCELLED", "DEADLINE_EXCEEDED"}]
    /\ lateRuns \in [Handlers -> Nat]

LEMMA RequestType ==
    /\ \A r \in Requests : r \in [stream : BOOLEAN, valid : BOOLEAN,
                                 prompt : Nat, maxTokens : Int]
    /\ NoRequest \in [stream : BOOLEAN, valid : BOOLEAN, prompt : Nat, maxTokens : Int]
<1>1. \A r \in Requests : r \in [stream : BOOLEAN, valid : BOOLEAN,
                                prompt : Nat, maxTokens : Int]
  BY ServiceAssumption
<1>2. NoRequest \in [stream : BOOLEAN, valid : BOOLEAN, prompt : Nat, maxTokens : Int]
  BY DEF NoRequest
<1> QED BY <1>1, <1>2

LEMMA TypesOfTypeOK == TypeOK => Types
<1> SUFFICES ASSUME TypeOK PROVE Types
  OBVIOUS
<1>1. request \in [Handlers -> [stream : BOOLEAN, valid : BOOLEAN,
                              prompt : Nat, maxTokens : Int]]
  BY RequestType DEF TypeOK
<1> QED BY <1>1 DEF TypeOK, Types

\* A sequence is a prefix of itself, and of itself with one more element.
LEMMA PrefixOfAppend ==
    ASSUME NEW S, NEW s \in Seq(S), NEW e \in S
    PROVE  /\ SubSeq(s, 1, Len(s)) = s
           /\ Append(s, e) \in Seq(S) /\ Len(Append(s, e)) = Len(s) + 1
           /\ Append(s, e)[Len(s) + 1] = e
           /\ \A i \in 1 .. Len(s) : Append(s, e)[i] = s[i]
           /\ SubSeq(Append(s, e), 1, Len(s)) = s
<1> DEFINE a == Append(s, e)
<1>1. /\ a \in Seq(S) /\ Len(a) = Len(s) + 1
      /\ \A i \in 1 .. Len(s) : a[i] = s[i]
      /\ a[Len(s) + 1] = e
  BY AppendProperties
<1>2. Len(s) \in Nat
  BY LenProperties
<1> HIDE DEF a
<1>3. \A i \in 1 .. Len(s) : a[i] \in S
  BY <1>1, ElementOfSeq
<1>4. /\ SubSeq(a, 1, Len(s)) \in Seq(S)
      /\ Len(SubSeq(a, 1, Len(s))) = Len(s)
      /\ \A i \in 1 .. Len(s) : SubSeq(a, 1, Len(s))[i] = a[i]
  BY <1>2, <1>3, SubSeqProperties
<1>5. SubSeq(a, 1, Len(s)) = s
  BY <1>1, <1>4, SeqEqual
<1> QED BY <1>1, <1>5, SubSeqFull DEF a

\* What an action of another handler leaves alone.
Same(g) ==
    /\ pc'[g] = pc[g] /\ request'[g] = request[g] /\ caches'[g] = caches[g]
    /\ fed'[g] = fed[g] /\ nextToken'[g] = nextToken[g] /\ out'[g] = out[g]
    /\ finish'[g] = finish[g] /\ answer'[g] = answer[g]
    /\ writeFailed'[g] = writeFailed[g] /\ status'[g] = status[g]
    /\ lateRuns'[g] = lateRuns[g] /\ Stopped(g)' = Stopped(g)

LEMMA OthersUnmoved ==
    ASSUME Types, NEW h \in Handlers,
           Submit(h) \/ Step(h) \/ Cancel(h) \/ Expire(h)
    PROVE  \A g \in Handlers \ {h} : Same(g)
<1> USE DEF Types, Same, Stopped, GoTo, Fail, CountLate, stopVars, resultVars, answerVars
<1>1. CASE Submit(h)
  BY <1>1 DEF Submit
<1>2. CASE Acquire(h)
  BY <1>2 DEF Acquire
<1>3. CASE Start(h)
  BY <1>3 DEF Start
<1>4. CASE OpenGroup(h)
  BY <1>4 DEF OpenGroup
<1>5. CASE OpenGroupFails(h)
  BY <1>5 DEF OpenGroupFails
<1>6. CASE Opened(h)
  BY <1>6 DEF Opened
<1>7. CASE NextChunk(h)
  BY <1>7 DEF NextChunk
<1>8. CASE Prefill(h)
  BY <1>8 DEF Prefill
<1>9. CASE Emit(h)
  BY <1>9 DEF Emit
<1>10. CASE EndStep(h)
  BY <1>10 DEF EndStep
<1>11. CASE Decode(h)
  BY <1>11 DEF Decode
<1>12. CASE RunFails(h)
  BY <1>12 DEF RunFails
<1>13. CASE CloseSession(h)
  BY <1>13 DEF CloseSession
<1>14. CASE ReleaseLease(h)
  BY <1>14 DEF ReleaseLease
<1>15. CASE Reply(h)
  BY <1>15 DEF Reply
<1>16. CASE Return(h)
  BY <1>16 DEF Return
<1>17. CASE Cancel(h) \/ Expire(h)
  BY <1>17 DEF Cancel, Expire
<1> QED
  BY <1>1, <1>2, <1>3, <1>4, <1>5, <1>6, <1>7, <1>8, <1>9, <1>10, <1>11, <1>12,
     <1>13, <1>14, <1>15, <1>16, <1>17 DEF Step

LEMMA SameHandler ==
    ASSUME NEW g \in Handlers, HandlerInv(g), Same(g)
    PROVE  HandlerInv(g)'
<1>1. LoopInv(g)'
  BY DEF HandlerInv, LoopInv, Same, NoStopIn
<1>2. ResultInv(g)'
  BY DEF HandlerInv, ResultInv, Same, NoStopIn
<1>3. AnswerInv(g)'
  BY DEF HandlerInv, AnswerInv, Same, LastMessage
<1>4. LateInv(g)'
  BY DEF HandlerInv, LateInv, Same
<1> QED BY <1>1, <1>2, <1>3, <1>4 DEF HandlerInv

LEMMA HandlerMoves ==
    ASSUME Types, NEW h \in Handlers, HandlerInv(h),
           Submit(h) \/ Step(h) \/ Cancel(h) \/ Expire(h)
    PROVE  HandlerInv(h)'
<1> USE DEF Types, GoTo, Fail, CountLate, stopVars, resultVars, answerVars, Evaluating
<1>1. CASE Submit(h)
  <2>0. out[h] = <<>> /\ Len(out[h]) = 0 /\ finish[h] = "none"
    BY <1>1 DEF Submit, HandlerInv, LoopInv, ResultInv
  <2>1. LoopInv(h)'
    BY <1>1 DEF Submit, HandlerInv, LoopInv, NoStopIn
  <2>2. ResultInv(h)'
    BY <1>1, <2>0, RequestType DEF Submit, ResultInv, NoStopIn
  <2>3. AnswerInv(h)'
    BY <1>1, <2>0 DEF Submit, HandlerInv, AnswerInv, LoopInv
  <2>4. LateInv(h)'
    BY <1>1 DEF Submit, HandlerInv, LateInv
  <2> QED BY <2>1, <2>2, <2>3, <2>4 DEF HandlerInv
<1>2. CASE Acquire(h)
  <2>1. LoopInv(h)'
    BY <1>2 DEF Acquire, HandlerInv, LoopInv, NoStopIn
  <2>2. ResultInv(h)'
    BY <1>2 DEF Acquire, HandlerInv, LoopInv, ResultInv, NoStopIn
  <2>3. AnswerInv(h)'
    BY <1>2 DEF Acquire, HandlerInv, ResultInv, AnswerInv, LastMessage
  <2>4. LateInv(h)'
    BY <1>2 DEF Acquire, HandlerInv, LateInv
  <2> QED BY <2>1, <2>2, <2>3, <2>4 DEF HandlerInv
<1>3. CASE Start(h)
  <2>1. LoopInv(h)'
    BY <1>3 DEF Start, HandlerInv, LoopInv, NoStopIn
  <2>2. ResultInv(h)'
    BY <1>3 DEF Start, HandlerInv, LoopInv, ResultInv, NoStopIn
  <2>3. AnswerInv(h)'
    BY <1>3 DEF Start, HandlerInv, ResultInv, AnswerInv, LastMessage
  <2>4. LateInv(h)'
    BY <1>3 DEF Start, HandlerInv, LateInv
  <2> QED BY <2>1, <2>2, <2>3, <2>4 DEF HandlerInv
<1>4. CASE OpenGroup(h)
  <2>1. LoopInv(h)'
    BY <1>4 DEF OpenGroup, HandlerInv, LoopInv, NoStopIn
  <2>2. ResultInv(h)'
    BY <1>4 DEF OpenGroup, HandlerInv, LoopInv, ResultInv, NoStopIn
  <2>3. AnswerInv(h)'
    BY <1>4 DEF OpenGroup, HandlerInv, ResultInv, AnswerInv, LastMessage
  <2>4. LateInv(h)'
    BY <1>4 DEF OpenGroup, Opening, HandlerInv, LateInv
  <2> QED BY <2>1, <2>2, <2>3, <2>4 DEF HandlerInv
<1>5. CASE OpenGroupFails(h)
  <2>1. LoopInv(h)'
    BY <1>5 DEF OpenGroupFails, HandlerInv, LoopInv, NoStopIn
  <2>2. ResultInv(h)'
    BY <1>5 DEF OpenGroupFails, HandlerInv, LoopInv, ResultInv, NoStopIn
  <2>3. AnswerInv(h)'
    <3>1. pc[h] = "opening" /\ pc'[h] = "closing" /\ finish'[h] = "error"
          /\ answer' = answer /\ status' = status /\ out' = out /\ request' = request
          /\ writeFailed' = writeFailed
      BY <1>5 DEF OpenGroupFails, Opening
    <3> QED BY <3>1 DEF HandlerInv, AnswerInv
  <2>4. LateInv(h)'
    BY <1>5 DEF OpenGroupFails, Opening, HandlerInv, LateInv
  <2> QED BY <2>1, <2>2, <2>3, <2>4 DEF HandlerInv
<1>6. CASE Opened(h)
  <2>1. LoopInv(h)'
    BY <1>6 DEF Opened, HandlerInv, LoopInv, NoStopIn
  <2>2. ResultInv(h)'
    BY <1>6 DEF Opened, HandlerInv, LoopInv, ResultInv, NoStopIn
  <2>3. AnswerInv(h)'
    BY <1>6 DEF Opened, HandlerInv, ResultInv, AnswerInv, LastMessage
  <2>4. LateInv(h)'
    BY <1>6 DEF Opened, HandlerInv, LateInv
  <2> QED BY <2>1, <2>2, <2>3, <2>4 DEF HandlerInv
<1>7. CASE NextChunk(h)
  <2>1. LoopInv(h)'
    BY <1>7 DEF NextChunk, HandlerInv, LoopInv, NoStopIn
  <2>2. ResultInv(h)'
    BY <1>7 DEF NextChunk, HandlerInv, LoopInv, ResultInv, NoStopIn
  <2>3. AnswerInv(h)'
    BY <1>7 DEF NextChunk, HandlerInv, ResultInv, AnswerInv, LastMessage
  <2>4. LateInv(h)'
    BY <1>7 DEF NextChunk, HandlerInv, LateInv
  <2> QED BY <2>1, <2>2, <2>3, <2>4 DEF HandlerInv
<1>8. CASE Prefill(h)
  <2>0. Len(out[h]) = 0 /\ PromptRows(h) \in Nat
    BY <1>8, ServiceAssumption DEF Prefill, HandlerInv, LoopInv, PromptRows
  <2>1. LoopInv(h)'
    BY <1>8, <2>0 DEF Prefill, HandlerInv, LoopInv, NoStopIn
  <2>2. ResultInv(h)'
    BY <1>8 DEF Prefill, HandlerInv, LoopInv, ResultInv, NoStopIn
  <2>3. AnswerInv(h)'
    BY <1>8 DEF Prefill, HandlerInv, ResultInv, AnswerInv, LastMessage
  <2>4. LateInv(h)'
    BY <1>8 DEF Prefill, HandlerInv, AnswerInv, LateInv, Stopped, CheckRequest
  <2> QED BY <2>1, <2>2, <2>3, <2>4 DEF HandlerInv
<1>9. CASE Emit(h)
  <2> DEFINE n == Len(out[h])
  <2>0. /\ pc[h] = "emitting" /\ nextToken[h] \in Tokens /\ out[h] \in Seq(Tokens)
        /\ n \in Nat /\ n < request[h].maxTokens /\ NoStopIn(out[h], n)
        /\ finish[h] = "none" /\ status[h] = "none"
        /\ request[h].prompt > 0 /\ request[h].maxTokens > 0 /\ request[h].maxTokens \in Int
    BY <1>9 DEF Emit, HandlerInv, LoopInv, ResultInv, AnswerInv
  <2> DEFINE longer == Append(out[h], nextToken[h])
  <2>1. /\ Len(longer) = n + 1 /\ longer[n + 1] = nextToken[h]
        /\ \A i \in 1 .. n : longer[i] = out[h][i]
        /\ longer \in Seq(Tokens)
        /\ SubSeq(longer, 1, n) = out[h] /\ SubSeq(longer, 1, n + 1) = longer
        /\ SubSeq(out[h], 1, n) = out[h]
    BY <2>0, PrefixOfAppend
  <2>2. \/ out'[h] = longer /\ pc'[h] = "emitted" /\ finish'[h] = "none"
           /\ answer' = answer /\ writeFailed' = writeFailed /\ ~request[h].stream
        \/ out'[h] = longer /\ pc'[h] = "emitted" /\ finish'[h] = "none"
           /\ answer'[h] = Append(answer[h], nextToken[h]) /\ writeFailed' = writeFailed
           /\ request[h].stream
        \/ out'[h] = longer /\ pc'[h] = "closing" /\ finish'[h] = "error"
           /\ answer' = answer
        \/ out' = out /\ pc'[h] = "closing" /\ finish'[h] = "error"
           /\ answer' = answer /\ writeFailed' = writeFailed
    BY <1>9, <2>0 DEF Emit
  <2>3. fed' = fed /\ request' = request /\ nextToken' = nextToken /\ status' = status
        /\ lateRuns' = lateRuns
    BY <1>9 DEF Emit
  <2> HIDE DEF longer, n
  <2>4. LoopInv(h)' /\ ResultInv(h)'
    <3>1. CASE out'[h] = longer
      <4>1. Len(out'[h]) = n + 1 /\ out'[h][n + 1] = nextToken[h]
            /\ (\A i \in 1 .. n : out'[h][i] = out[h][i])
            /\ \/ pc'[h] = "closing" /\ finish'[h] = "error"
               \/ pc'[h] = "emitted" /\ finish'[h] = "none"
        BY <2>1, <2>2, <3>1
      <4>2. NoStopIn(out'[h], n)
        BY <2>0, <4>1 DEF NoStopIn
      <4> QED BY <2>0, <2>3, <4>1, <4>2 DEF LoopInv, ResultInv
    <3>2. CASE out'[h] # longer
      <4>1. out' = out /\ pc'[h] = "closing" /\ finish'[h] = "error"
        BY <2>2, <3>2
      <4> QED BY <2>0, <2>3, <4>1 DEF HandlerInv, LoopInv, ResultInv
    <3> QED BY <3>1, <3>2
  <2>6. AnswerInv(h)'
    <3>1. /\ answer[h] \in Seq(Tokens) /\ writeFailed[h] = FALSE
          /\ request[h].stream => answer[h] = out[h]
          /\ ~request[h].stream => answer[h] = <<>>
      BY <2>0 DEF HandlerInv, AnswerInv
    <3>2. CASE answer' = answer
      BY <2>0, <2>1, <2>2, <2>3, <3>1, <3>2 DEF AnswerInv, n
    <3>3. CASE answer'[h] = longer /\ out'[h] = longer /\ pc'[h] = "emitted"
               /\ request[h].stream /\ writeFailed' = writeFailed
      BY <2>0, <2>1, <2>3, <3>1, <3>3 DEF AnswerInv, n
    <3> QED BY <2>2, <3>1, <3>2, <3>3 DEF longer
  <2>7. LateInv(h)'
    BY <2>0, <2>2, <2>3 DEF HandlerInv, LateInv
  <2> QED BY <2>4, <2>6, <2>7 DEF HandlerInv
<1>10. CASE EndStep(h)
  <2>1. LoopInv(h)'
    BY <1>10 DEF EndStep, HandlerInv, LoopInv, NoStopIn, Finished
  <2>2. ResultInv(h)'
    BY <1>10 DEF EndStep, HandlerInv, LoopInv, ResultInv, NoStopIn, Finished
  <2>3. AnswerInv(h)'
    BY <1>10 DEF EndStep, HandlerInv, ResultInv, AnswerInv, LastMessage
  <2>4. LateInv(h)'
    BY <1>10 DEF EndStep, HandlerInv, LateInv
  <2> QED BY <2>1, <2>2, <2>3, <2>4 DEF HandlerInv
<1>11. CASE Decode(h)
  <2>1. LoopInv(h)'
    BY <1>11 DEF Decode, HandlerInv, LoopInv, NoStopIn
  <2>2. ResultInv(h)'
    BY <1>11 DEF Decode, HandlerInv, LoopInv, ResultInv, NoStopIn
  <2>3. AnswerInv(h)'
    BY <1>11 DEF Decode, HandlerInv, ResultInv, AnswerInv, LastMessage
  <2>4. LateInv(h)'
    BY <1>11 DEF Decode, HandlerInv, AnswerInv, LateInv, Stopped, CheckRequest
  <2> QED BY <2>1, <2>2, <2>3, <2>4 DEF HandlerInv
<1>12. CASE RunFails(h)
  <2>1. LoopInv(h)'
    BY <1>12 DEF RunFails, HandlerInv, LoopInv, NoStopIn
  <2>2. ResultInv(h)'
    BY <1>12 DEF RunFails, HandlerInv, LoopInv, ResultInv, NoStopIn
  <2>3. AnswerInv(h)'
    BY <1>12 DEF RunFails, HandlerInv, ResultInv, AnswerInv, LastMessage
  <2>4. LateInv(h)'
    BY <1>12 DEF RunFails, HandlerInv, AnswerInv, LateInv, Stopped
  <2> QED BY <2>1, <2>2, <2>3, <2>4 DEF HandlerInv
<1>13. CASE CloseSession(h)
  <2>1. LoopInv(h)'
    BY <1>13 DEF CloseSession, HandlerInv, LoopInv, NoStopIn
  <2>2. ResultInv(h)'
    BY <1>13 DEF CloseSession, HandlerInv, LoopInv, ResultInv, NoStopIn
  <2>3. AnswerInv(h)'
    BY <1>13 DEF CloseSession, HandlerInv, ResultInv, AnswerInv, LastMessage
  <2>4. LateInv(h)'
    BY <1>13 DEF CloseSession, HandlerInv, LateInv, Stopped
  <2> QED BY <2>1, <2>2, <2>3, <2>4 DEF HandlerInv
<1>14. CASE ReleaseLease(h)
  <2>1. LoopInv(h)'
    BY <1>14 DEF ReleaseLease, HandlerInv, LoopInv, NoStopIn
  <2>2. ResultInv(h)'
    BY <1>14 DEF ReleaseLease, HandlerInv, LoopInv, ResultInv, NoStopIn
  <2>3. AnswerInv(h)'
    BY <1>14 DEF ReleaseLease, HandlerInv, ResultInv, AnswerInv, LastMessage
  <2>4. LateInv(h)'
    BY <1>14 DEF ReleaseLease, HandlerInv, LateInv, Stopped
  <2> QED BY <2>1, <2>2, <2>3, <2>4 DEF HandlerInv
<1>15. CASE Reply(h)
  <2>1. LoopInv(h)'
    BY <1>15 DEF Reply, HandlerInv, LoopInv, NoStopIn
  <2>2. ResultInv(h)'
    BY <1>15 DEF Reply, HandlerInv, LoopInv, ResultInv, NoStopIn
  <2>3. AnswerInv(h)'
    <3>1. /\ pc[h] = "returning" /\ pc'[h] = "answered"
          /\ out' = out /\ request' = request /\ finish' = finish
      BY <1>15 DEF Reply
    <3>2. \/ answer' = answer /\ status'[h] \in {"CANCELLED", "DEADLINE_EXCEEDED"}
          \/ /\ answer'[h] = Append(answer[h], LastMessage(h)) /\ status'[h] = "OK"
             /\ writeFailed' = writeFailed /\ ~writeFailed[h]
      BY <1>15 DEF Reply, StoppedStatus
    <3>3. answer[h] \in Seq(Tokens)
      BY <3>1 DEF HandlerInv, AnswerInv
    <3>4. CASE answer' = answer /\ status'[h] \in {"CANCELLED", "DEADLINE_EXCEEDED"}
      BY <3>1, <3>4 DEF HandlerInv, AnswerInv
    <3>5. CASE /\ answer'[h] = Append(answer[h], LastMessage(h)) /\ status'[h] = "OK"
               /\ writeFailed' = writeFailed /\ ~writeFailed[h]
      <4>1. LET s == Append(answer[h], LastMessage(h))
            IN  /\ Len(s) = Len(answer[h]) + 1 /\ s[Len(answer[h]) + 1] = LastMessage(h)
                /\ SubSeq(s, 1, Len(answer[h])) = answer[h]
        <5>1. LastMessage(h) \in Tokens \cup {"done", "error"}
          BY DEF LastMessage
        <5> QED BY <5>1, PrefixOfAppend
      <4>2. Len(answer[h]) \in Nat /\ LastMessage(h)' = LastMessage(h)
        BY <3>1, <3>3, LenProperties DEF LastMessage
      <4> HIDE DEF LastMessage
      <4>3. /\ SubSeq(answer'[h], 1, Len(answer'[h]) - 1) = answer[h]
            /\ Len(answer'[h]) > 0
            /\ answer'[h][Len(answer'[h])] = LastMessage(h)'
        BY <3>5, <4>1, <4>2
      <4> QED BY <3>1, <3>3, <3>5, <4>3 DEF HandlerInv, AnswerInv
    <3> QED BY <3>2, <3>4, <3>5
  <2>4. LateInv(h)'
    BY <1>15 DEF Reply, HandlerInv, LateInv, Stopped, StoppedStatus
  <2> QED BY <2>1, <2>2, <2>3, <2>4 DEF HandlerInv
<1>16. CASE Return(h)
  <2>0. out'[h] = <<>> /\ Len(out'[h]) = 0 /\ finish'[h] = "none"
    BY <1>16 DEF Return
  <2>1. LoopInv(h)'
    BY <1>16 DEF Return, HandlerInv, LoopInv, NoStopIn
  <2>2. ResultInv(h)'
    BY <1>16, <2>0, RequestType DEF Return, ResultInv, NoStopIn, NoRequest
  <2>3. AnswerInv(h)'
    BY <1>16 DEF Return, HandlerInv, ResultInv, AnswerInv, LastMessage
  <2>4. LateInv(h)'
    BY <1>16 DEF Return, HandlerInv, LateInv
  <2> QED BY <2>1, <2>2, <2>3, <2>4 DEF HandlerInv
<1>17. CASE Cancel(h) \/ Expire(h)
  <2>1. /\ UNCHANGED <<pc, request, caches, resultVars, answerVars, lateRuns>>
        /\ Stopped(h)'
    BY <1>17 DEF Cancel, Expire, Stopped
  <2>2. LoopInv(h)'
    BY <2>1 DEF HandlerInv, LoopInv, NoStopIn
  <2>3. ResultInv(h)'
    BY <2>1 DEF HandlerInv, ResultInv, NoStopIn
  <2>4. AnswerInv(h)'
    BY <2>1 DEF HandlerInv, AnswerInv, LastMessage
  <2>5. LateInv(h)'
    BY <2>1 DEF HandlerInv, LateInv
  <2> QED BY <2>2, <2>3, <2>4, <2>5 DEF HandlerInv
<1> QED
  BY <1>1, <1>2, <1>3, <1>4, <1>5, <1>6, <1>7, <1>8, <1>9, <1>10, <1>11, <1>12,
     <1>13, <1>14, <1>15, <1>16, <1>17 DEF Step

-----------------------------------------------------------------------------
\* While a handler is inside, no other one is, and no other one has caches.
LEMMA AloneInside ==
    ASSUME LeaseInv, CachesInv, NEW h \in Handlers, pc[h] \in Inside
    PROVE  \A g \in Handlers \ {h} : pc[g] \notin Inside /\ caches[g] = <<>>
  BY DEF LeaseInv, CachesInv, Inside, WithSession, Evaluating

\* The places an action leads from and to, and who it gives the lease.
LEMMA LeaseMoves ==
    ASSUME Types, holders \subseteq Handlers, LeaseInv, NEW h \in Handlers,
           Submit(h) \/ Step(h) \/ Cancel(h) \/ Expire(h)
    PROVE  LeaseInv'
<1> USE DEF Types, GoTo, Fail, LeaseInv, Inside, gateVars
<1>1. CASE Acquire(h)
  <2>1. \/ /\ pc[h] \in {"arriving", "queued"} /\ pc' = [pc EXCEPT ![h] = "returning"]
           /\ holders' = holders
        \/ /\ pc[h] = "arriving" /\ pc' = [pc EXCEPT ![h] = "queued"]
           /\ holders' = holders
        \/ /\ pc[h] \in {"arriving", "queued"} /\ pc' = [pc EXCEPT ![h] = "admitted"]
           /\ holders = {} /\ holders' = {h}
    BY <1>1 DEF Acquire, Gate!TakeFree, Gate!Join, Gate!GiveUp, Gate!TakeFirst
  <2>2. CASE holders' = holders /\ \E place \in {"returning", "queued"} :
                pc[h] \notin Inside /\ pc' = [pc EXCEPT ![h] = place]
    BY <2>2
  <2>3. CASE holders = {} /\ holders' = {h} /\ pc' = [pc EXCEPT ![h] = "admitted"]
    BY <2>3
  <2> QED BY <2>1, <2>2, <2>3
<1>2. CASE ReleaseLease(h)
  <2>1. /\ pc[h] = "releasing" /\ pc' = [pc EXCEPT ![h] = "returning"]
        /\ holders' = holders \ {h}
    BY <1>2 DEF ReleaseLease, Gate!Release
  <2> QED BY <2>1
<1>3. ASSUME holders' = holders,
             NEW place \in Places, pc' = [pc EXCEPT ![h] = place],
             place \in Inside <=> pc[h] \in Inside
      PROVE  LeaseInv'
  <2>1. \A g \in Handlers : pc'[g] \in Inside <=> pc[g] \in Inside
    <3> HIDE DEF Inside, LeaseInv
    <3> QED BY <1>3
  <2> HIDE DEF Inside
  <2> QED BY <1>3, <2>1
<1>4. CASE Submit(h)
  <2>1. holders' = holders /\ \E place \in Places :
           /\ pc' = [pc EXCEPT ![h] = place]
           /\ place \in Inside <=> pc[h] \in Inside
    BY <1>4 DEF Submit, Places
  <2> QED BY <1>3, <2>1
<1>5. CASE Start(h)
  <2>1. holders' = holders /\ \E place \in Places :
           /\ pc' = [pc EXCEPT ![h] = place]
           /\ place \in Inside <=> pc[h] \in Inside
    BY <1>5 DEF Start, Places
  <2> QED BY <1>3, <2>1
<1>6. CASE OpenGroup(h)
  <2>1. holders' = holders /\ \E place \in Places :
           /\ pc' = [pc EXCEPT ![h] = place]
           /\ place \in Inside <=> pc[h] \in Inside
    BY <1>6 DEF OpenGroup, Opening, Places
  <2> QED BY <1>3, <2>1
<1>7. CASE OpenGroupFails(h)
  <2>1. holders' = holders /\ \E place \in Places :
           /\ pc' = [pc EXCEPT ![h] = place]
           /\ place \in Inside <=> pc[h] \in Inside
    BY <1>7 DEF OpenGroupFails, Opening, Places
  <2> QED BY <1>3, <2>1
<1>8. CASE Opened(h)
  <2>1. holders' = holders /\ \E place \in Places :
           /\ pc' = [pc EXCEPT ![h] = place]
           /\ place \in Inside <=> pc[h] \in Inside
    BY <1>8 DEF Opened, Opening, Places
  <2> QED BY <1>3, <2>1
<1>9. CASE NextChunk(h)
  <2>1. holders' = holders /\ \E place \in Places :
           /\ pc' = [pc EXCEPT ![h] = place]
           /\ place \in Inside <=> pc[h] \in Inside
    BY <1>9 DEF NextChunk, Places
  <2> QED BY <1>3, <2>1
<1>10. CASE Prefill(h)
  <2>1. holders' = holders /\ \E place \in Places :
           /\ pc' = [pc EXCEPT ![h] = place]
           /\ place \in Inside <=> pc[h] \in Inside
    BY <1>10 DEF Prefill, Places
  <2> QED BY <1>3, <2>1
<1>11. CASE Emit(h)
  <2>1. holders' = holders /\ \E place \in Places :
           /\ pc' = [pc EXCEPT ![h] = place]
           /\ place \in Inside <=> pc[h] \in Inside
    BY <1>11 DEF Emit, Places
  <2> QED BY <1>3, <2>1
<1>12. CASE EndStep(h)
  <2>1. holders' = holders /\ \E place \in Places :
           /\ pc' = [pc EXCEPT ![h] = place]
           /\ place \in Inside <=> pc[h] \in Inside
    BY <1>12 DEF EndStep, Places
  <2> QED BY <1>3, <2>1
<1>13. CASE Decode(h)
  <2>1. holders' = holders /\ \E place \in Places :
           /\ pc' = [pc EXCEPT ![h] = place]
           /\ place \in Inside <=> pc[h] \in Inside
    BY <1>13 DEF Decode, Places
  <2> QED BY <1>3, <2>1
<1>14. CASE RunFails(h)
  <2>1. holders' = holders /\ \E place \in Places :
           /\ pc' = [pc EXCEPT ![h] = place]
           /\ place \in Inside <=> pc[h] \in Inside
    BY <1>14 DEF RunFails, Places
  <2> QED BY <1>3, <2>1
<1>15. CASE CloseSession(h)
  <2>1. holders' = holders /\ \E place \in Places :
           /\ pc' = [pc EXCEPT ![h] = place]
           /\ place \in Inside <=> pc[h] \in Inside
    BY <1>15 DEF CloseSession, Places
  <2> QED BY <1>3, <2>1
<1>16. CASE Reply(h)
  <2>1. holders' = holders /\ \E place \in Places :
           /\ pc' = [pc EXCEPT ![h] = place]
           /\ place \in Inside <=> pc[h] \in Inside
    BY <1>16 DEF Reply, Places
  <2> QED BY <1>3, <2>1
<1>17. CASE Return(h)
  <2>1. holders' = holders /\ \E place \in Places :
           /\ pc' = [pc EXCEPT ![h] = place]
           /\ place \in Inside <=> pc[h] \in Inside
    BY <1>17 DEF Return, Places
  <2> QED BY <1>3, <2>1
<1>18. CASE Cancel(h)
  <2>1. holders' = holders /\ \E place \in Places :
           /\ pc' = [pc EXCEPT ![h] = place]
           /\ place \in Inside <=> pc[h] \in Inside
    BY <1>18 DEF Cancel, Places
  <2> QED BY <1>3, <2>1
<1>19. CASE Expire(h)
  <2>1. holders' = holders /\ \E place \in Places :
           /\ pc' = [pc EXCEPT ![h] = place]
           /\ place \in Inside <=> pc[h] \in Inside
    BY <1>19 DEF Expire, Places
  <2> QED BY <1>3, <2>1
<1> QED BY <1>1, <1>2, <1>4, <1>5, <1>6, <1>7, <1>8, <1>9, <1>10, <1>11, <1>12, <1>13, <1>14, <1>15, <1>16, <1>17, <1>18, <1>19 DEF Step

-----------------------------------------------------------------------------
\* The tensors of the pools.
PoolsOK == \A p \in DOMAIN pools : p \in PoolIds /\ pools[p] \in Seq(Seq(Nat))

\* The rows of the next m positions behind those of the first n.
LEMMA RowsGrow ==
    ASSUME NEW n \in Nat, NEW m \in Nat
    PROVE  /\ Rows(n) \in Seq(Nat)
           /\ [i \in 1 .. m |-> n + i - 1] \in Seq(Nat)
           /\ Rows(n) \o [i \in 1 .. m |-> n + i - 1] = Rows(n + m)
<1> DEFINE more == [i \in 1 .. m |-> n + i - 1]
<1>1. Rows(n) \in Seq(Nat) /\ Len(Rows(n)) = n /\ \A i \in 1 .. n : Rows(n)[i] = i - 1
  BY DEF Rows
<1>2. more \in Seq(Nat) /\ Len(more) = m /\ \A i \in 1 .. m : more[i] = n + i - 1
  OBVIOUS
<1>3. /\ Rows(n + m) \in Seq(Nat) /\ Len(Rows(n + m)) = n + m
      /\ \A i \in 1 .. n + m : Rows(n + m)[i] = i - 1
  BY DEF Rows
<1> DEFINE r == Rows(n)
           all == Rows(n + m)
<1>4. \A i \in 1 .. n + m : all[i] = i - 1
  BY <1>3
<1> HIDE DEF more, r, all
<1>5. /\ r \o more \in Seq(Nat) /\ Len(r \o more) = Len(r) + Len(more)
      /\ \A i \in 1 .. Len(r) + Len(more) :
            (r \o more)[i] = IF i <= Len(r) THEN r[i] ELSE more[i - Len(r)]
  BY <1>1, <1>2, ConcatProperties DEF r
<1>6. \A i \in 1 .. n + m : (r \o more)[i] = all[i]
  <2> TAKE i \in 1 .. n + m
  <2>1. CASE i <= n
    BY <1>1, <1>2, <1>4, <1>5, <2>1 DEF r
  <2>2. CASE ~(i <= n)
    BY <1>1, <1>2, <1>4, <1>5, <2>2 DEF r
  <2> QED BY <2>1, <2>2
<1>7. r \o more = all
  <2>1. r \o more \in Seq(Nat) /\ all \in Seq(Nat)
    BY <1>3, <1>5 DEF all
  <2>2. Len(r \o more) = n + m /\ Len(all) = n + m
    BY <1>1, <1>2, <1>3, <1>5 DEF r, all
  <2> QED BY <1>6, <2>1, <2>2, SeqEqual
<1> QED BY <1>1, <1>2, <1>7 DEF more, r, all

\* What a run does to the pools, whether it ends well or not.
LEMMA PoolsGrow ==
    ASSUME PoolsOK, NEW h \in Handlers, NEW tensors, NEW rows \in Nat,
           Position(h) \in Nat, GrowCaches(h, tensors, rows)
    PROVE  /\ PoolsOK'
           /\ DOMAIN pools' = DOMAIN pools
           /\ \A p \in DOMAIN pools :
                 /\ Len(pools'[p]) = Len(pools[p])
                 /\ \A i \in 1 .. Len(pools[p]) :
                       <<p, i>> \in tensors =>
                          pools'[p][i] = pools[p][i] \o [k \in 1 .. rows |-> Position(h) + k - 1]
<1> DEFINE encoded == [k \in 1 .. rows |-> Position(h) + k - 1]
           grown(p) == [i \in DOMAIN pools[p] |->
                           IF <<p, i>> \in tensors THEN pools[p][i] \o encoded ELSE pools[p][i]]
<1>1. pools' = [p \in DOMAIN pools |-> grown(p)]
  BY DEF GrowCaches
<1>2. encoded \in Seq(Nat)
  BY RowsGrow
<1> HIDE DEF encoded
<1>3. ASSUME NEW p \in DOMAIN pools
      PROVE  /\ grown(p) \in Seq(Seq(Nat)) /\ Len(grown(p)) = Len(pools[p])
             /\ \A i \in 1 .. Len(pools[p]) :
                   <<p, i>> \in tensors => grown(p)[i] = pools[p][i] \o encoded
  <2>1. pools[p] \in Seq(Seq(Nat)) /\ Len(pools[p]) \in Nat /\ DOMAIN pools[p] = 1 .. Len(pools[p])
    BY <1>3, LenProperties DEF PoolsOK
  <2>2. \A i \in 1 .. Len(pools[p]) : pools[p][i] \in Seq(Nat)
    BY <2>1, ElementOfSeq
  <2>3. \A i \in 1 .. Len(pools[p]) : pools[p][i] \o encoded \in Seq(Nat)
    BY <1>2, <2>2, ConcatProperties
  <2>4. grown(p) \in [1 .. Len(pools[p]) -> Seq(Nat)]
    BY <2>1, <2>2, <2>3
  <2>5. grown(p) \in Seq(Seq(Nat)) /\ Len(grown(p)) = Len(pools[p])
    <3> DEFINE g == grown(p)
               N == Len(pools[p])
    <3>1. g \in [1 .. N -> Seq(Nat)] /\ N \in Nat
      BY <2>1, <2>4
    <3> HIDE DEF grown, g, N
    <3>2. g \in Seq(Seq(Nat)) /\ Len(g) = N
      BY <3>1
    <3> QED BY <3>2 DEF g, N
  <2> QED BY <2>1, <2>5
<1> QED BY <1>1, <1>3 DEF PoolsOK, encoded

\* A new pool is on no list.
LEMMA FreshPoolIsFree == FreePools # {} => FreshPool \in PoolIds /\ FreshPool \notin DOMAIN pools
  BY DEF FreePools, FreshPool

LEMMA EmptyGroup ==
    ASSUME NEW count \in Nat
    PROVE  /\ Empty(count) \in Seq(Seq(Nat))
           /\ \A i \in 1 .. Len(Empty(count)) : Empty(count)[i] = <<>>
<1>1. Empty(count) \in [1 .. count -> Seq(Nat)]
  BY DEF Empty
<1>2. Empty(count) \in Seq(Seq(Nat)) /\ Len(Empty(count)) = count
  <2> DEFINE e == Empty(count)
  <2>1. e \in [1 .. count -> Seq(Nat)]
    BY <1>1
  <2> HIDE DEF e
  <2>2. e \in Seq(Seq(Nat)) /\ Len(e) = count
    BY <2>1
  <2> QED BY <2>2 DEF e
<1> QED BY <1>2 DEF Empty

\* OpenGroup, seen from the pools and from the list of the session.
LEMMA GroupOpens ==
    ASSUME Types, PoolsOK, CachesInv, NEW h \in Handlers, OpenGroup(h)
    PROVE  /\ PoolsOK'
           /\ DOMAIN pools' = DOMAIN pools \cup {FreshPool}
           /\ \A p \in DOMAIN pools : pools'[p] = pools[p]
           /\ \A i \in 1 .. Len(pools'[FreshPool]) : pools'[FreshPool][i] = <<>>
           /\ caches' = [caches EXCEPT ![h] = Append(@, FreshPool)]
           /\ Range(caches'[h]) = Range(caches[h]) \cup {FreshPool}
           /\ \A i, j \in 1 .. Len(caches'[h]) : caches'[h][i] = caches'[h][j] => i = j
           /\ FreshPool \notin DOMAIN pools
<1> DEFINE old == caches[h]
           new == Append(old, FreshPool)
<1>1. FreshPool \in PoolIds /\ FreshPool \notin DOMAIN pools
  BY FreshPoolIsFree DEF OpenGroup
<1>2. Len(CacheGroups) \in Nat /\ GroupSize(h) \in Nat /\ old \in Seq(PoolIds)
  <2>1. Len(old) + 1 \in 1 .. Len(CacheGroups) /\ old \in Seq(PoolIds)
    BY ServiceAssumption DEF OpenGroup, Opening, Types
  <2> QED BY <2>1, ServiceAssumption, ElementOfSeq DEF GroupSize
<1>3. /\ Empty(GroupSize(h)) \in Seq(Seq(Nat))
      /\ \A i \in 1 .. Len(Empty(GroupSize(h))) : Empty(GroupSize(h))[i] = <<>>
  BY <1>2, EmptyGroup
<1>4. /\ DOMAIN pools' = DOMAIN pools \cup {FreshPool}
      /\ \A p \in DOMAIN pools : pools'[p] = pools[p]
      /\ pools'[FreshPool] = Empty(GroupSize(h))
  BY <1>1 DEF OpenGroup, WithPool
<1>5. caches' = [caches EXCEPT ![h] = Append(@, FreshPool)] /\ caches'[h] = new
  BY DEF OpenGroup, Types
<1>6. /\ new \in Seq(PoolIds) /\ Len(new) = Len(old) + 1 /\ Len(old) \in Nat
      /\ \A i \in 1 .. Len(old) : new[i] = old[i]
      /\ new[Len(old) + 1] = FreshPool
  BY <1>1, <1>2, AppendProperties
<1> HIDE DEF new
<1>7. \A i \in 1 .. Len(old) : old[i] \in DOMAIN pools
  BY <1>2 DEF CachesInv, Range
<1>8. Range(new) = Range(old) \cup {FreshPool}
  <2>1. DOMAIN new = 1 .. Len(old) + 1 /\ DOMAIN old = 1 .. Len(old)
    BY <1>2, <1>6
  <2> QED BY <1>6, <2>1 DEF Range
<1>9. \A i, j \in 1 .. Len(new) : new[i] = new[j] => i = j
  <2>1. \A i, j \in 1 .. Len(old) : old[i] = old[j] => i = j
    BY DEF CachesInv
  <2>2. \A i \in 1 .. Len(old) : new[i] = old[i] /\ new[i] # FreshPool
    BY <1>1, <1>6, <1>7
  <2>3. new[Len(old) + 1] = FreshPool /\ 1 .. Len(new) = 1 .. Len(old) \cup {Len(old) + 1}
    BY <1>6
  <2> HIDE DEF old, new
  <2> QED BY <2>1, <2>2, <2>3
<1>10. PoolsOK'
  BY <1>1, <1>3, <1>4 DEF PoolsOK
<1>11. \A i \in 1 .. Len(pools'[FreshPool]) : pools'[FreshPool][i] = <<>>
  BY <1>3, <1>4
<1>12. /\ Range(caches'[h]) = Range(caches[h]) \cup {FreshPool}
       /\ \A i, j \in 1 .. Len(caches'[h]) : caches'[h][i] = caches'[h][j] => i = j
  <2>1. caches'[h] = new
    BY <1>5
  <2> QED BY <1>8, <1>9, <2>1, Zenon
<1> QED BY <1>1, <1>4, <1>5, <1>10, <1>11, <1>12

\* A run is given the position behind the rows its session holds.
LEMMA PositionIsNat ==
    ASSUME Types, NEW h \in Handlers, LoopInv(h), pc[h] \in {"prefilling", "decoding"}
    PROVE  /\ Position(h) \in Nat /\ Position(h) = Held(h)
           /\ pc[h] = "prefilling" => /\ PromptRows(h) \in Nat
                                     /\ fed[h] + PromptRows(h) <= request[h].prompt
<1>1. /\ request[h].prompt \in Nat /\ fed[h] \in Nat /\ Len(out[h]) \in Nat
      /\ ChunkTokens \in Nat
  BY ServiceAssumption DEF Types
<1>2. CASE pc[h] = "prefilling"
  BY <1>1, <1>2 DEF LoopInv, Position, PromptRows, Held
<1>3. CASE pc[h] = "decoding"
  <2>1. request[h].prompt > 0
    BY <1>3 DEF LoopInv, Evaluating
  <2> QED BY <1>1, <1>3, <2>1 DEF Position, Held
<1> QED BY <1>2, <1>3

\* Every pool a session knows is on the device, whatever is done.
LEMMA CachesMove ==
    ASSUME Types, PoolsOK, LeaseInv, CachesInv, NEW h \in Handlers,
           \A g \in Handlers : LoopInv(g),
           Submit(h) \/ Step(h) \/ Cancel(h) \/ Expire(h)
    PROVE  CachesInv' /\ PoolsOK'
<1>1. CASE OpenGroup(h)
  <2>1. \A g \in Handlers \ {h} : caches'[g] = caches[g]
    BY <1>1, GroupOpens DEF Types
  <2>2. pc' = pc /\ pc[h] = "opening"
    BY <1>1 DEF OpenGroup, Opening
  <2>3. PoolsOK'
    BY <1>1, GroupOpens
  <2>4. /\ Range(caches'[h]) \subseteq DOMAIN pools'
        /\ \A i, j \in 1 .. Len(caches'[h]) : caches'[h][i] = caches'[h][j] => i = j
        /\ DOMAIN pools \subseteq DOMAIN pools'
    BY <1>1, GroupOpens DEF CachesInv
  <2> QED BY <2>1, <2>2, <2>3, <2>4 DEF CachesInv, WithSession
<1>2. CASE CloseSession(h)
  <2>1. /\ pc[h] = "closing" /\ caches'[h] = <<>>
        /\ \A g \in Handlers \ {h} : caches'[g] = caches[g] /\ pc'[g] = pc[g]
    BY <1>2 DEF CloseSession, GoTo, Types
  <2>2. \A g \in Handlers \ {h} : caches'[g] = <<>>
    BY <2>1, AloneInside DEF Inside
  <2>3. /\ DOMAIN pools' \subseteq DOMAIN pools
        /\ \A p \in DOMAIN pools' : pools'[p] = pools[p] \/ pools'[p] = <<>>
    BY <1>2 DEF CloseSession
  <2>4. Range(<<>>) = {} /\ Len(<<>>) = 0
    BY DEF Range
  <2>5. PoolsOK'
    <3>1. <<>> \in Seq(Seq(Nat))
      OBVIOUS
    <3> QED BY <2>3, <3>1 DEF PoolsOK
  <2> QED BY <2>1, <2>2, <2>4, <2>5 DEF CachesInv
<1>3. CASE OpenGroupFails(h)
  <2>1. /\ caches' = caches /\ pc[h] = "opening" /\ pc' = [pc EXCEPT ![h] = "closing"]
        /\ \/ pools' = pools
           \/ FreePools # {} /\ pools' = WithPool(FreshPool, <<>>)
    BY <1>3 DEF OpenGroupFails, Opening, Fail, GoTo
  <2>2. PoolsOK' /\ DOMAIN pools \subseteq DOMAIN pools'
    <3>1. CASE pools' = pools
      BY <3>1 DEF PoolsOK
    <3>2. CASE FreePools # {} /\ pools' = WithPool(FreshPool, <<>>)
      <4>1. <<>> \in Seq(Seq(Nat))
        OBVIOUS
      <4> QED BY <3>2, <4>1, FreshPoolIsFree DEF PoolsOK, WithPool
    <3> QED BY <2>1, <3>1, <3>2
  <2>3. \A g \in Handlers : pc'[g] = pc[g] \/ pc'[g] = "closing"
    BY <2>1 DEF Types
  <2> QED BY <2>1, <2>2, <2>3 DEF CachesInv, WithSession
<1>4. CASE Prefill(h) \/ Decode(h) \/ RunFails(h)
  <2>1. /\ caches' = caches /\ pc[h] \in {"prefilling", "decoding"}
        /\ \E place \in WithSession : pc' = [pc EXCEPT ![h] = place]
        /\ \E tensors :
              GrowCaches(h, tensors, IF pc[h] = "decoding" THEN 1 ELSE PromptRows(h))
    BY <1>4 DEF Prefill, Decode, RunFails, Fail, GoTo, WithSession, Evaluating
  <2>2. Position(h) \in Nat /\ (pc[h] = "prefilling" => PromptRows(h) \in Nat)
    BY <2>1, PositionIsNat
  <2>3. PoolsOK' /\ DOMAIN pools' = DOMAIN pools
    BY <2>1, <2>2, PoolsGrow
  <2>4. \A g \in Handlers : pc'[g] = pc[g] \/ pc'[g] \in WithSession
    BY <2>1 DEF Types
  <2> QED BY <2>1, <2>3, <2>4 DEF CachesInv
<1>5. CASE \/ Submit(h) \/ Acquire(h) \/ Start(h) \/ Opened(h) \/ NextChunk(h) \/ Emit(h)
           \/ EndStep(h) \/ ReleaseLease(h) \/ Reply(h) \/ Return(h) \/ Cancel(h) \/ Expire(h)
  <2>1. caches' = caches /\ pools' = pools
    BY <1>5 DEF Submit, Acquire, Start, Opened, NextChunk, Emit, EndStep, ReleaseLease,
                Reply, Return, Cancel, Expire
  <2>2. \A g \in Handlers : pc[g] \in WithSession => pc'[g] \in WithSession
    BY <1>5 DEF Submit, Acquire, Start, Opened, NextChunk, Emit, EndStep, ReleaseLease,
                Reply, Return, Cancel, Expire, GoTo, Fail, Types, WithSession, Evaluating
  <2> QED BY <2>1, <2>2 DEF CachesInv, PoolsOK
<1> QED BY <1>1, <1>2, <1>3, <1>4, <1>5 DEF Step

\* A pool is lost only if a call fails for it, and then stays lost.
LEMMA LostMoves ==
    ASSUME Types, PoolsOK, LeaseInv, CachesInv, LostInv, NEW h \in Handlers,
           \A g \in Handlers : LoopInv(g),
           Submit(h) \/ Step(h) \/ Cancel(h) \/ Expire(h)
    PROVE  LostInv'
<1>1. CASE OpenGroup(h)
  <2>1. /\ DOMAIN pools' = DOMAIN pools \cup {FreshPool} /\ FreshPool \notin DOMAIN pools
        /\ Range(caches'[h]) = Range(caches[h]) \cup {FreshPool}
        /\ \A g \in Handlers \ {h} : caches'[g] = caches[g]
    BY <1>1, GroupOpens DEF Types
  <2>2. failed' = failed
    BY <1>1 DEF OpenGroup
  <2>3. ASSUME NEW p \in DOMAIN pools'
        PROVE  p \in failed' \/ \E g \in Handlers : p \in Range(caches'[g])
    <3>1. CASE p = FreshPool
      BY <2>1, <3>1
    <3>2. CASE p # FreshPool
      <4>1. p \in failed \/ \E g \in Handlers : p \in Range(caches[g])
        BY <2>1, <3>2 DEF LostInv
      <4>2. \A g \in Handlers : Range(caches[g]) \subseteq Range(caches'[g])
        BY <2>1
      <4> QED BY <2>2, <4>1, <4>2, Zenon
    <3> QED BY <3>1, <3>2
  <2>4. ASSUME NEW g \in Handlers, NEW p \in Range(caches'[g]) PROVE p \notin failed'
    <3>1. p = FreshPool \/ p \in Range(caches[g])
      BY <2>1
    <3> QED BY <2>1, <2>2, <3>1 DEF LostInv
  <2> QED BY <2>1, <2>2, <2>3, <2>4 DEF LostInv
<1>2. CASE OpenGroupFails(h)
  <2>1. caches' = caches
    BY <1>2 DEF OpenGroupFails
  <2>2. CASE pools' = pools /\ failed' = failed
    BY <2>1, <2>2 DEF LostInv
  <2>3. CASE FreePools # {} /\ pools' = WithPool(FreshPool, <<>>)
             /\ failed' = failed \cup {FreshPool}
    <3>1. /\ DOMAIN pools' = DOMAIN pools \cup {FreshPool}
          /\ FreshPool \notin DOMAIN pools
      BY <2>3, FreshPoolIsFree DEF WithPool
    <3>2. \A g \in Handlers : Range(caches[g]) \subseteq DOMAIN pools
      BY DEF CachesInv
    <3> QED BY <2>1, <2>3, <3>1, <3>2 DEF LostInv
  <2> QED BY <1>2, <2>2, <2>3 DEF OpenGroupFails
<1>3. CASE CloseSession(h)
  <2>1. PICK left \in SUBSET Range(caches[h]) :
           /\ DOMAIN pools' = DOMAIN pools \ (Range(caches[h]) \ left)
           /\ failed' = failed \cup left
    BY <1>3 DEF CloseSession
  <2>2. pc[h] \in Inside /\ caches' = [caches EXCEPT ![h] = <<>>]
    BY <1>3 DEF CloseSession, Inside
  <2>3. \A g \in Handlers \ {h} : caches[g] = <<>>
    BY <2>2, AloneInside
  <2>4. \A g \in Handlers : caches'[g] = <<>>
    BY <2>2, <2>3 DEF Types
  <2>5. Range(<<>>) = {}
    BY DEF Range
  <2>6. Range(caches[h]) \subseteq DOMAIN pools
    BY DEF CachesInv
  <2>7. \A p \in DOMAIN pools : p \in failed \/ p \in Range(caches[h])
    BY <2>3, <2>5 DEF LostInv
  <2>8. failed' \subseteq DOMAIN pools' /\ DOMAIN pools' \subseteq failed'
    BY <2>1, <2>6, <2>7 DEF LostInv
  <2> QED BY <2>4, <2>5, <2>8 DEF LostInv
<1>4. CASE Prefill(h) \/ Decode(h) \/ RunFails(h)
  <2>1. caches' = caches /\ failed' = failed /\ DOMAIN pools' = DOMAIN pools
    BY <1>4 DEF Prefill, Decode, RunFails, GrowCaches
  <2> QED BY <2>1 DEF LostInv
<1>5. CASE \/ Submit(h) \/ Acquire(h) \/ Start(h) \/ Opened(h) \/ NextChunk(h) \/ Emit(h)
           \/ EndStep(h) \/ ReleaseLease(h) \/ Reply(h) \/ Return(h) \/ Cancel(h) \/ Expire(h)
  <2>1. caches' = caches /\ pools' = pools /\ failed' = failed
    BY <1>5 DEF Submit, Acquire, Start, Opened, NextChunk, Emit, EndStep, ReleaseLease,
                Reply, Return, Cancel, Expire
  <2> QED BY <2>1 DEF LostInv
<1> QED BY <1>1, <1>2, <1>3, <1>4, <1>5 DEF Step

-----------------------------------------------------------------------------
\* A run that appends to every cache of its session, n rows of them.
LEMMA RowsAppended ==
    ASSUME Types, PoolsOK, CachesInv, RowsInv, NEW h \in Handlers, LoopInv(h),
           pc[h] \in {"prefilling", "decoding"}, NEW n \in Nat,
           GrowCaches(h, CacheTensors(h), n)
    PROVE  \A p \in Range(caches[h]) : \A i \in 1 .. Len(pools'[p]) :
               pools'[p][i] = Rows(Held(h) + n)
<1> SUFFICES ASSUME NEW p \in Range(caches[h]), NEW i \in 1 .. Len(pools'[p])
             PROVE  pools'[p][i] = Rows(Held(h) + n)
  OBVIOUS
<1>1. Position(h) \in Nat /\ Position(h) = Held(h)
  BY PositionIsNat
<1>2. p \in DOMAIN pools /\ DOMAIN pools[p] = 1 .. Len(pools[p])
  BY DEF CachesInv, PoolsOK
<1>3. /\ Len(pools'[p]) = Len(pools[p])
      /\ <<p, i>> \in CacheTensors(h) =>
            pools'[p][i] = pools[p][i] \o [k \in 1 .. n |-> Position(h) + k - 1]
  <2>1. \A q \in DOMAIN pools :
           /\ Len(pools'[q]) = Len(pools[q])
           /\ \A k \in 1 .. Len(pools[q]) :
                 <<q, k>> \in CacheTensors(h) =>
                    pools'[q][k] = pools[q][k] \o [x \in 1 .. n |-> Position(h) + x - 1]
    BY <1>1, PoolsGrow
  <2>2. Len(pools'[p]) = Len(pools[p])
    BY <1>2, <2>1
  <2> QED BY <1>2, <2>1, <2>2
<1>4. i \in 1 .. Len(pools[p])
  BY <1>3
<1>5. <<p, i>> \in CacheTensors(h)
  <2>1. <<p, i>> \in {<<p, j>> : j \in DOMAIN pools[p]}
    BY <1>2, <1>4
  <2> QED BY <2>1 DEF CacheTensors
<1>6. pools[p][i] = Rows(Held(h))
  BY <1>4 DEF RowsInv, Evaluating
<1> QED BY <1>1, <1>3, <1>5, <1>6, RowsGrow

LEMMA RowsMove ==
    ASSUME Types, PoolsOK, LeaseInv, CachesInv, RowsInv, NEW h \in Handlers,
           \A g \in Handlers : LoopInv(g),
           Submit(h) \/ Step(h) \/ Cancel(h) \/ Expire(h)
    PROVE  RowsInv'
<1> DEFINE Fed(g) == pc[g] \in {"opening"} \cup Evaluating
           Right(g) == Fed(g)' => \A p \in Range(caches'[g]) : \A i \in 1 .. Len(pools'[p]) :
                                      pools'[p][i] = Rows(Held(g)')
<1> USE DEF Types, GoTo, Fail
<1>1. SUFFICES \A g \in Handlers : Right(g)
  BY <1>1 DEF RowsInv
<1>2. \A g \in Handlers \ {h} : Same(g)
  BY OthersUnmoved
<1>3. \A g \in Handlers : Fed(g) => \A p \in Range(caches[g]) : \A i \in 1 .. Len(pools[p]) :
                                       pools[p][i] = Rows(Held(g))
  BY DEF RowsInv
<1>4. ASSUME pc[h] \in Inside, NEW g \in Handlers \ {h} PROVE Right(g)
  BY <1>2, <1>4, AloneInside DEF Same, Inside, Evaluating
<1>5. ASSUME pools' = pools, NEW g \in Handlers \ {h} PROVE Right(g)
  <2>1. Held(g)' = Held(g) /\ caches'[g] = caches[g] /\ pc'[g] = pc[g]
    BY <1>2 DEF Same, Held
  <2>2. Fed(g)' => Fed(g)
    BY <2>1
  <2>3. Fed(g) => \A p \in Range(caches[g]) : \A i \in 1 .. Len(pools[p]) :
                     pools[p][i] = Rows(Held(g))
    BY <1>3, Zenon
  <2> QED BY <1>5, <2>1, <2>2, <2>3
<1>6. ASSUME pools' = pools, caches' = caches, Fed(h)' => Fed(h) /\ Held(h)' = Held(h)
      PROVE  Right(h)
  BY <1>3, <1>6
<1>7. CASE \/ Submit(h) \/ Acquire(h) \/ CloseSession(h) \/ ReleaseLease(h) \/ Reply(h)
           \/ Return(h) \/ OpenGroupFails(h)
  <2>1. ~Fed(h)' /\ (pools' = pools \/ pc[h] \in Inside)
    BY <1>7 DEF Submit, Acquire, CloseSession, ReleaseLease, Reply, Return, OpenGroupFails,
                Opening, Evaluating, Inside
  <2> QED BY <1>4, <1>5, <2>1
<1>8. CASE Start(h)
  <2>1. pools' = pools /\ caches' = caches /\ caches[h] = <<>>
    BY <1>8 DEF Start, CachesInv, WithSession, Evaluating
  <2>2. Range(caches'[h]) = {}
    BY <2>1 DEF Range
  <2> QED BY <1>5, <2>1, <2>2
<1>9. CASE OpenGroup(h)
  <2>1. pc[h] = "opening" /\ pc' = pc /\ Held(h) = 0 /\ Held(h)' = 0
    BY <1>9 DEF OpenGroup, Opening, Held
  <2>2. Rows(0) = <<>>
    BY DEF Rows
  <2>3. \A p \in Range(caches'[h]) : \A i \in 1 .. Len(pools'[p]) : pools'[p][i] = <<>>
    <3> SUFFICES ASSUME NEW p \in Range(caches'[h]), NEW i \in 1 .. Len(pools'[p])
                 PROVE  pools'[p][i] = <<>>
      OBVIOUS
    <3>1. CASE p = FreshPool
      BY <1>9, <3>1, GroupOpens
    <3>2. CASE p # FreshPool
      <4>1. p \in Range(caches[h]) /\ p \in DOMAIN pools
        <5>1. Range(caches'[h]) = Range(caches[h]) \cup {FreshPool}
          BY <1>9, GroupOpens
        <5>2. Range(caches[h]) \subseteq DOMAIN pools
          BY DEF CachesInv
        <5> QED BY <3>2, <5>1, <5>2, Zenon
      <4>2. pools'[p] = pools[p]
        BY <1>9, <4>1, GroupOpens
      <4> QED BY <1>3, <2>1, <2>2, <4>1, <4>2
    <3> QED BY <3>1, <3>2
  <2> QED BY <1>4, <2>1, <2>2, <2>3 DEF Inside
<1>10. CASE Opened(h) \/ NextChunk(h) \/ EndStep(h)
  <2>1. pools' = pools /\ caches' = caches /\ fed' = fed /\ out' = out /\ request' = request
    BY <1>10 DEF Opened, NextChunk, EndStep, resultVars
  <2>2. Fed(h)' => Fed(h) /\ Held(h)' = Held(h)
    <3>1. CASE Opened(h)
      BY <2>1, <3>1 DEF Opened, LoopInv, Held, Evaluating
    <3>2. CASE NextChunk(h) \/ EndStep(h)
      BY <2>1, <3>2 DEF NextChunk, EndStep, Held, Evaluating
    <3> QED BY <1>10, <3>1, <3>2
  <2> QED BY <1>5, <1>6, <2>1, <2>2
<1>11. CASE Emit(h)
  <2>1. /\ pools' = pools /\ caches' = caches /\ request' = request /\ pc[h] = "emitting"
        /\ \/ pc'[h] = "emitted" /\ out'[h] = Append(out[h], nextToken[h])
           \/ pc'[h] = "closing"
    BY <1>11 DEF Emit
  <2>2. Len(Append(out[h], nextToken[h])) = Len(out[h]) + 1
    <3>1. out[h] \in Seq(Tokens) /\ nextToken[h] \in Tokens
      BY <2>1 DEF LoopInv
    <3> QED BY <3>1, AppendProperties
  <2>3. CASE pc'[h] = "emitted" /\ out'[h] = Append(out[h], nextToken[h])
    <3>1. Held(h)' = Held(h)
      <4>1. Len(out[h]) \in Nat /\ request[h].prompt \in Nat
        OBVIOUS
      <4>2. Held(h) = request[h].prompt + Len(out[h])
        BY <2>1 DEF Held
      <4>3. Held(h)' = request[h].prompt + Len(out'[h]) - 1
        BY <2>1, <2>3 DEF Held
      <4>4. Len(out'[h]) = Len(out[h]) + 1
        BY <2>2, <2>3
      <4> QED BY <4>1, <4>2, <4>3, <4>4
    <3>2. Fed(h)
      BY <2>1 DEF Evaluating
    <3>3. Right(h)
      BY <1>6, <2>1, <3>1, <3>2
    <3> HIDE DEF Right
    <3> QED BY <1>5, <2>1, <3>3
  <2>4. CASE pc'[h] = "closing"
    <3>1. ~Fed(h)'
      BY <2>4 DEF Evaluating
    <3> QED BY <1>5, <2>1, <3>1
  <2> QED BY <2>1, <2>3, <2>4
<1>12. CASE Prefill(h)
  <2>1. /\ pc[h] = "prefilling" /\ caches' = caches /\ request' = request /\ out' = out
        /\ GrowCaches(h, CacheTensors(h), PromptRows(h))
        /\ \/ pc'[h] = "closing"
           \/ pc'[h] = "prompt" /\ fed'[h] = fed[h] + PromptRows(h)
           \/ /\ pc'[h] = "emitting" /\ fed'[h] = fed[h] + PromptRows(h)
              /\ fed'[h] >= request[h].prompt
    BY <1>12 DEF Prefill
  <2>2. PromptRows(h) \in Nat /\ fed[h] + PromptRows(h) <= request[h].prompt
    BY <2>1, PositionIsNat
  <2>3. Fed(h)' => Held(h)' = Held(h) + PromptRows(h)
    <3>1. Len(out[h]) = 0 /\ Held(h) = fed[h] /\ request[h].prompt \in Nat
      BY <2>1 DEF LoopInv, Held
    <3> QED BY <2>1, <2>2, <3>1 DEF Held, Evaluating
  <2>4. \A p \in Range(caches[h]) : \A i \in 1 .. Len(pools'[p]) :
           pools'[p][i] = Rows(Held(h) + PromptRows(h))
    BY <2>1, <2>2, RowsAppended
  <2>5. Right(h)
    BY <2>1, <2>3, <2>4
  <2> QED BY <1>4, <2>1, <2>5 DEF Inside
<1>13. CASE Decode(h)
  <2>1. /\ pc[h] = "decoding" /\ caches' = caches /\ request' = request /\ out' = out
        /\ GrowCaches(h, CacheTensors(h), 1)
        /\ pc'[h] \in {"closing", "emitting"}
    BY <1>13 DEF Decode
  <2>2. Fed(h)' => Held(h)' = Held(h) + 1
    BY <2>1 DEF Held, Evaluating
  <2>3. \A p \in Range(caches[h]) : \A i \in 1 .. Len(pools'[p]) :
           pools'[p][i] = Rows(Held(h) + 1)
    BY <2>1, RowsAppended
  <2>4. Right(h)
    BY <2>1, <2>2, <2>3
  <2> QED BY <1>4, <2>1, <2>4 DEF Inside
<1>14. CASE RunFails(h)
  <2>1. pc[h] \in {"prefilling", "decoding"} /\ pc'[h] = "closing"
    BY <1>14 DEF RunFails
  <2> QED BY <1>4, <2>1 DEF Inside, Evaluating
<1>15. CASE Cancel(h) \/ Expire(h)
  <2>1. pools' = pools /\ caches' = caches /\ pc' = pc /\ Held(h)' = Held(h)
    BY <1>15 DEF Cancel, Expire, resultVars, Held
  <2> QED BY <1>5, <1>6, <2>1
<1> QED
  BY <1>7, <1>8, <1>9, <1>10, <1>11, <1>12, <1>13, <1>14, <1>15 DEF Step

-----------------------------------------------------------------------------
\* What std::deque::erase leaves are callers.
LEMMA LeavesQueue ==
    ASSUME NEW S, NEW s \in Seq(S), NEW i \in DOMAIN s
    PROVE  Gate!RemoveAt(s, i) \in Seq(S)
<1>1. i \in 1 .. Len(s) /\ Len(s) \in Nat
  BY LenProperties
<1>2. SubSeq(s, 1, i - 1) \in Seq(S) /\ SubSeq(s, i + 1, Len(s)) \in Seq(S)
  BY <1>1, ElementOfSeq, SubSeqProperties
<1> QED BY <1>2, ConcatProperties DEF Gate!RemoveAt

LEMMA TypeMoves ==
    ASSUME TypeOK, NEW h \in Handlers, HandlerInv(h), PoolsOK', failed' \subseteq DOMAIN pools',
           Submit(h) \/ Step(h) \/ Cancel(h) \/ Expire(h)
    PROVE  TypeOK'
<1> DEFINE Gated == queue \in Seq(Handlers) /\ holders \subseteq Handlers
           Told == /\ answer \in [Handlers -> Seq(Tokens \cup {"done", "error"})]
                   /\ writeFailed \in [Handlers -> BOOLEAN]
                   /\ status \in [Handlers -> {"none", "OK", "CANCELLED", "DEADLINE_EXCEEDED"}]
           Result == /\ nextToken \in [Handlers -> Tokens \cup {NoToken}]
                     /\ out \in [Handlers -> Seq(Tokens)]
                     /\ finish \in [Handlers -> {"none", "error", "stop", "length"}]
                     /\ lateRuns \in [Handlers -> Nat]
           Asked == /\ pc \in [Handlers -> Places]
                    /\ request \in [Handlers -> Requests \cup {NoRequest}]
                    /\ cancelled \subseteq Handlers /\ expired \subseteq Handlers
                    /\ caches \in [Handlers -> Seq(PoolIds)]
                    /\ fed \in [Handlers -> Nat]
                    /\ \A g \in Handlers : fed[g] <= request[g].prompt
<1> USE DEF GoTo, Fail, CountLate, gateVars, stopVars, resultVars, answerVars
<1>1. Types
  BY TypesOfTypeOK
<1>2. Gated'
  <2>1. CASE Acquire(h)
    <3>1. CASE /\ holders' = holders
               /\ \/ queue' = queue
                  \/ queue' = Append(queue, h)
                  \/ \E i \in DOMAIN queue : queue' = Gate!RemoveAt(queue, i)
      <4>1. queue \in Seq(Handlers) /\ holders \subseteq Handlers
        BY DEF TypeOK
      <4> QED BY <3>1, <4>1, LeavesQueue
    <3>2. CASE holders' = {h} /\ (queue' = queue \/ (queue # <<>> /\ queue' = Tail(queue)))
      <4>1. queue \in Seq(Handlers) /\ {h} \subseteq Handlers
        BY DEF TypeOK
      <4>2. queue # <<>> => Tail(queue) \in Seq(Handlers)
        BY <4>1, HeadTailProperties
      <4> QED BY <3>2, <4>1, <4>2
    <3> QED
      BY <2>1, <3>1, <3>2 DEF Acquire, Gate!TakeFree, Gate!Join, Gate!GiveUp, Gate!TakeFirst
  <2>2. CASE ReleaseLease(h)
    BY <2>2 DEF ReleaseLease, Gate!Release, TypeOK
  <2>3. CASE \/ Submit(h) \/ Start(h) \/ OpenGroup(h) \/ OpenGroupFails(h) \/ Opened(h)
             \/ NextChunk(h) \/ Prefill(h) \/ Emit(h) \/ EndStep(h) \/ Decode(h)
             \/ RunFails(h) \/ CloseSession(h) \/ Reply(h) \/ Return(h) \/ Cancel(h)
             \/ Expire(h)
    <3>1. queue' = queue /\ holders' = holders
      BY <2>3 DEF Submit, Start, OpenGroup, OpenGroupFails, Opened, NextChunk,
                  Prefill, Emit, EndStep, Decode, RunFails, CloseSession, Reply,
                  Return, Cancel, Expire
    <3> QED BY <3>1 DEF TypeOK
  <2> QED BY <2>1, <2>2, <2>3 DEF Step
<1>3. Told'
  <2>0. Told
    BY DEF TypeOK
  <2>1. CASE Emit(h)
    <3>1. nextToken[h] \in Tokens
      BY <2>1, <2>0 DEF Emit, HandlerInv, LoopInv
    <3>2. Append(answer[h], nextToken[h]) \in Seq(Tokens \cup {"done", "error"})
      BY <1>1, <3>1, AppendProperties DEF Types
    <3>3. /\ answer' = answer \/ answer' = [answer EXCEPT ![h] = Append(answer[h], nextToken[h])]
          /\ writeFailed' = writeFailed \/ writeFailed' = [writeFailed EXCEPT ![h] = TRUE]
          /\ status' = status
      BY <2>1 DEF Emit
    <3> QED BY <2>0, <3>2, <3>3
  <2>2. CASE Reply(h)
    <3>1. Append(answer[h], LastMessage(h)) \in Seq(Tokens \cup {"done", "error"})
      <4>1. LastMessage(h) \in Tokens \cup {"done", "error"}
        BY DEF LastMessage
      <4> QED BY <1>1, <4>1, AppendProperties DEF Types
    <3>2. /\ answer' = answer \/ answer' = [answer EXCEPT ![h] = Append(answer[h], LastMessage(h))]
          /\ writeFailed' = writeFailed \/ writeFailed' = [writeFailed EXCEPT ![h] = TRUE]
          /\ \E said \in {"OK", "CANCELLED", "DEADLINE_EXCEEDED"} :
                status' = [status EXCEPT ![h] = said]
      BY <2>2 DEF Reply, StoppedStatus
    <3> QED BY <2>0, <3>1, <3>2
  <2>3. CASE Return(h)
    BY <2>3, <2>0 DEF Return
  <2>4. CASE \/ Submit(h) \/ Acquire(h) \/ Start(h) \/ OpenGroup(h) \/ OpenGroupFails(h)
             \/ Opened(h) \/ NextChunk(h) \/ Prefill(h) \/ EndStep(h) \/ Decode(h)
             \/ RunFails(h) \/ CloseSession(h) \/ ReleaseLease(h) \/ Cancel(h)
             \/ Expire(h)
    <3>1. UNCHANGED answerVars
      BY <2>4 DEF Submit, Acquire, Start, OpenGroup, OpenGroupFails, Opened,
                  NextChunk, Prefill, EndStep, Decode, RunFails, CloseSession,
                  ReleaseLease, Cancel, Expire
    <3> QED BY <2>0, <3>1
  <2> QED BY <2>1, <2>2, <2>3, <2>4 DEF Step
<1>4. Result'
  <2>0. Result
    BY DEF TypeOK
  <2>1. CASE Emit(h)
    <3>1. nextToken[h] \in Tokens
      BY <2>1 DEF Emit, HandlerInv, LoopInv
    <3>2. Append(out[h], nextToken[h]) \in Seq(Tokens)
      BY <1>1, <3>1, AppendProperties DEF Types
    <3>3. /\ out' = out \/ out' = [out EXCEPT ![h] = Append(out[h], nextToken[h])]
          /\ finish' = finish \/ finish' = [finish EXCEPT ![h] = "error"]
          /\ UNCHANGED <<nextToken, lateRuns>>
      BY <2>1 DEF Emit
    <3> QED BY <2>0, <3>2, <3>3
  <2>2. CASE Prefill(h) \/ Decode(h)
    <3>1. /\ nextToken' = nextToken \/ \E t \in Tokens : nextToken' = [nextToken EXCEPT ![h] = t]
          /\ finish' = finish \/ finish' = [finish EXCEPT ![h] = "error"]
          /\ \E late \in {0, 1} : lateRuns' = [lateRuns EXCEPT ![h] = @ + late]
          /\ out' = out
      <4>1. CASE Prefill(h)
        BY <4>1 DEF Prefill
      <4>2. CASE Decode(h)
        BY <4>2 DEF Decode
      <4> QED BY <2>2, <4>1, <4>2
    <3>2. lateRuns' \in [Handlers -> Nat]
      <4>1. PICK late \in {0, 1} : lateRuns' = [lateRuns EXCEPT ![h] = @ + late]
        BY <3>1
      <4>2. lateRuns[h] + late \in Nat
        BY <2>0
      <4> QED BY <2>0, <4>1, <4>2
    <3>3. nextToken' \in [Handlers -> Tokens \cup {NoToken}]
          /\ finish' \in [Handlers -> {"none", "error", "stop", "length"}]
      BY <2>0, <3>1
    <3> QED BY <2>0, <3>1, <3>2, <3>3
  <2>3. CASE RunFails(h)
    BY <2>3, <2>0 DEF RunFails
  <2>4. CASE Return(h)
    BY <2>4, <2>0 DEF Return
  <2>5. CASE Acquire(h) \/ Start(h) \/ OpenGroupFails(h) \/ Opened(h) \/ NextChunk(h)
    <3>1. /\ finish' = finish \/ \E f \in {"error", "length"} : finish' = [finish EXCEPT ![h] = f]
          /\ UNCHANGED <<nextToken, out, lateRuns>>
      BY <2>5 DEF Acquire, Start, OpenGroupFails, Opened, NextChunk
    <3> QED BY <2>0, <3>1
  <2>6. CASE EndStep(h)
    <3>1. /\ finish' = finish \/ \E f \in {"stop", "length"} : finish' = [finish EXCEPT ![h] = f]
          /\ UNCHANGED <<nextToken, out, lateRuns>>
      BY <2>6 DEF EndStep, Finished
    <3> QED BY <2>0, <3>1
  <2>7. CASE \/ Submit(h) \/ OpenGroup(h) \/ CloseSession(h) \/ ReleaseLease(h)
             \/ Reply(h) \/ Cancel(h) \/ Expire(h)
    <3>1. UNCHANGED <<nextToken, out, finish, lateRuns>>
      BY <2>7 DEF Submit, OpenGroup, CloseSession, ReleaseLease, Reply, Cancel, Expire
    <3> QED BY <2>0, <3>1
  <2> QED BY <2>1, <2>2, <2>3, <2>4, <2>5, <2>6, <2>7 DEF Step
<1>5. Asked'
  <2>0. Asked
    BY DEF TypeOK
  <2> USE DEF Places
  <2>1. CASE Submit(h)
    <3>1. PICK r \in Requests : request' = [request EXCEPT ![h] = r]
      BY <2>1, <2>0 DEF Submit
    <3>2. r.prompt \in Nat
      BY RequestType
    <3>3. /\ pc' = [pc EXCEPT ![h] = "arriving"] /\ fed[h] = 0
          /\ UNCHANGED <<cancelled, expired, caches, fed>>
      BY <2>1, <2>0 DEF Submit, HandlerInv, LoopInv
    <3>4. ASSUME NEW g \in Handlers PROVE fed'[g] <= request'[g].prompt
      <4>1. CASE g = h
        BY <2>0, <3>1, <3>2, <3>3, <4>1
      <4>2. CASE g # h
        BY <2>0, <3>1, <3>3, <4>2
      <4> QED BY <4>1, <4>2
    <3> QED BY <2>0, <3>1, <3>3, <3>4
  <2>2. CASE OpenGroup(h)
    <3>1. Append(caches[h], FreshPool) \in Seq(PoolIds)
      BY <2>2, <2>0, FreshPoolIsFree, AppendProperties DEF OpenGroup
    <3> QED BY <2>2, <2>0, <3>1 DEF OpenGroup
  <2>3. CASE Prefill(h)
    <3>1. PromptRows(h) \in Nat /\ fed[h] + PromptRows(h) <= request[h].prompt
      BY <1>1, <2>3, PositionIsNat DEF Prefill, HandlerInv
    <3>2. /\ fed' = fed \/ fed' = [fed EXCEPT ![h] = @ + PromptRows(h)]
          /\ \E place \in Places : pc' = [pc EXCEPT ![h] = place]
          /\ UNCHANGED <<request, cancelled, expired, caches>>
      BY <2>3, <2>0 DEF Prefill
    <3>3. fed' \in [Handlers -> Nat] /\ \A g \in Handlers : fed'[g] <= request[g].prompt
      <4>1. CASE fed' = fed
        BY <2>0, <4>1
      <4>2. CASE fed' = [fed EXCEPT ![h] = @ + PromptRows(h)]
        BY <2>0, <3>1, <4>2
      <4> QED BY <3>2, <4>1, <4>2
    <3>4. pc' \in [Handlers -> Places]
      BY <2>0, <3>2
    <3>5. request' = request /\ cancelled' = cancelled /\ expired' = expired /\ caches' = caches
      BY <3>2
    <3> HIDE DEF Places
    <3> QED BY <2>0, <3>3, <3>4, <3>5
  <2>4. CASE CloseSession(h)
    BY <2>4, <2>0 DEF CloseSession
  <2>5. CASE Return(h)
    BY <2>5, <2>0, RequestType DEF Return, NoRequest
  <2>6. CASE Cancel(h) \/ Expire(h)
    BY <2>6, <2>0 DEF Cancel, Expire
  <2>7. CASE \/ Acquire(h) \/ Start(h) \/ OpenGroupFails(h) \/ Opened(h) \/ NextChunk(h)
             \/ Emit(h) \/ EndStep(h) \/ Decode(h) \/ RunFails(h) \/ ReleaseLease(h) \/ Reply(h)
    <3>1. /\ \E place \in Places : pc' = [pc EXCEPT ![h] = place]
          /\ UNCHANGED <<request, cancelled, expired, caches, fed>>
      BY <2>7, <2>0 DEF Acquire, Start, OpenGroupFails, Opened, NextChunk, Emit, EndStep, Decode,
                  RunFails, ReleaseLease, Reply
    <3> QED BY <2>0, <3>1
  <2> QED BY <2>1, <2>2, <2>3, <2>4, <2>5, <2>6, <2>7 DEF Step
<1>6. failed' \subseteq PoolIds
  BY DEF PoolsOK
<1> QED BY <1>2, <1>3, <1>4, <1>5, <1>6 DEF TypeOK, PoolsOK

-----------------------------------------------------------------------------
LEMMA InitIInv == Init => IInv
<1> SUFFICES ASSUME Init PROVE IInv
  OBVIOUS
<1> USE DEF Init
<1>1. TypeOK
  BY RequestType DEF TypeOK, Gate!Init, Places, NoRequest
<1>2. LeaseInv
  BY DEF LeaseInv, Inside, Gate!Init
<1>3. CachesInv
  BY DEF CachesInv, Range
<1>4. RowsInv
  BY DEF RowsInv, Evaluating
<1>5. ASSUME NEW h \in Handlers PROVE HandlerInv(h)
  <2>1. LoopInv(h)
    BY DEF LoopInv, Evaluating
  <2>2. ResultInv(h)
    BY DEF ResultInv, NoStopIn, NoRequest
  <2>3. AnswerInv(h)
    BY DEF AnswerInv, NoRequest
  <2>4. LateInv(h)
    BY DEF LateInv
  <2> QED BY <2>1, <2>2, <2>3, <2>4 DEF HandlerInv
<1>6. LostInv
  <2>1. DOMAIN pools = {} /\ failed = {} /\ \A h \in Handlers : Range(caches[h]) = {}
    BY DEF Range
  <2> QED BY <2>1 DEF LostInv
<1> QED BY <1>1, <1>2, <1>3, <1>4, <1>5, <1>6 DEF IInv

LEMMA NextIInv == IInv /\ [Next]_vars => IInv'
<1> SUFFICES ASSUME IInv, [Next]_vars PROVE IInv'
  OBVIOUS
<1>1. /\ Types /\ PoolsOK /\ holders \subseteq Handlers
      /\ LeaseInv /\ CachesInv /\ LostInv /\ RowsInv
      /\ \A g \in Handlers : HandlerInv(g) /\ LoopInv(g)
  BY TypesOfTypeOK DEF IInv, TypeOK, PoolsOK, HandlerInv
<1>2. CASE Next
  <2>1. PICK h \in Handlers : Submit(h) \/ Step(h) \/ Cancel(h) \/ Expire(h)
    BY <1>2 DEF Next
  <2>2. CachesInv' /\ PoolsOK'
    BY <1>1, <2>1, CachesMove
  <2>7. LostInv'
    BY <1>1, <2>1, LostMoves
  <2>3. TypeOK'
    BY <1>1, <2>1, <2>2, <2>7, TypeMoves DEF IInv, LostInv
  <2>4. LeaseInv'
    BY <1>1, <2>1, LeaseMoves
  <2>5. RowsInv'
    BY <1>1, <2>1, RowsMove
  <2>6. ASSUME NEW g \in Handlers PROVE HandlerInv(g)'
    <3>1. CASE g = h
      BY <1>1, <2>1, <3>1, HandlerMoves
    <3>2. CASE g # h
      BY <1>1, <2>1, <3>2, OthersUnmoved, SameHandler
    <3> QED BY <3>1, <3>2
  <2> QED BY <2>2, <2>3, <2>4, <2>5, <2>6, <2>7 DEF IInv
<1>3. CASE UNCHANGED vars
  <2> USE <1>3 DEF vars, gateVars, stopVars, resultVars, answerVars
  <2>1. TypeOK'
    BY DEF IInv, TypeOK
  <2>2. LeaseInv' /\ CachesInv' /\ LostInv'
    BY <1>1 DEF LeaseInv, CachesInv, LostInv
  <2>3. RowsInv'
    <3>1. \A h \in Handlers : Held(h)' = Held(h)
      BY DEF Held
    <3> QED BY <1>1, <3>1 DEF RowsInv
  <2>4. ASSUME NEW g \in Handlers PROVE HandlerInv(g)'
    BY <1>1, SameHandler DEF Same, Stopped
  <2> QED BY <2>1, <2>2, <2>3, <2>4 DEF IInv
<1> QED BY <1>2, <1>3

LEMMA Invariant == Spec => []IInv
BY InitIInv, NextIInv, PTL DEF Spec

-----------------------------------------------------------------------------
\* The variables of the service have their types.
THEOREM TypesCorrect == Spec => []TypeOK
<1>1. IInv => TypeOK
  BY DEF IInv
<1> QED BY <1>1, Invariant, PTL

\* Only the request that holds the lease has caches on the device, they are
\* there as long as its session lives, and no two of its groups share a pool.
THEOREM DeviceHasOneOwner == Spec => []SessionOwnsDevice
<1>1. IInv => SessionOwnsDevice
  <2> SUFFICES ASSUME IInv, NEW h \in Handlers, caches[h] # <<>>
               PROVE  /\ holders = {h}
                      /\ Range(caches[h]) \subseteq DOMAIN pools
                      /\ \A i, j \in DOMAIN caches[h] : caches[h][i] = caches[h][j] => i = j
    BY DEF SessionOwnsDevice
  <2>1. pc[h] \in Inside
    BY DEF IInv, CachesInv, WithSession, Evaluating, Inside
  <2>2. holders = {h}
    BY <2>1 DEF IInv, LeaseInv
  <2>3. DOMAIN caches[h] = 1 .. Len(caches[h])
    BY LenProperties DEF IInv, TypeOK
  <2> QED BY <2>2, <2>3 DEF IInv, CachesInv
<1> QED BY <1>1, Invariant, PTL

\* A run of the model graph is given the position its caches end at, and they
\* hold the rows of every position before it, in order: for any prompt
\* length, chunk size and cache groups.
THEOREM CachesMatchPositions == Spec => []PositionsMatchCaches
<1>1. IInv => PositionsMatchCaches
  <2> SUFFICES ASSUME IInv, NEW h \in Handlers, pc[h] \in {"prefilling", "decoding"},
                      NEW tensor \in CacheTensors(h)
               PROVE  pools[tensor[1]][tensor[2]] = [row \in 1 .. Position(h) |-> row - 1]
    BY DEF PositionsMatchCaches
  <2>1. Types /\ LoopInv(h) /\ CachesInv /\ RowsInv /\ PoolsOK
    BY TypesOfTypeOK DEF IInv, HandlerInv, TypeOK, PoolsOK
  <2>2. Position(h) = Held(h)
    BY <2>1, PositionIsNat
  <2>3. PICK p \in Range(caches[h]) : tensor \in {<<p, i>> : i \in DOMAIN pools[p]}
    BY DEF CacheTensors
  <2>4. PICK i \in DOMAIN pools[p] : tensor = <<p, i>>
    BY <2>3
  <2>5. p \in DOMAIN pools /\ i \in 1 .. Len(pools[p])
    BY <2>1, LenProperties DEF CachesInv, PoolsOK
  <2>6. pools[p][i] = Rows(Held(h))
    BY <2>1, <2>5 DEF RowsInv, Evaluating
  <2> QED BY <2>2, <2>4, <2>6 DEF Rows
<1> QED BY <1>1, Invariant, PTL

\* At most one run of a request ends after the request has stopped, and the
\* request then ends in an error, without an answer: for any number of
\* handlers and whatever fails.
THEOREM StoppedCostsOneRun == Spec => []OneLateRun
<1>1. IInv => OneLateRun
  BY DEF IInv, HandlerInv, LateInv, OneLateRun
<1> QED BY <1>1, Invariant, PTL

\* What the client was told follows from the result, and the result says why
\* it is complete.
THEOREM AnswersTrue == Spec => []AnswerFollowsResult
<1>1. ASSUME IInv, NEW h \in Handlers
      PROVE  LET last == Len(answer[h])
                 ended == last > 0 /\ answer[h][last] \in {"done", "error"}
                 tokens == SubSeq(answer[h], 1, IF ended THEN last - 1 ELSE last)
             IN /\ status[h] = "OK" <=> ended
                /\ tokens \in Seq(Tokens)
                /\ writeFailed[h] => status[h] # "OK"
                /\ request[h].stream => tokens = SubSeq(out[h], 1, Len(tokens))
                /\ request[h].stream /\ ended /\ answer[h][last] = "done" => tokens = out[h]
                /\ ReasonOf(h)
  <2> DEFINE a == answer[h]
             last == Len(a)
             ended == last > 0 /\ a[last] \in {"done", "error"}
             tokens == SubSeq(a, 1, IF ended THEN last - 1 ELSE last)
  <2>0. /\ HandlerInv(h) /\ a \in Seq(Tokens \cup {"done", "error"})
        /\ out[h] \in Seq(Tokens) /\ last \in Nat /\ DOMAIN out[h] = 1 .. Len(out[h])
        /\ Len(out[h]) \in Nat
    <3>1. TypeOK /\ HandlerInv(h)
      BY <1>1 DEF IInv
    <3>2. a \in Seq(Tokens \cup {"done", "error"}) /\ out[h] \in Seq(Tokens)
      BY <3>1 DEF TypeOK
    <3> QED BY <3>1, <3>2, LenProperties
  <2>1. ReasonOf(h)
    BY <2>0 DEF HandlerInv, ResultInv, ReasonOf, NoStopIn
  <2>2. SubSeq(a, 1, last) = a
    BY <2>0, SubSeqFull
  <2>3. CASE status[h] = "OK"
    <3>1. pc[h] = "answered" /\ last > 0 /\ a[last] = LastMessage(h) /\ ~writeFailed[h]
      BY <2>0, <2>3 DEF HandlerInv, AnswerInv
    <3>2. ended
      BY <3>1 DEF LastMessage
    <3>3. tokens = SubSeq(a, 1, last - 1)
      BY <3>2
    <3>4. /\ SubSeq(a, 1, last - 1) \in Seq(Tokens)
          /\ request[h].stream =>
                SubSeq(a, 1, last - 1) = SubSeq(out[h], 1, Len(SubSeq(a, 1, last - 1)))
          /\ request[h].stream /\ finish[h] # "error" => SubSeq(a, 1, last - 1) = out[h]
      BY <2>0, <2>3, <3>1 DEF HandlerInv, AnswerInv
    <3>5. a[last] = "done" => finish[h] # "error"
      BY <3>1 DEF LastMessage
    <3> HIDE DEF ended, tokens
    <3> QED BY <2>1, <2>3, <3>1, <3>2, <3>3, <3>4, <3>5 DEF tokens, ended
  <2>4. CASE status[h] # "OK"
    <3>1. /\ a \in Seq(Tokens)
          /\ request[h].stream => a = SubSeq(out[h], 1, Len(a))
      <4>1. CASE pc[h] # "answered"
        BY <2>0, <4>1 DEF HandlerInv, AnswerInv
      <4>2. CASE pc[h] = "answered"
        BY <2>0, <2>4, <4>2 DEF HandlerInv, AnswerInv
      <4> QED BY <4>1, <4>2
    <3>2. ~ended
      <4>1. last > 0 => a[last] \in Tokens
        BY <2>0, <3>1, ElementOfSeq
      <4> QED BY <4>1, ServiceAssumption
    <3>3. tokens = a
      BY <2>2, <3>2
    <3> QED BY <2>1, <2>4, <3>1, <3>2, <3>3
  <2> QED BY <2>3, <2>4
<1>2. IInv => AnswerFollowsResult
  BY <1>1 DEF AnswerFollowsResult
<1> QED BY <1>2, Invariant, PTL

\* The device holds the caches of the session with the lease and the pools
\* for which a call failed, and nothing else: for any handlers, cache groups,
\* requests and failures.
THEOREM LostOnlyByFailure == Spec => []LostByFailureOnly
<1>1. IInv => LostByFailureOnly
  <2> SUFFICES ASSUME IInv PROVE LostByFailureOnly
    OBVIOUS
  <2>1. LeaseInv /\ CachesInv /\ LostInv
    BY DEF IInv
  <2>2. \A h \in Handlers : Range(caches[h]) \subseteq DOMAIN pools
    BY <2>1 DEF CachesInv
  <2>3. holders \subseteq Handlers
    BY <2>1 DEF LeaseInv
  <2>4. ASSUME NEW h \in Handlers, NEW p \in Range(caches[h]) PROVE h \in holders
    <3>1. caches[h] # <<>>
      BY <2>4 DEF Range
    <3>2. pc[h] \in Inside
      BY <2>1, <3>1 DEF CachesInv, WithSession, Evaluating, Inside
    <3> QED BY <2>1, <3>2 DEF LeaseInv
  <2> DEFINE owned == UNION {Range(caches[h]) : h \in holders}
  <2>5. DOMAIN pools \subseteq failed \cup owned
    <3> SUFFICES ASSUME NEW p \in DOMAIN pools, p \notin failed PROVE p \in owned
      OBVIOUS
    <3>1. PICK h \in Handlers : p \in Range(caches[h])
      BY <2>1 DEF LostInv
    <3>2. h \in holders
      BY <2>4, <3>1
    <3> QED BY <3>1, <3>2
  <2>6. failed \cup owned \subseteq DOMAIN pools
    <3>1. failed \subseteq DOMAIN pools
      BY <2>1 DEF LostInv
    <3>2. owned \subseteq DOMAIN pools
      BY <2>2, <2>3
    <3> QED BY <3>1, <3>2
  <2>7. \A h \in Handlers : Range(caches[h]) \cap failed = {}
    BY <2>1 DEF LostInv
  <2> QED BY <2>5, <2>6, <2>7 DEF LostByFailureOnly
<1> QED BY <1>1, Invariant, PTL
=============================================================================
