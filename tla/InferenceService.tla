-------------------------- MODULE InferenceService --------------------------
(***************************************************************************)
(* The life of a generation request in the worker: the gRPC handlers       *)
(* Generate and GenerateStream (src/server/SandyInferenceService.cpp),     *)
(* Model::generate, and the Session it makes for the request, with its     *)
(* cache pools on the device.  Handlers are gRPC threads; they share the   *)
(* gate, here by what it promises (FifoLock), and the device.  The model   *)
(* graph is external: a run appends one row per token to every cache.      *)
(***************************************************************************)
EXTENDS Naturals, Integers, Sequences, FiniteSets, Functions

CONSTANTS
    Handlers,     \* the gRPC handler threads
    Requests,     \* requests: stream, valid, prompt length, maxTokens
    Tokens,       \* the vocabulary
    StopTokens,   \* effectiveStopTokens: the request's and the model's EOS
    ChunkTokens,  \* prefillChunkTokens; 0: no prefill graph, token by token
    CacheGroups,  \* the count of tensors of each cache group
    PoolIds       \* bound of the model: the pools the device has memory for

ASSUME ServiceAssumption ==
    /\ Requests \subseteq [stream : BOOLEAN, valid : BOOLEAN,
                           prompt : Nat, maxTokens : Int]
    /\ StopTokens \subseteq Tokens
    /\ Tokens \cap {"done", "error"} = {}   \* the kinds of a last message
    /\ ChunkTokens \in Nat
    /\ CacheGroups \in Seq(Nat \ {0})

VARIABLES
    queue, holders,      \* the gate: who waits, who holds the lease
    pools,               \* on the device: pool id -> the tensors of the pool,
                         \* each the positions of the rows appended to it
    failed,              \* history: the pools for which a call that allocates
                         \* or gives back has failed
    pc,                  \* where each handler is
    request,             \* its request
    cancelled, expired,  \* the handlers whose client left, whose time is up
    caches,              \* caches_ of its session: the pool of each group
    fed,                 \* prompt tokens run so far (begin, or i)
    nextToken, out,      \* nextToken and result.outputIds
    finish,              \* result.finishReason, or "error"
    answer,              \* what was written to the client
    writeFailed,
    status,              \* the gRPC status returned
    lateRuns             \* history: runs that ended after the request stopped

gateVars == <<queue, holders>>
stopVars == <<cancelled, expired>>
resultVars == <<fed, nextToken, out, finish>>
answerVars == <<answer, writeFailed, status>>
vars == <<gateVars, pools, failed, pc, request, stopVars, caches, resultVars,
          answerVars, lateRuns>>

Gate == INSTANCE FifoLock WITH Callers <- Handlers

Places == {"idle", "arriving", "queued", "admitted", "opening", "prompt",
           "prefilling", "emitting", "emitted", "decoding", "closing",
           "releasing", "returning", "answered"}
NoRequest == [stream |-> FALSE, valid |-> FALSE, prompt |-> 0, maxTokens |-> 0]
NoToken == "none"

Init == /\ Gate!Init
        /\ pools = <<>> /\ failed = {}
        /\ pc = [h \in Handlers |-> "idle"]
        /\ request = [h \in Handlers |-> NoRequest]
        /\ cancelled = {} /\ expired = {}
        /\ caches = [h \in Handlers |-> <<>>]
        /\ fed = [h \in Handlers |-> 0]
        /\ nextToken = [h \in Handlers |-> NoToken]
        /\ out = [h \in Handlers |-> <<>>]
        /\ finish = [h \in Handlers |-> "none"]
        /\ answer = [h \in Handlers |-> <<>>]
        /\ writeFailed = [h \in Handlers |-> FALSE]
        /\ status = [h \in Handlers |-> "none"]
        /\ lateRuns = [h \in Handlers |-> 0]

-----------------------------------------------------------------------------
\* RequestControl::stopReason, and checkRequest of the session.
Stopped(h) == h \in cancelled \cup expired

CheckRequest_DeadlineOnly(h) == h \notin expired

CheckRequest(h) == ~Stopped(h)

GoTo(h, place) == pc' = [pc EXCEPT ![h] = place]

\* A return of an error from Session::generate: ~Session and ~Lease follow.
Fail(h) == GoTo(h, "closing") /\ finish' = [finish EXCEPT ![h] = "error"]

\* The client calls; make_request_control starts the clock.
Submit(h) ==
    /\ pc[h] = "idle"
    /\ \E r \in Requests : request' = [request EXCEPT ![h] = r]
    /\ GoTo(h, "arriving")
    /\ UNCHANGED <<gateVars, pools, failed, stopVars, caches, resultVars, answerVars, lateRuns>>

\* generateGate_.acquire.
Acquire(h) ==
    /\ \/ /\ pc[h] = "arriving"
          /\ \/ /\ Stopped(h) /\ GoTo(h, "returning")
                /\ finish' = [finish EXCEPT ![h] = "error"]
                /\ UNCHANGED gateVars
             \/ /\ ~Stopped(h) /\ Gate!TakeFree(h) /\ GoTo(h, "admitted")
                /\ UNCHANGED finish
             \/ /\ ~Stopped(h) /\ ~(queue = <<>> /\ holders = {})
                /\ Gate!Join(h) /\ GoTo(h, "queued")
                /\ UNCHANGED finish
       \/ /\ pc[h] = "queued"
          /\ \/ /\ Stopped(h) /\ GoTo(h, "returning")
                /\ \E i \in DOMAIN queue : queue[i] = h /\ Gate!GiveUp(i)
                /\ finish' = [finish EXCEPT ![h] = "error"]
             \/ /\ ~Stopped(h) /\ Head(queue) = h /\ Gate!TakeFirst
                /\ GoTo(h, "admitted")
                /\ UNCHANGED finish
    /\ UNCHANGED <<pools, failed, request, stopVars, caches, fed, nextToken, out, answerVars,
                   lateRuns>>

\* resolveSamplingConfig and the checks at the top of Session::generate.
Start(h) ==
    /\ pc[h] = "admitted"
    /\ LET r == request[h] IN
         IF r.valid /\ r.prompt > 0 /\ r.maxTokens >= 0 /\ CheckRequest(h)
         THEN GoTo(h, "opening") /\ UNCHANGED finish
         ELSE Fail(h)
    /\ UNCHANGED <<gateVars, pools, failed, request, stopVars, caches, fed, nextToken, out,
                   answerVars, lateRuns>>

-----------------------------------------------------------------------------
\* Session::initialize, one cache group at a time: a pool, then its tensors,
\* then the entry in caches_.
FreePools == PoolIds \ DOMAIN pools
FreshPool == CHOOSE p \in FreePools : TRUE
Empty(count) == [i \in 1 .. count |-> <<>>]
WithPool(p, tensors) == [q \in DOMAIN pools \cup {p} |-> IF q = p THEN tensors ELSE pools[q]]

Opening(h) == pc[h] = "opening" /\ Len(caches[h]) < Len(CacheGroups)
GroupSize(h) == CacheGroups[Len(caches[h]) + 1]

OpenGroup(h) ==
    /\ Opening(h) /\ FreePools # {}
    /\ pools' = WithPool(FreshPool, Empty(GroupSize(h)))
    /\ caches' = [caches EXCEPT ![h] = Append(@, FreshPool)]
    /\ UNCHANGED <<gateVars, failed, pc, request, stopVars, resultVars, answerVars,
                   lateRuns>>

\* createPagedPool fails, or allocPaged at some tensor of the group: then the
\* pool is on no list.  What is in a pool that no session knows is left out.
OpenGroupFails(h) ==
    /\ Opening(h)
    /\ \/ UNCHANGED <<pools, failed>>
       \/ /\ FreePools # {}
          /\ pools' = WithPool(FreshPool, <<>>)
          /\ failed' = failed \cup {FreshPool}
    /\ Fail(h)
    /\ UNCHANGED <<gateVars, request, stopVars, caches, fed, nextToken, out,
                   answerVars, lateRuns>>

Opened(h) ==
    /\ pc[h] = "opening" /\ Len(caches[h]) = Len(CacheGroups)
    /\ \/ ~CheckRequest(h) /\ Fail(h)
       \/ /\ CheckRequest(h) /\ request[h].maxTokens = 0
          /\ GoTo(h, "closing") /\ finish' = [finish EXCEPT ![h] = "length"]
       \/ /\ CheckRequest(h) /\ request[h].maxTokens > 0
          /\ GoTo(h, "prompt") /\ UNCHANGED finish
    /\ UNCHANGED <<gateVars, pools, failed, request, stopVars, caches, fed, nextToken, out,
                   answerVars, lateRuns>>

-----------------------------------------------------------------------------
\* The tokens the next prompt run takes, and the position a run is given.
PromptRows(h) ==
    LET left == request[h].prompt - fed[h]
    IN IF ChunkTokens = 0 THEN 1 ELSE IF ChunkTokens < left THEN ChunkTokens ELSE left

Position_CountsNewToken(h) ==
    IF pc[h] = "prefilling" THEN fed[h] ELSE request[h].prompt + Len(out[h])

Position(h) ==
    IF pc[h] = "prefilling" THEN fed[h] ELSE request[h].prompt + Len(out[h]) - 1

\* The caches of a session, and what a run of the model graph does to them:
\* the i-th row it appends is encoded for position + i - 1.
CacheTensors(h) == UNION {{<<p, i>> : i \in DOMAIN pools[p]} : p \in Range(caches[h])}

GrowCaches(h, tensors, rows) ==
    LET encoded == [i \in 1 .. rows |-> Position(h) + i - 1]
    IN pools' = [p \in DOMAIN pools |->
                   [i \in DOMAIN pools[p] |->
                       IF <<p, i>> \in tensors THEN pools[p][i] \o encoded ELSE pools[p][i]]]

CountLate(h) == lateRuns' = [lateRuns EXCEPT ![h] = @ + IF Stopped(h) THEN 1 ELSE 0]

\* The top of the prompt loop.
NextChunk(h) ==
    /\ pc[h] = "prompt"
    /\ IF CheckRequest(h) THEN GoTo(h, "prefilling") /\ UNCHANGED finish ELSE Fail(h)
    /\ UNCHANGED <<gateVars, pools, failed, request, stopVars, caches, fed, nextToken, out,
                   answerVars, lateRuns>>

\* prefillChunk or evalToken on the prompt, and the check after it.
Prefill(h) ==
    /\ pc[h] = "prefilling"
    /\ GrowCaches(h, CacheTensors(h), PromptRows(h))
    /\ CountLate(h)
    /\ IF CheckRequest(h)
       THEN /\ fed' = [fed EXCEPT ![h] = @ + PromptRows(h)]
            /\ IF fed'[h] >= request[h].prompt
               THEN /\ \E t \in Tokens : nextToken' = [nextToken EXCEPT ![h] = t]
                    /\ GoTo(h, "emitting")
               ELSE GoTo(h, "prompt") /\ UNCHANGED nextToken
            /\ UNCHANGED finish
       ELSE Fail(h) /\ UNCHANGED <<fed, nextToken>>
    /\ UNCHANGED <<gateVars, failed, request, stopVars, caches, out, answerVars>>

\* A decode step pushes the token and hands it to onToken, whose check of
\* the request and whose Write may fail.
Emit(h) ==
    /\ pc[h] = "emitting"
    /\ IF CheckRequest(h)
       THEN /\ out' = [out EXCEPT ![h] = Append(@, nextToken[h])]
            /\ \/ /\ ~request[h].stream
                  /\ GoTo(h, "emitted")
                  /\ UNCHANGED <<finish, answer, writeFailed>>
               \/ /\ request[h].stream
                  /\ answer' = [answer EXCEPT ![h] = Append(@, nextToken[h])]
                  /\ GoTo(h, "emitted")
                  /\ UNCHANGED <<finish, writeFailed>>
               \/ /\ request[h].stream
                  /\ writeFailed' = [writeFailed EXCEPT ![h] = TRUE]
                  /\ Fail(h)
                  /\ UNCHANGED answer
       ELSE Fail(h) /\ UNCHANGED <<out, answer, writeFailed>>
    /\ UNCHANGED <<gateVars, pools, failed, request, stopVars, caches, fed, nextToken, status,
                   lateRuns>>

\* shouldStop, then the length limit, then the next token is evaluated.
Finished(h) ==
    CASE nextToken[h] \in StopTokens -> "stop"
      [] nextToken[h] \notin StopTokens /\ Len(out[h]) >= request[h].maxTokens -> "length"
      [] OTHER -> "none"

EndStep(h) ==
    /\ pc[h] = "emitted"
    /\ IF Finished(h) = "none"
       THEN GoTo(h, "decoding") /\ UNCHANGED finish
       ELSE GoTo(h, "closing") /\ finish' = [finish EXCEPT ![h] = Finished(h)]
    /\ UNCHANGED <<gateVars, pools, failed, request, stopVars, caches, fed, nextToken, out,
                   answerVars, lateRuns>>

Decode(h) ==
    /\ pc[h] = "decoding"
    /\ GrowCaches(h, CacheTensors(h), 1)
    /\ CountLate(h)
    /\ IF CheckRequest(h)
       THEN /\ \E t \in Tokens : nextToken' = [nextToken EXCEPT ![h] = t]
            /\ GoTo(h, "emitting") /\ UNCHANGED finish
       ELSE Fail(h) /\ UNCHANGED nextToken
    /\ UNCHANGED <<gateVars, failed, request, stopVars, caches, fed, out, answerVars>>

\* The engine or the sampler reports an error; some caches have grown.
RunFails(h) ==
    /\ pc[h] \in {"prefilling", "decoding"}
    /\ \E tensors \in SUBSET CacheTensors(h) :
          GrowCaches(h, tensors, IF pc[h] = "decoding" THEN 1 ELSE PromptRows(h))
    /\ CountLate(h)
    /\ Fail(h)
    /\ UNCHANGED <<gateVars, failed, request, stopVars, caches, fed, nextToken, out,
                   answerVars>>

-----------------------------------------------------------------------------
\* ~Session gives the caches back, then ~Lease releases the gate.
\* destroyCaches goes on after every error and forgets all groups.  A pool
\* is left on the device if deallocPaged failed for one of its tensors, as
\* destroyPagedPool then refuses it, or if destroyPagedPool itself failed.
CloseSession_StopsAtError(h) ==
    /\ pc[h] = "closing"
    /\ \E done \in 0 .. Len(caches[h]) :
          LET gone == {caches[h][i] : i \in 1 .. done}
              left == Range(caches[h]) \ gone
          IN /\ pools' = [p \in DOMAIN pools \ gone |-> IF p \in left THEN <<>> ELSE pools[p]]
             /\ failed' = failed \cup {caches[h][i] : i \in DOMAIN caches[h] \cap {done + 1}}
    /\ caches' = [caches EXCEPT ![h] = <<>>]
    /\ GoTo(h, "releasing")
    /\ UNCHANGED <<gateVars, request, stopVars, resultVars, answerVars, lateRuns>>

CloseSession(h) ==
    /\ pc[h] = "closing"
    /\ \E left \in SUBSET Range(caches[h]) :
          /\ pools' = [p \in DOMAIN pools \ (Range(caches[h]) \ left) |->
                          IF p \in left THEN <<>> ELSE pools[p]]
          /\ failed' = failed \cup left
    /\ caches' = [caches EXCEPT ![h] = <<>>]
    /\ GoTo(h, "releasing")
    /\ UNCHANGED <<gateVars, request, stopVars, resultVars, answerVars, lateRuns>>

ReleaseLease_BeforeSession(h) ==
    /\ pc[h] \in {"closing", "releasing"}
    /\ h \in holders
    /\ Gate!Release(h)
    /\ GoTo(h, IF pc[h] = "closing" THEN "closing" ELSE "returning")
    /\ UNCHANGED <<pools, failed, request, stopVars, caches, resultVars, answerVars, lateRuns>>

ReleaseLease_LeaseLost(h) ==
    /\ pc[h] = "releasing"
    /\ GoTo(h, "returning")
    /\ UNCHANGED <<gateVars, pools, failed, request, stopVars, caches, resultVars, answerVars,
                   lateRuns>>

ReleaseLease(h) ==
    /\ pc[h] = "releasing"
    /\ Gate!Release(h)
    /\ GoTo(h, "returning")
    /\ UNCHANGED <<pools, failed, request, stopVars, caches, resultVars, answerVars, lateRuns>>

StoppedStatus(h) == IF h \in cancelled THEN "CANCELLED" ELSE "DEADLINE_EXCEEDED"

\* Back in the service: a request that has stopped meanwhile gets a status
\* and no result; otherwise the result or the error is its last message.
LastMessage(h) == IF finish[h] = "error" THEN "error" ELSE "done"

Reply_IgnoresFailedWrite(h) ==
    /\ pc[h] = "returning"
    /\ \/ /\ Stopped(h)
          /\ status' = [status EXCEPT ![h] = StoppedStatus(h)]
          /\ UNCHANGED <<answer, writeFailed>>
       \/ /\ ~Stopped(h)
          /\ answer' = [answer EXCEPT ![h] = Append(@, LastMessage(h))]
          /\ status' = [status EXCEPT ![h] = "OK"]
          /\ UNCHANGED writeFailed
    /\ GoTo(h, "answered")
    /\ UNCHANGED <<gateVars, pools, failed, request, stopVars, caches, resultVars, lateRuns>>

Reply(h) ==
    /\ pc[h] = "returning"
    /\ \/ /\ Stopped(h)
          /\ status' = [status EXCEPT ![h] = StoppedStatus(h)]
          /\ UNCHANGED <<answer, writeFailed>>
       \/ /\ ~Stopped(h) /\ writeFailed[h]
          /\ status' = [status EXCEPT ![h] = "CANCELLED"]
          /\ UNCHANGED <<answer, writeFailed>>
       \/ /\ ~Stopped(h) /\ ~writeFailed[h]
          /\ answer' = [answer EXCEPT ![h] = Append(@, LastMessage(h))]
          /\ status' = [status EXCEPT ![h] = "OK"]
          /\ UNCHANGED writeFailed
       \/ /\ ~Stopped(h) /\ ~writeFailed[h] /\ request[h].stream
          /\ writeFailed' = [writeFailed EXCEPT ![h] = TRUE]
          /\ status' = [status EXCEPT ![h] = "CANCELLED"]
          /\ UNCHANGED answer
    /\ GoTo(h, "answered")
    /\ UNCHANGED <<gateVars, pools, failed, request, stopVars, caches, resultVars, lateRuns>>

\* The thread goes back to the pool of the gRPC server.
Return(h) ==
    /\ pc[h] = "answered"
    /\ GoTo(h, "idle")
    /\ request' = [request EXCEPT ![h] = NoRequest]
    /\ cancelled' = cancelled \ {h} /\ expired' = expired \ {h}
    /\ fed' = [fed EXCEPT ![h] = 0]
    /\ nextToken' = [nextToken EXCEPT ![h] = NoToken]
    /\ out' = [out EXCEPT ![h] = <<>>]
    /\ finish' = [finish EXCEPT ![h] = "none"]
    /\ answer' = [answer EXCEPT ![h] = <<>>]
    /\ writeFailed' = [writeFailed EXCEPT ![h] = FALSE]
    /\ status' = [status EXCEPT ![h] = "none"]
    /\ lateRuns' = [lateRuns EXCEPT ![h] = 0]
    /\ UNCHANGED <<gateVars, pools, failed, caches>>

\* The client and the clock, at any time of the request.
Cancel(h) == /\ pc[h] \notin {"idle", "answered"}
             /\ cancelled' = cancelled \cup {h}
             /\ UNCHANGED <<gateVars, pools, failed, pc, request, expired, caches, resultVars,
                            answerVars, lateRuns>>

Expire(h) == /\ pc[h] \notin {"idle", "answered"}
             /\ expired' = expired \cup {h}
             /\ UNCHANGED <<gateVars, pools, failed, pc, request, cancelled, caches, resultVars,
                            answerVars, lateRuns>>

Step(h) == \/ Acquire(h) \/ Start(h) \/ OpenGroup(h) \/ OpenGroupFails(h) \/ Opened(h)
           \/ NextChunk(h) \/ Prefill(h) \/ Emit(h) \/ EndStep(h) \/ Decode(h)
           \/ RunFails(h) \/ CloseSession(h) \/ ReleaseLease(h) \/ Reply(h) \/ Return(h)

Next == \E h \in Handlers : Submit(h) \/ Step(h) \/ Cancel(h) \/ Expire(h)

Spec == Init /\ [][Next]_vars

\* A handler thread that can take a step does: the gate's wait is polled,
\* runs and writes end, none of the session's loops waits for another thread.
FairSpec == Spec /\ \A h \in Handlers : WF_vars(Step(h))
-----------------------------------------------------------------------------
TypeOK ==
    /\ queue \in Seq(Handlers) /\ holders \subseteq Handlers
    /\ \A p \in DOMAIN pools : p \in PoolIds /\ pools[p] \in Seq(Seq(Nat))
    /\ failed \subseteq PoolIds
    /\ pc \in [Handlers -> Places]
    /\ request \in [Handlers -> Requests \cup {NoRequest}]
    /\ cancelled \subseteq Handlers /\ expired \subseteq Handlers
    /\ caches \in [Handlers -> Seq(PoolIds)]
    /\ fed \in [Handlers -> Nat]
    /\ \A h \in Handlers : fed[h] <= request[h].prompt
    /\ nextToken \in [Handlers -> Tokens \cup {NoToken}]
    /\ out \in [Handlers -> Seq(Tokens)]
    /\ finish \in [Handlers -> {"none", "error", "stop", "length"}]
    /\ answer \in [Handlers -> Seq(Tokens \cup {"done", "error"})]
    /\ writeFailed \in [Handlers -> BOOLEAN]
    /\ status \in [Handlers -> {"none", "OK", "CANCELLED", "DEADLINE_EXCEEDED"}]
    /\ lateRuns \in [Handlers -> Nat]

\* When a run starts, every cache of its session holds the rows of exactly
\* the positions before the one the run is given, in order: attention never
\* sees a gap, a row twice or a row encoded for another position, whatever
\* the chunk size, through prefill and decode.
PositionsMatchCaches ==
    \A h \in Handlers : pc[h] \in {"prefilling", "decoding"} =>
        \A tensor \in CacheTensors(h) :
            pools[tensor[1]][tensor[2]] = [row \in 1 .. Position(h) |-> row - 1]

\* A session's caches are on the device as long as it lives, belong to no
\* other session, and only the holder of the lease has any: the next request
\* is admitted after the last session has given its caches back, as far as
\* the device let it.
SessionOwnsDevice ==
    \A h \in Handlers : caches[h] # <<>> =>
        /\ holders = {h}
        /\ Range(caches[h]) \subseteq DOMAIN pools
        /\ \A i, j \in DOMAIN caches[h] : caches[h][i] = caches[h][j] => i = j

\* Every pool on the device is a cache of the session whose handler holds the
\* lease, or one for which a call failed (allocPaged, before initialize has
\* entered the pool in caches_; deallocPaged or destroyPagedPool, when the
\* session ends), and never both.  So between two requests the device holds
\* only what failed calls left there: no order of stops, errors and requests
\* loses another pool, an error of one group does not keep the other groups'
\* memory, and no later session gets hold of a lost pool.
LostByFailureOnly ==
    /\ DOMAIN pools = failed \cup UNION {Range(caches[h]) : h \in holders}
    /\ \A h \in Handlers : Range(caches[h]) \cap failed = {}

\* A result says why it is complete: "stop" after a stop token, which is its
\* only one and the last, "length" when there are maxTokens tokens.
ReasonOf(h) ==
    /\ Len(out[h]) <= IF request[h].maxTokens > 0 THEN request[h].maxTokens ELSE 0
    /\ \A i \in 1 .. Len(out[h]) - 1 : out[h][i] \notin StopTokens
    /\ finish[h] = "stop" => out[h] # <<>> /\ out[h][Len(out[h])] \in StopTokens
    /\ finish[h] = "length" => /\ Len(out[h]) = request[h].maxTokens
                               /\ \A i \in DOMAIN out[h] : out[h][i] \notin StopTokens

\* What the client of a stream gets: the output tokens in order, then at
\* most one last message, and that one exactly when the status is OK.  The
\* tokens before "done" are the whole result, for the reason it gives, and
\* nothing follows a Write that failed.
AnswerFollowsResult ==
    \A h \in Handlers :
        LET last == Len(answer[h])
            ended == last > 0 /\ answer[h][last] \in {"done", "error"}
            tokens == SubSeq(answer[h], 1, IF ended THEN last - 1 ELSE last)
        IN /\ status[h] = "OK" <=> ended
           /\ tokens \in Seq(Tokens)
           /\ writeFailed[h] => status[h] # "OK"
           /\ request[h].stream => tokens = SubSeq(out[h], 1, Len(tokens))
           /\ request[h].stream /\ ended /\ answer[h][last] = "done" => tokens = out[h]
           /\ ReasonOf(h)

\* At most one run of a request ends after the request was cancelled or timed
\* out: the one on the device at that moment or, if the stop comes between the
\* check and the next run, as during a token's Write, that next one.  What it
\* computes is dropped: the request ends in an error and without an answer.
OneLateRun ==
    \A h \in Handlers :
        /\ lateRuns[h] <= 1
        /\ lateRuns[h] = 1 => finish[h] = "error" /\ status[h] # "OK"

\* Every request is answered, however the requests before it end.
EveryRequestAnswered == \A h \in Handlers : pc[h] = "arriving" ~> pc[h] = "answered"
=============================================================================
