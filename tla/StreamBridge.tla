---------------------------- MODULE StreamBridge ----------------------------
(***************************************************************************)
(* One streamed chat completion in the HTTP server: a thread reads the     *)
(* events of the worker's gRPC stream into a bounded queue, and an async   *)
(* generator polls the queue and turns the events into SSE chunks.         *)
(*                                                                         *)
(* The client may go away at any moment.  The generator sees that when it  *)
(* polls, or is closed by the framework at the yield or await where it is  *)
(* suspended; what it does then decides whether the reader thread, the     *)
(* gRPC call and with it the worker's generation gate are let go.          *)
(*                                                                         *)
(* Token n of the stream is <<"token", n>>; other events carry 0.          *)
(***************************************************************************)
EXTENDS Integers, SequencesExt

CONSTANTS
    MaxTokens,   \* bound: tokens the worker may send
    QueueSize,   \* maxsize of the queue
    Window       \* bound: events gRPC buffers before the worker's Write blocks

ASSUME BridgeAssumption ==
    /\ MaxTokens \in Nat
    /\ QueueSize \in Nat \ {0}
    /\ Window \in Nat \ {0}

VARIABLES
    sent,        \* tokens the worker has written
    ending,      \* how the worker's stream ended: "open" while it has not
    wire,        \* events written and not yet read by the thread
    cancelled,   \* call.cancel() was called
    reader,      \* where the thread is, and the item it is enqueueing
    pending,     \* the queue
    stopReader,  \* the stop event
    events,      \* where the generator is
    todo,        \* chunks it has still to yield before it polls or returns
    decoded,     \* tokens pushed to the decoder
    out,         \* chunks yielded
    connected    \* the client is there

workerVars == <<sent, ending, wire>>
readerVars == <<reader>>
generatorVars == <<events, todo, decoded, out>>
vars == <<sent, ending, wire, cancelled, reader, pending, stopReader, events,
          todo, decoded, out, connected>>

Ended == {"done", "error", "rpc_error", "silent"}
Item(kind) == <<kind, 0>>
Chunk(kind) == <<kind, 0>>
Role == Chunk("role")
DoneMarker == Chunk("[DONE]")

Init ==
    /\ sent = 0 /\ ending = "open" /\ wire = <<>>
    /\ cancelled = FALSE
    /\ reader = [at |-> "read", item |-> Item("none")]
    /\ pending = <<>>
    /\ stopReader = FALSE
    /\ events = "unstarted"
    /\ todo = <<>> /\ decoded = 0 /\ out = <<>>
    /\ connected = TRUE

-----------------------------------------------------------------------------
(* The worker, external: GenerateStream of the inference service *)

WorkerToken ==
    /\ ending = "open" /\ ~cancelled
    /\ sent < MaxTokens /\ Len(wire) < Window
    /\ sent' = sent + 1
    /\ wire' = Append(wire, <<"token", sent + 1>>)
    /\ UNCHANGED <<ending, cancelled, readerVars, pending, stopReader, generatorVars, connected>>

\* It ends with a done or an error event and status OK, with another status,
\* or, if the connection is lost at the wrong moment, with nothing.
WorkerEnds(how) ==
    /\ ending = "open"
    /\ how \in {"done", "error"} => Len(wire) < Window \/ cancelled
    /\ ending' = how
    /\ wire' = IF how \in {"done", "error"} /\ ~cancelled THEN Append(wire, Item(how)) ELSE wire
    /\ UNCHANGED <<sent, cancelled, readerVars, pending, stopReader, generatorVars, connected>>

-----------------------------------------------------------------------------
(* read_worker_stream, the thread *)

Enqueue(item) == [at |-> "check", item |-> item]
RaisesRpcError == cancelled \/ (ending = "rpc_error" /\ wire = <<>>)
StreamIsOver == ~cancelled /\ wire = <<>> /\ ending \in Ended \ {"rpc_error"}

ReadEvent ==
    /\ reader.at = "read"
    /\ ~cancelled /\ wire # <<>>
    /\ reader' = Enqueue(Head(wire))
    /\ wire' = Tail(wire)
    /\ UNCHANGED <<sent, ending, cancelled, pending, stopReader, generatorVars, connected>>

\* The iterator raises: a failed or a cancelled call.
ReadError ==
    /\ reader.at = "read"
    /\ RaisesRpcError
    /\ reader' = Enqueue(Item("rpc_error"))
    /\ UNCHANGED <<workerVars, cancelled, pending, stopReader, generatorVars, connected>>

\* The iterator is exhausted; the finally clause enqueues the end marker.
ReadEnd ==
    /\ reader.at = "read"
    /\ StreamIsOver
    /\ reader' = Enqueue(Item("end"))
    /\ UNCHANGED <<workerVars, cancelled, pending, stopReader, generatorVars, connected>>

\* After an item is enqueued: an event lets the loop go on, an error leads
\* to the finally clause, the end marker is the last thing the thread does.
AfterItem(item) ==
    CASE item[1] \in {"token", "done", "error"} -> [at |-> "read", item |-> Item("none")]
      [] item[1] = "rpc_error" -> Enqueue(Item("end"))
      [] item[1] = "end" -> [at |-> "dead", item |-> Item("none")]

\* enqueue gives up once the stop event is set, which sends the thread to the
\* end marker, and past that to its end.
AfterRefusal(item) ==
    IF item[1] = "end" THEN AfterItem(item) ELSE Enqueue(Item("end"))

EnqueueCheck ==
    /\ reader.at = "check"
    /\ reader' = IF stopReader THEN AfterRefusal(reader.item)
                               ELSE [reader EXCEPT !.at = "put"]
    /\ UNCHANGED <<workerVars, cancelled, pending, stopReader, generatorVars, connected>>

HasRoom == Len(pending) < QueueSize

Put ==
    /\ reader.at = "put"
    /\ HasRoom
    /\ pending' = Append(pending, reader.item)
    /\ reader' = AfterItem(reader.item)
    /\ UNCHANGED <<workerVars, cancelled, stopReader, generatorVars, connected>>

\* put timed out on a full queue: the loop looks at the stop event again.
OnFull_Drops(item) == AfterItem(item)
OnFull_Waits(item) == [at |-> "put", item |-> item]
OnFull(item) == Enqueue(item)

PutTimesOut ==
    /\ reader.at = "put"
    /\ ~HasRoom
    /\ reader' = OnFull(reader.item)
    /\ UNCHANGED <<workerVars, cancelled, pending, stopReader, generatorVars, connected>>

-----------------------------------------------------------------------------
(* events(), the generator *)

Start ==
    /\ events = "unstarted"
    /\ events' = "first"
    /\ out' = <<Role>>
    /\ UNCHANGED <<workerVars, cancelled, readerVars, pending, stopReader, todo, decoded, connected>>

\* The framework asks for the chunk after the role; the try block is entered.
EnterTry ==
    /\ events = "first"
    /\ events' = "poll"
    /\ UNCHANGED <<workerVars, cancelled, readerVars, pending, stopReader, todo, decoded, out, connected>>

\* What an item becomes.  A token may leave nothing to show yet, the end of a
\* finished stream may have a tail of text and a usage chunk before it.
Shown(n) == {<<>>, <<<<"content", n>>>>}
ErrorChunks == {<<Chunk("error"), DoneMarker>>}
DoneChunks ==
    {tail \o <<Chunk("finish")>> \o usage \o <<DoneMarker>> :
        tail \in Shown(decoded), usage \in {<<>>, <<Chunk("usage")>>}}

ChunksFor(item) ==
    CASE item[1] = "token" -> Shown(item[2])
      [] item[1] = "done" -> DoneChunks
      [] OTHER -> ErrorChunks

EndsStream_OnErrorOnly(item) == item[1] \in {"error", "rpc_error", "end"}
EndsStream(item) == item[1] # "token"

Poll ==
    /\ events = "poll"
    /\ connected
    /\ pending # <<>>
    /\ LET item == Head(pending)
       IN  /\ todo' \in ChunksFor(item)
           /\ events' = IF EndsStream(item) THEN "last" ELSE "yield"
           /\ decoded' = IF item[1] = "token" THEN decoded + 1 ELSE decoded
    /\ pending' = Tail(pending)
    /\ UNCHANGED <<workerVars, cancelled, readerVars, stopReader, out, connected>>

PollSeesDisconnect ==
    /\ events = "poll"
    /\ ~connected
    /\ events' = "finally"
    /\ UNCHANGED <<workerVars, cancelled, readerVars, pending, stopReader, todo, decoded, out, connected>>

Yield ==
    /\ events \in {"yield", "last"}
    /\ todo # <<>>
    /\ out' = Append(out, Head(todo))
    /\ todo' = Tail(todo)
    /\ UNCHANGED <<workerVars, cancelled, readerVars, pending, stopReader, events, decoded, connected>>

Yielded ==
    /\ events \in {"yield", "last"}
    /\ todo = <<>>
    /\ events' = IF events = "last" THEN "finally" ELSE "poll"
    /\ UNCHANGED <<workerVars, cancelled, readerVars, pending, stopReader, todo, decoded, out, connected>>

\* The finally clause: stop event, cancel; the join waits a bounded time.
Finally ==
    /\ events = "finally"
    /\ stopReader' = TRUE
    /\ events' = "cancel"
    /\ UNCHANGED <<workerVars, cancelled, readerVars, pending, todo, decoded, out, connected>>

CancelCall ==
    /\ events = "cancel"
    /\ cancelled' = TRUE
    /\ wire' = <<>>
    /\ events' = "closed"
    /\ UNCHANGED <<sent, ending, readerVars, pending, stopReader, todo, decoded, out, connected>>

\* The framework closes the generator of a client that is gone.  The first
\* chunk is yielded before the try block, so a generator closed there, or
\* before it ever ran, is over at once and its finally clause does not run.
Protected == {"poll", "yield", "last"}

AfterClose_PollOnly(at) == IF at = "poll" THEN "finally" ELSE "abandoned"
AfterClose(at) == IF at \in Protected THEN "finally" ELSE "abandoned"

Close ==
    /\ ~connected
    /\ events \in Protected \cup {"unstarted", "first"}
    /\ events' = AfterClose(events)
    /\ todo' = <<>>
    /\ UNCHANGED <<workerVars, cancelled, readerVars, pending, stopReader, decoded, out, connected>>

Disconnect ==
    /\ connected
    /\ connected' = FALSE
    /\ UNCHANGED <<workerVars, cancelled, readerVars, pending, stopReader, generatorVars>>

Worker == WorkerToken \/ \E how \in Ended : WorkerEnds(how)
Reader == ReadEvent \/ ReadError \/ ReadEnd \/ EnqueueCheck \/ Put \/ PutTimesOut
Generator ==
    \/ Start \/ EnterTry \/ Poll \/ PollSeesDisconnect \/ Yield \/ Yielded
    \/ Finally \/ CancelCall \/ Close

Next == Worker \/ Reader \/ Generator \/ Disconnect

Spec == Init /\ [][Next]_vars

\* The thread and the event loop are scheduled, and a generation reaches an
\* end of some kind (InferenceService); the client may leave or stay.
FairSpec ==
    /\ Spec
    /\ WF_vars(Reader)
    /\ WF_vars(Generator)
    /\ WF_vars(\E how \in Ended : WorkerEnds(how))

-----------------------------------------------------------------------------
(* Properties *)

\* Every variable has its type, and the queue its bound.
TypeOK ==
    /\ sent \in 0..MaxTokens
    /\ ending \in Ended \cup {"open"}
    /\ Len(wire) <= Window
    /\ reader.at \in {"read", "check", "put", "dead"}
    /\ Len(pending) <= QueueSize
    /\ events \in Protected \cup {"unstarted", "first", "finally", "cancel", "closed", "abandoned"}
    /\ decoded \in 0..sent
    /\ cancelled \in BOOLEAN /\ stopReader \in BOOLEAN /\ connected \in BOOLEAN

Kinds(kind) == {i \in DOMAIN out : out[i][1] = kind}

\* What the client reads is a stream in the form it expects: the role first,
\* content in token order, then one ending, an error or a finish reason and
\* never both, and [DONE] once, after the ending and last of all.  The ending is
\* true: a finish reason means the worker finished, and every token it sent
\* went through the decoder first; an error means that it did not finish.
WellFormedStream ==
    /\ out # <<>> => out[1] = Role
    /\ \A i, j \in Kinds("content") : i < j => out[i][2] <= out[j][2]
    /\ \A i, j \in Kinds("finish") \cup Kinds("error") : i = j
    /\ \A i \in Kinds("[DONE]") :
          i = Len(out) /\ \E j \in 1..(i - 1) : out[j][1] \in {"finish", "error"}
    /\ \A i \in Kinds("content"), j \in Kinds("finish") \cup Kinds("error") : i < j
    /\ Kinds("finish") # {} => ending = "done" /\ decoded = sent
    /\ Kinds("error") # {} => ending # "done"

\* A generator that ends after it entered its try block always leads to the
\* end of the thread, wherever the thread was waiting: on the queue, on the
\* worker or between looking at the stop event and putting an item.  And as
\* long as the client stays, the stream it reads ends with [DONE].
StreamEnds ==
    /\ (events = "closed") ~> (reader.at = "dead")
    /\ <>(~connected \/ Kinds("[DONE]") # {})

\* A client that leaves while the generator is in its try block gets its call
\* cancelled, at whatever poll or yield the generator learns of it, so the
\* worker does not generate for nobody behind its gate.
LeavingCancels == (~connected /\ events \in Protected) ~> cancelled
=============================================================================
