------------------------- MODULE MCInferenceService -------------------------
(* Model values for the run of InferenceService. *)
EXTENDS InferenceService

CONSTANTS h1, h2

MCHandlers == {h1, h2}
MCTokens == {"word", "eos"}
MCStopTokens == {"eos"}

\* Two groups, as of the k and the v caches; one layer in the second.
MCCacheGroups == <<2, 1>>
MCPoolIds == 1 .. 3

Request(stream, prompt, maxTokens) ==
    [stream |-> stream, valid |-> TRUE, prompt |-> prompt, maxTokens |-> maxTokens]

\* A prompt of two chunks, the second not full; and a request for no tokens.
MCRequests == {Request(TRUE, 3, 2), Request(FALSE, 1, 0)}
=============================================================================
