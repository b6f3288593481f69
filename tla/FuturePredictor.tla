-------------------------- MODULE FuturePredictor --------------------------
(***************************************************************************)
(* The older, one-batch API of the CPU predictor,                          *)
(* vllm/model_executor/openvino_predictor.py (submit_async, poll_results,  *)
(* is_busy): one future at a time, whose scores the scheduler's thread     *)
(* picks up itself.  It shares executor and scores with StreamPredictor.   *)
(***************************************************************************)
EXTENDS StreamPredictor

VARIABLES
    future,    \* _pending_future: none, or what has become of its batch
    pending    \* _pending_seq_groups

futureVars == <<future, pending>>
streamState == <<lockVars, up, tasks, caller, workerVars>>

FutureTypeOK ==
    /\ future \in {"none", "computing", "done", "failed"}
    /\ pending \in SUBSET Req

FutureInit == future = "none" /\ pending = {}

IsBusy == future = "computing"

\* submit_async: refused while a batch is being computed.  A future that is
\* done and not polled yet does not count as busy; it is overwritten.
SubmitAsync(batch) ==
    /\ up
    /\ IF IsBusy \/ batch = {}
       THEN UNCHANGED futureVars
       ELSE future' = "computing" /\ pending' = batch
    /\ UNCHANGED <<streamState, score>>

\* poll_results: the scores of a finished batch are stored, those of a failed
\* one do not exist; either way the future is gone.
PollResults ==
    /\ IF future \in {"done", "failed"}
       THEN future' = "none" /\ pending' = {}
       ELSE UNCHANGED futureVars
    /\ score' = [r \in Req |-> IF future = "done" /\ r \in pending
                               THEN "cpu" ELSE score[r]]
    /\ UNCHANGED streamState

\* The executor's thread has run _score_sync over the batch.
BatchScored ==
    /\ IsBusy
    /\ future' = "done"
    /\ UNCHANGED <<pending, streamState, score>>

BatchFails ==
    /\ ForwardMayFail
    /\ IsBusy
    /\ future' = "failed"
    /\ UNCHANGED <<pending, streamState, score>>
=============================================================================
