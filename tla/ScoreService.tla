---------------------------- MODULE ScoreService ----------------------------
(***************************************************************************)
(* What the scheduler may rely on from an asynchronous score predictor     *)
(* (the contract of submit_streaming in                                    *)
(* vllm/model_executor/openvino_predictor.py), with no queue, no chunk and *)
(* no thread: a request is owed a score from the moment it is accepted; a  *)
(* score is only ever stored for a request that is owed one; and a request *)
(* stops being owed only by its score, by a failure that the service may   *)
(* have, or when the service closes.                                       *)
(***************************************************************************)
CONSTANTS
    Req,      \* the requests
    MayFail   \* whether the service may fail to compute a score

VARIABLES
    owed,   \* accepted requests whose score has not been stored yet
    score,  \* aux_model_score of each request
    open    \* whether the service takes requests

vars == <<owed, score, open>>

Init ==
    /\ owed = {}
    /\ score = [r \in Req |-> "none"]
    /\ open = TRUE

\* The predictor takes on requests.  One that is being answered at this
\* moment may be accepted again: it is then owed a second answer.
Accept ==
    /\ open
    /\ \E S \in SUBSET Req : owed' = owed \union S
    /\ UNCHANGED <<score, open>>

\* The predictor stores the score of a request it owes.
Answer ==
    /\ \E r \in owed :
          /\ score' = [score EXCEPT ![r] = "cpu"]
          /\ owed' \in {owed, owed \ {r}}
    /\ UNCHANGED open

\* The computation for some requests failed.
Drop ==
    /\ MayFail
    /\ owed' \in SUBSET owed
    /\ UNCHANGED <<score, open>>

\* The predictor is shut down.  What is being computed is still answered.
Close ==
    /\ open' = FALSE
    /\ owed' \in SUBSET owed
    /\ UNCHANGED score

Next == Accept \/ Answer \/ Drop \/ Close

Spec == Init /\ [][Next]_vars
=============================================================================
