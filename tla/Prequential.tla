----------------------------- MODULE Prequential -----------------------------
(***************************************************************************)
(* PrequentialEvaluator.run (testing/prequential.py): walk forward over    *)
(* the observations, train every so often on those behind, predict the     *)
(* next.  A position counts from 0, as in the code.                        *)
(***************************************************************************)
EXTENDS Naturals

CONSTANT MaxObservations  \* bound: observations of a run

ASSUME PrequentialAssumption == MaxObservations \in Nat

VARIABLES
    observations,  \* how many there are
    unlabelled,    \* the positions without the target field
    minHistory,    \* the argument min_history
    retrainEvery,  \* the argument retrain_every
    hook,          \* what the loop does next
    current,       \* the position of the loop
    sinceTrain,    \* steps_since_train, 0 before the first training
    trained,       \* history: how many observations the model was trained on
    results        \* the positions that were predicted, with that number

prequentialVars == <<observations, unlabelled, minHistory, retrainEvery,
                     hook, current, sinceTrain, trained, results>>

arguments == <<observations, unlabelled, minHistory, retrainEvery>>

PrequentialInit ==
    /\ observations = 0 /\ unlabelled = {} /\ minHistory = 0 /\ retrainEvery = 0
    /\ hook = "none" /\ current = 0 /\ sinceTrain = 0 /\ trained = 0
    /\ results = {}

-----------------------------------------------------------------------------
\* run(...): arguments below 1 are refused.
Run ==
    /\ hook = "none"
    /\ observations' \in 0 .. MaxObservations
    /\ unlabelled' \in SUBSET (0 .. observations' - 1)
    /\ minHistory' \in 0 .. MaxObservations
    /\ retrainEvery' \in 0 .. MaxObservations
    /\ hook' = IF minHistory' < 1 \/ retrainEvery' < 1 THEN "refused" ELSE "next"
    /\ current' = minHistory'
    /\ UNCHANGED <<sinceTrain, trained, results>>

\* Bug: one step late.
MustTrainLate == trained = 0 \/ sinceTrain > retrainEvery

MustTrain == trained = 0 \/ sinceTrain >= retrainEvery

\* The head of the loop: the observation needs its target (KeyError).
Advance ==
    /\ hook = "next"
    /\ hook' = CASE current >= observations -> "done"
                 [] current < observations /\ current \in unlabelled -> "refused"
                 [] OTHER -> IF MustTrain THEN "train" ELSE "predict"
    /\ UNCHANGED <<arguments, current, sinceTrain, trained, results>>

\* train_step(observations[:i])
Train ==
    /\ hook = "train"
    /\ trained' = current /\ sinceTrain' = 0
    /\ hook' = "predict"
    /\ UNCHANGED <<arguments, current, results>>

\* predict_step, without the target of the observation.
Predict ==
    /\ hook = "predict"
    /\ results' = results \cup {[index |-> current, trained |-> trained]}
    /\ sinceTrain' = sinceTrain + 1
    /\ current' = current + 1
    /\ hook' = "next"
    /\ UNCHANGED <<arguments, trained>>

\* train_step or predict_step raises.
HookRaises ==
    /\ hook \in {"train", "predict"}
    /\ hook' = "refused"
    /\ UNCHANGED <<arguments, current, sinceTrain, trained, results>>

PrequentialNext == Run \/ Advance \/ Train \/ Predict \/ HookRaises

PrequentialSpec == PrequentialInit /\ [][PrequentialNext]_prequentialVars

-----------------------------------------------------------------------------
(* Property *)

\* Every prediction comes from a model trained on nothing but the observations
\* before it, at least min_history of them, and on all of those up to the last
\* multiple of retrain_every; and no position is predicted twice or left out.
TrainedOnPast ==
    /\ \A r \in results :
         r.trained = minHistory + ((r.index - minHistory) \div retrainEvery) * retrainEvery
    /\ hook \notin {"none", "refused"} =>
         { r.index : r \in results } = minHistory .. current - 1
=============================================================================
