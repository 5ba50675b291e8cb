------------------------------ MODULE Rollout ------------------------------
(***************************************************************************)
(* The model file between the training script, which writes it, and the    *)
(* workers, each of which loads it once, when it starts (Lifespan).        *)
(* Several trainings may overlap, and workers start, stop and are killed   *)
(* at any time.                                                            *)
(***************************************************************************)
EXTENDS Lifespan, InPlace

CONSTANTS
    Trainer,       \* executions of the training script
    torn,          \* a model file that is not whole
    none           \* no model

ASSUME RolloutAssumption == torn # none /\ {torn, none} \cap Trainer = {}

VARIABLES
    trainer,       \* trainer[t]: "fitted", "writing", "written", "done" or "dead"
    clashing,      \* trainers that write the file another one writes too
    modelFile,     \* models/anomaly.onnx: the model of a trainer, torn or none
    compared,      \* compared[t]: the model that t's parity check has loaded
    detector       \* detector[p]: app.state.detector of a worker

training == <<trainer, clashing, modelFile, compared>>
rolloutVars == <<vars, training, detector>>

RolloutInit ==
    /\ Init
    /\ trainer = [t \in Trainer |-> "fitted"]
    /\ clashing = {}
    /\ modelFile = none
    /\ compared = [t \in Trainer |-> none]
    /\ detector = [p \in Process |-> none]

-----------------------------------------------------------------------------
(* The training script, from fit on (up to there: Pipeline). *)

TrainerEnters(t, from, to) ==
    /\ trainer[t] = from
    /\ trainer' = [trainer EXCEPT ![t] = to]
    /\ UNCHANGED <<vars, detector>>

(* out_path.write_bytes *)
OpenModel(t) ==
    /\ TrainerEnters(t, "fitted", "writing")
    /\ clashing' = Truncate(clashing, t, {u \in Trainer : trainer[u] = "writing"})
    /\ modelFile' = torn
    /\ UNCHANGED compared

CloseModel(t) ==
    /\ TrainerEnters(t, "writing", "written")
    /\ modelFile' \in Complete(clashing, t, torn)
    /\ UNCHANGED <<clashing, compared>>

(* mutant: the session is made of the bytes at hand, not of the file *)
CheckInMemory(t) ==
    /\ TrainerEnters(t, "written", "done")
    /\ compared' = [compared EXCEPT ![t] = t]
    /\ UNCHANGED <<clashing, modelFile>>

(* The parity check loads the file, whoever wrote it last: onnxruntime     *)
(* raises unless it is whole.  A drift is printed and changes nothing.     *)
CheckParity(t) ==
    /\ IF modelFile \in Trainer
       THEN /\ TrainerEnters(t, "written", "done")
            /\ compared' = [compared EXCEPT ![t] = modelFile]
       ELSE /\ TrainerEnters(t, "written", "dead")
            /\ UNCHANGED compared
    /\ UNCHANGED <<clashing, modelFile>>

TrainerDies(t) ==
    /\ \E stage \in {"fitted", "writing", "written"} : TrainerEnters(t, stage, "dead")
    /\ UNCHANGED <<clashing, modelFile, compared>>

-----------------------------------------------------------------------------
(* AnomalyDetector(model_path) raises unless onnxruntime can load the      *)
(* file; the worker serves with what it has loaded until it goes down.     *)
LoadAndServe(p) ==
    /\ modelFile \in Trainer
    /\ Startup(p)
    /\ detector' = [detector EXCEPT ![p] = modelFile]
    /\ UNCHANGED training

(* What else a worker does, failing to start included, concerns no model. *)
GoOn(p) ==
    \/ Boot(p) \/ StartupFails(p)
    \/ LoopTurn(p) \/ PassEnds(p) \/ IntervalPasses(p) \/ StopWakes(p)
    \/ Shutdown(p) \/ CancelArrives(p) \/ Exit(p) \/ Kill(p)

RolloutNext ==
    \/ \E t \in Trainer :
         OpenModel(t) \/ CloseModel(t) \/ CheckParity(t) \/ TrainerDies(t)
    \/ \E p \in Process :
         \/ LoadAndServe(p)
         \/ GoOn(p) /\ UNCHANGED <<training, detector>>

(* The scripts owe nobody a step. *)
RolloutSpec == RolloutInit /\ [][RolloutNext]_rolloutVars /\ EventLoopFair

-----------------------------------------------------------------------------
RolloutTypeOK ==
    /\ trainer \in [Trainer -> {"fitted", "writing", "written", "done", "dead"}]
    /\ clashing \subseteq Trainer
    /\ modelFile \in Trainer \cup {torn, none}
    /\ compared \in [Trainer -> Trainer \cup {none}]
    /\ detector \in [Process -> Trainer \cup {none}]

Up(p) == phase[p] \in {"serving", "stopping"}

(* Some training has ended, and none has failed or is still at work.       *)
EndedWell ==
    /\ \E t \in Trainer : trainer[t] = "done"
    /\ \A t \in Trainer : trainer[t] \in {"fitted", "done"}

(* Trainings may write over each other and check each other's model, and a *)
(* worker that starts meanwhile may find the file torn.  When they have    *)
(* all ended without an error, workers find a whole model, and it is one   *)
(* that its own training has compared after it was in its place: a file    *)
(* that is torn, or a check of the wrong model, does not go unnoticed.     *)
CheckedModelInPlace ==
    EndedWell => modelFile \in Trainer /\ compared[modelFile] = modelFile

(* Why that holds: the last to close the file checks it after everybody's  *)
(* last write, and a torn file is the death of whoever checks it.          *)
FileFollowsTrainers ==
    /\ modelFile = none => \A t \in Trainer : trainer[t] \in {"fitted", "dead"}
    /\ modelFile = torn => \E t \in Trainer : trainer[t] \in {"writing", "written", "dead"}
    /\ modelFile \in Trainer =>
         \/ trainer[modelFile] \in {"written", "dead"}
         \/ trainer[modelFile] = "done" /\ compared[modelFile] = modelFile

(* The loops keep to their invariant besides.  RolloutIInv is inductive    *)
(* (RolloutProofs).                                                        *)
RolloutIInv == IInv /\ RolloutTypeOK /\ FileFollowsTrainers

(* train_anomaly_model.py:7, "validates parity".  That a served model has  *)
(* passed does not hold: the file is in place before the check, and stays  *)
(* whatever the check finds.                                               *)
ServedModelWasChecked ==
    \A p \in Process : Up(p) => trainer[detector[p]] = "done"

(* main.py:42, the model is loaded when the worker starts.  That workers   *)
(* score alike does not hold: after a training, those that were restarted  *)
(* serve the new model and the others the old one, for as long as they run.*)
WorkersAgree ==
    \A p, q \in Process : Up(p) /\ Up(q) => detector[p] = detector[q]

=============================================================================
