---------------------------- MODULE RolloutProofs ----------------------------
(***************************************************************************)
(* Proofs about the life of the workers (Lifespan) and about the model     *)
(* file they load (Rollout), for any number of processes and trainings.    *)
(***************************************************************************)
EXTENDS Rollout, TLAPS

(* No worker has a loop before it has started. *)
LEMMA InitIInv == Init => IInv
  BY DEF Init, IInv, TypeOK, PhaseDecides, Phase, Loop

(* Every step of a worker and of its loop keeps the invariant.             *)
LEMMA NextIInv == IInv /\ [Next]_vars => IInv'
<1> SUFFICES ASSUME IInv, [Next]_vars PROVE IInv'
  OBVIOUS
<1> USE DEF IInv, TypeOK, PhaseDecides, Phase, Loop, EnterPhase, LoopGoes
<1>1. ASSUME NEW p \in Process, Boot(p) PROVE IInv'
  BY <1>1 DEF Boot
<1>2. ASSUME NEW p \in Process, StartupFails(p) PROVE IInv'
  BY <1>2 DEF StartupFails
<1>3. ASSUME NEW p \in Process, Startup(p) PROVE IInv'
  BY <1>3 DEF Startup
<1>4. ASSUME NEW p \in Process, LoopTurn(p) PROVE IInv'
  BY <1>4 DEF LoopTurn
<1>5. ASSUME NEW p \in Process, PassEnds(p) PROVE IInv'
  BY <1>5 DEF PassEnds
<1>6. ASSUME NEW p \in Process, IntervalPasses(p) PROVE IInv'
  BY <1>6 DEF IntervalPasses
<1>7. ASSUME NEW p \in Process, StopWakes(p) PROVE IInv'
  BY <1>7 DEF StopWakes
<1>8. ASSUME NEW p \in Process, Shutdown(p) PROVE IInv'
  BY <1>8 DEF Shutdown
<1>9. ASSUME NEW p \in Process, CancelArrives(p) PROVE IInv'
  <2>1. PICK s \in AfterCancel(loop[p]) : LoopGoes(p, s)
    BY <1>9 DEF CancelArrives
  <2>2. s \in {"ended", "sleeping", "woken"}
    BY <2>1, <1>9 DEF CancelArrives, AfterCancel
  <2> QED
    BY <1>9, <2>1, <2>2 DEF CancelArrives
<1>10. ASSUME NEW p \in Process, Leave(p) PROVE IInv'
  BY <1>10 DEF Leave
<1>11. CASE UNCHANGED vars
  BY <1>11 DEF vars
<1> QED
  BY <1>1, <1>2, <1>3, <1>4, <1>5, <1>6, <1>7, <1>8, <1>9, <1>10, <1>11
  DEF Next, Exit, Kill

(* The phase of a worker decides what its loop and its signals can be.     *)
THEOREM Invariance == Spec => []IInv
  BY InitIInv, NextIInv, PTL DEF Spec

(* Every variable keeps its type. *)
THEOREM TypeCorrect == Spec => []TypeOK
<1>1. IInv => TypeOK
  BY DEF IInv
<1> QED
  BY <1>1, Invariance, PTL

(* While a worker serves, its scanner loop lives. *)
THEOREM LoopLives == Spec => []LoopLivesWhileServing
<1>1. IInv => LoopLivesWhileServing
  BY DEF IInv, TypeOK, PhaseDecides, LoopLivesWhileServing, Loop
<1> QED
  BY <1>1, Invariance, PTL

(* A process that is down, or not up yet, has no scanner task. *)
THEOREM NoOrphanLoop == Spec => []NoLoopWithoutProcess
<1>1. IInv => NoLoopWithoutProcess
  BY DEF IInv, PhaseDecides, NoLoopWithoutProcess
<1> QED
  BY <1>1, Invariance, PTL

(* No step lets a loop begin a pass unless its worker serves: the head of  *)
(* the loop is the only way into a pass, and it looks at stop_event.       *)
LEMMA StepBeginsNoLatePass ==
  ASSUME IInv, [Next]_vars
  PROVE  \A p \in Process :
           loop[p] # "scanning" /\ loop'[p] = "scanning" => phase[p] = "serving"
<1> SUFFICES ASSUME NEW p \in Process,
                    loop[p] # "scanning", loop'[p] = "scanning"
             PROVE  phase[p] = "serving"
  OBVIOUS
<1> USE DEF IInv, TypeOK, Phase, Loop, EnterPhase, LoopGoes
<1>1. LoopTurn(p)
  <2>1. ASSUME NEW q \in Process, CancelArrives(q) PROVE FALSE
    <3>1. PICK s \in AfterCancel(loop[q]) : LoopGoes(q, s)
      BY <2>1 DEF CancelArrives
    <3>2. s # "scanning"
      BY <3>1, <2>1 DEF CancelArrives, AfterCancel
    <3> QED
      BY <3>1, <3>2
  <2>2. ASSUME NEW q \in Process,
               \/ Boot(q) \/ StartupFails(q) \/ Startup(q)
               \/ PassEnds(q) \/ IntervalPasses(q) \/ StopWakes(q)
               \/ Shutdown(q) \/ Exit(q) \/ Kill(q)
        PROVE  FALSE
    BY <2>2 DEF Boot, StartupFails, Startup, PassEnds, IntervalPasses,
                StopWakes, Shutdown, Exit, Kill, Leave
  <2>3. ASSUME NEW q \in Process, LoopTurn(q) PROVE q = p
    BY <2>3 DEF LoopTurn
  <2>4. ASSUME UNCHANGED vars PROVE FALSE
    BY <2>4 DEF vars
  <2> QED
    BY <2>1, <2>2, <2>3, <2>4 DEF Next
<1>2. ~stopEvent[p] /\ loop[p] # "absent"
  BY <1>1 DEF LoopTurn
<1> QED
  BY <1>2 DEF PhaseDecides

(* No pass begins once shutdown has. *)
THEOREM NoLatePass == Spec => NoPassOnceStopping
<1>1. IInv /\ [Next]_vars =>
        [\A p \in Process :
           loop[p] # "scanning" /\ loop'[p] = "scanning" => phase[p] = "serving"]_vars
  BY StepBeginsNoLatePass
<1> QED
  BY <1>1, Invariance, PTL DEF Spec, NoPassOnceStopping

-----------------------------------------------------------------------------
(* The model file and the workers that load it. *)

(* To the workers a rollout is a step of one of them, or none: the scripts *)
(* never touch a loop.                                                     *)
LEMMA RolloutStepIsLifespanStep == [RolloutNext]_rolloutVars => [Next]_vars
<1> SUFFICES ASSUME [RolloutNext]_rolloutVars PROVE [Next]_vars
  OBVIOUS
<1>1. ASSUME NEW t \in Trainer,
             OpenModel(t) \/ CloseModel(t) \/ CheckParity(t) \/ TrainerDies(t)
      PROVE  UNCHANGED vars
  BY <1>1 DEF OpenModel, CloseModel, CheckParity, TrainerDies, TrainerEnters
<1>2. ASSUME NEW p \in Process, LoadAndServe(p) PROVE Next
  BY <1>2 DEF LoadAndServe, Next
<1>3. ASSUME NEW p \in Process, GoOn(p) PROVE Next
  BY <1>3 DEF GoOn, Next
<1>4. CASE UNCHANGED rolloutVars
  BY <1>4 DEF rolloutVars
<1> QED
  BY <1>1, <1>2, <1>3, <1>4 DEF RolloutNext

(* A rollout is a life of its workers, with the same fair event loop: what *)
(* Lifespan promises holds while models are trained and replaced.          *)
THEOREM RolloutIsLifespan == RolloutSpec => FairSpec
<1>1. RolloutInit => Init
  BY DEF RolloutInit
<1> QED
  BY <1>1, RolloutStepIsLifespanStep, PTL DEF RolloutSpec, FairSpec, Spec

(* No file, no training, and workers without a detector. *)
LEMMA RolloutInitStep == RolloutInit => RolloutIInv
<1> SUFFICES ASSUME RolloutInit PROVE RolloutIInv
  OBVIOUS
<1>1. IInv
  BY InitIInv DEF RolloutInit
<1>2. RolloutTypeOK
  BY DEF RolloutInit, RolloutTypeOK
<1>3. FileFollowsTrainers
  BY RolloutAssumption DEF RolloutInit, FileFollowsTrainers
<1> QED
  BY <1>1, <1>2, <1>3 DEF RolloutIInv

(* A trainer that opens or closes the file has yet to check it; one that   *)
(* checks it finds its own model, another's, or its death.                 *)
LEMMA TrainerStep ==
  ASSUME RolloutIInv, NEW t \in Trainer,
         OpenModel(t) \/ CloseModel(t) \/ CheckParity(t) \/ TrainerDies(t)
  PROVE  RolloutTypeOK' /\ FileFollowsTrainers'
<1> USE RolloutAssumption DEF RolloutIInv, RolloutTypeOK, TrainerEnters
<1>1. CASE OpenModel(t)
  <2>1. clashing' \subseteq Trainer
    BY <1>1 DEF OpenModel, Truncate
  <2>2. RolloutTypeOK'
    BY <1>1, <2>1 DEF OpenModel
  <2>3. FileFollowsTrainers'
    BY <1>1 DEF OpenModel, FileFollowsTrainers
  <2> QED
    BY <2>2, <2>3
<1>2. CASE CloseModel(t)
  <2>1. modelFile' \in {t, torn}
    BY <1>2 DEF CloseModel, Complete
  <2>2. RolloutTypeOK'
    BY <1>2, <2>1 DEF CloseModel
  <2>3. trainer'[t] = "written"
    BY <1>2 DEF CloseModel
  <2>4. FileFollowsTrainers'
    BY <2>1, <2>3 DEF FileFollowsTrainers
  <2> QED
    BY <2>2, <2>4
<1>3. CASE CheckParity(t)
  <2>1. RolloutTypeOK'
    BY <1>3 DEF CheckParity
  <2>2. trainer[t] = "written" /\ modelFile # none /\ modelFile' = modelFile
    BY <1>3 DEF CheckParity, FileFollowsTrainers
  <2>3. CASE modelFile \in Trainer
    <3>1. /\ trainer' = [trainer EXCEPT ![t] = "done"]
          /\ compared' = [compared EXCEPT ![t] = modelFile]
      BY <1>3, <2>3 DEF CheckParity
    <3> QED
      BY <2>1, <2>2, <2>3, <3>1 DEF FileFollowsTrainers
  <2>4. CASE modelFile = torn
    <3>1. trainer'[t] = "dead"
      BY <1>3, <2>4 DEF CheckParity
    <3> QED
      BY <2>1, <2>2, <2>4, <3>1 DEF FileFollowsTrainers
  <2> QED
    BY <2>1, <2>2, <2>3, <2>4
<1>4. CASE TrainerDies(t)
  <2>1. /\ trainer' = [trainer EXCEPT ![t] = "dead"]
        /\ UNCHANGED <<modelFile, compared>>
    BY <1>4 DEF TrainerDies
  <2>2. RolloutTypeOK'
    BY <1>4 DEF TrainerDies
  <2>3. FileFollowsTrainers'
    BY <2>1 DEF FileFollowsTrainers
  <2> QED
    BY <2>2, <2>3
<1> QED
  BY <1>1, <1>2, <1>3, <1>4

(* Workers read the file and no more. *)
LEMMA WorkerStep ==
  ASSUME RolloutIInv, NEW p \in Process,
         LoadAndServe(p) \/ (GoOn(p) /\ UNCHANGED <<training, detector>>)
  PROVE  RolloutTypeOK' /\ FileFollowsTrainers'
<1> USE DEF RolloutIInv, RolloutTypeOK, training
<1>1. UNCHANGED training
  BY DEF LoadAndServe
<1>2. RolloutTypeOK'
  BY <1>1 DEF LoadAndServe
<1> QED
  BY <1>1, <1>2 DEF FileFollowsTrainers

LEMMA RolloutNextStep == RolloutIInv /\ [RolloutNext]_rolloutVars => RolloutIInv'
<1> SUFFICES ASSUME RolloutIInv, [RolloutNext]_rolloutVars PROVE RolloutIInv'
  OBVIOUS
<1>1. IInv'
  BY RolloutStepIsLifespanStep, NextIInv DEF RolloutIInv
<1>2. RolloutTypeOK' /\ FileFollowsTrainers'
  <2>1. CASE UNCHANGED rolloutVars
    BY <2>1 DEF rolloutVars, training, RolloutIInv, RolloutTypeOK, FileFollowsTrainers
  <2>2. ASSUME NEW t \in Trainer,
               OpenModel(t) \/ CloseModel(t) \/ CheckParity(t) \/ TrainerDies(t)
        PROVE  RolloutTypeOK' /\ FileFollowsTrainers'
    BY <2>2, TrainerStep
  <2>3. ASSUME NEW p \in Process,
               LoadAndServe(p) \/ (GoOn(p) /\ UNCHANGED <<training, detector>>)
        PROVE  RolloutTypeOK' /\ FileFollowsTrainers'
    BY <2>3, WorkerStep
  <2> QED
    BY <2>1, <2>2, <2>3 DEF RolloutNext
<1> QED
  BY <1>1, <1>2 DEF RolloutIInv

(* Loops, trainers and the file fit together in every reachable state.     *)
THEOREM RolloutInvariance == RolloutSpec => []RolloutIInv
  BY RolloutInitStep, RolloutNextStep, PTL DEF RolloutSpec

(* When all trainings have ended without an error, the file holds a whole  *)
(* model that its own training has compared there: for any number of       *)
(* trainings that write over each other in any order.                      *)
THEOREM GoodTrainingsLeaveAModel == RolloutSpec => []CheckedModelInPlace
<1>1. RolloutIInv => CheckedModelInPlace
  BY DEF RolloutIInv, RolloutTypeOK, FileFollowsTrainers, EndedWell, CheckedModelInPlace
<1> QED
  BY <1>1, RolloutInvariance, PTL

(* No pass begins once shutdown has, also while models are replaced.       *)
THEOREM NoLatePassInRollout == RolloutSpec => NoPassOnceStopping
  BY RolloutIsLifespan, NoLatePass, PTL DEF FairSpec

=============================================================================
