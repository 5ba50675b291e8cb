------------------------------ MODULE Pipeline ------------------------------
(***************************************************************************)
(* What make bootstrap strings together, each step a process of its own:   *)
(* scripts/generate_synthetic_data.py writes two files,                    *)
(* scripts/train_anomaly_model.py reads them and fits a model (which it    *)
(* then writes: Rollout), scripts/seed_db.py reads them and fills the      *)
(* tables (Seeder), which the workers of the service serve.  They meet in  *)
(* files and tables and nowhere else: nothing orders them but the hand     *)
(* that starts them, and any of them may be killed.                        *)
(*                                                                         *)
(* Generation is the set of runs of the generator.  A file is written in   *)
(* place, by a step that truncates it and one that completes it; one that  *)
(* two processes write at a time may stay torn.                            *)
(***************************************************************************)
EXTENDS Seeder, InPlace

CONSTANTS
    Trainer,       \* executions of the training script
    Worker         \* worker processes of the service

VARIABLES
    generator,     \* generator[g]: "idle", "loans" (writing loans.parquet),
                   \* "between", "events", "done" or "dead"
    clashing,      \* those that write a file another one writes too
    trainer,       \* trainer[t]: "idle", "opened", "fitted" or "dead"
    trainLoans,    \* trainLoans[t]: loans, as read
    trainEvents,   \* trainEvents[t]: events, as read
    serving,       \* the workers that have started
    \* history
    crossed        \* a generator was at work next to another or to a reader

seeding == <<enforced, loans, events, pc, inputs, nextLoan, nextEvent, history>>
generating == <<generator, clashing>>
training == <<trainer, trainLoans, trainEvents>>

PipelineInit ==
    /\ Init
    /\ generator = [g \in Generation |-> "idle"]
    /\ clashing = {}
    /\ trainer = [t \in Trainer |-> "idle"]
    /\ trainLoans = [t \in Trainer |-> none]
    /\ trainEvents = [t \in Trainer |-> none]
    /\ serving = {}
    /\ crossed = FALSE

-----------------------------------------------------------------------------
(* main of the generator *)

AtStage(stage) == {g \in Generation : generator[g] = stage}

GeneratorEnters(g, from, to) ==
    /\ generator[g] = from
    /\ generator' = [generator EXCEPT ![g] = to]
    /\ UNCHANGED <<seeding, tables, training, serving>>

(* loans_df.to_parquet *)
OpenLoans(g) ==
    /\ GeneratorEnters(g, "idle", "loans")
    /\ loansFile' = torn
    /\ clashing' = Truncate(clashing, g, AtStage("loans"))
    /\ UNCHANGED eventsFile

CloseLoans(g) ==
    /\ GeneratorEnters(g, "loans", "between")
    /\ loansFile' \in Complete(clashing, g, torn)
    /\ UNCHANGED <<eventsFile, clashing>>

(* mutant: events of an earlier run are kept *)
KeepEvents(g) ==
    /\ GeneratorEnters(g, "between", IF eventsFile = none THEN "events" ELSE "done")
    /\ eventsFile' = IF eventsFile = none THEN torn ELSE eventsFile
    /\ UNCHANGED <<loansFile, clashing>>

(* events_df.to_parquet *)
OpenEvents(g) ==
    /\ GeneratorEnters(g, "between", "events")
    /\ eventsFile' = torn
    /\ clashing' = Truncate(clashing, g, AtStage("events"))
    /\ UNCHANGED loansFile

CloseEvents(g) ==
    /\ GeneratorEnters(g, "events", "done")
    /\ eventsFile' \in Complete(clashing, g, torn)
    /\ UNCHANGED <<loansFile, clashing>>

GeneratorDies(g) ==
    /\ \E stage \in {"loans", "between", "events"} : GeneratorEnters(g, stage, "dead")
    /\ UNCHANGED <<files, clashing>>

Generate(g) ==
    \/ OpenLoans(g) \/ CloseLoans(g) \/ OpenEvents(g) \/ CloseEvents(g)
    \/ GeneratorDies(g)

-----------------------------------------------------------------------------
(* main of the training script, up to fit *)

TrainerReads(t, from, file, to) ==
    /\ trainer[t] = from
    /\ trainer' = [trainer EXCEPT ![t] = IF file \in Generation THEN to ELSE "dead"]
    /\ UNCHANGED <<seeding, tables, files, generating, serving>>

TrainOnLoans(t) ==
    /\ TrainerReads(t, "idle", loansFile, "opened")
    /\ trainLoans' = [trainLoans EXCEPT ![t] = IF loansFile \in Generation THEN loansFile ELSE @]
    /\ UNCHANGED trainEvents

(* Where the files do not belong together the vectors are built on loans   *)
(* without any event, and nothing says so: get(row.id, []).                *)
TrainOnEvents(t) ==
    /\ TrainerReads(t, "opened", eventsFile, "fitted")
    /\ trainEvents' = [trainEvents EXCEPT ![t] = IF eventsFile \in Generation THEN eventsFile ELSE @]
    /\ UNCHANGED trainLoans

TrainerDies(t) ==
    /\ trainer[t] = "opened"
    /\ trainer' = [trainer EXCEPT ![t] = "dead"]
    /\ UNCHANGED <<vars, generating, trainLoans, trainEvents, serving>>

-----------------------------------------------------------------------------
(* A worker of the service, as far as the tables go (see Lifespan). *)

(* mutant: the schema is left to Alembic *)
ServeOnly(w) ==
    /\ serving' = serving \cup {w}
    /\ UNCHANGED <<vars, generating, training>>

(* await init_db(), and it serves *)
WorkerStarts(w) ==
    /\ w \notin serving
    /\ serving' = serving \cup {w}
    /\ ServiceStarts
    /\ UNCHANGED <<generating, training>>

WorkerEnds(w) ==
    /\ w \in serving
    /\ serving' = serving \ {w}
    /\ UNCHANGED <<vars, generating, training>>

-----------------------------------------------------------------------------
(* One process is about to read the second file of two. *)
Reading ==
    \/ \E s \in Run : pc[s] = "opened"
    \/ \E t \in Trainer : trainer[t] = "opened"

Generating == {g \in Generation : generator[g] \in {"loans", "between", "events"}}

Crossing ==
    \/ Generating # {} /\ Reading
    \/ \E g, h \in Generating : g # h

PipelineNext ==
    /\ \/ \E g \in Generation : Generate(g)
       \/ \E t \in Trainer : TrainOnLoans(t) \/ TrainOnEvents(t) \/ TrainerDies(t)
       \/ \E s \in Run : Seed(s) /\ UNCHANGED <<generating, training, serving>>
       \/ \E w \in Worker : WorkerStarts(w) \/ WorkerEnds(w)
    /\ crossed' = (crossed \/ Crossing')

pipelineVars == <<vars, generating, training, serving, crossed>>

PipelineSpec == PipelineInit /\ [][PipelineNext]_pipelineVars

-----------------------------------------------------------------------------
PipelineTypeOK ==
    /\ TypeOK
    /\ generator \in [Generation -> {"idle", "loans", "between", "events", "done", "dead"}]
    /\ clashing \subseteq Generation
    /\ trainer \in [Trainer -> {"idle", "opened", "fitted", "dead"}]
    /\ trainLoans \in [Trainer -> Generation \cup {none}]
    /\ trainEvents \in [Trainer -> Generation \cup {none}]
    /\ serving \subseteq Worker
    /\ crossed \in BOOLEAN

(* Every generator has come to its end by itself, next to nobody. *)
Calm == ~crossed /\ \A g \in Generation : generator[g] # "dead"

TrainedOnMix(t) ==
    trainLoans[t] # none /\ trainEvents[t] # none /\ trainLoans[t] # trainEvents[t]

(* Loans and events that do not belong together, in the database or in     *)
(* what a model is trained on, have a cause: a generator that worked next *)
(* to another or to a process that was reading, or that was killed.  The   *)
(* scripts run after one another, and as often as one likes, keep them     *)
(* together although nothing but their order does.                         *)
MixHasCause ==
    Calm => /\ \A s \in Run : ~Mixed(s)
            /\ \A t \in Trainer : ~TrainedOnMix(t)

(* A worker that serves without tables (and that /ready says is ready:     *)
(* SELECT 1 needs none) does so because a run of the seeder has dropped    *)
(* them, and has not come to create them yet or never will.                *)
MissingTablesHaveCause ==
    ~tables /\ serving # {} =>
        owner # none /\ pc[owner] \in {"dropped", "dead"}

(* Why MixHasCause holds.  KeptApart is inductive (ScriptsProofs). *)

(* A process that has not read its second file holds none. *)
NotYetRead ==
    /\ \A s \in Run : pc[s] \in {"idle", "opened"} => eventsFrom[s] = none
    /\ \A t \in Trainer : trainer[t] \in {"idle", "opened"} => trainEvents[t] = none

(* In the calm nobody shares a file, the two files belong together unless  *)
(* a generator is between them, and readers hold what is in the first.     *)
FilesTogether ==
    Calm =>
        /\ clashing = {}
        /\ \A g \in Generation : generator[g] \in {"between", "events"} => loansFile = g
        /\ Generating = {} => loansFile = eventsFile
        /\ \A s \in Run : pc[s] = "opened" => loansFrom[s] = loansFile
        /\ \A t \in Trainer : trainer[t] = "opened" => trainLoans[t] = loansFile

KeptApart ==
    /\ PipelineTypeOK
    /\ Crossing => crossed
    /\ NotYetRead
    /\ FilesTogether
    /\ MixHasCause

(* Why MissingTablesHaveCause holds: tables that are gone were dropped, by *)
(* the run that dropped last, unless they have never been there.           *)
DroppedTables ==
    ~tables => IF owner = none THEN serving = {} ELSE pc[owner] \in {"dropped", "dead"}

=============================================================================
