--------------------------- MODULE ScriptsProofs ----------------------------
(***************************************************************************)
(* Proofs about the scripts: the seeding and the runs around it            *)
(* (Pipeline), for any number of runs, files and rows, and what the        *)
(* generator makes up (Generator), for loans of any age and for every      *)
(* draw.                                                                   *)
(***************************************************************************)
EXTENDS Pipeline, Generator, TLAPS

-----------------------------------------------------------------------------
(* The seeder and the scripts around it. *)

(* A chunk takes the loaded front of a file one chunk further. *)
LEMMA ChunkExtends ==
  ASSUME NEW g \in Generation, NEW n \in Nat, NEW count \in Nat
  PROVE  /\ Rows(g, First(n + Chunk, count)) = Rows(g, First(n, count)) \cup Rows(g, Slice(n, count))
         /\ Rows(g, Slice(n, count)) \subseteq Generation \X (1 .. count)
<1>1. /\ First(n + Chunk, count) = First(n, count) \cup Slice(n, count)
      /\ Slice(n, count) \subseteq 1 .. count
  BY SeederAssumption DEF First, Slice
<1> QED
  BY <1>1 DEF Rows

(* Nothing is the front of length 0. *)
LEMMA FrontOfNothing == \A g, count : count \in Nat => Rows(g, First(0, count)) = {}
  BY DEF First, Rows

(* The front of a file that is at least as long as the file is all of it. *)
LEMMA FrontOfAll ==
  ASSUME NEW n \in Nat, NEW count \in Nat, n >= count
  PROVE  First(n, count) = 1 .. count
  BY DEF First

(* Before the first run the tables are empty. *)
LEMMA InitInvariant == Init => IInv
<1> SUFFICES ASSUME Init PROVE IInv
  OBVIOUS
<1>1. TypeOK
  BY SeederAssumption DEF Init, TypeOK, Content
<1>2. HasRead /\ OwnerKeepsItsRows
  BY SeederAssumption DEF Init, HasRead, OwnerKeepsItsRows, Working
<1>3. OwnerAlone
  BY SeederAssumption DEF Init, OwnerAlone, Working
<1>4. KeysEnforced
  BY DEF Init, KeysEnforced
<1> QED
  BY <1>1, <1>2, <1>3, <1>4 DEF IInv

(* A step that leaves rows, inputs and cursors alone, and only moves a run *)
(* on within its work or out of it, keeps the invariant.                   *)
LEMMA StageOnly ==
  ASSUME IInv, NEW s \in Run, NEW stage \in {"loading", "done", "dead"},
         EnterStage(s, stage), tables' \in BOOLEAN,
         stage = "dead" \/ Working(s),
         stage = "done" => nextLoan[s] >= LoanCount /\ nextEvent[s] >= EventCount,
         UNCHANGED <<enforced, loans, events, files, inputs, nextLoan, nextEvent, history>>
  PROVE  IInv'
<1> USE DEF EnterStage, files, inputs, history
<1>1. TypeOK'
  BY DEF IInv, TypeOK, Content
<1>2. HasRead'
  BY DEF IInv, TypeOK, HasRead, Working
<1>3. OwnerKeepsItsRows'
  BY DEF IInv, TypeOK, OwnerKeepsItsRows
<1>4. OwnerAlone'
  BY DEF IInv, TypeOK, OwnerAlone, Working
<1>5. KeysEnforced'
  BY DEF IInv, KeysEnforced, LoanOf
<1> QED
  BY <1>1, <1>2, <1>3, <1>4, <1>5 DEF IInv

(* Reading a file concerns no run that owns the tables. *)
LEMMA ReadInvariant ==
  ASSUME IInv, NEW s \in Run, ReadLoans(s) \/ ReadEvents(s) PROVE IInv'
<1> USE DEF files, history
<1>0. /\ pc[s] \in {"idle", "opened"} /\ owner # s
      /\ UNCHANGED <<enforced, tables, loans, events, files, nextLoan, nextEvent, history>>
      /\ \E stage \in {"opened", "read", "dead"} : EnterStage(s, stage)
      /\ loansFrom' \in [Run -> Generation \cup {none}]
      /\ eventsFrom' \in [Run -> Generation \cup {none}]
      /\ \A t \in Run \ {s} : loansFrom'[t] = loansFrom[t] /\ eventsFrom'[t] = eventsFrom[t]
  BY DEF IInv, TypeOK, HasRead, ReadLoans, ReadEvents
<1>1. TypeOK'
  BY <1>0 DEF IInv, TypeOK, Content, EnterStage
<1>2. HasRead'
  BY <1>0 DEF IInv, TypeOK, HasRead, Working, ReadLoans, ReadEvents, EnterStage
<1>3. OwnerKeepsItsRows'
  BY <1>0 DEF IInv, TypeOK, OwnerKeepsItsRows, EnterStage
<1>4. OwnerAlone'
  BY <1>0 DEF IInv, TypeOK, OwnerAlone, Working, EnterStage
<1>5. KeysEnforced'
  BY <1>0 DEF IInv, KeysEnforced, LoanOf
<1> QED
  BY <1>1, <1>2, <1>3, <1>4, <1>5 DEF IInv

(* Dropping the tables makes a run their owner, with nothing loaded yet. *)
LEMMA DropInvariant == ASSUME IInv, NEW s \in Run, DropAll(s) PROVE IInv'
<1>0. /\ pc[s] = "read" /\ nextLoan[s] = 0 /\ nextEvent[s] = 0
      /\ loansFrom[s] \in Generation /\ eventsFrom[s] \in Generation
      /\ loans' = {} /\ events' = {} /\ owner' = s /\ s # none /\ tables' = FALSE
      /\ pc' = [pc EXCEPT ![s] = "dropped"]
      /\ overlapped' = (overlapped \/ \E t \in Run : Working(t))
      /\ UNCHANGED <<enforced, loansFile, eventsFile, loansFrom, eventsFrom, nextLoan, nextEvent>>
  BY SeederAssumption DEF IInv, HasRead, DropAll, EnterStage, files, inputs
<1>1. TypeOK'
  BY <1>0 DEF IInv, TypeOK, Content
<1>2. HasRead'
  BY <1>0 DEF IInv, TypeOK, HasRead, Working
<1>3. /\ Rows(loansFrom[s], First(0, LoanCount)) = {}
      /\ Rows(eventsFrom[s], First(0, EventCount)) = {}
  BY FrontOfNothing, SeederAssumption
<1>4. OwnerKeepsItsRows'
  BY <1>0, <1>3 DEF IInv, TypeOK, OwnerKeepsItsRows
<1>5. overlapped' \/ \A t \in Run : Working(t)' => owner' = t
  BY <1>0 DEF IInv, TypeOK, Working
<1>6. OwnerAlone'
  BY <1>0, <1>3, <1>5 DEF OwnerAlone
<1>7. KeysEnforced'
  BY <1>0 DEF KeysEnforced
<1> QED
  BY <1>1, <1>2, <1>4, <1>6, <1>7 DEF IInv

(* A chunk of loans. *)
LEMMA LoanInvariant == ASSUME IInv, NEW s \in Run, LoadLoans(s) PROVE IInv'
<1> DEFINE rows == Rows(loansFrom[s], Slice(nextLoan[s], LoanCount))
<1>0. /\ pc[s] = "loading" /\ Working(s) /\ nextLoan[s] < LoanCount
      /\ UNCHANGED <<enforced, tables, events, loansFile, eventsFile, loansFrom, eventsFrom,
                     nextEvent, owner, overlapped>>
  BY DEF LoadLoans, Working, files, inputs, history
<1>1. CASE tables /\ rows \cap loans = {}
  <2>1. /\ loans' = loans \cup rows
        /\ nextLoan' = [nextLoan EXCEPT ![s] = @ + Chunk]
        /\ pc' = pc
    BY <1>1 DEF LoadLoans
  <2>2. nextLoan[s] \in Nat /\ nextLoan'[s] = nextLoan[s] + Chunk /\ nextLoan' \in [Run -> Nat]
        /\ \A t \in Run \ {s} : nextLoan'[t] = nextLoan[t]
    BY <2>1, SeederAssumption DEF IInv, TypeOK
  <2>3. loansFrom[s] \in Generation
    BY <1>0 DEF IInv, HasRead
  <2>4. /\ Rows(loansFrom[s], First(nextLoan'[s], LoanCount))
             = Rows(loansFrom[s], First(nextLoan[s], LoanCount)) \cup rows
        /\ rows \subseteq Generation \X (1 .. LoanCount)
    BY <2>2, <2>3, SeederAssumption, ChunkExtends
  <2>5. TypeOK'
    BY <1>0, <2>1, <2>2, <2>4 DEF IInv, TypeOK, Content
  <2>6. HasRead'
    BY <1>0, <2>1, <2>2 DEF IInv, TypeOK, HasRead, Working
  <2>7. OwnerKeepsItsRows'
    <3> SUFFICES ASSUME NEW t \in Run, owner = t
                 PROVE  /\ Rows(loansFrom[t], First(nextLoan'[t], LoanCount)) \subseteq loans'
                        /\ Rows(eventsFrom[t], First(nextEvent[t], EventCount)) \subseteq events
                        /\ pc[t] = "done" => nextLoan'[t] >= LoanCount /\ nextEvent[t] >= EventCount
      BY <1>0, <2>1 DEF OwnerKeepsItsRows
    <3>1. Rows(loansFrom[t], First(nextLoan[t], LoanCount)) \subseteq loans
      BY DEF IInv, OwnerKeepsItsRows
    <3>2. Rows(loansFrom[t], First(nextLoan'[t], LoanCount)) \subseteq loans'
      BY <2>1, <2>2, <2>4, <3>1
    <3> QED
      BY <1>0, <2>2, <3>2 DEF IInv, OwnerKeepsItsRows
  <2>8. OwnerAlone'
    <3> SUFFICES ASSUME ~overlapped PROVE OwnerAlone'
      BY <1>0 DEF OwnerAlone
    <3>1. owner = s /\ s # none
      BY <1>0, SeederAssumption DEF IInv, OwnerAlone
    <3>2. /\ loans' = Rows(loansFrom[s], First(nextLoan'[s], LoanCount))
          /\ events = Rows(eventsFrom[s], First(nextEvent[s], EventCount))
          /\ nextEvent[s] > 0 => nextLoan'[s] >= LoanCount
      BY <1>0, <2>1, <2>2, <2>4, <3>1, SeederAssumption DEF IInv, TypeOK, OwnerAlone
    <3>3. \A t \in Run : Working(t)' => owner' = t
      BY <1>0, <2>1 DEF IInv, OwnerAlone, Working
    <3> QED
      BY <1>0, <3>1, <3>2, <3>3 DEF OwnerAlone
  <2>9. KeysEnforced'
    BY <1>0, <2>1 DEF IInv, KeysEnforced, LoanOf
  <2> QED
    BY <2>5, <2>6, <2>7, <2>8, <2>9 DEF IInv
<1>2. CASE ~(tables /\ rows \cap loans = {})
  <2>1. EnterStage(s, "dead") /\ UNCHANGED <<loans, nextLoan>>
    BY <1>2 DEF LoadLoans
  <2> QED
    BY <1>0, <2>1, StageOnly DEF IInv, TypeOK, files, inputs, history
<1> QED
  BY <1>1, <1>2

(* A chunk of events, once the loans are in. *)
LEMMA EventInvariant == ASSUME IInv, NEW s \in Run, LoadEvents(s) PROVE IInv'
<1> DEFINE rows == Rows(eventsFrom[s], Slice(nextEvent[s], EventCount))
<1>0. /\ pc[s] = "loading" /\ Working(s) /\ nextLoan[s] >= LoanCount
      /\ UNCHANGED <<enforced, tables, loans, loansFile, eventsFile, loansFrom, eventsFrom,
                     nextLoan, owner, overlapped>>
  BY DEF LoadEvents, LoadChunkOfEvents, Working, files, inputs, history
<1>1. CASE Insertable(rows)
  <2>1. /\ events' = events \cup rows
        /\ nextEvent' = [nextEvent EXCEPT ![s] = @ + Chunk]
        /\ pc' = pc
    BY <1>1 DEF LoadEvents, LoadChunkOfEvents
  <2>2. nextEvent[s] \in Nat /\ nextEvent'[s] = nextEvent[s] + Chunk /\ nextEvent' \in [Run -> Nat]
        /\ \A t \in Run \ {s} : nextEvent'[t] = nextEvent[t]
    BY <2>1, SeederAssumption DEF IInv, TypeOK
  <2>3. eventsFrom[s] \in Generation
    BY <1>0 DEF IInv, HasRead
  <2>4. /\ Rows(eventsFrom[s], First(nextEvent'[s], EventCount))
             = Rows(eventsFrom[s], First(nextEvent[s], EventCount)) \cup rows
        /\ rows \subseteq Generation \X (1 .. EventCount)
    BY <2>2, <2>3, SeederAssumption, ChunkExtends
  <2>5. TypeOK'
    BY <1>0, <2>1, <2>2, <2>4 DEF IInv, TypeOK, Content
  <2>6. HasRead'
    BY <1>0, <2>1, <2>2 DEF IInv, TypeOK, HasRead, Working
  <2>7. OwnerKeepsItsRows'
    <3> SUFFICES ASSUME NEW t \in Run, owner = t
                 PROVE  /\ Rows(loansFrom[t], First(nextLoan[t], LoanCount)) \subseteq loans
                        /\ Rows(eventsFrom[t], First(nextEvent'[t], EventCount)) \subseteq events'
                        /\ pc[t] = "done" => nextLoan[t] >= LoanCount /\ nextEvent'[t] >= EventCount
      BY <1>0, <2>1 DEF OwnerKeepsItsRows
    <3>1. Rows(eventsFrom[t], First(nextEvent[t], EventCount)) \subseteq events
      BY DEF IInv, OwnerKeepsItsRows
    <3>2. Rows(eventsFrom[t], First(nextEvent'[t], EventCount)) \subseteq events'
      BY <2>1, <2>2, <2>4, <3>1
    <3> QED
      BY <1>0, <2>2, <3>2 DEF IInv, OwnerKeepsItsRows
  <2>8. OwnerAlone'
    <3> SUFFICES ASSUME ~overlapped PROVE OwnerAlone'
      BY <1>0 DEF OwnerAlone
    <3>1. owner = s /\ s # none
      BY <1>0, SeederAssumption DEF IInv, OwnerAlone
    <3>2. /\ loans = Rows(loansFrom[s], First(nextLoan[s], LoanCount))
          /\ events' = Rows(eventsFrom[s], First(nextEvent'[s], EventCount))
      BY <1>0, <2>1, <2>2, <2>4, <3>1 DEF IInv, TypeOK, OwnerAlone
    <3>3. \A t \in Run : Working(t)' => owner' = t
      BY <1>0, <2>1 DEF IInv, OwnerAlone, Working
    <3> QED
      BY <1>0, <3>1, <3>2, <3>3 DEF OwnerAlone
  <2>9. KeysEnforced'
    BY <1>0, <1>1, <2>1 DEF IInv, KeysEnforced, Insertable
  <2> QED
    BY <2>5, <2>6, <2>7, <2>8, <2>9 DEF IInv
<1>2. CASE ~Insertable(rows)
  <2>1. EnterStage(s, "dead") /\ UNCHANGED <<events, nextEvent>>
    BY <1>2 DEF LoadEvents, LoadChunkOfEvents
  <2> QED
    BY <1>0, <2>1, StageOnly DEF IInv, TypeOK, files, inputs, history
<1> QED
  BY <1>1, <1>2

(* No action breaks the invariant. *)
LEMMA NextInvariant == IInv /\ [Next]_vars => IInv'
<1> SUFFICES ASSUME IInv, [Next]_vars PROVE IInv'
  OBVIOUS
<1>1. CASE ServiceStarts \/ FilesChange \/ UNCHANGED vars
  <2>1. /\ UNCHANGED <<enforced, loans, events, pc, inputs, nextLoan, nextEvent, history>>
        /\ tables' \in BOOLEAN /\ loansFile' \in Content /\ eventsFile' \in Content
    BY <1>1 DEF ServiceStarts, FilesChange, vars, IInv, TypeOK, files
  <2> QED
    BY <2>1 DEF IInv, TypeOK, Content, HasRead, OwnerKeepsItsRows, OwnerAlone, KeysEnforced,
                LoanOf, Working, inputs, history
<1>2. ASSUME NEW s \in Run, Seed(s) PROVE IInv'
  <2>1. CASE CreateAll(s) \/ Finish(s) \/ Die(s)
    <3>1. PICK stage \in {"loading", "done", "dead"} :
            /\ EnterStage(s, stage)
            /\ stage = "dead" \/ Working(s)
            /\ stage = "done" => nextLoan[s] >= LoanCount /\ nextEvent[s] >= EventCount
      BY <2>1 DEF CreateAll, Finish, Die, Working
    <3>2. /\ UNCHANGED <<enforced, loans, events, files, inputs, nextLoan, nextEvent, history>>
          /\ tables' \in BOOLEAN
      BY <2>1 DEF CreateAll, Finish, Die, IInv, TypeOK
    <3> QED
      BY <3>1, <3>2, StageOnly
  <2> QED
    BY <1>2, <2>1, ReadInvariant, DropInvariant, LoanInvariant, EventInvariant DEF Seed
<1> QED
  BY <1>1, <1>2 DEF Next

(* The invariant of the script, for every book and every chunk size. *)
THEOREM Invariance == Spec => []IInv
  BY InitInvariant, NextInvariant, PTL DEF Spec

(* "done" of the run that reset the tables last is to be believed. *)
THEOREM DoneTheorem == Spec => []DoneIsComplete
<1>1. IInv => DoneIsComplete
  <2> SUFFICES ASSUME IInv, NEW s \in Run, pc[s] = "done", owner = s
               PROVE  /\ Rows(loansFrom[s], 1 .. LoanCount) \subseteq loans
                      /\ Rows(eventsFrom[s], 1 .. EventCount) \subseteq events
                      /\ \/ overlapped
                         \/ /\ loans = Rows(loansFrom[s], 1 .. LoanCount)
                            /\ events = Rows(eventsFrom[s], 1 .. EventCount)
    BY DEF DoneIsComplete
  <2>1. /\ First(nextLoan[s], LoanCount) = 1 .. LoanCount
        /\ First(nextEvent[s], EventCount) = 1 .. EventCount
    BY SeederAssumption, FrontOfAll DEF IInv, TypeOK, OwnerKeepsItsRows
  <2> QED
    BY <2>1 DEF IInv, OwnerKeepsItsRows, OwnerAlone
<1> QED
  BY <1>1, Invariance, PTL

(* Without overlap the rows of both tables come in order, loans first. *)
THEOREM OrderTheorem == Spec => []LoadedInOrder
<1>1. ASSUME NEW n \in Nat, NEW count \in Nat
      PROVE  \E k \in 0 .. count : First(n, count) = 1 .. k
  <2>1. CASE n <= count
    <3>1. First(n, count) = 1 .. n
      BY <2>1 DEF First
    <3> QED
      BY <2>1, <3>1
  <2>2. CASE n > count
    BY <2>2, FrontOfAll
  <2> QED
    BY <2>1, <2>2
<1>2. IInv => LoadedInOrder
  <2> SUFFICES ASSUME IInv, ~overlapped, ~(loans = {} /\ events = {}) PROVE LoadedInOrder
    BY DEF LoadedInOrder
  <2>1. PICK s \in Run : owner = s
    BY DEF IInv, TypeOK, OwnerAlone
  <2>2. /\ nextLoan[s] \in Nat /\ nextEvent[s] \in Nat
        /\ loansFrom[s] \in Generation /\ eventsFrom[s] \in Generation
        /\ loans = Rows(loansFrom[s], First(nextLoan[s], LoanCount))
        /\ events = Rows(eventsFrom[s], First(nextEvent[s], EventCount))
        /\ nextEvent[s] > 0 => nextLoan[s] >= LoanCount
    BY <2>1 DEF IInv, TypeOK, HasRead, OwnerAlone
  <2>3. /\ \E k \in 0 .. LoanCount : loans = Rows(loansFrom[s], 1 .. k)
        /\ \E k \in 0 .. EventCount : events = Rows(eventsFrom[s], 1 .. k)
    BY <1>1, <2>2, SeederAssumption
  <2>4. events = {} \/ nextEvent[s] > 0
    BY <2>2, FrontOfNothing, SeederAssumption
  <2>5. events = {} \/ loans = Rows(loansFrom[s], 1 .. LoanCount)
    BY <2>2, <2>4, FrontOfAll, SeederAssumption
  <2> QED
    BY <2>2, <2>3, <2>5 DEF LoadedInOrder
<1> QED
  BY <1>2, Invariance, PTL

(* No event loses its loan but for a cause, and never with foreign keys. *)
THEOREM OrphanTheorem == Spec => []OrphanHasCause
<1>1. IInv => OrphanHasCause
  <2> SUFFICES ASSUME IInv, NEW e \in events, LoanOf(e) \notin loans
               PROVE  ~enforced /\ (overlapped \/ \E s \in Run : Mixed(s))
    BY DEF OrphanHasCause
  <2>1. ~enforced
    BY DEF IInv, KeysEnforced
  <2>2. ASSUME ~overlapped PROVE \E s \in Run : Mixed(s)
    <3>1. PICK s \in Run : owner = s
      BY <2>2 DEF IInv, TypeOK, OwnerAlone
    <3>2. /\ nextLoan[s] \in Nat /\ nextEvent[s] \in Nat
          /\ loansFrom[s] \in Generation /\ eventsFrom[s] \in Generation
          /\ loans = Rows(loansFrom[s], First(nextLoan[s], LoanCount))
          /\ events = Rows(eventsFrom[s], First(nextEvent[s], EventCount))
          /\ nextEvent[s] > 0 => nextLoan[s] >= LoanCount
      BY <2>2, <3>1 DEF IInv, TypeOK, HasRead, OwnerAlone
    <3>3. loans = Rows(loansFrom[s], 1 .. LoanCount)
      BY <3>2, FrontOfNothing, FrontOfAll, SeederAssumption
    <3>4. PICK k \in 1 .. EventCount : e = <<eventsFrom[s], k>>
      BY <3>2 DEF Rows, First
    <3>5. LoanOf(e) = <<eventsFrom[s], Owner[k]>> /\ Owner[k] \in 1 .. LoanCount
      BY <3>4, SeederAssumption DEF LoanOf
    <3>6. loansFrom[s] # eventsFrom[s]
      BY <3>3, <3>5 DEF Rows
    <3> QED
      BY <3>2, <3>6, SeederAssumption DEF Mixed
  <2> QED
    BY <2>1, <2>2
<1> QED
  BY <1>1, Invariance, PTL

-----------------------------------------------------------------------------
(* What a step of the pipeline that is not the seeder's leaves alone. *)
LEMMA Others ==
  /\ \A g \in Generation : Generate(g) => UNCHANGED <<seeding, tables, training, serving>>
  /\ \A t \in Trainer : TrainOnLoans(t) \/ TrainOnEvents(t) \/ TrainerDies(t) =>
        UNCHANGED <<vars, generating, serving>>
  /\ \A w \in Worker : WorkerEnds(w) => UNCHANGED <<vars, generating, training>>
  BY DEF Generate, OpenLoans, CloseLoans, OpenEvents, CloseEvents, GeneratorDies, GeneratorEnters,
         TrainOnLoans, TrainOnEvents, TrainerDies, TrainerReads, WorkerEnds, vars, seeding

(* Types are kept. *)
LEMMA PipelineTypes == PipelineTypeOK /\ TypeOK' /\ [PipelineNext]_pipelineVars => PipelineTypeOK'
<1> SUFFICES ASSUME PipelineTypeOK, TypeOK', [PipelineNext]_pipelineVars PROVE PipelineTypeOK'
  OBVIOUS
<1> USE DEF PipelineTypeOK
<1>1. CASE UNCHANGED pipelineVars
  BY <1>1 DEF pipelineVars, generating, training
<1>2. CASE PipelineNext
  <2>0. crossed' \in BOOLEAN
    BY <1>2 DEF PipelineNext, Crossing
  <2>1. ASSUME NEW g \in Generation, Generate(g) PROVE PipelineTypeOK'
    BY <2>0, <2>1 DEF Generate, OpenLoans, CloseLoans, OpenEvents, CloseEvents, GeneratorDies,
          GeneratorEnters, AtStage, Truncate, training
  <2>2. ASSUME NEW t \in Trainer, TrainOnLoans(t) \/ TrainOnEvents(t) \/ TrainerDies(t)
        PROVE  PipelineTypeOK'
    BY <2>0, <2>2 DEF TrainOnLoans, TrainOnEvents, TrainerDies, TrainerReads, generating
  <2>3. ASSUME NEW s \in Run, UNCHANGED <<generating, training, serving>> PROVE PipelineTypeOK'
    BY <2>0, <2>3 DEF generating, training
  <2>4. ASSUME NEW w \in Worker, WorkerStarts(w) \/ WorkerEnds(w) PROVE PipelineTypeOK'
    BY <2>0, <2>4 DEF WorkerStarts, WorkerEnds, generating, training
  <2> QED
    BY <1>2, <2>1, <2>2, <2>3, <2>4 DEF PipelineNext
<1> QED
  BY <1>1, <1>2

(* A step of the generator in the calm. *)
LEMMA GenerateKeeps ==
  ASSUME KeptApart, NEW g \in Generation, Generate(g), Calm, Calm', ~Crossing', PipelineTypeOK'
  PROVE  FilesTogether'
<1>1. \A h \in Generating : h = g
  BY DEF Generate, OpenLoans, CloseLoans, OpenEvents, CloseEvents, GeneratorDies, GeneratorEnters,
         Crossing, Generating, KeptApart, PipelineTypeOK, Calm
<1>2. ~Reading' /\ ~Reading
  BY DEF Generate, OpenLoans, CloseLoans, OpenEvents, CloseEvents, GeneratorDies, GeneratorEnters,
         Crossing, Generating, Reading, KeptApart, PipelineTypeOK, Calm, seeding, training
<1>3. clashing = {}
  BY DEF KeptApart, FilesTogether
<1>4. CASE OpenLoans(g)
  <2>1. AtStage("loans") = {}
    BY <1>1, <1>4 DEF OpenLoans, GeneratorEnters, AtStage, Generating
  <2>2. clashing' = {} /\ Generating' = {g}
    BY <1>1, <1>3, <1>4, <2>1 DEF OpenLoans, GeneratorEnters, Truncate, Generating,
         KeptApart, PipelineTypeOK
  <2>3. \A h \in Generation : generator'[h] \notin {"between", "events"}
    BY <1>1, <1>4 DEF OpenLoans, GeneratorEnters, Generating, KeptApart, PipelineTypeOK
  <2> QED
    BY <1>2, <2>2, <2>3 DEF FilesTogether, Reading
<1>5. CASE CloseLoans(g)
  <2>1. clashing' = {} /\ loansFile' = g /\ Generating' = {g}
    BY <1>1, <1>3, <1>5 DEF CloseLoans, GeneratorEnters, Complete, Generating, KeptApart,
         PipelineTypeOK
  <2>2. \A h \in Generation : generator'[h] \in {"between", "events"} => h = g
    BY <2>1 DEF Generating
  <2> QED
    BY <1>2, <2>1, <2>2 DEF FilesTogether, Reading
<1>6. CASE OpenEvents(g)
  <2>1. AtStage("events") = {}
    BY <1>1, <1>6 DEF OpenEvents, GeneratorEnters, AtStage, Generating
  <2>2. clashing' = {} /\ loansFile' = g /\ Generating' = {g}
    BY <1>1, <1>3, <1>6, <2>1 DEF OpenEvents, GeneratorEnters, Truncate, Generating,
          KeptApart, FilesTogether, PipelineTypeOK
  <2>3. \A h \in Generation : generator'[h] \in {"between", "events"} => h = g
    BY <2>2 DEF Generating
  <2> QED
    BY <1>2, <2>2, <2>3 DEF FilesTogether, Reading
<1>7. CASE CloseEvents(g)
  <2>1. clashing' = {} /\ loansFile' = g /\ eventsFile' = g /\ Generating' = {}
    BY <1>1, <1>3, <1>7 DEF CloseEvents, GeneratorEnters, Complete, Generating,
          KeptApart, FilesTogether, PipelineTypeOK
  <2>2. \A h \in Generation : generator'[h] \notin {"between", "events"}
    BY <2>1 DEF Generating
  <2> QED
    BY <1>2, <2>1, <2>2 DEF FilesTogether, Reading
<1>8. CASE GeneratorDies(g)
  BY <1>8 DEF GeneratorDies, GeneratorEnters, Calm, KeptApart, PipelineTypeOK
<1> QED
  BY <1>4, <1>5, <1>6, <1>7, <1>8 DEF Generate

(* No step of the pipeline brings together in the calm what does not       *)
(* belong together.                                                        *)
LEMMA KeptApartStep == KeptApart /\ TypeOK' /\ [PipelineNext]_pipelineVars => KeptApart'
<1> SUFFICES ASSUME KeptApart, TypeOK', [PipelineNext]_pipelineVars PROVE KeptApart'
  OBVIOUS
<1>0. PipelineTypeOK'
  BY PipelineTypes DEF KeptApart
<1>1. CASE UNCHANGED pipelineVars
  BY <1>1 DEF pipelineVars, vars, files, inputs, generating, training, KeptApart, PipelineTypeOK,
       Crossing, Generating, Reading, NotYetRead, FilesTogether, MixHasCause, Calm, Mixed, TrainedOnMix,
       TypeOK, Content
<1>2. CASE PipelineNext
  <2>1. (Crossing => crossed)'
    BY <1>2 DEF PipelineNext
  <2>2. ASSUME Calm' PROVE Calm
    <3>1. ~crossed
      BY <1>2, <2>2 DEF PipelineNext, Calm
    <3>2. ASSUME NEW h \in Generation, generator[h] = "dead" PROVE generator'[h] = "dead"
      BY <1>2, <3>2, Others DEF PipelineNext, Generate, OpenLoans, CloseLoans, OpenEvents,
           CloseEvents,
           GeneratorDies, GeneratorEnters, generating, KeptApart, PipelineTypeOK, WorkerStarts
    <3> QED
      BY <2>2, <3>1, <3>2 DEF Calm
  <2>3. ASSUME NEW g \in Generation, Generate(g)
        PROVE  NotYetRead' /\ FilesTogether' /\ MixHasCause'
    <3>1. UNCHANGED <<pc, loansFrom, eventsFrom, trainer, trainLoans, trainEvents>>
      BY <2>3, Others DEF seeding, inputs, training
    <3>2. NotYetRead'
      BY <3>1 DEF KeptApart, NotYetRead
    <3>3. MixHasCause'
      BY <2>2, <3>1 DEF KeptApart, MixHasCause, Mixed, TrainedOnMix
    <3>4. ASSUME Calm' PROVE FilesTogether'
      BY <1>0, <2>1, <2>2, <2>3, <3>4, GenerateKeeps DEF Calm
    <3>5. FilesTogether'
      BY <3>4 DEF FilesTogether
    <3> QED
      BY <3>2, <3>3, <3>5
  <2>4. ASSUME NEW t \in Trainer, TrainOnLoans(t) \/ TrainOnEvents(t) \/ TrainerDies(t)
        PROVE  NotYetRead' /\ FilesTogether' /\ MixHasCause'
    <3>1. UNCHANGED <<pc, loansFile, eventsFile, loansFrom, eventsFrom, generator, clashing>>
      BY <2>4, Others DEF vars, files, inputs, generating
    <3>2. NotYetRead'
      BY <2>4, <3>1 DEF TrainOnLoans, TrainOnEvents, TrainerDies, TrainerReads, KeptApart,
           NotYetRead, PipelineTypeOK
    <3>3. FilesTogether'
      BY <2>2, <2>4, <3>1 DEF TrainOnLoans, TrainOnEvents, TrainerDies, TrainerReads,
           KeptApart, FilesTogether,
           PipelineTypeOK, Generating
    <3>4. ASSUME Calm', TrainOnEvents(t), eventsFile \in Generation
          PROVE  trainLoans[t] = loansFile /\ loansFile = eventsFile
      <4>1. Calm /\ trainer[t] = "opened"
        BY <2>2, <3>4 DEF TrainOnEvents, TrainerReads
      <4>2. Generating = {}
        BY <4>1 DEF Calm, Crossing, Reading, KeptApart
      <4> QED
        BY <4>1, <4>2 DEF KeptApart, FilesTogether
    <3>5. MixHasCause'
      BY <2>2, <2>4, <3>1, <3>4 DEF TrainOnLoans, TrainOnEvents, TrainerDies,
           TrainerReads, KeptApart,
           PipelineTypeOK, NotYetRead, MixHasCause, Mixed, TrainedOnMix
    <3> QED
      BY <3>2, <3>3, <3>5
  <2>5. ASSUME NEW s \in Run, Seed(s), UNCHANGED <<generating, training, serving>>
        PROVE  NotYetRead' /\ FilesTogether' /\ MixHasCause'
    <3>1. UNCHANGED <<loansFile, eventsFile, generator, clashing, trainer, trainLoans, trainEvents>>
      BY <2>5 DEF generating, training, files, Seed, ReadLoans, ReadEvents, DropAll,
           CreateAll, LoadLoans,
           LoadEvents, LoadChunkOfEvents, Finish, Die
    <3>2. CASE ReadLoans(s)
      BY <2>2, <3>1, <3>2 DEF ReadLoans, EnterStage, KeptApart, PipelineTypeOK, TypeOK, NotYetRead,
           FilesTogether, MixHasCause, Mixed, TrainedOnMix, Generating
    <3>3. CASE ReadEvents(s)
      <4>1. ASSUME Calm' PROVE loansFrom[s] = loansFile /\ loansFile = eventsFile
        <5>1. Calm /\ pc[s] = "opened"
          BY <2>2, <3>3, <4>1 DEF ReadEvents
        <5>2. Generating = {}
          BY <5>1 DEF Calm, Crossing, Reading, KeptApart
        <5> QED
          BY <5>1, <5>2 DEF KeptApart, FilesTogether
      <4> QED
        BY <2>2, <3>1, <3>3, <4>1 DEF ReadEvents, EnterStage, KeptApart, PipelineTypeOK,
             TypeOK, NotYetRead,
             FilesTogether, MixHasCause, Mixed, TrainedOnMix, Generating
    <3>4. CASE ~ReadLoans(s) /\ ~ReadEvents(s)
      <4>1. UNCHANGED <<loansFrom, eventsFrom>>
        BY <2>5, <3>4 DEF inputs, Seed, DropAll, CreateAll, LoadLoans, LoadEvents,
             LoadChunkOfEvents, Finish, Die
      <4>2. \A r \in Run : pc'[r] \in {"idle", "opened"} => pc'[r] = pc[r]
        BY <2>5, <3>4 DEF Seed, DropAll, CreateAll, LoadLoans, LoadEvents,
             LoadChunkOfEvents, Finish, Die,
             EnterStage, KeptApart, PipelineTypeOK, TypeOK
      <4> QED
        BY <2>2, <3>1, <4>1, <4>2 DEF KeptApart, NotYetRead, FilesTogether, MixHasCause,
             Mixed, TrainedOnMix, Generating
    <3> QED
      BY <3>2, <3>3, <3>4
  <2>6. ASSUME NEW w \in Worker, WorkerStarts(w) \/ WorkerEnds(w)
        PROVE  NotYetRead' /\ FilesTogether' /\ MixHasCause'
    <3>1. UNCHANGED <<pc, loansFile, eventsFile, loansFrom, eventsFrom, generator, clashing,
                      trainer, trainLoans, trainEvents>>
      BY <2>6 DEF WorkerStarts, WorkerEnds, ServiceStarts, vars, files, inputs, generating, training
    <3> QED
      BY <2>2, <3>1 DEF KeptApart, NotYetRead, FilesTogether, MixHasCause, Mixed,
           TrainedOnMix, Generating
  <2> QED
    BY <1>0, <1>2, <2>1, <2>3, <2>4, <2>5, <2>6 DEF PipelineNext, KeptApart
<1> QED
  BY <1>1, <1>2

(* Tables that are gone were dropped by their last owner. *)
LEMMA DroppedStep == DroppedTables /\ TypeOK /\ [PipelineNext]_pipelineVars => DroppedTables'
<1> SUFFICES ASSUME DroppedTables, TypeOK, [PipelineNext]_pipelineVars PROVE DroppedTables'
  OBVIOUS
<1>1. CASE UNCHANGED <<tables, pc, owner, serving>>
  BY <1>1 DEF DroppedTables
<1>2. ASSUME NEW s \in Run, Seed(s), UNCHANGED serving PROVE DroppedTables'
  <2>1. s # none
    BY SeederAssumption
  <2> QED
    BY <1>2, <2>1 DEF Seed, ReadLoans, ReadEvents, DropAll, CreateAll, LoadLoans, LoadEvents,
         LoadChunkOfEvents, Finish, Die, EnterStage, history, DroppedTables, TypeOK
<1>3. ASSUME NEW w \in Worker, WorkerStarts(w) \/ WorkerEnds(w) PROVE DroppedTables'
  BY <1>3 DEF WorkerStarts, WorkerEnds, ServiceStarts, DroppedTables, vars, history
<1>4. ASSUME NEW g \in Generation, Generate(g) PROVE DroppedTables'
  BY <1>1, <1>4, Others DEF seeding, history
<1>5. ASSUME NEW t \in Trainer, TrainOnLoans(t) \/ TrainOnEvents(t) \/ TrainerDies(t) PROVE DroppedTables'
  BY <1>1, <1>5, Others DEF vars, history
<1>6. CASE UNCHANGED pipelineVars
  BY <1>1, <1>6 DEF pipelineVars, vars, history
<1> QED
  BY <1>2, <1>3, <1>4, <1>5, <1>6 DEF PipelineNext

(* The pipeline is a seeder in an environment that Seeder allows for: its  *)
(* theorems hold of the pipeline too.                                      *)
THEOREM Refinement == PipelineSpec => Spec
<1>1. PipelineInit => Init
  BY DEF PipelineInit
<1>2. PipelineTypeOK /\ [PipelineNext]_pipelineVars => [Next]_vars
  <2> SUFFICES ASSUME PipelineTypeOK, [PipelineNext]_pipelineVars PROVE [Next]_vars
    OBVIOUS
  <2>1. ASSUME NEW g \in Generation, Generate(g) PROVE FilesChange
    <3>1. loansFile' \in Content /\ eventsFile' \in Content
      BY <2>1 DEF PipelineTypeOK, TypeOK, Content, Generate, OpenLoans, CloseLoans,
           OpenEvents, CloseEvents,
           GeneratorDies, GeneratorEnters, Complete, files
    <3> QED
      BY <2>1, <3>1, Others DEF FilesChange, seeding
  <2>2. ASSUME NEW w \in Worker, WorkerStarts(w) PROVE ServiceStarts
    BY <2>2 DEF WorkerStarts
  <2> QED
    BY <2>1, <2>2, Others DEF PipelineNext, pipelineVars, Next
<1>3. PipelineInit => PipelineTypeOK
  BY InitInvariant DEF PipelineInit, PipelineTypeOK, IInv
<1>4. PipelineTypeOK /\ IInv /\ [PipelineNext]_pipelineVars => PipelineTypeOK' /\ IInv'
  BY <1>2, NextInvariant, PipelineTypes DEF IInv
<1>5. PipelineInit => IInv
  BY <1>1, InitInvariant
<1> QED
  BY <1>1, <1>2, <1>3, <1>4, <1>5, PTL DEF PipelineSpec, Spec

(* Data of different runs of the generator come together only for a cause. *)
THEOREM MixTheorem == PipelineSpec => []MixHasCause
<1>1. PipelineInit => KeptApart
  <2> SUFFICES ASSUME PipelineInit PROVE KeptApart
    OBVIOUS
  <2>1. PipelineTypeOK
    BY InitInvariant DEF PipelineInit, PipelineTypeOK, IInv
  <2> QED
    BY <2>1 DEF PipelineInit, Init, KeptApart, Crossing, Generating, Reading, NotYetRead,
         FilesTogether,
         MixHasCause, Mixed, TrainedOnMix
<1>2. KeptApart => MixHasCause
  BY DEF KeptApart
<1>3. IInv => TypeOK
  BY DEF IInv
<1> QED
  BY <1>1, <1>2, <1>3, KeptApartStep, Refinement, Invariance, PTL DEF PipelineSpec

(* Tables are missing under a worker only where a seeder has dropped them. *)
THEOREM TablesTheorem == PipelineSpec => []MissingTablesHaveCause
<1>1. PipelineInit => DroppedTables
  BY DEF PipelineInit, Init, DroppedTables
<1>2. DroppedTables => MissingTablesHaveCause
  BY DEF DroppedTables, MissingTablesHaveCause
<1>3. IInv => TypeOK
  BY DEF IInv
<1> QED
  BY <1>1, <1>2, <1>3, DroppedStep, Refinement, Invariance, PTL DEF PipelineSpec

-----------------------------------------------------------------------------
(* One loan and its events: they lie within its life, a payment is due     *)
(* every month, and status and pd are what the scanner and the portfolio   *)
(* take them for.                                                          *)

(* The age of a loan in months, as synthesize_events counts it anew: one   *)
(* less where the local date is ahead.                                     *)
LEMMA MonthsCounted ==
  ASSUME NEW d \in -1 .. 1, NEW m \in Nat
  PROVE  (0 - (d - 30 * m)) \div 30 = IF d > 0 THEN m - 1 ELSE m
  BY SMT

(* WeeksActive is at least one, and no more than four weeks to the month. *)
LEMMA WeeksCounted ==
  ASSUME today \in -1 .. 1, NEW m \in Nat, loan.origination = today - 30 * m
  PROVE  /\ WeeksActive \in Nat /\ WeeksActive >= 1
         /\ m > 0 => WeeksActive <= 4 * m
         /\ WeeksActive \div 4 = Larger(0, IF today > 0 THEN m - 1 ELSE m)
<1>1. Months = IF today > 0 THEN m - 1 ELSE m
  BY MonthsCounted DEF Months
<1> QED
  BY <1>1 DEF WeeksActive, Larger

(* What a loan becomes: a status that follows its days past due, and a pd  *)
(* within 1 but for one product.                                           *)
LEMMA RealisedSane ==
  ASSUME NEW p \in Predicted
  PROVE  \A r \in Realised(p) :
         /\ r.dpd \in Nat /\ r.pd_current \in Nat
         /\ r.status # "DEFAULTED" <=> r.dpd < 90
         /\ r.status = "ACTIVE" <=> r.dpd < 30
         /\ r.pd_current > 10000 => r.behavior = "bumpy" /\ p > 3500
<1> SUFFICES ASSUME NEW r \in Realised(p)
             PROVE  /\ r.dpd \in Nat /\ r.pd_current \in Nat
                    /\ r.status # "DEFAULTED" <=> r.dpd < 90
                    /\ r.status = "ACTIVE" <=> r.dpd < 30
                    /\ r.pd_current > 10000 => r.behavior = "bumpy" /\ p > 3500
  OBVIOUS
<1>0. p \in 50 .. 4000
  BY GeneratorAssumption
<1>1. ASSUME NEW f \in 7 .. 28 PROVE (p * f) \div 10 \in Nat
  <2>1. p * f \in Nat
    BY <1>0
  <2> QED
    BY <2>1
<1>2. ASSUME NEW f \in 7 .. 12 PROVE (p * f) \div 10 <= 10000
  <2>1. p * f \in Nat /\ p * f <= 48000
    BY <1>0
  <2> QED
    BY <2>1
<1>3. ASSUME NEW f \in 15 .. 28, (p * f) \div 10 > 10000 PROVE p > 3500
  <2>1. p * f \in Nat /\ p * f <= p * 28
    BY <1>0
  <2>2. p * f > 100000
    BY <2>1, <1>3
  <2> QED
    BY <1>0, <2>1, <2>2
<1>4. ASSUME NEW f \in 30 .. 60
      PROVE  Smaller(10000, (p * f) \div 10) \in Nat /\ Smaller(10000, (p * f) \div 10) <= 10000
  <2>1. p * f \in Nat
    BY <1>0
  <2>2. (p * f) \div 10 \in Nat
    BY <2>1
  <2> QED
    BY <2>2 DEF Smaller
<1> DEFINE Scaled(low, high) == {(p * f) \div 10 : f \in Factor \cap (low .. high)}
           Days(low, high) == Dpd \cap (low .. high)
           Clipped == {Smaller(10000, q) : q \in Scaled(30, 60)}
<1>5. \/ r \in [behavior : {"good"}, status : {"ACTIVE"}, dpd : Days(0, 14), pd_current : Scaled(7, 12)]
      \/ r \in [behavior : {"bumpy"}, status : {"ACTIVE"}, dpd : Days(15, 29), pd_current : Scaled(15, 28)]
      \/ r \in [behavior : {"bumpy"}, status : {"IN_GRACE"}, dpd : Days(30, 60), pd_current : Scaled(15, 28)]
      \/ r \in [behavior : {"bad"}, status : {"IN_GRACE"}, dpd : Days(60, 89), pd_current : Clipped]
      \/ r \in [behavior : {"bad"}, status : {"DEFAULTED"}, dpd : Days(90, 120), pd_current : Clipped]
  BY DEF Realised
<1>6. \A low, high \in Nat : \A d \in Days(low, high) : d \in Nat /\ low <= d /\ d <= high
  BY GeneratorAssumption
<1>7. \A q \in Scaled(7, 12) : q \in Nat /\ q <= 10000
  BY <1>1, <1>2
<1>8. \A q \in Scaled(15, 28) : q \in Nat /\ (q > 10000 => p > 3500)
  BY <1>1, <1>3
<1>9. ASSUME NEW q \in Clipped PROVE q \in Nat /\ q <= 10000
  <2>1. PICK f \in Factor \cap (30 .. 60) : q = Smaller(10000, (p * f) \div 10)
    OBVIOUS
  <2> QED
    BY <2>1, <1>4
<1> HIDE DEF Scaled, Days, Clipped
<1>10. \/ r.behavior = "good" /\ r.status = "ACTIVE" /\ r.dpd \in Days(0, 14) /\ r.pd_current \in Scaled(7, 12)
       \/ r.behavior = "bumpy" /\ r.status = "ACTIVE" /\ r.dpd \in Days(15, 29) /\ r.pd_current \in Scaled(15, 28)
       \/ r.behavior = "bumpy" /\ r.status = "IN_GRACE" /\ r.dpd \in Days(30, 60) /\ r.pd_current \in Scaled(15, 28)
       \/ r.behavior = "bad" /\ r.status = "IN_GRACE" /\ r.dpd \in Days(60, 89) /\ r.pd_current \in Clipped
       \/ r.behavior = "bad" /\ r.status = "DEFAULTED" /\ r.dpd \in Days(90, 120) /\ r.pd_current \in Clipped
  BY <1>5
<1>11. r.dpd \in Nat
       /\ \/ r.status = "ACTIVE" /\ r.dpd < 30
          \/ r.status = "IN_GRACE" /\ r.dpd >= 30 /\ r.dpd < 90
          \/ r.status = "DEFAULTED" /\ r.dpd >= 90
  BY <1>6, <1>10
<1>12. r.pd_current \in Nat /\ (r.pd_current > 10000 => r.behavior = "bumpy" /\ p > 3500)
  BY <1>7, <1>8, <1>9, <1>10
<1> QED
  BY <1>11, <1>12

(* Before the loan is made there is nothing to hold. *)
LEMMA GeneratorInitInvariant == GeneratorInit => GeneratorIInv
<1> SUFFICES ASSUME GeneratorInit PROVE GeneratorIInv
  OBVIOUS
<1>1. today \in -1 .. 1
  <2>1. PICK zone \in Zone : today = (clock + zone) \div 24
    BY DEF GeneratorInit
  <2>2. clock + zone \in -12 .. 37
    BY GeneratorAssumption DEF GeneratorInit
  <2> QED
    BY <2>1, <2>2
<1> QED
  BY <1>1, GeneratorAssumption DEF GeneratorInit, GeneratorIInv, GeneratorTypeOK,
       WholeMonths, WeekInPlace, StatusFollowsDpd, PdAboveOneHasCause

(* The loan is made. *)
LEMMA SynthesizeLoanInvariant == GeneratorIInv /\ SynthesizeLoan => GeneratorIInv'
<1> SUFFICES ASSUME GeneratorIInv, SynthesizeLoan PROVE GeneratorIInv'
  OBVIOUS
<1>0. PICK tenor \in Tenor, p \in Predicted :
        \E months \in 0 .. Smaller(tenor, MaxMonths), r \in Realised(p) :
          loan' = [behavior |-> r.behavior, status |-> r.status, dpd |-> r.dpd,
                   pd_predicted |-> p, pd_current |-> r.pd_current,
                   origination |-> today - 30 * months,
                   outstanding |-> Outstanding(tenor, months, r.status)]
  BY DEF SynthesizeLoan
<1>1. PICK months \in 0 .. Smaller(tenor, MaxMonths), r \in Realised(p) :
        loan' = [behavior |-> r.behavior, status |-> r.status, dpd |-> r.dpd,
                 pd_predicted |-> p, pd_current |-> r.pd_current,
                 origination |-> today - 30 * months,
                 outstanding |-> Outstanding(tenor, months, r.status)]
  BY <1>0
<1>2. /\ loan = noLoan /\ week = 0 /\ batch = {} /\ settled = 0
      /\ UNCHANGED <<clock, today, week, batch, settled>>
  BY DEF SynthesizeLoan, GeneratorIInv, WeekInPlace
<1>3. months \in Nat /\ months <= MaxMonths
  BY GeneratorAssumption DEF Smaller
<1>4. p \in 50 .. 4000
  BY GeneratorAssumption
<1>5. /\ loan'.dpd = r.dpd /\ loan'.status = r.status /\ loan'.pd_current = r.pd_current
      /\ loan'.behavior = r.behavior /\ loan'.pd_predicted = p
      /\ loan'.origination = today - 30 * months
  BY <1>1
<1>6. /\ loan'.dpd \in Nat /\ loan'.pd_current \in Nat
      /\ loan'.status # "DEFAULTED" <=> loan'.dpd < 90
      /\ loan'.status = "ACTIVE" <=> loan'.dpd < 30
      /\ loan'.pd_current > 10000 => loan'.behavior = "bumpy" /\ loan'.pd_predicted > 3500
  <2>1. /\ r.dpd \in Nat /\ r.pd_current \in Nat
        /\ r.status # "DEFAULTED" <=> r.dpd < 90
        /\ r.status = "ACTIVE" <=> r.dpd < 30
        /\ r.pd_current > 10000 => r.behavior = "bumpy" /\ p > 3500
    BY RealisedSane
  <2> QED
    BY <1>5, <2>1
<1>10. clock \in 0 .. 23 /\ today \in -1 .. 1
  BY DEF GeneratorIInv, GeneratorTypeOK
<1>11. GeneratorTypeOK'
  BY <1>2, <1>3, <1>5, <1>6, <1>10 DEF GeneratorTypeOK
<1>12. WholeMonths'
  <2>1. months \in 0 .. MaxMonths /\ loan'.origination = today' - 30 * months
    BY <1>2, <1>3, <1>5, GeneratorAssumption
  <2> QED
    BY <2>1 DEF WholeMonths
<1>7. WeeksActive' \in Nat /\ WeeksActive' >= 1
  <2>1. Months' = IF today > 0 THEN months - 1 ELSE months
    BY <1>2, <1>3, <1>5, MonthsCounted DEF Months, GeneratorIInv, GeneratorTypeOK
  <2> QED
    BY <1>2, <1>3, <2>1 DEF WeeksActive, Larger, GeneratorIInv, GeneratorTypeOK
<1>8. WeekInPlace'
  <2>1. week' = 0 /\ batch' = {} /\ settled' = 0
    BY <1>2
  <2> HIDE <1>2
  <2> QED
    BY <1>7, <2>1 DEF WeekInPlace
<1>9. StatusFollowsDpd' /\ PdAboveOneHasCause'
  BY <1>6 DEF StatusFollowsDpd, PdAboveOneHasCause
<1> QED
  BY <1>8, <1>9, <1>11, <1>12 DEF GeneratorIInv

(* What a week brings lies in that week. *)
LEMMA WeekBrings ==
  ASSUME GeneratorIInv, SynthesizeWeek, NEW e \in batch'
  PROVE  /\ e \in [type : {"POS_INFLOW", "REPAYMENT", "MISSED_PAYMENT", "NSF", "OVERDRAFT"}, ts : Int]
         /\ WeekStart(week) <= e.ts /\ e.ts < WeekStart(week + 1)
<1>1. PICK m \in 0 .. MaxMonths : loan.origination = today - 30 * m
  BY DEF GeneratorIInv, WholeMonths, SynthesizeWeek
<1>2. WeeksActive \in Nat /\ week \in Nat /\ clock \in Int
  BY <1>1, WeeksCounted DEF GeneratorIInv, GeneratorTypeOK
<1>3. WeekStart(week) \in Int /\ WeekStart(week + 1) = WeekStart(week) + 168
  BY <1>2 DEF WeekStart
<1>4. \E k \in 0 .. 166 : e.ts = WeekStart(week) + k
      /\ e = [type |-> e.type, ts |-> e.ts]
      /\ e.type \in {"POS_INFLOW", "REPAYMENT", "MISSED_PAYMENT", "NSF", "OVERDRAFT"}
  <2>1. PICK pos \in PosInflows, nsf \in Perhaps("NSF"), overdraft \in Perhaps("OVERDRAFT") :
          \E payment \in IF Due(week) THEN Settlement ELSE Perhaps("MISSED_PAYMENT") :
            batch' = UNION {pos, nsf, overdraft, payment}
    BY DEF SynthesizeWeek
  <2>2. PICK payment \in IF Due(week) THEN Settlement ELSE Perhaps("MISSED_PAYMENT") :
          batch' = UNION {pos, nsf, overdraft, payment}
    BY <2>1
  <2>3. CASE e \in pos
    <3>1. PICK n \in PosPerWeek :
            pos \in {At("POS_INFLOW", H) : H \in {X \in SUBSET {24 * d + h : d \in Day, h \in Hour} :
                                            Cardinality(X) <= n /\ (X = {} <=> n = 0)}}
      BY DEF PosInflows
    <3>2. PICK H \in SUBSET {24 * d + h : d \in Day, h \in Hour} : pos = At("POS_INFLOW", H)
      BY <3>1
    <3>3. PICK d \in Day, h \in Hour : e = [type |-> "POS_INFLOW", ts |-> WeekStart(week) + (24 * d + h)]
      BY <2>3, <3>2 DEF At
    <3>4. 24 * d + h \in 0 .. 166
      BY GeneratorAssumption
    <3>5. e.type = "POS_INFLOW" /\ e.ts = WeekStart(week) + (24 * d + h)
      BY <3>3
    <3> QED
      BY <3>3, <3>4, <3>5
  <2>4. ASSUME NEW type \in {"NSF", "OVERDRAFT", "MISSED_PAYMENT"}, NEW some \in Perhaps(type), e \in some
        PROVE  \E k \in 0 .. 166 : e.ts = WeekStart(week) + k
               /\ e = [type |-> e.type, ts |-> e.ts]
               /\ e.type \in {"POS_INFLOW", "REPAYMENT", "MISSED_PAYMENT", "NSF", "OVERDRAFT"}
    <3>1. PICK d \in Day : e = [type |-> type, ts |-> WeekStart(week) + 24 * d]
      BY <2>4 DEF Perhaps, At
    <3>2. 24 * d \in 0 .. 166
      BY GeneratorAssumption
    <3>3. e.type = type /\ e.ts = WeekStart(week) + 24 * d
      BY <3>1
    <3> QED
      BY <3>1, <3>2, <3>3
  <2>5. CASE e \in payment /\ payment \in Settlement
    BY <2>5 DEF Settlement, At
  <2>6. e \in pos \/ e \in nsf \/ e \in overdraft \/ e \in payment
    BY <2>2
  <2>7. payment \in Settlement \/ payment \in Perhaps("MISSED_PAYMENT")
    BY <2>2
  <2> QED
    BY <2>3, <2>4, <2>5, <2>6, <2>7
<1> QED
  BY <1>3, <1>4

(* A week of events is made. *)
LEMMA SynthesizeWeekInvariant == GeneratorIInv /\ SynthesizeWeek => GeneratorIInv'
<1> SUFFICES ASSUME GeneratorIInv, SynthesizeWeek PROVE GeneratorIInv'
  OBVIOUS
<1>1. /\ loan # noLoan /\ week < WeeksActive /\ week' = week + 1
      /\ settled' = settled + (IF Due(week) THEN 1 ELSE 0)
      /\ UNCHANGED <<clock, today, loan>>
  BY DEF SynthesizeWeek
<1>2. week \in Nat /\ settled = week \div 4
  BY DEF GeneratorIInv, GeneratorTypeOK, WeekInPlace
<1>3. PICK m \in 0 .. MaxMonths : loan.origination = today - 30 * m
  BY <1>1 DEF GeneratorIInv, WholeMonths
<1>4. WeeksActive \in Nat /\ WeeksActive' = WeeksActive
  BY <1>1, <1>3, WeeksCounted DEF GeneratorIInv, GeneratorTypeOK, WeeksActive, Months
<1>5. settled' = week' \div 4 /\ settled' \in Nat
  <2>1. (week + 1) \div 4 = (week \div 4) + (IF week % 4 = 3 THEN 1 ELSE 0) /\ (week + 1) \div 4 \in Nat
    BY <1>2
  <2> QED
    BY <1>1, <1>2, <2>1 DEF Due
<1>6. GeneratorTypeOK'
  BY <1>1, <1>2, <1>5, WeekBrings DEF GeneratorIInv, GeneratorTypeOK
<1>7. WeekInPlace'
  <2>2. \A e \in batch' : WeekStart(week - 1)' <= e.ts /\ e.ts < WeekStart(week)'
    <3>1. WeekStart(week - 1)' = WeekStart(week) /\ WeekStart(week)' = WeekStart(week + 1)
      <4>1. week' - 1 = week
        BY <1>1, <1>2
      <4> QED
        BY <1>1, <1>4, <4>1 DEF WeekStart
    <3> QED
      BY <3>1, WeekBrings
  <2>3. week' # 0 /\ week' <= WeeksActive' /\ loan' # noLoan
    BY <1>1, <1>2, <1>4
  <2> QED
    BY <1>5, <2>2, <2>3 DEF WeekInPlace
<1>8. WholeMonths' /\ StatusFollowsDpd' /\ PdAboveOneHasCause'
  BY <1>1 DEF GeneratorIInv, WholeMonths, StatusFollowsDpd, PdAboveOneHasCause
<1> QED
  BY <1>6, <1>7, <1>8 DEF GeneratorIInv

(* The invariant of the script, for every draw. *)
THEOREM GeneratorInvariance == GeneratorSpec => []GeneratorIInv
<1>1. GeneratorIInv /\ UNCHANGED generatorVars => GeneratorIInv'
  BY DEF generatorVars, GeneratorIInv, GeneratorTypeOK, WholeMonths, WeekInPlace,
       WeekStart, WeeksActive, Months,
         StatusFollowsDpd, PdAboveOneHasCause
<1> QED
  BY <1>1, GeneratorInitInvariant, SynthesizeLoanInvariant, SynthesizeWeekInvariant, PTL
       DEF GeneratorSpec, GeneratorNext

(* Events lie between the origination of their loan and now. *)
THEOREM LifeTheorem == GeneratorSpec => []EventsWithinLife
<1>1. GeneratorIInv => EventsWithinLife
  <2> SUFFICES ASSUME GeneratorIInv, NEW e \in batch
               PROVE  e.ts < clock /\ (loan.origination < today => e.ts >= 24 * loan.origination)
    BY DEF EventsWithinLife
  <2>1. week \in Nat /\ week > 0 /\ loan # noLoan /\ week <= WeeksActive /\ e.ts \in Int
        /\ clock \in 0 .. 23 /\ today \in -1 .. 1
    BY DEF GeneratorIInv, GeneratorTypeOK, WeekInPlace
  <2>2. PICK m \in 0 .. MaxMonths : loan.origination = today - 30 * m
    BY <2>1 DEF GeneratorIInv, WholeMonths
  <2>3. WeeksActive \in Nat /\ (m > 0 => WeeksActive <= 4 * m)
    BY <2>1, <2>2, WeeksCounted
  <2>4. /\ clock - 168 * (WeeksActive - (week - 1)) <= e.ts
        /\ e.ts < clock - 168 * (WeeksActive - week)
    BY DEF GeneratorIInv, WeekInPlace, WeekStart
  <2> QED
    BY <2>1, <2>2, <2>3, <2>4
<1> QED
  BY <1>1, GeneratorInvariance, PTL

(* A payment is due for every month of the loan. *)
THEOREM SettledTheorem == GeneratorSpec => []SettledMonthly
<1>1. GeneratorIInv => SettledMonthly
  <2> SUFFICES ASSUME GeneratorIInv, loan # noLoan, week = WeeksActive
               PROVE  settled = Larger(0, IF today > 0 THEN ((today - loan.origination) \div 30) - 1
                                          ELSE (today - loan.origination) \div 30)
    BY DEF SettledMonthly
  <2>1. PICK m \in 0 .. MaxMonths : loan.origination = today - 30 * m
    BY DEF GeneratorIInv, WholeMonths
  <2>2. (today - loan.origination) \div 30 = m
    BY <2>1 DEF GeneratorIInv, GeneratorTypeOK
  <2> QED
    BY <2>1, <2>2, WeeksCounted DEF GeneratorIInv, GeneratorTypeOK, WeekInPlace
<1> QED
  BY <1>1, GeneratorInvariance, PTL

(* Status follows days past due. *)
THEOREM StatusTheorem == GeneratorSpec => []StatusFollowsDpd
  BY GeneratorInvariance, PTL DEF GeneratorIInv

(* A pd above 1 has its one cause. *)
THEOREM PdTheorem == GeneratorSpec => []PdAboveOneHasCause
  BY GeneratorInvariance, PTL DEF GeneratorIInv

=============================================================================
