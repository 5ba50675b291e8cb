------------------------------- MODULE Seeder -------------------------------
(***************************************************************************)
(* scripts/seed_db.py: read the book and its events from two files, drop   *)
(* and recreate the tables, then insert both in chunks, each in a          *)
(* transaction of its own.  Several runs may overlap (make bootstrap next  *)
(* to a container that seeds), a run may be killed anywhere and another    *)
(* started, the files may change at any time, and a worker of the service  *)
(* may create the tables meanwhile.                                        *)
(*                                                                         *)
(* A row is <<g, k>>: row k of the files that run g of the generator wrote *)
(* (Pipeline).  Every run of the generator makes new keys (ULIDs), and the *)
(* same number of rows that belong together in the same way (the seed).    *)
(***************************************************************************)
EXTENDS Integers

CONSTANTS
    Run,           \* executions of the script
    Generation,    \* contents of the two files
    LoanCount,     \* len(loans_df)
    EventCount,    \* len(events_df)
    Chunk,         \* rows per transaction
    Owner,         \* Owner[k]: the loan of event k
    torn,          \* contents of a file that is not whole
    none           \* no run, no file, nothing read

ASSUME SeederAssumption ==
    /\ LoanCount \in Nat
    /\ EventCount \in Nat
    /\ Chunk \in Nat \ {0}
    /\ Owner \in [1 .. EventCount -> 1 .. LoanCount]
    /\ none \notin Run \cup Generation
    /\ torn \notin Generation

VARIABLES
    enforced,      \* foreign keys are: Postgres, not SQLite as opened here
    tables,        \* the tables exist
    loans,         \* rows of loans
    events,        \* rows of loan_events
    loansFile,     \* data/synthetic/loans.parquet
    eventsFile,    \* data/synthetic/events.parquet
    pc,            \* pc[s]: "idle", "opened", "read", "dropped", "loading",
                   \* "done" or "dead"
    loansFrom,     \* loansFrom[s]: loans_df
    eventsFrom,    \* eventsFrom[s]: events_df
    nextLoan,      \* start of the loop over loans_df
    nextEvent,     \* start of the loop over events_df
    \* history
    owner,         \* the run that dropped the tables last
    overlapped     \* one run dropped the tables of another that was loading

files == <<loansFile, eventsFile>>
inputs == <<loansFrom, eventsFrom>>
history == <<owner, overlapped>>
vars == <<enforced, tables, loans, events, files, pc, inputs, nextLoan, nextEvent, history>>

Content == Generation \cup {torn, none}

Init ==
    /\ enforced \in BOOLEAN
    /\ tables \in BOOLEAN
    /\ loans = {}
    /\ events = {}
    /\ loansFile = none
    /\ eventsFile = none
    /\ pc = [s \in Run |-> "idle"]
    /\ loansFrom = [s \in Run |-> none]
    /\ eventsFrom = [s \in Run |-> none]
    /\ nextLoan = [s \in Run |-> 0]
    /\ nextEvent = [s \in Run |-> 0]
    /\ owner = none
    /\ overlapped = FALSE

Working(s) == pc[s] \in {"dropped", "loading"}

EnterStage(s, stage) == pc' = [pc EXCEPT ![s] = stage]

-----------------------------------------------------------------------------
(* pd.read_parquet, which raises if the file is not there or not whole:    *)
(* that ends the script before it has touched the database.                *)

ReadLoans(s) ==
    /\ pc[s] = "idle"
    /\ IF loansFile \in Generation
       THEN /\ loansFrom' = [loansFrom EXCEPT ![s] = loansFile]
            /\ EnterStage(s, "opened")
       ELSE /\ EnterStage(s, "dead")
            /\ UNCHANGED loansFrom
    /\ UNCHANGED <<enforced, tables, loans, events, files, eventsFrom, nextLoan, nextEvent, history>>

ReadEvents(s) ==
    /\ pc[s] = "opened"
    /\ IF eventsFile \in Generation
       THEN /\ eventsFrom' = [eventsFrom EXCEPT ![s] = eventsFile]
            /\ EnterStage(s, "read")
       ELSE /\ EnterStage(s, "dead")
            /\ UNCHANGED eventsFrom
    /\ UNCHANGED <<enforced, tables, loans, events, files, loansFrom, nextLoan, nextEvent, history>>

(* The generator writes (external to the script). *)
FilesChange ==
    /\ loansFile' \in Content
    /\ eventsFile' \in Content
    /\ UNCHANGED <<enforced, tables, loans, events, pc, inputs, nextLoan, nextEvent, history>>

-----------------------------------------------------------------------------
(* reset_schema.  On SQLite each statement commits by itself; on Postgres  *)
(* nothing comes between the two actions, which is one of the behaviours.  *)

DropAll(s) ==
    /\ pc[s] = "read"
    /\ tables' = FALSE
    /\ loans' = {}
    /\ events' = {}
    /\ EnterStage(s, "dropped")
    /\ owner' = s
    /\ overlapped' = (overlapped \/ \E t \in Run : Working(t))
    /\ UNCHANGED <<enforced, files, inputs, nextLoan, nextEvent>>

CreateAll(s) ==
    /\ pc[s] = "dropped"
    /\ tables' = TRUE
    /\ EnterStage(s, "loading")
    /\ UNCHANGED <<enforced, loans, events, files, inputs, nextLoan, nextEvent, history>>

(* init_db, in a worker of the service that starts. *)
ServiceStarts ==
    /\ tables' = TRUE
    /\ UNCHANGED <<enforced, loans, events, files, pc, inputs, nextLoan, nextEvent, history>>

-----------------------------------------------------------------------------
(* seed *)

(* mutant: the end of the slice is off by one *)
SliceShort(start, count) == {k \in start + 1 .. start + Chunk - 1 : k <= count}

(* df.iloc[start : start + chunk] *)
Slice(start, count) == {k \in start + 1 .. start + Chunk : k <= count}

Rows(g, K) == {<<g, k>> : k \in K}

LoanOf(e) == <<e[1], Owner[e[2]]>>

(* One chunk.  A duplicate key, or no table, rolls the chunk back and ends *)
(* the script.                                                             *)
LoadLoans(s) ==
    /\ pc[s] = "loading"
    /\ nextLoan[s] < LoanCount
    /\ LET batch == Rows(loansFrom[s], Slice(nextLoan[s], LoanCount))
       IN  IF tables /\ batch \cap loans = {}
           THEN /\ loans' = loans \cup batch
                /\ nextLoan' = [nextLoan EXCEPT ![s] = @ + Chunk]
                /\ UNCHANGED pc
           ELSE /\ EnterStage(s, "dead")
                /\ UNCHANGED <<loans, nextLoan>>
    /\ UNCHANGED <<enforced, tables, events, files, inputs, nextEvent, history>>

Insertable(batch) ==
    /\ tables /\ batch \cap events = {}
    /\ enforced => \A e \in batch : LoanOf(e) \in loans

LoadChunkOfEvents(s) ==
    /\ pc[s] = "loading"
    /\ nextEvent[s] < EventCount
    /\ LET batch == Rows(eventsFrom[s], Slice(nextEvent[s], EventCount))
       IN  IF Insertable(batch)
           THEN /\ events' = events \cup batch
                /\ nextEvent' = [nextEvent EXCEPT ![s] = @ + Chunk]
                /\ UNCHANGED pc
           ELSE /\ EnterStage(s, "dead")
                /\ UNCHANGED <<events, nextEvent>>
    /\ UNCHANGED <<enforced, tables, loans, files, inputs, nextLoan, history>>

(* mutant: events are not held back until the loans are in *)
LoadEventsEarly(s) == LoadChunkOfEvents(s)

LoadEvents(s) == nextLoan[s] >= LoanCount /\ LoadChunkOfEvents(s)

(* print("[seed] done") *)
Finish(s) ==
    /\ pc[s] = "loading"
    /\ nextLoan[s] >= LoanCount
    /\ nextEvent[s] >= EventCount
    /\ EnterStage(s, "done")
    /\ UNCHANGED <<enforced, tables, loans, events, files, inputs, nextLoan, nextEvent, history>>

(* Killed, or the connection is lost, between two transactions. *)
Die(s) ==
    /\ pc[s] \notin {"idle", "done", "dead"}
    /\ EnterStage(s, "dead")
    /\ UNCHANGED <<enforced, tables, loans, events, files, inputs, nextLoan, nextEvent, history>>

Seed(s) ==
    \/ ReadLoans(s) \/ ReadEvents(s)
    \/ DropAll(s) \/ CreateAll(s)
    \/ LoadLoans(s) \/ LoadEvents(s) \/ Finish(s) \/ Die(s)

Next == ServiceStarts \/ FilesChange \/ \E s \in Run : Seed(s)

Spec == Init /\ [][Next]_vars

-----------------------------------------------------------------------------
TypeOK ==
    /\ enforced \in BOOLEAN /\ tables \in BOOLEAN /\ overlapped \in BOOLEAN
    /\ loans \subseteq Generation \X (1 .. LoanCount)
    /\ events \subseteq Generation \X (1 .. EventCount)
    /\ loansFile \in Content /\ eventsFile \in Content
    /\ pc \in [Run -> {"idle", "opened", "read", "dropped", "loading", "done", "dead"}]
    /\ loansFrom \in [Run -> Generation \cup {none}]
    /\ eventsFrom \in [Run -> Generation \cup {none}]
    /\ nextLoan \in [Run -> Nat]
    /\ nextEvent \in [Run -> Nat]
    /\ owner \in Run \cup {none}

(* "[seed] done" of the run that reset the tables last means that the      *)
(* whole book is in, and nothing else unless runs overlapped, whatever     *)
(* other runs did meanwhile, and after any number of runs that died        *)
(* half-way: the script may be run again.                                  *)
DoneIsComplete ==
    \A s \in Run :
        pc[s] = "done" /\ owner = s =>
            LET L == Rows(loansFrom[s], 1 .. LoanCount)
                E == Rows(eventsFrom[s], 1 .. EventCount)
            IN  /\ L \subseteq loans /\ E \subseteq events
                /\ overlapped \/ (loans = L /\ events = E)

(* Unless runs overlap, a book that is only partly in is in from the front *)
(* and has no events before it has all its loans, so no event is without   *)
(* its loan even where foreign keys are not enforced.                      *)
LoadedInOrder ==
    \/ overlapped
    \/ loans = {} /\ events = {}
    \/ \E g, h \in Generation :
         /\ \E k \in 0 .. LoanCount : loans = Rows(g, 1 .. k)
         /\ \E k \in 0 .. EventCount : events = Rows(h, 1 .. k)
         /\ events = {} \/ loans = Rows(g, 1 .. LoanCount)

(* A run that has read two files that do not belong together. *)
Mixed(s) == loansFrom[s] # none /\ eventsFrom[s] # none /\ loansFrom[s] # eventsFrom[s]

(* An event whose loan is missing takes a database that does not enforce   *)
(* foreign keys, and two overlapping runs or files that do not belong      *)
(* together.                                                               *)
OrphanHasCause ==
    (\E e \in events : LoanOf(e) \notin loans) =>
        ~enforced /\ (overlapped \/ \E s \in Run : Mixed(s))

(* Why these hold.  IInv is inductive (ScriptsProofs). *)
First(n, count) == {k \in 1 .. count : k <= n}

(* What a run loads, it has read. *)
HasRead ==
    \A s \in Run :
        /\ pc[s] \in {"idle", "opened", "read"} =>
             nextLoan[s] = 0 /\ nextEvent[s] = 0 /\ owner # s
        /\ pc[s] = "opened" => loansFrom[s] \in Generation
        /\ pc[s] = "read" \/ Working(s) \/ owner = s =>
             loansFrom[s] \in Generation /\ eventsFrom[s] \in Generation

(* What the run that reset the tables last has loaded is still there. *)
OwnerKeepsItsRows ==
    \A s \in Run : owner = s =>
        /\ Rows(loansFrom[s], First(nextLoan[s], LoanCount)) \subseteq loans
        /\ Rows(eventsFrom[s], First(nextEvent[s], EventCount)) \subseteq events
        /\ pc[s] = "done" => nextLoan[s] >= LoanCount /\ nextEvent[s] >= EventCount

(* Without overlap the last run works alone, and the tables are its own. *)
OwnerAlone ==
    overlapped
    \/ /\ \A s \in Run : Working(s) => owner = s
       /\ owner = none => loans = {} /\ events = {}
       /\ \A s \in Run : owner = s =>
            /\ loans = Rows(loansFrom[s], First(nextLoan[s], LoanCount))
            /\ events = Rows(eventsFrom[s], First(nextEvent[s], EventCount))
            /\ nextEvent[s] > 0 => nextLoan[s] >= LoanCount

KeysEnforced == enforced => \A e \in events : LoanOf(e) \in loans

IInv == TypeOK /\ HasRead /\ OwnerKeepsItsRows /\ OwnerAlone /\ KeysEnforced

=============================================================================
