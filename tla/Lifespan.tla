------------------------------ MODULE Lifespan ------------------------------
(***************************************************************************)
(* The life of a worker process and of its scanner loop (main.py,          *)
(* lifespan): startup, the asyncio task that calls run_once and sleeps for *)
(* the scan interval, and shutdown, which sets stop_event, cancels the     *)
(* task and awaits it.                                                     *)
(*                                                                         *)
(* What a cancellation does is asyncio's (Python 3.11, see Dockerfile).    *)
(* It reaches the task at its next await, and it may get lost there: a     *)
(* driver can turn it into an Exception, which the loop catches, and       *)
(* wait_for drops it when the event it waits for is set already.           *)
(***************************************************************************)
CONSTANT Process

VARIABLES
    phase,        \* phase[p]: where p's lifespan is
    loop,         \* loop[p]: where its scanner task is
    stopEvent,    \* stopEvent[p]: app.state.stop_event is set
    cancelled     \* cancelled[p]: scanner_task has a cancellation to come

vars == <<phase, loop, stopEvent, cancelled>>

Phase == {"down", "starting", "serving", "stopping"}

(* absent    no task;  created: not run yet                                *)
(* scanning  awaiting something inside run_once                            *)
(* sleeping  in wait_for;  woken: wait_for is about to return or time out  *)
(* ended     the task is done                                              *)
Loop == {"absent", "created", "scanning", "sleeping", "woken", "ended"}

Init ==
    /\ phase = [p \in Process |-> "down"]
    /\ loop = [p \in Process |-> "absent"]
    /\ stopEvent = [p \in Process |-> FALSE]
    /\ cancelled = [p \in Process |-> FALSE]

-----------------------------------------------------------------------------
EnterPhase(p, s) == phase' = [phase EXCEPT ![p] = s]
LoopGoes(p, s) == loop' = [loop EXCEPT ![p] = s]

Boot(p) ==
    /\ phase[p] = "down"
    /\ EnterPhase(p, "starting")
    /\ UNCHANGED <<loop, stopEvent, cancelled>>

(* init_db raises, or there is no model to load. *)
StartupFails(p) ==
    /\ phase[p] = "starting"
    /\ EnterPhase(p, "down")
    /\ UNCHANGED <<loop, stopEvent, cancelled>>

Startup(p) ==
    /\ phase[p] = "starting"
    /\ EnterPhase(p, "serving")
    /\ LoopGoes(p, "created")
    /\ UNCHANGED <<stopEvent, cancelled>>

(* mutant: while True *)
LoopTurnForever(p) ==
    /\ loop[p] \in {"created", "woken"}
    /\ ~cancelled[p]
    /\ LoopGoes(p, "scanning")
    /\ UNCHANGED <<phase, stopEvent, cancelled>>

(* The head of the loop: while not stop_event.is_set(). *)
LoopTurn(p) ==
    /\ loop[p] \in {"created", "woken"}
    /\ ~cancelled[p]
    /\ LoopGoes(p, IF stopEvent[p] THEN "ended" ELSE "scanning")
    /\ UNCHANGED <<phase, stopEvent, cancelled>>

(* mutant: an exception of run_once is not caught *)
PassEndsLoop(p) ==
    /\ loop[p] = "scanning"
    /\ ~cancelled[p]
    /\ \E s \in {"sleeping", "ended"} : LoopGoes(p, s)
    /\ UNCHANGED <<phase, stopEvent, cancelled>>

(* run_once returns or raises; either way the loop goes to sleep. *)
PassEnds(p) ==
    /\ loop[p] = "scanning"
    /\ ~cancelled[p]
    /\ LoopGoes(p, "sleeping")
    /\ UNCHANGED <<phase, stopEvent, cancelled>>

(* mutant: the TimeoutError is not caught *)
TimeoutEndsLoop(p) ==
    /\ loop[p] = "sleeping"
    /\ ~cancelled[p]
    /\ LoopGoes(p, "ended")
    /\ UNCHANGED <<phase, stopEvent, cancelled>>

IntervalPasses(p) ==
    /\ loop[p] = "sleeping"
    /\ ~cancelled[p]
    /\ LoopGoes(p, "woken")
    /\ UNCHANGED <<phase, stopEvent, cancelled>>

StopWakes(p) ==
    /\ loop[p] = "sleeping"
    /\ ~cancelled[p]
    /\ stopEvent[p]
    /\ LoopGoes(p, "woken")
    /\ UNCHANGED <<phase, stopEvent, cancelled>>

(* mutant: the task is only told, not cancelled *)
ShutdownWithoutCancel(p) ==
    /\ phase[p] = "serving"
    /\ EnterPhase(p, "stopping")
    /\ stopEvent' = [stopEvent EXCEPT ![p] = TRUE]
    /\ UNCHANGED <<loop, cancelled>>

Shutdown(p) ==
    /\ phase[p] = "serving"
    /\ EnterPhase(p, "stopping")
    /\ stopEvent' = [stopEvent EXCEPT ![p] = TRUE]
    /\ cancelled' = [cancelled EXCEPT ![p] = (loop[p] # "ended")]
    /\ UNCHANGED loop

(* CancelledError is no Exception: it ends the task, unless it gets lost.  *)
AfterCancel(s) ==
    CASE s = "created" -> {"ended"}
      [] s = "scanning" -> {"ended", "sleeping"}
      [] s \in {"sleeping", "woken"} -> {"ended", "woken"}

CancelArrives(p) ==
    /\ cancelled[p]
    /\ loop[p] \in {"created", "scanning", "sleeping", "woken"}
    /\ \E s \in AfterCancel(loop[p]) : LoopGoes(p, s)
    /\ cancelled' = [cancelled EXCEPT ![p] = FALSE]
    /\ UNCHANGED <<phase, stopEvent>>

Leave(p) ==
    /\ EnterPhase(p, "down")
    /\ LoopGoes(p, "absent")
    /\ stopEvent' = [stopEvent EXCEPT ![p] = FALSE]
    /\ cancelled' = [cancelled EXCEPT ![p] = FALSE]

(* mutant: the task is not awaited *)
ExitAtOnce(p) ==
    /\ phase[p] = "stopping"
    /\ EnterPhase(p, "down")
    /\ UNCHANGED <<loop, stopEvent, cancelled>>

(* await scanner_task returns, the process exits. *)
Exit(p) ==
    /\ phase[p] = "stopping"
    /\ loop[p] = "ended"
    /\ Leave(p)

(* The process is killed (external). *)
Kill(p) ==
    /\ phase[p] # "down"
    /\ Leave(p)

Next ==
    \E p \in Process :
        \/ Boot(p)
        \/ StartupFails(p)
        \/ Startup(p)
        \/ LoopTurn(p)
        \/ PassEnds(p)
        \/ IntervalPasses(p)
        \/ StopWakes(p)
        \/ Shutdown(p)
        \/ CancelArrives(p)
        \/ Exit(p)
        \/ Kill(p)

Spec == Init /\ [][Next]_vars

(* The event loop runs what is ready to run. *)
EventLoopFair ==
    \A p \in Process :
        /\ WF_vars(LoopTurn(p))
        /\ WF_vars(StopWakes(p))
        /\ WF_vars(CancelArrives(p))
        /\ WF_vars(Exit(p))

(* Besides, timers expire and a pass comes to an end, well or badly. *)
WorldFair ==
    \A p \in Process : WF_vars(IntervalPasses(p)) /\ WF_vars(PassEnds(p))

FairSpec == Spec /\ EventLoopFair

-----------------------------------------------------------------------------
TypeOK ==
    /\ phase \in [Process -> Phase]
    /\ loop \in [Process -> Loop]
    /\ stopEvent \in [Process -> BOOLEAN]
    /\ cancelled \in [Process -> BOOLEAN]

(* While a worker serves, its loop lives: no failing pass and no timeout   *)
(* ends it unnoticed.                                                      *)
LoopLivesWhileServing ==
    \A p \in Process :
        phase[p] = "serving" => loop[p] \in {"created", "scanning", "sleeping", "woken"}

(* A process that is down has left no scanner task behind. *)
NoLoopWithoutProcess ==
    \A p \in Process : phase[p] \in {"down", "starting"} => loop[p] = "absent"

(* Why the above hold: the phase decides what the task and its two signals *)
(* can be.  IInv is inductive (RolloutProofs).                             *)
PhaseDecides ==
    \A p \in Process :
        /\ phase[p] \in {"down", "starting"} =>
             loop[p] = "absent" /\ ~stopEvent[p] /\ ~cancelled[p]
        /\ phase[p] = "serving" =>
             loop[p] \notin {"absent", "ended"} /\ ~stopEvent[p] /\ ~cancelled[p]
        /\ phase[p] = "stopping" =>
             loop[p] # "absent" /\ stopEvent[p]

IInv == TypeOK /\ PhaseDecides

(* No pass begins once shutdown has, even if the cancellation gets lost.   *)
NoPassOnceStopping ==
    [][\A p \in Process :
          loop[p] # "scanning" /\ loop'[p] = "scanning" => phase[p] = "serving"]_vars

(* Shutdown comes to its end although the interval is long, and although   *)
(* the database may never answer a pass: the cancellation reaches it there *)
(* (and the driver is assumed to let go of a cancelled call).              *)
ShutdownTerminates ==
    \A p \in Process : phase[p] = "stopping" ~> phase[p] = "down"

(* A worker that is never stopped scans again and again, whatever becomes  *)
(* of the passes, if only they end and timers expire: this is the fairness *)
(* that Scanner assumes of its loops.                                      *)
LoopKeepsScanning ==
    WorldFair =>
        \A p \in Process :
            <>[](phase[p] = "serving") => []<>(loop[p] = "scanning")

=============================================================================
