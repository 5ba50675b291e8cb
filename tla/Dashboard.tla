------------------------------ MODULE Dashboard -----------------------------
(***************************************************************************)
(* The page (index.html): one thread, the click handlers of its buttons,   *)
(* and three kinds of timers: the progress of a start, the short pause     *)
(* after it, and the monitor that fires every 1.5 seconds until its        *)
(* interval is cleared.  The overlay of a start covers the buttons, but    *)
(* the keyboard still reaches them, so any button may be activated at any  *)
(* time.                                                                   *)
(*                                                                         *)
(* The figures shown are random numbers and are left out; what is modelled *)
(* is which timers run, what the button offers, and the alert log.         *)
(***************************************************************************)
EXTENDS Integers, Sequences, SequencesExt

CONSTANTS
    Startup,       \* runs of startMonitor, each with the interval it ends in
    Full,          \* progress at which a start is complete, in steps
    LogSize,       \* entries kept: 20
    MaxEntries,    \* bound: entries ever added to the log
    none

ASSUME DashboardAssumption ==
    /\ Full \in Nat \ {0}
    /\ LogSize \in Nat \ {0}
    /\ MaxEntries \in Nat
    /\ none \notin Startup

VARIABLES
    isMonitoring,
    mainInterval,  \* the interval that stopMonitor would clear
    live,          \* intervals that fire
    unused,        \* runs of startMonitor yet to come
    progress,      \* progress[k], -1 unless its interval fires
    closing,       \* starts in the pause before beginMonitor
    overlay,       \* the processing overlay is active
    button,        \* text of the start button
    log,           \* children of #alertLog: entries, and Text and Hint
    logEntries,    \* newest first
    logCount,      \* the number in "... alerts"
    added,         \* entries added so far: the name of the newest
    overlapped     \* history: a start was clicked while another was under way

timerVars == <<isMonitoring, mainInterval, live, unused, progress, closing,
               overlay, button, overlapped>>
logVars == <<log, logEntries, logCount, added>>
dashboardVars == <<timerVars, logVars>>

(* Children of #alertLog that are not entries: a run of white space, and   *)
(* the hint to start monitoring.                                           *)
Text == 0
Hint == -1

EmptyLog == <<Text, Hint, Text>>

DashboardInit ==
    /\ isMonitoring = FALSE
    /\ mainInterval = none
    /\ live = {}
    /\ unused = Startup
    /\ progress = [k \in Startup |-> -1]
    /\ closing = {}
    /\ overlay = FALSE
    /\ button = "Start"
    /\ log = EmptyLog
    /\ logEntries = <<>>
    /\ logCount = 0
    /\ added = 0
    /\ overlapped = FALSE

Pending == {k \in Startup : progress[k] >= 0} \cup closing

-----------------------------------------------------------------------------
(* addLogEntry *)

(* mutant: the entry goes to the end of the log *)
AddLogEntryBelow ==
    /\ added < MaxEntries
    /\ added' = added + 1
    /\ log' = Append(log, added')
    /\ logEntries' = SubSeq(<<added'>> \o logEntries, 1,
                            IF Len(logEntries) < LogSize THEN Len(logEntries) + 1 ELSE LogSize)
    /\ logCount' = Len(logEntries')

(* The first child is white space until the first entry comes in front of  *)
(* it; from then on it is an element, and the log is emptied first.  The   *)
(* oldest entry is removed from the log if it is still there.              *)
AddLogEntry ==
    /\ added < MaxEntries
    /\ added' = added + 1
    /\ LET entries == <<added'>> \o logEntries
           shown == <<added'>> \o (IF log[1] = Text THEN log ELSE <<>>)
       IN  IF Len(entries) > LogSize
           THEN /\ logEntries' = Front(entries)
                /\ log' = RemoveFirst(shown, Last(entries))
           ELSE /\ logEntries' = entries
                /\ log' = shown
    /\ logCount' = Len(logEntries')

-----------------------------------------------------------------------------
(* Handlers. *)

(* startMonitor *)
Start(k) ==
    /\ k \in unused
    /\ ~isMonitoring
    /\ unused' = unused \ {k}
    /\ overlay' = TRUE
    /\ progress' = [progress EXCEPT ![k] = 0]
    /\ overlapped' = (overlapped \/ Pending # {})
    /\ UNCHANGED <<isMonitoring, mainInterval, live, closing, button, logVars>>

(* mutant: the interval is left to itself *)
StopMonitorFlagOnly ==
    /\ isMonitoring' = FALSE
    /\ button' = "Resume"
    /\ UNCHANGED <<live, mainInterval, unused, progress, closing, overlay, overlapped>>

(* stopMonitor, by the button or by a reset *)
StopMonitor ==
    /\ isMonitoring' = FALSE
    /\ button' = "Resume"
    /\ live' = live \ {mainInterval}
    /\ UNCHANGED <<mainInterval, unused, progress, closing, overlay, overlapped>>

Stop ==
    /\ isMonitoring
    /\ StopMonitor
    /\ UNCHANGED logVars

Reset ==
    /\ StopMonitor
    /\ log' = EmptyLog
    /\ logEntries' = <<>>
    /\ logCount' = 0
    /\ UNCHANGED added

(* injectDefault and triggerAnomaly *)
Inject ==
    /\ AddLogEntry
    /\ UNCHANGED timerVars

-----------------------------------------------------------------------------
(* Timers. *)

(* progress += Math.random() * 18 + 8: at least a step. *)
Progress(k) ==
    /\ progress[k] >= 0
    /\ \E p \in progress[k] + 1 .. Full :
         IF p = Full
         THEN /\ progress' = [progress EXCEPT ![k] = -1]
              /\ closing' = closing \cup {k}
         ELSE /\ progress' = [progress EXCEPT ![k] = p]
              /\ UNCHANGED closing
    /\ UNCHANGED <<isMonitoring, mainInterval, live, unused, overlay, button,
                   overlapped, logVars>>

(* mutant: the overlay is left to the next start *)
BeginMonitorBehind(k) ==
    /\ k \in closing
    /\ closing' = closing \ {k}
    /\ isMonitoring' = TRUE
    /\ button' = "Pause"
    /\ mainInterval' = k
    /\ live' = live \cup {k}
    /\ UNCHANGED <<unused, progress, overlay, overlapped, logVars>>

(* The pause is over: beginMonitor. *)
BeginMonitor(k) ==
    /\ k \in closing
    /\ closing' = closing \ {k}
    /\ overlay' = FALSE
    /\ isMonitoring' = TRUE
    /\ button' = "Pause"
    /\ mainInterval' = k
    /\ live' = live \cup {k}
    /\ UNCHANGED <<unused, progress, overlapped, logVars>>

(* The monitor fires; the other times it leaves the log alone. *)
Monitor(k) ==
    /\ k \in live
    /\ AddLogEntry
    /\ UNCHANGED timerVars

DashboardNext ==
    \/ Stop \/ Reset \/ Inject
    \/ \E k \in Startup : Start(k) \/ Progress(k) \/ BeginMonitor(k) \/ Monitor(k)

DashboardSpec == DashboardInit /\ [][DashboardNext]_dashboardVars

(* The browser runs the timers of an open page. *)
FairSpec ==
    /\ DashboardSpec
    /\ \A k \in Startup : WF_dashboardVars(Progress(k)) /\ WF_dashboardVars(BeginMonitor(k))

-----------------------------------------------------------------------------
DashboardTypeOK ==
    /\ isMonitoring \in BOOLEAN
    /\ mainInterval \in Startup \cup {none}
    /\ live \subseteq Startup
    /\ unused \subseteq Startup
    /\ progress \in [Startup -> -1 .. Full - 1]
    /\ closing \subseteq Startup
    /\ overlay \in BOOLEAN
    /\ button \in {"Start", "Pause", "Resume"}
    /\ added \in 0 .. MaxEntries
    /\ logEntries \in Seq(1 .. MaxEntries) /\ Len(logEntries) <= LogSize
    /\ log \in Seq({Text, Hint} \cup 1 .. MaxEntries)
    /\ logCount \in 0 .. LogSize
    /\ overlapped \in BOOLEAN

(* One start at a time, and the page is what it says: the monitor fires    *)
(* while the button offers to pause it, by the one interval that stopping  *)
(* would clear, and the overlay is up exactly while a start is under way.  *)
TimersFollowButton ==
    overlapped
    \/ /\ live = IF button = "Pause" THEN {mainInterval} ELSE {}
       /\ isMonitoring <=> button = "Pause"
       /\ overlay <=> Pending # {}

(* What a reader of the log can rely on: the list holds the newest alerts, *)
(* newest first and without a gap, as many as the label counts; the page   *)
(* shows the newest of them alone, with what the log was empty with below  *)
(* it or nothing, and no alert exactly when the label counts none.         *)
NewestOnTop ==
    IF logCount = 0
    THEN log = EmptyLog
    ELSE /\ logCount = Len(logEntries)
         /\ \A i \in 1 .. logCount : logEntries[i] = added + 1 - i
         /\ log \in {<<added>>, <<added>> \o EmptyLog}

(* A start comes to an end: the overlay goes away. *)
OverlayGoesAway == overlay ~> ~overlay

(* index.html:980, "Live monitoring suspended".  It does not hold: of two  *)
(* starts that overlap, the interval of the first is never cleared.        *)
SuspendedIsStill == button = "Resume" /\ Pending = {} => live = {}

(* index.html:1029, the label counts the alerts in the log, up to LogSize. *)
(* It does not hold: every entry but the first empties the log, so it      *)
(* shows one.                                                              *)
LabelCountsLog == logCount = Len(SelectSeq(log, LAMBDA n : n \notin {Text, Hint}))

(* Why the first two hold.  DashboardIInv is inductive (FeedProofs).       *)

(* A start counts down, and pauses, once, while nothing is monitored.      *)
OneStart ==
    overlapped
    \/ /\ \A j, k \in Pending : j = k
       /\ Pending # {} => ~isMonitoring
       /\ \A k \in closing : progress[k] < 0

(* The list holds the newest alerts without a gap, and the page is empty   *)
(* or shows the newest of them: no older entry is there to be removed.     *)
LogShape ==
    /\ \A i \in 1 .. Len(logEntries) : logEntries[i] = added + 1 - i
    /\ logCount = Len(logEntries)
    /\ IF logEntries = <<>> THEN log = EmptyLog
                            ELSE log \in {<<added>>, <<added>> \o EmptyLog}

DashboardIInv == DashboardTypeOK /\ OneStart /\ TimersFollowButton /\ LogShape

=============================================================================
