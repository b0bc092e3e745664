----------------------------- MODULE TurnWatch -----------------------------
(***************************************************************************)
(* How the daemon follows the turns of one thread (internal/daemon/         *)
(* service.go, terminal_gate.go; internal/appserver/normalize.go,           *)
(* live_event.go).                                                          *)
(*                                                                          *)
(* The poll loop, the live event loop, the hot poll of a turn that came     *)
(* from Telegram, /stop and an input each read the thread from the App      *)
(* Server, pass what they read through the terminal gate and store it, all  *)
(* without a common lock: an older reading may be stored last.  The gate    *)
(* holds an interruption of a Telegram turn back until it was asked for, is *)
(* withdrawn, or its grace is over.                                         *)
(***************************************************************************)
EXTENDS Naturals, Sequences

CONSTANTS
    Scripts         \* bound: what the App Server reports of the thread, one
                    \* report after the other, and the workers that there are

Phases == {"running", "done", "stopped"}
Workers == {"poll", "live", "hot", "stop", "input"}

ASSUME WatchAssumption ==
    \A s \in Scripts :
        /\ s.workers \subseteq Workers /\ s.bound \in BOOLEAN /\ s.origin \subseteq Nat \ {0}
        /\ s.reports # <<>>
        /\ s.reports \in Seq([turn : Nat \ {0}, phase : Phases, tool : Nat,
                              by : {"codex", "stop", "input"}])

VARIABLES
    script,         \* what happens in this run
    at,             \* the report that ThreadRead gives now
    heard,          \* live events handled or lost; there is one per report
    snap,           \* thread_snapshots
    threadRow,      \* threads: active turn, a live status, updated_at
    grace,          \* turn_terminal.defer_empty_interrupted, per turn
    explicit,       \* turns with turn_terminal.explicit_interrupt
    origin,         \* turns marked as coming from Telegram
    hot,            \* the turn that the hot poll follows
    worker,         \* what each goroutine has read and does next
    graced,         \* history: turns whose grace ended once
    early,          \* history: turns whose interruption passed before a mark
    turnedAway      \* history: an input was refused though nothing ran

stores == <<snap, threadRow, grace, explicit, origin>>
watchVars == <<script, at, heard, stores, hot, worker, graced, early, turnedAway>>

-----------------------------------------------------------------------------
(* Reports and snapshots                                                    *)

Report(i) == script.reports[i]
LastReport == Len(script.reports)
Running(i) == Report(i).phase = "running"
Turns == {Report(i).turn : i \in 1 .. LastReport}
terminal(p) == p \in {"done", "stopped"}

\* Tool calls of a turn are numbered 1, 2, ...: 2n - 1 while call n goes on, 2n
\* when it is over, 0 before the first.
ToolId(tool) == (tool + 1) \div 2
ToolOver(tool) == tool > 0 /\ tool % 2 = 0

NoSnap == [turn |-> 0, phase |-> "stopped", tool |-> 0, live |-> FALSE, ver |-> 0]
NoRow == [active |-> 0, live |-> FALSE, ver |-> 0]
AtRest == [pc |-> "rests", rep |-> 1, snap |-> NoSnap, row |-> NoRow, turn |-> 0]
ComesNext(by) == at < LastReport /\ Report(at + 1).by = by

\* ThreadFromPayload and mergeThreadMetadata: only a turn in progress names
\* itself, and an idle thread keeps the turn of the row it is merged with.
MergedRow(i, fallback) ==
    [active |-> IF Running(i) THEN Report(i).turn ELSE fallback.active,
     live |-> Running(i), ver |-> i]

threadLooksActiveForPolling(r) == r.active # 0 \/ r.live

WatchInit ==
    /\ script \in Scripts /\ at = 1 /\ heard = 0
    /\ snap = NoSnap /\ threadRow = NoRow
    /\ grace = [t \in Turns |-> "none"]
    /\ explicit = {} /\ origin = script.origin /\ hot = 0
    /\ worker = [w \in Workers |-> AtRest]
    /\ graced = {} /\ early = {} /\ turnedAway = FALSE

-----------------------------------------------------------------------------
(* The surroundings                                                         *)

\* The App Server goes on, and its event joins the live channel.
ThreadProceeds ==
    /\ ComesNext("codex")
    /\ at' = at + 1
    /\ UNCHANGED <<script, heard, stores, hot, worker, graced, early, turnedAway>>

\* The session is rebuilt; its events are lost.
LosesEvents ==
    /\ heard < at /\ worker["live"].pc = "rests"
    /\ heard' = at
    /\ UNCHANGED <<script, at, stores, hot, worker, graced, early, turnedAway>>

\* Ninety seconds since the interruption was seen first.
GraceEnds ==
    /\ \E t \in Turns :
          /\ grace[t] = "waiting"
          /\ grace' = [grace EXCEPT ![t] = "over"]
          /\ graced' = graced \cup {t}
    /\ UNCHANGED <<script, at, heard, snap, threadRow, explicit, origin, hot, worker, early, turnedAway>>

\* The index refresh lists the threads without their turns.
syncThreads ==
    /\ threadRow' = [threadRow EXCEPT !.live = Running(at), !.ver = at]
    /\ UNCHANGED <<script, at, heard, snap, grace, explicit, origin, hot, worker, graced, early, turnedAway>>

\* telegramOriginHotPollMax.
HotPollStops ==
    /\ hot # 0 /\ worker["hot"].pc = "rests"
    /\ hot' = 0
    /\ UNCHANGED <<script, at, heard, stores, worker, graced, early, turnedAway>>

-----------------------------------------------------------------------------
(* Reading                                                                  *)

threadHasDeferredEmptyInterrupted ==
    \E t \in Turns \cap {threadRow.active, snap.turn} : grace[t] = "waiting"

\* trackedThreads.
Tracked ==
    \/ script.bound
    \/ threadLooksActiveForPolling(threadRow)
    \/ threadRow.ver > snap.ver
    \/ threadHasDeferredEmptyInterrupted

\* What makes a goroutine begin.
WorkBegins(w) ==
    /\ w \in script.workers /\ worker[w].pc = "rests"
    /\ \/ w = "poll" /\ Tracked
       \/ w = "live" /\ heard < at
       \/ w = "hot" /\ hot # 0
       \/ w \in {"stop", "input"} /\ worker[w].turn = 0

\* ThreadRead; pollTracked took the row before.
ReadsThread(w) ==
    /\ WorkBegins(w) \/ worker[w].pc = "reads"
    /\ worker' = [worker EXCEPT ![w].pc = "gate", ![w].rep = at,
                                ![w].row = IF w = "poll" THEN threadRow ELSE NoRow]
    /\ heard' = IF w = "live" THEN heard + 1 ELSE heard
    /\ UNCHANGED <<script, at, stores, hot, graced, early, turnedAway>>

\* preserveTelegramOriginLiveCurrentTool: the reading lags behind the tool call
\* that a live event announced.
PreservesTool(r, prev) ==
    /\ r.phase = "running" /\ r.turn = prev.turn /\ r.turn \in origin
    /\ prev.live /\ prev.phase = "running"
    /\ \/ r.tool = 0
       \/ ToolId(r.tool) = ToolId(prev.tool) /\ ~ToolOver(r.tool)
       \/ ToolId(r.tool) < ToolId(prev.tool)

\* CompactSnapshot.
Compact(i, prev) ==
    LET r == Report(i)
        keeps == PreservesTool(r, prev)
    IN  [turn |-> r.turn, phase |-> r.phase, ver |-> i, live |-> keeps,
         tool |-> IF keeps THEN prev.tool ELSE r.tool]

-----------------------------------------------------------------------------
(* The terminal gate                                                        *)

\* Mutant of LoadedDefer: every sight of the interruption is its first.
NeverLoaded(t) == "none"

LoadedDefer(t) == grace[t]

\* Mutant of HeldBack: an interruption that was seen before is taken.
HeldBackOnce(r) ==
    /\ r.phase = "stopped" /\ r.turn \notin explicit
    /\ r.turn \in origin /\ LoadedDefer(r.turn) = "none"

\* decideTelegramOriginEmptyInterruptedTerminal: an interruption of a turn of
\* Telegram that nobody asked for, within its grace.
HeldBack(r) ==
    /\ r.phase = "stopped" /\ r.turn \notin explicit
    /\ r.turn \in origin /\ LoadedDefer(r.turn) # "over"

Settled(r) == r.phase # "stopped" \/ r.turn \in explicit

\* applyTelegramOriginTerminalGate: what is held back leaves the snapshot that
\* is found now to be written again; what passes is merged with it.
Gate(w) ==
    LET i == worker[w].rep
        r == Report(i)
        fallback == IF w = "poll" THEN worker[w].row ELSE threadRow
        rep == IF w = "input" THEN i ELSE 1
    IN  /\ worker[w].pc = "gate"
        /\ \/ /\ HeldBack(r)
              /\ grace' = [grace EXCEPT ![r.turn] = "waiting"]
              /\ worker' = [worker EXCEPT ![w].pc = "keep", ![w].rep = rep, ![w].snap = snap, ![w].row = threadRow]
              /\ UNCHANGED early
           \/ /\ ~HeldBack(r)
              /\ grace' = IF Settled(r) THEN [grace EXCEPT ![r.turn] = "none"] ELSE grace
              /\ worker' = [worker EXCEPT ![w].pc = "store", ![w].rep = rep, ![w].snap = Compact(i, snap),
                                          ![w].row = MergedRow(i, fallback)]
              /\ early' = IF r.phase = "stopped" /\ r.turn \notin origin
                          THEN early \cup {r.turn} ELSE early
        /\ UNCHANGED <<script, at, heard, snap, threadRow, explicit, origin, hot, graced, turnedAway>>

-----------------------------------------------------------------------------
(* Storing                                                                  *)

\* The event that the live loop handles: it names a tool call or it does not.
Event == Report(heard)

\* Where a goroutine goes with a stored reading.
Follows(w) ==
    CASE w = "live" /\ Event.tool > 0 /\ Event.phase = "running" -> "load"
      [] w = "stop" -> "decide"
      [] w = "input" /\ worker[w].turn = 0 -> "steer"
      [] w = "input" /\ worker[w].turn # 0 -> "seed"
      [] OTHER -> "rests"

\* The hot poll ends with its turn.
HotAfter(w, s) ==
    IF w = "hot" /\ (s.turn # hot \/ terminal(s.phase)) THEN 0 ELSE hot

GoesOn(w, pc) ==
    worker' = [worker EXCEPT ![w] = IF pc = "rests" THEN AtRest
                                    ELSE [@ EXCEPT !.pc = pc, !.snap = NoSnap]]

\* A reading that was held back writes the old snapshot, and not the row.
Stores(w) ==
    /\ worker[w].pc \in {"keep", "store"}
    /\ snap' = worker[w].snap /\ hot' = HotAfter(w, snap')
    /\ threadRow' = IF worker[w].pc = "keep" THEN threadRow ELSE worker[w].row
    /\ GoesOn(w, Follows(w))
    /\ UNCHANGED <<script, at, heard, grace, explicit, origin, graced, early, turnedAway>>

\* applyLiveToolSnapshot loads the snapshot ...
LoadsForTool ==
    /\ worker["live"].pc = "load"
    /\ worker' = [worker EXCEPT !["live"].pc = "merge", !["live"].snap = snap]
    /\ UNCHANGED <<script, at, heard, stores, hot, graced, early, turnedAway>>

\* ... and takes the tool call unless the snapshot is further on.
ToolIsNews(e, s) ==
    /\ s.turn \notin {0, e.turn} => terminal(s.phase) /\ e.turn > s.turn
    /\ s.turn = e.turn =>
          /\ s.phase # "done"
          /\ ToolId(e.tool) >= ToolId(s.tool)
          /\ ~(ToolId(e.tool) = ToolId(s.tool) /\ ToolOver(s.tool) /\ ~ToolOver(e.tool))

MergesTool ==
    /\ worker["live"].pc = "merge"
    /\ IF ToolIsNews(Event, worker["live"].snap)
       THEN /\ snap' = [worker["live"].snap EXCEPT !.turn = Event.turn, !.phase = "running",
                            !.tool = Event.tool, !.live = ~ToolOver(Event.tool)]
            /\ threadRow' = [threadRow EXCEPT !.active = Event.turn, !.live = TRUE]
       ELSE UNCHANGED <<snap, threadRow>>
    /\ GoesOn("live", "rests")
    /\ UNCHANGED <<script, at, heard, grace, explicit, origin, hot, graced, early, turnedAway>>

-----------------------------------------------------------------------------
(* /stop                                                                    *)

WorkerRests(w, t) == worker' = [worker EXCEPT ![w] = [AtRest EXCEPT !.turn = t]]

\* interruptTurn asks for the end of the turn that the refreshed row names,
\* unless the snapshot says that it is over; the mark follows the call.
Interrupts ==
    LET t == worker["stop"].row.active
        goes == ~terminal(snap.phase) /\ t # 0
        accepted == goes /\ Running(at) /\ Report(at).turn = t
    IN  /\ worker["stop"].pc = "decide"
        /\ \/ /\ accepted /\ ComesNext("stop")
              /\ at' = at + 1
              /\ worker' = [worker EXCEPT !["stop"].pc = "mark", !["stop"].turn = t]
           \/ /\ ~(accepted /\ ComesNext("stop"))
              /\ UNCHANGED at
              /\ WorkerRests("stop", 1)
        /\ UNCHANGED <<script, heard, stores, hot, graced, early, turnedAway>>

markTelegramOriginExplicitInterrupt ==
    /\ worker["stop"].pc = "mark"
    /\ explicit' = explicit \cup {worker["stop"].turn}
    /\ WorkerRests("stop", 1)
    /\ UNCHANGED <<script, at, heard, snap, threadRow, grace, origin, hot, graced, early, turnedAway>>

-----------------------------------------------------------------------------
(* Input: sendInputToThreadTurnInputs                                       *)

InputVars == <<script, heard, snap, threadRow, grace, explicit, hot, graced, early>>
InputGoes(pc, t) == worker' = [worker EXCEPT !["input"].pc = pc, !["input"].turn = t]

\* While it was handled from report i on, a turn ran, or counted as running
\* because its interruption was held back.
CountsAsBusy(i) ==
    \/ \E k \in i .. at : Running(k)
    \/ Report(i).phase = "stopped" /\ Report(i).turn \in origin

\* The refreshed row names an active turn: the input is steered into it.  The
\* App Server says which turn is active instead, that none is, or fails.
SteersTurn ==
    LET t == worker["input"].row.active
        now == Report(at)
    IN  /\ worker["input"].pc = "steer"
        /\ \/ /\ t # 0 /\ Running(at) /\ now.turn = t
              /\ InputGoes("origin", t)
              /\ UNCHANGED turnedAway
           \/ /\ t # 0 /\ Running(at) /\ now.turn # t
              /\ worker' = [worker EXCEPT !["input"].row = [@ EXCEPT !.active = now.turn, !.live = TRUE]]
              /\ UNCHANGED turnedAway
           \/ /\ t # 0 /\ ~Running(at)
              /\ InputGoes("start", 0)
              /\ UNCHANGED turnedAway
           \/ /\ t # 0
              /\ WorkerRests("input", 1)
              /\ UNCHANGED turnedAway
           \/ /\ t = 0 /\ worker["input"].row.live
              /\ turnedAway' = (turnedAway \/ ~CountsAsBusy(worker["input"].rep))
              /\ WorkerRests("input", 1)
           \/ /\ t = 0 /\ ~worker["input"].row.live
              /\ InputGoes("start", 0)
              /\ UNCHANGED turnedAway
        /\ UNCHANGED <<InputVars, at, origin>>

\* TurnStart; it fails when there is nothing to start in this run.
StartsTurn ==
    /\ worker["input"].pc = "start"
    /\ \/ /\ ComesNext("input")
          /\ at' = at + 1
          /\ InputGoes("origin", Report(at + 1).turn)
       \/ /\ ~ComesNext("input")
          /\ UNCHANGED at
          /\ WorkerRests("input", 1)
    /\ UNCHANGED <<InputVars, origin, turnedAway>>

\* The turn is marked, and the thread read again.
MarksOrigin ==
    /\ worker["input"].pc = "origin"
    /\ origin' = origin \cup {worker["input"].turn}
    /\ InputGoes("reads", worker["input"].turn)
    /\ UNCHANGED <<InputVars, at, turnedAway>>

\* ensureStartedTurnSnapshot, then startTelegramOriginHotPoll.
Seeds ==
    LET t == worker["input"].turn
    IN  /\ worker["input"].pc = "seed"
        /\ IF snap.turn = t THEN UNCHANGED <<snap, threadRow>>
           ELSE /\ snap' = [NoSnap EXCEPT !.turn = t, !.phase = "running", !.ver = worker["input"].row.ver]
                /\ threadRow' = [worker["input"].row EXCEPT !.active = t, !.live = TRUE]
        /\ hot' = IF "hot" \in script.workers THEN t ELSE 0
        /\ WorkerRests("input", t)
        /\ UNCHANGED <<script, at, heard, grace, explicit, origin, graced, early, turnedAway>>

-----------------------------------------------------------------------------
(* Specification                                                            *)

WorkerWorks(w) == ReadsThread(w) \/ Gate(w) \/ Stores(w)

WatchNext ==
    \/ ThreadProceeds \/ LosesEvents \/ GraceEnds \/ syncThreads \/ HotPollStops
    \/ \E w \in Workers : WorkerWorks(w)
    \/ LoadsForTool \/ MergesTool
    \/ Interrupts \/ markTelegramOriginExplicitInterrupt
    \/ SteersTurn \/ StartsTurn \/ MarksOrigin \/ Seeds

WatchSpec == WatchInit /\ [][WatchNext]_watchVars

\* The tickers of the poll, of the hot poll and of the index refresh go on, a
\* goroutine that has begun ends, and time passes.  Nothing is asked of the
\* App Server, the operator or the event channel.
WatchFairness ==
    /\ \A w \in Workers : WF_watchVars(WorkerWorks(w))
    /\ WF_watchVars(LoadsForTool \/ MergesTool)
    /\ WF_watchVars(Interrupts \/ markTelegramOriginExplicitInterrupt)
    /\ WF_watchVars(SteersTurn \/ StartsTurn \/ MarksOrigin \/ Seeds)
    /\ WF_watchVars(GraceEnds) /\ WF_watchVars(syncThreads)

WatchFairSpec == WatchSpec /\ WatchFairness

-----------------------------------------------------------------------------
(* Properties                                                               *)

WatchTypeOK ==
    /\ script \in Scripts /\ at \in 1 .. LastReport /\ heard \in 0 .. at
    /\ snap.turn \in Turns \cup {0} /\ snap.phase \in Phases /\ snap.ver \in 0 .. at
    /\ threadRow.active \in Turns \cup {0} /\ threadRow.ver \in 0 .. at
    /\ grace \in [Turns -> {"none", "waiting", "over"}]
    /\ explicit \subseteq Turns /\ origin \subseteq Nat /\ hot \in Turns \cup {0}

\* The snapshot comes to say of the latest turn what the App Server says of it
\* last, and stays with that: after readings stored in the wrong order, lost and
\* late live events, and an interruption that was held back
\* (trackedThreads, applyTelegramOriginTerminalGate, applyLiveToolSnapshot).
Settles == <>[](snap.turn = Report(at).turn /\ snap.phase = Report(at).phase)

\* An interruption of a turn of Telegram is shown only when somebody asked for
\* it, its grace ended, or it was taken before the turn was marked: one that the
\* App Server withdraws in time is never shown, whoever read it and whenever it
\* is stored (decideTelegramOriginEmptyInterruptedTerminal).
StopIsMeant ==
    snap.phase = "stopped" /\ snap.turn \in origin =>
        snap.turn \in explicit \cup graced \cup early

\* Unless steering fails, an input is refused as busy only when a turn ran while it
\* was handled, or its interruption is held back: a stale row does not keep input
\* out (steerFailureMeansNoActiveTurn, threadLooksActiveForInput).
RefusedOnlyWhenBusy == ~turnedAway

\* Neither what is shown nor what is done with input rests on a wrong idea of
\* whether the turn goes on, however readings, events and input interleave.
TurnsAreReadRight == StopIsMeant /\ RefusedOnlyWhenBusy
=============================================================================
