---------------------------- MODULE AutomationRun ----------------------------
(***************************************************************************)
(* Scheduled tasks of the daemon (internal/daemon/automations.go): the tick *)
(* that claims a due occurrence and starts a hidden thread for it, and the  *)
(* observers that turn snapshots of hidden threads into the run state and    *)
(* into one push.  One task: the run states of two tasks have nothing in     *)
(* common.  A hidden thread has one turn, so that the thread stands for it.  *)
(***************************************************************************)
EXTENDS PushService, FiniteSets

CONSTANTS
  Observers,   \* goroutines that sync snapshots: poll loop, live events, hot polls
  Scheduler,   \* automationLoop
  Outcomes,    \* the states a turn may report when it stops running
  MaxSlot,     \* bound: last occurrence of the task
  MaxThread,   \* bound: hidden threads ever started
  MaxCrashes   \* bound: restarts of the daemon

Slots == 1..MaxSlot
Threads == 1..MaxThread
Phases == {"terminal", "needs_input", "start-failed"}
Reported == {"needs_input", "completed", "silent", "failed", "cancelled"}
RunKeys == [slot : 0..MaxSlot, thread : 0..MaxThread, phase : Phases]

ASSUME AutomationAssumption ==
  /\ MaxSlot \in Nat /\ MaxThread \in Nat
  /\ MaxCrashes \in Nat
  /\ Scheduler \in Callers /\ Observers \subseteq Callers
  /\ Scheduler \notin Observers
  /\ Outcomes \subseteq Reported
  /\ RunKeys \subseteq Keys

VARIABLES
  due,       \* the slot LatestDue computes now, 0 before the first one
  run,       \* the persisted automation.run state of the task
  hidden,    \* threads with a persisted automation.thread row
  turn,      \* turn[t]: status of t's turn in the App Server
  slotOf,    \* slotOf[t]: the occurrence t was started for, 0 when unused
  tick,      \* the scheduler goroutine, with its local claim
  obs,       \* obs[o]: the sync observer o is in the middle of
  overwritten, \* slots whose persisted claim an observer's save replaced
  crashes

history == <<slotOf, overwritten>>
vars == <<pushVars, due, run, hidden, turn, history, tick, obs, crashes>>

NoRun == [slot |-> 0, thread |-> 0, status |-> "none"]
NoTick == [pc |-> "idle", slot |-> 0, thread |-> 0]
NoSync == [pc |-> "idle", thread |-> 0, status |-> "none", loaded |-> NoRun,
           slot |-> 0]

RunStates ==
  [slot : 0..MaxSlot, thread : 0..MaxThread,
   status : Reported \cup {"none", "waiting", "starting", "running"}]

TypeOK ==
  /\ PushTypeOK
  /\ due \in 0..MaxSlot
  /\ run \in RunStates
  /\ hidden \subseteq Threads
  /\ turn \in [Threads -> Reported \cup {"none", "running"}]
  /\ slotOf \in [Threads -> 0..MaxSlot]
  /\ tick \in [pc : {"idle", "start", "register", "turn", "started", "failed",
                     "notify", "sending"},
               slot : 0..MaxSlot, thread : 0..MaxThread]
  /\ obs \in [Observers ->
               [pc : {"idle", "guard", "update", "save", "key", "push", "sending"},
                thread : 0..MaxThread, status : Reported \cup {"none"},
                loaded : RunStates, slot : 0..MaxSlot]]
  /\ overwritten \subseteq 0..MaxSlot
  /\ crashes \in Nat

Init ==
  /\ PushInit
  /\ due = 0
  /\ run = NoRun
  /\ hidden = {}
  /\ turn = [t \in Threads |-> "none"]
  /\ slotOf = [t \in Threads |-> 0] /\ overwritten = {}
  /\ tick = NoTick
  /\ obs = [o \in Observers |-> NoSync]
  /\ crashes = 0

-----------------------------------------------------------------------------
(* runAutomationTick and startAutomationTurn, under automationMu.           *)

\* The live session and the push target are looked at once per tick; either may be
\* missing at any time.  A due occurrence that cannot run yet is not claimed:
\* saveAutomationWaitingState replaces the whole run state by one without slot,
\* thread and turn.  Mutant: it keeps the slot that waits.
TickWaitsClaiming ==
  /\ tick.pc = "idle" /\ due > run.slot
  /\ run' = [slot |-> due, thread |-> 0, status |-> "waiting"]
  /\ UNCHANGED <<pushVars, due, hidden, turn, history, tick, obs, crashes>>

TickWaits ==
  /\ tick.pc = "idle" /\ due > run.slot
  /\ run' = [NoRun EXCEPT !.status = "waiting"]
  /\ UNCHANGED <<pushVars, due, hidden, turn, history, tick, obs, crashes>>

\* The claim is persisted before any work.  Mutant: it is only kept in memory.
TickClaimsInMemory ==
  /\ tick.pc = "idle" /\ due > run.slot
  /\ tick' = [pc |-> "start", slot |-> due, thread |-> 0]
  /\ UNCHANGED <<pushVars, due, run, hidden, turn, history, obs, crashes>>

\* Mutant: the slot after the due one is claimed.
TickClaimsNext ==
  /\ tick.pc = "idle" /\ due > run.slot
  /\ run' = [slot |-> due + 1, thread |-> 0, status |-> "starting"]
  /\ tick' = [pc |-> "start", slot |-> due, thread |-> 0]
  /\ UNCHANGED <<pushVars, due, hidden, turn, history, obs, crashes>>

TickClaims ==
  /\ tick.pc = "idle" /\ due > run.slot
  /\ run' = [slot |-> due, thread |-> 0, status |-> "starting"]
  /\ tick' = [pc |-> "start", slot |-> due, thread |-> 0]
  /\ UNCHANGED <<pushVars, due, hidden, turn, history, obs, crashes>>

\* ThreadStart on the live session captured after the claim.  Mutant: the turn is
\* started before the thread is recorded.
StartUnrecorded(t) ==
  /\ tick.pc = "start"
  /\ slotOf[t] = 0 /\ \A u \in Threads : u < t => slotOf[u] # 0
  /\ slotOf' = [slotOf EXCEPT ![t] = tick.slot]
  /\ turn' = [turn EXCEPT ![t] = "running"]
  /\ tick' = [tick EXCEPT !.pc = "register", !.thread = t]
  /\ UNCHANGED <<pushVars, due, run, hidden, overwritten, obs, crashes>>

StartThread(t) ==
  /\ tick.pc = "start"
  /\ slotOf[t] = 0 /\ \A u \in Threads : u < t => slotOf[u] # 0
  /\ slotOf' = [slotOf EXCEPT ![t] = tick.slot]
  /\ tick' = [tick EXCEPT !.pc = "register", !.thread = t]
  /\ UNCHANGED <<pushVars, due, run, hidden, turn, overwritten, obs, crashes>>

\* The session went away after the claim, or ThreadStart failed.
StartThreadFails ==
  /\ tick.pc = "start"
  /\ tick' = [tick EXCEPT !.pc = "failed"]
  /\ UNCHANGED <<pushVars, due, run, hidden, turn, history, obs, crashes>>

\* The thread is recorded as an execution thread of the task.
RegisterThread ==
  /\ tick.pc = "register"
  /\ hidden' = hidden \cup {tick.thread}
  /\ tick' = [tick EXCEPT !.pc = "turn"]
  /\ UNCHANGED <<pushVars, due, run, turn, history, obs, crashes>>

\* TurnStart; a call that fails may have started the turn all the same.
StartTurn ==
  /\ tick.pc = "turn"
  /\ \/ /\ turn' = [turn EXCEPT ![tick.thread] = "running"]
        /\ tick' \in {[tick EXCEPT !.pc = "started"], [tick EXCEPT !.pc = "failed"]}
     \/ tick' = [tick EXCEPT !.pc = "failed"] /\ UNCHANGED turn
  /\ UNCHANGED <<pushVars, due, run, hidden, history, obs, crashes>>

SaveRunning ==
  /\ tick.pc = "started"
  /\ run' = [slot |-> tick.slot, thread |-> tick.thread, status |-> "running"]
  /\ tick' = NoTick
  /\ UNCHANGED <<pushVars, due, hidden, turn, history, obs, crashes>>

SaveFailed ==
  /\ tick.pc = "failed"
  /\ run' = [slot |-> tick.slot, thread |-> tick.thread, status |-> "failed"]
  /\ tick' = [tick EXCEPT !.pc = "notify"]
  /\ UNCHANGED <<pushVars, due, hidden, turn, history, obs, crashes>>

\* notifyAutomationStartFailure.
FailureKey == [slot |-> tick.slot, thread |-> 0, phase |-> "start-failed"]

NotifyFailure ==
  /\ tick.pc = "notify"
  /\ \/ Claim(Scheduler, FailureKey) /\ tick' = [tick EXCEPT !.pc = "sending"]
     \/ pushing = Nobody /\ tick' = NoTick /\ UNCHANGED pushVars
  /\ UNCHANGED <<due, run, hidden, turn, history, obs, crashes>>

-----------------------------------------------------------------------------
(* Observers: syncAutomationPush for a snapshot of a hidden thread.  The     *)
(* scheduler calls it too, right after TurnStart.                           *)

Foreign(r, o) == r.thread # 0 /\ r.thread # obs[o].thread

Phase(status) == IF status = "needs_input" THEN "needs_input" ELSE "terminal"
KeyOf(o) == [slot |-> obs[o].slot, thread |-> obs[o].thread,
             phase |-> Phase(obs[o].status)]

\* The sync of a turn that is still running changes nothing.
ReadSnapshot(o, t) ==
  /\ obs[o].pc = "idle" /\ t \in hidden /\ turn[t] \in Reported
  /\ obs' = [obs EXCEPT ![o] = [NoSync EXCEPT !.pc = "guard", !.thread = t,
                                              !.status = turn[t]]]
  /\ UNCHANGED <<pushVars, due, run, hidden, turn, history, tick, crashes>>

\* Snapshots of an older occurrence change nothing; an interrupted turn of the
\* current run may be deferred by the terminal gate.
Guard(o) ==
  /\ obs[o].pc = "guard"
  /\ \/ ~Foreign(run, o) /\ obs' = [obs EXCEPT ![o].pc = "update"]
     \/ /\ Foreign(run, o) \/ (obs[o].status = "cancelled" /\ run.thread # 0)
        /\ obs' = [obs EXCEPT ![o] = NoSync]
  /\ UNCHANGED <<pushVars, due, run, hidden, turn, history, tick, crashes>>

\* updateAutomationRunFromSnapshot loads the run state again, and goes back
\* without a save when it belongs to another thread by now.
LoadRun(o) ==
  /\ obs[o].pc = "update"
  /\ obs' = [obs EXCEPT ![o] = IF Foreign(run, o) THEN [@ EXCEPT !.pc = "key"]
                               ELSE [@ EXCEPT !.pc = "save", !.loaded = run]]
  /\ UNCHANGED <<pushVars, due, run, hidden, turn, history, tick, crashes>>

\* It saves the loaded state with the new status, whatever was saved meanwhile.
SaveRun(o) ==
  /\ obs[o].pc = "save"
  /\ run' = [obs[o].loaded EXCEPT !.thread = obs[o].thread, !.status = obs[o].status]
  /\ overwritten' = IF obs[o].loaded.slot # run.slot
                    THEN overwritten \cup {run.slot} ELSE overwritten
  /\ obs' = [obs EXCEPT ![o].pc = "key", ![o].loaded = NoRun]
  /\ UNCHANGED <<pushVars, due, hidden, turn, slotOf, tick, crashes>>

\* A deleted task, failed_runs_only or DONT_NOTIFY keep a result silent;
\* otherwise the run state is loaded once more for the idempotency key.  Mutant:
\* the result is not looked at.
ComposeEveryKey(o) ==
  /\ obs[o].pc = "key"
  /\ obs' = [obs EXCEPT ![o].pc = "push", ![o].slot = run.slot]
  /\ UNCHANGED <<pushVars, due, run, hidden, turn, history, tick, crashes>>

ComposeKey(o) ==
  /\ obs[o].pc = "key"
  /\ \/ /\ obs[o].status # "silent"
        /\ obs' = [obs EXCEPT ![o].pc = "push", ![o].slot = run.slot]
     \/ obs' = [obs EXCEPT ![o] = NoSync]
  /\ UNCHANGED <<pushVars, due, run, hidden, turn, history, tick, crashes>>

Publish(o) ==
  /\ obs[o].pc = "push"
  /\ \/ Claim(o, KeyOf(o)) /\ obs' = [obs EXCEPT ![o].pc = "sending"]
     \/ pushing = Nobody /\ obs' = [obs EXCEPT ![o] = NoSync] /\ UNCHANGED pushVars
  /\ UNCHANGED <<due, run, hidden, turn, history, tick, crashes>>

\* The holder of pushMu sends; its caller goes on when the lock is released.
Send ==
  \/ Deliver /\ UNCHANGED <<tick, obs>>
  \/ /\ WriteReceipt \/ Abandon
     /\ tick' = IF pushing.by = Scheduler THEN NoTick ELSE tick
     /\ obs'  = [o \in Observers |-> IF pushing.by = o THEN NoSync ELSE obs[o]]

SendStep == Send /\ UNCHANGED <<due, run, hidden, turn, history, crashes>>

-----------------------------------------------------------------------------
(* The clock, the operator, the App Server and restarts.                     *)

NextSlotIsDue ==
  /\ due < MaxSlot
  /\ due' = due + 1
  /\ UNCHANGED <<pushVars, run, hidden, turn, history, tick, obs, crashes>>

TurnMoves(t) ==
  /\ turn[t] \in {"running", "needs_input"}
  /\ \E status \in Outcomes \cup {"running"} : turn' = [turn EXCEPT ![t] = status]
  /\ UNCHANGED <<pushVars, due, run, hidden, history, tick, obs, crashes>>

\* A restart takes every goroutine, and the App Server with its turns.  Mutant: the
\* receipts are not persistent.
CrashForgetsReceipts ==
  /\ crashes < MaxCrashes
  /\ crashes' = crashes + 1
  /\ receipts' = {} /\ pushing' = Nobody /\ UNCHANGED sent
  /\ tick' = NoTick /\ obs' = [o \in Observers |-> NoSync]
  /\ UNCHANGED <<due, run, hidden, turn, history>>

Crash ==
  /\ crashes < MaxCrashes
  /\ crashes' = crashes + 1
  /\ Abandon \/ (pushing = Nobody /\ UNCHANGED pushVars)
  /\ tick' = NoTick /\ obs' = [o \in Observers |-> NoSync]
  /\ turn' = [t \in Threads |-> IF turn[t] \in {"running", "needs_input"}
                                THEN "cancelled" ELSE turn[t]]
  /\ UNCHANGED <<due, run, hidden, history>>

TickProgress ==
  \/ TickClaims
  \/ StartThreadFails \/ RegisterThread \/ StartTurn
  \/ SaveRunning \/ SaveFailed \/ NotifyFailure
  \/ \E t \in Threads : StartThread(t)

ObserverStep(o) ==
  \/ Guard(o) \/ LoadRun(o) \/ SaveRun(o) \/ ComposeKey(o) \/ Publish(o)
  \/ \E t \in Threads : ReadSnapshot(o, t)

Environment ==
  \/ NextSlotIsDue \/ Crash
  \/ \E t \in Threads : TurnMoves(t)

Next ==
  \/ TickWaits \/ TickProgress \/ SendStep \/ Environment
  \/ \E o \in Observers : ObserverStep(o)

Spec == Init /\ [][Next]_vars

\* The 15-second tick keeps running and does not find the session or the target
\* missing for ever; every delivery has a deadline, so that pushMu is released.
FairSpec == Spec /\ WF_vars(TickProgress) /\ WF_vars(SendStep)

-----------------------------------------------------------------------------
(* Properties.                                                              *)

\* ADR-023: one task and slot starts at most once, across restarts, outages and
\* failed starts.  The exception is a slot whose claim was overwritten by the
\* load-modify-save of an observer, which does not take automationMu.
StartedOnce ==
  \A t, u \in Threads :
    t # u /\ slotOf[t] # 0 /\ slotOf[t] = slotOf[u] => slotOf[t] \in overwritten

\* failed_runs_only and DONT_NOTIFY: the result of a silent run is never pushed,
\* whichever observer sees it first and under whatever slot.
SilentStaysSilent ==
  \A k \in RunKeys : sent[k] > 0 /\ k.phase = "terminal" => turn[k.thread] # "silent"

\* ADR-023: scheduled threads stay out of Home and the other surfaces, which leave out
\* the threads with an automation.thread row.  The row is written after ThreadStart, so
\* that a restart in between loses it: at most one thread for each restart, and an empty
\* one, whatever fails.  No prompt is ever run on a thread that is listed.
Strays == {t \in Threads : /\ slotOf[t] # 0 /\ t \notin hidden
                           /\ ~(tick.pc = "register" /\ tick.thread = t)}

StraysAreEmpty ==
  /\ Cardinality(Strays) <= crashes
  /\ \A t \in Threads \ hidden : turn[t] = "none"

\* ADR-023: an occurrence that is due while the session or the target is missing
\* stays unclaimed and is retried, until it is claimed or superseded by the next.
DueIsClaimed ==
  \A s \in Slots : due = s ~> (run.slot >= s /\ run.status # "waiting") \/ due > s

\* Whatever the scheduler and its observers do, they use the push service as it
\* promises: PushSpec (above all OncePerKey) holds of the composed system.
ImplementsPush == PushSpec

\* automations.go: one occurrence gets one terminal push.
OneTerminalPush ==
  \A k1, k2 \in RunKeys :
    /\ k1.thread = k2.thread /\ k1.phase = "terminal" /\ k2.phase = "terminal"
    /\ sent[k1] > 0 /\ sent[k2] > 0
    => k1 = k2
=============================================================================
