---------------------------- MODULE WriterSession ----------------------------
(***************************************************************************)
(* The live App Server session of the daemon and the writers it holds      *)
(* (internal/daemon/service.go, thread_admin.go, automations.go).          *)
(*                                                                         *)
(* Session operations (repair, release, archive recycling, attach, bind)   *)
(* hold sessionMu; Telegram input, interrupts and scheduled dispatches do  *)
(* not: they capture s.live once under s.mu and go on using that client    *)
(* across several App Server calls.  A Session instance stands for the     *)
(* client pointer together with its liveGeneration.                        *)
(***************************************************************************)
EXTENDS Naturals, FiniteSets

CONSTANTS
  Threads,        \* conversations known to the store
  Scheduled,      \* the threads that scheduled tasks will create
  NewChats,       \* the threads that new chats and new projects will create
  Workers,        \* goroutines that act for Telegram or for the scheduler
  Jobs,           \* Jobs[w]: what worker w may be asked to do
  MaxInstance,    \* bound: Session instances the factories ever make
  MaxCrashes,     \* bound: deaths of the live App Server process
  MaxRepairs,     \* bound: repair commands of the operator
  IdleTimeout,    \* telegramWriterIdleTimeout, in ticks of the clock
  IdleRetry,      \* telegramWriterIdleRetry
  RequestTimeout  \* RequestTimeout: the deadline of a job's calls

JobNames == {"input", "newchat", "interrupt", "bind", "automation", "release", "archive"}

ASSUME ConstantsAssumption ==
  /\ Scheduled \subseteq Threads /\ NewChats \subseteq Threads \ Scheduled
  /\ Jobs \in [Workers -> SUBSET JobNames]
  /\ MaxInstance \in Nat \ {0}
  /\ MaxCrashes \in Nat
  /\ MaxRepairs \in Nat
  /\ IdleTimeout \in Nat
  /\ IdleRetry \in Nat
  /\ RequestTimeout \in Nat
  /\ RequestTimeout < IdleTimeout

VARIABLES
  live,        \* s.live: the current Session instance
  connected,   \* s.liveConnected
  owned,       \* s.liveOwnedThreads
  releasing,   \* s.liveReleasing
  quiet,       \* age of s.writerLastActivity; NoActivity for the zero time
  sinceTry,    \* age of s.writerAutoReleaseAttempt; IdleRetry for the zero time
  decision,    \* the idle loop's decision to release, and whether the activity
               \* time it captured is still the one recorded
  released,    \* threads with the persisted writer.telegram.released marker
  bound,       \* threads some chat is bound to
  archived,    \* threads whose archive was confirmed to the operator
  repairReq,   \* the persisted control.repair_request is set
  ctl,         \* the control loop
  op,          \* the holder of sessionMu and its progress
  worker,      \* worker[w]: the job worker w is in the middle of
  events,      \* instances with a transport event waiting for their loop
  handling,    \* instances whose loop passed the staleness check
  proc,        \* proc[i]: the App Server process of instance i
  loaded,      \* loaded[i]: threads resumed or started on instance i
  turn,        \* turn[t]: the instance on which t's turn runs, 0 when none
  crashes, repairs

session   == <<live, connected, owned, releasing>>
clocks    == <<quiet, sinceTry, decision>>
routing   == <<released, bound, archived>>
control   == <<repairReq, ctl, events, handling>>
appserver == <<proc, loaded, turn>>
bounds    == <<crashes, repairs>>
vars == <<session, clocks, routing, control, op, worker, appserver, bounds>>

Instances == 1..MaxInstance
NoActivity == IdleTimeout + 1
NoOp   == [kind |-> "none", step |-> "free", inst |-> 0,
           snap |-> {}, todo |-> {}, target |-> {}]
NoWork == [pc |-> "idle", job |-> "none", on |-> {}, inst |-> 0, age |-> 0]

OpKinds == {"none", "manual", "auto", "archive", "repair"}
OpSteps == {"free", "verify", "mark", "swap", "close", "connect", "archive"}
PCs == {"idle", "capture", "resume", "mark", "unmark", "turn",
        "acquire", "admin", "archived"}

TypeOK ==
  /\ live \in Instances
  /\ connected \in BOOLEAN
  /\ owned \subseteq Threads
  /\ releasing \in BOOLEAN
  /\ quiet \in 0..NoActivity
  /\ sinceTry \in 0..IdleRetry
  /\ decision \in {"none", "current", "outdated"}
  /\ released \subseteq Threads
  /\ bound \subseteq Threads
  /\ archived \subseteq Threads
  /\ repairReq \in BOOLEAN
  /\ ctl \in {"idle", "repair", "boot"}
  /\ op \in [kind : OpKinds, step : OpSteps, inst : Nat, snap : SUBSET Threads,
             todo : SUBSET Threads, target : SUBSET Threads]
  /\ op.kind = "none" <=> op = NoOp
  /\ worker \in [Workers -> [pc : PCs, job : JobNames \cup {"none"},
                             on : SUBSET Threads, inst : Nat,
                             age : 0..RequestTimeout]]
  /\ \A w \in Workers : worker[w].pc = "idle" <=> worker[w] = NoWork
  /\ events \subseteq Instances
  /\ handling \subseteq Instances
  /\ proc \in [Instances -> {"new", "up", "dead", "closed"}]
  /\ loaded \in [Instances -> SUBSET Threads]
  /\ turn \in [Threads -> Nat]
  /\ crashes \in Nat /\ repairs \in Nat

Init ==
  /\ live = 1 /\ connected = FALSE /\ owned = {} /\ releasing = FALSE
  /\ quiet = NoActivity /\ sinceTry = IdleRetry /\ decision = "none"
  /\ released = {} /\ bound \in SUBSET (Threads \ (Scheduled \cup NewChats)) /\ archived = {}
  /\ repairReq = FALSE /\ ctl = "idle"
  /\ op = NoOp
  /\ worker = [w \in Workers |-> NoWork]
  /\ events = {} /\ handling = {}
  /\ proc = [i \in Instances |-> "new"]
  /\ loaded = [i \in Instances |-> {}]
  /\ turn = [t \in Threads |-> 0]
  /\ crashes = 0 /\ repairs = 0

-----------------------------------------------------------------------------
(* Helpers shared by the operations.                                        *)

SessionFree == op.kind = "none"

\* Any write to writerLastActivity invalidates the time the idle loop captured.
Outdate == decision' = IF decision = "none" THEN "none" ELSE "outdated"

\* touchTelegramWriterActivity and the tail of markLiveThreadOwned.
Touch == quiet' = 0 /\ sinceTry' = IdleRetry /\ Outdate

\* client.Start and the bookkeeping of ensureLiveSessionLocked, for a session
\* that is not connected; a failed Start leaves everything as it was.
StartLive ==
  \/ /\ proc[live] = "new"
     /\ proc' = [proc EXCEPT ![live] = "up"]
     /\ connected' = TRUE
  \/ UNCHANGED <<proc, connected>>

\* A failed write to a dead process is broadcast as a transport_error event.
FailedCall(i) ==
  events' = IF proc[i] = "dead" THEN events \cup {i} ELSE events

\* Replacing s.live by a fresh instance of the factory, and dropping all
\* ownership with it.
SwapLive ==
  /\ live' = live + 1
  /\ connected' = FALSE
  /\ owned' = {}
  /\ quiet' = NoActivity /\ sinceTry' = IdleRetry /\ Outdate

\* The turns an App Server process takes with it when it goes.
TurnsWithout(i) == [t \in Threads |-> IF turn[t] = i THEN 0 ELSE turn[t]]

-----------------------------------------------------------------------------
(* Session operations: the holder of sessionMu.                             *)

\* reconcileSessions.
Reconcile ==
  /\ SessionFree /\ ctl = "idle" /\ ~repairReq /\ ~connected
  /\ StartLive
  /\ UNCHANGED <<live, owned, releasing, clocks, routing, control, op, worker,
                 loaded, turn, bounds>>

\* attachTracked, one bound thread at a time.  Mutant: the marker is not looked at.
AttachEveryBound(t) ==
  /\ SessionFree /\ connected /\ proc[live] = "up"
  /\ t \in bound \ owned
  /\ loaded' = [loaded EXCEPT ![live] = @ \cup {t}]
  /\ owned' = owned \cup {t}
  /\ Touch
  /\ UNCHANGED <<live, connected, releasing, routing, control, op, worker, proc, turn,
                 bounds>>

AttachTracked(t) ==
  /\ SessionFree /\ connected
  /\ t \in bound \ (released \cup owned)
  /\ \/ /\ proc[live] = "up"
        /\ loaded' = [loaded EXCEPT ![live] = @ \cup {t}]
        /\ owned' = owned \cup {t}
        /\ Touch
        /\ UNCHANGED events
     \/ FailedCall(live) /\ UNCHANGED <<loaded, owned, clocks>>
  /\ UNCHANGED <<live, connected, releasing, routing, repairReq,
                 ctl, handling, op, worker, proc, turn, bounds>>

\* The control loop reads repair_request; repairSessions swaps the session.
RepairSwap ==
  /\ ctl = "idle" /\ repairReq /\ SessionFree /\ live < MaxInstance
  /\ SwapLive
  /\ releasing' = FALSE
  /\ ctl' = "repair"
  /\ op' = [NoOp EXCEPT !.kind = "repair", !.step = "close", !.inst = live]
  /\ UNCHANGED <<routing, repairReq, events, handling, worker,
                 appserver, bounds>>

\* Closing the replaced client kills its process and every turn on it.  Mutant: the
\* new session is connected without closing the old one.
NeverCloseOld ==
  /\ op.step = "close"
  /\ op' = [op EXCEPT !.step = "connect"]
  /\ UNCHANGED <<session, clocks, routing, control, worker, appserver, bounds>>

CloseOld ==
  /\ op.step = "close"
  /\ proc' = [proc EXCEPT ![op.inst] = "closed"]
  /\ turn' = TurnsWithout(op.inst)
  /\ op' = [op EXCEPT !.step = "connect"]
  /\ UNCHANGED <<session, clocks, routing, control, worker, loaded, bounds>>

\* ensureLiveSessionLocked on the new client; archive goes on when it is up.
\* Mutant: an archive whose fresh session did not start closes and starts it again.
ConnectAgain ==
  /\ op.step = "connect"
  /\ StartLive
  /\ IF op.kind = "archive"
     THEN /\ op' = [op EXCEPT !.step = IF connected' THEN "archive" ELSE "close"]
          /\ UNCHANGED <<releasing, ctl>>
     ELSE /\ op' = NoOp
          /\ releasing' = FALSE
          /\ ctl' = IF op.kind = "repair" THEN "boot" ELSE ctl
  /\ UNCHANGED <<live, owned, clocks, routing, repairReq, events, handling, worker,
                 loaded, turn, bounds>>

ConnectNew ==
  /\ op.step = "connect"
  /\ StartLive
  /\ IF op.kind = "archive" /\ connected'
     THEN op' = [op EXCEPT !.step = "archive"] /\ UNCHANGED <<releasing, ctl>>
     ELSE /\ op' = NoOp
          /\ releasing' = FALSE
          /\ ctl' = IF op.kind = "repair" THEN "boot" ELSE ctl
  /\ UNCHANGED <<live, owned, clocks, routing, repairReq, events, handling, worker,
                 loaded, turn, bounds>>

\* The control loop clears the request after repairSessions returned from
\* bootstrapTrackedState, whatever was requested in the meantime.
RepairClear ==
  /\ ctl = "boot"
  /\ ctl' = "idle" /\ repairReq' = FALSE
  /\ UNCHANGED <<session, clocks, routing, events, handling, op, worker,
                 appserver, bounds>>

\* autoReleaseTelegramWritersIfIdle: eligible after IdleTimeout of silence.
AutoCheck ==
  /\ decision = "none" /\ connected /\ ~releasing /\ owned # {}
  /\ quiet = IdleTimeout /\ sinceTry = IdleRetry
  /\ sinceTry' = 0 /\ decision' = "current"
  /\ UNCHANGED <<session, quiet, routing, control, op, worker, appserver, bounds>>

\* The idle guard of releaseTelegramWritersWithIdleGuard.  Mutant: it looks only at
\* the time the idle loop captured.
StaleIdleGuard == decision # "none"

StillIdle == decision = "current" /\ quiet = IdleTimeout

BeginRelease(kind) ==
  IF owned # {} /\ connected
  THEN /\ releasing' = TRUE
       /\ op' = [NoOp EXCEPT !.kind = kind, !.step = "verify", !.inst = live,
                             !.snap = owned, !.todo = owned]
  ELSE UNCHANGED <<releasing, op>>

AutoRelease ==
  /\ decision # "none" /\ SessionFree /\ live < MaxInstance
  /\ decision' = "none"
  /\ IF StillIdle THEN BeginRelease("auto") ELSE UNCHANGED <<releasing, op>>
  /\ UNCHANGED <<live, connected, owned, quiet, sinceTry, routing, control, worker,
                 appserver, bounds>>

\* thread/read of one snapshot thread: an idle answer lets the loop go on.
VerifyIdle(t) ==
  /\ op.step = "verify" /\ t \in op.todo
  /\ proc[op.inst] = "up" /\ turn[t] # op.inst
  /\ op' = [op EXCEPT !.todo = @ \ {t}]
  /\ UNCHANGED <<session, clocks, routing, control, worker, appserver, bounds>>

\* An active, waiting or unreadable thread aborts the operation.  Mutant: an active
\* thread is waited for.
VerifyWaits ==
  /\ op.step = "verify" /\ op.todo # {} /\ proc[op.inst] # "up"
  /\ op' = NoOp /\ releasing' = FALSE
  /\ FailedCall(op.inst)
  /\ UNCHANGED <<live, connected, owned, clocks, routing, repairReq, ctl, handling,
                 worker, appserver, bounds>>

VerifyBlocks ==
  /\ op.step = "verify" /\ op.todo # {}
  /\ op' = NoOp /\ releasing' = FALSE
  /\ FailedCall(op.inst)
  /\ UNCHANGED <<live, connected, owned, clocks, routing, repairReq, ctl, handling,
                 worker, appserver, bounds>>

\* Every thread was read: a release has markers to write, an archive has none.
VerifyEnds ==
  /\ op.step = "verify" /\ op.todo = {}
  /\ op' = IF op.kind = "archive" THEN [op EXCEPT !.step = "swap"]
           ELSE [op EXCEPT !.step = "mark", !.todo = op.snap]
  /\ UNCHANGED <<session, clocks, routing, control, worker, appserver, bounds>>

\* One marker per released thread, each a write of its own.
MarkReleased(t) ==
  /\ op.step = "mark" /\ t \in op.todo
  /\ released' = released \cup {t}
  /\ op' = [op EXCEPT !.todo = @ \ {t}]
  /\ UNCHANGED <<session, clocks, bound, archived, control, worker, appserver, bounds>>

\* A write that fails ends the release, with the markers that are there and the
\* session as it was.
MarkFails ==
  /\ op.step = "mark" /\ op.todo # {}
  /\ op' = NoOp /\ releasing' = FALSE
  /\ UNCHANGED <<live, connected, owned, clocks, routing, control, worker, appserver,
                 bounds>>

ReleaseSwap ==
  /\ op.step = "swap" \/ (op.step = "mark" /\ op.todo = {})
  /\ SwapLive
  /\ op' = [op EXCEPT !.step = "close"]
  /\ UNCHANGED <<releasing, routing, control, worker, appserver, bounds>>

\* ThreadArchive on the fresh session, then restoring the other writers: the
\* target is left out only when the archive succeeded.
ArchiveRestore ==
  /\ op.step = "archive"
  /\ \E ok \in BOOLEAN :
       LET candidates == IF ok THEN op.snap \ op.target ELSE op.snap
       IN \E restored \in SUBSET candidates :
            /\ (ok \/ restored # {}) => proc[live] = "up"
            /\ loaded' = [loaded EXCEPT ![live] = @ \cup restored]
            /\ owned' = owned \cup restored
            /\ IF restored # {} THEN Touch ELSE UNCHANGED clocks
            /\ worker' = [w \in Workers |->
                 IF ok /\ worker[w].pc = "admin"
                 THEN [worker[w] EXCEPT !.pc = "archived"] ELSE worker[w]]
  /\ op' = NoOp /\ releasing' = FALSE
  /\ UNCHANGED <<live, connected, routing, control, proc, turn, bounds>>

-----------------------------------------------------------------------------
(* Jobs of the workers.  Bot updates are handled one at a time; album       *)
(* flushes run on timers and scheduled dispatches on their own loop, so     *)
(* those overlap with every command of the bot.                             *)

Goto(w, pc) == worker' = [worker EXCEPT ![w].pc = pc]
LeaveJob(w) == Goto(w, "idle")   \* mutant of Done
Done(w)     == worker' = [worker EXCEPT ![w] = NoWork]
Subject(w, t) == worker[w].on = {t}

FreshThread(t) == \A i \in Instances : t \notin loaded[i]

\* A message, a button press or the due check of the scheduler: all of them
\* count as writer activity before they look at the session.
BeginJob(w, job, t) ==
  /\ worker[w].pc = "idle" /\ job \in Jobs[w]
  /\ CASE job = "automation" ->
            t \in Scheduled /\ FreshThread(t) /\ connected /\ ~releasing
       [] job = "newchat" -> t \in NewChats /\ FreshThread(t)
       [] OTHER -> t \notin Scheduled /\ (t \in NewChats => ~FreshThread(t))
  /\ job = "archive" => t \in bound /\ turn[t] = 0
  /\ Touch
  /\ worker' = [worker EXCEPT ![w] =
        [pc   |-> IF job \in {"input", "newchat", "interrupt", "automation"}
                  THEN "capture" ELSE "acquire",
         job  |-> job, on |-> {t}, inst |-> 0, age |-> 0]]
  /\ bound'    = IF job = "bind" THEN bound \cup {t} ELSE bound
  /\ released' = IF job = "bind" THEN released \ {t} ELSE released
  /\ UNCHANGED <<session, archived, control, op, appserver, bounds>>

\* The job reads s.live and s.liveConnected under s.mu; input to a thread and
\* scheduled dispatches also look at s.liveReleasing, interrupts and new chats do not.
Capture(w) ==
  /\ worker[w].pc = "capture"
  /\ IF connected /\ (worker[w].job \in {"interrupt", "newchat"} \/ ~releasing)
     THEN worker' = [worker EXCEPT ![w].pc = "resume", ![w].inst = live]
     ELSE Done(w)
  /\ UNCHANGED <<session, clocks, routing, control, op, appserver, bounds>>

\* ThreadResume (ThreadStart for a scheduled task or a new chat) on the captured
\* client.
Resume(w, t) ==
  /\ worker[w].pc = "resume" /\ Subject(w, t)
  /\ LET i == worker[w].inst
     IN \/ /\ proc[i] = "up"
           /\ loaded' = [loaded EXCEPT ![i] = @ \cup {t}]
           /\ Goto(w, "mark")
           /\ UNCHANGED events
        \/ /\ FailedCall(i)
           /\ IF worker[w].job = "interrupt" THEN Goto(w, "turn") ELSE Done(w)
           /\ UNCHANGED loaded
  /\ UNCHANGED <<session, clocks, routing, repairReq, ctl, handling, op, proc, turn,
                 bounds>>

\* markLiveThreadOwned: ownership is recorded for whatever session is current.
\* Mutant: only the activity is recorded.
TouchOnly(w, t) ==
  /\ worker[w].pc = "mark" /\ Subject(w, t)
  /\ Touch
  /\ worker' = [worker EXCEPT ![w].pc = "unmark", ![w].age = 0]
  /\ UNCHANGED <<session, routing, control, op, appserver, bounds>>

MarkOwned(w, t) ==
  /\ worker[w].pc = "mark" /\ Subject(w, t)
  /\ owned' = owned \cup {t}
  /\ Touch
  /\ worker' = [worker EXCEPT ![w].pc = "unmark", ![w].age = 0]
  /\ UNCHANGED <<live, connected, releasing, routing, control, op,
                 appserver, bounds>>

ClearMarker(w, t) ==
  /\ worker[w].pc = "unmark" /\ Subject(w, t)
  /\ released' = released \ {t}
  /\ Goto(w, "turn")
  /\ UNCHANGED <<session, clocks, bound, archived, control, op, appserver, bounds>>

\* Steering a running turn changes nothing here; otherwise TurnStart.  A new chat is
\* bound to its thread whether or not its first turn started.
StartTurn(w, t) ==
  /\ worker[w].pc = "turn" /\ Subject(w, t) /\ worker[w].job # "interrupt"
  /\ LET i == worker[w].inst
     IN \/ /\ proc[i] = "up" /\ t \in loaded[i]
           /\ turn' = IF turn[t] = 0 THEN [turn EXCEPT ![t] = i] ELSE turn
           /\ UNCHANGED events
        \/ FailedCall(i) /\ UNCHANGED turn
  /\ bound' = IF worker[w].job = "newchat" THEN bound \cup {t} ELSE bound
  /\ Done(w)
  /\ UNCHANGED <<session, clocks, released, archived, repairReq, ctl, handling, op, proc, loaded,
                 bounds>>

InterruptTurn(w, t) ==
  /\ worker[w].pc = "turn" /\ Subject(w, t) /\ worker[w].job = "interrupt"
  /\ LET i == worker[w].inst
     IN \/ /\ proc[i] = "up" /\ turn[t] = i
           /\ turn' = [turn EXCEPT ![t] = 0]
           /\ UNCHANGED events
        \/ FailedCall(i) /\ UNCHANGED turn
  /\ Done(w)
  /\ UNCHANGED <<session, clocks, routing, repairReq, ctl, handling, op, proc, loaded,
                 bounds>>

\* The locked part of bindThreadForTelegram.
BindAcquire(w, t) ==
  /\ worker[w].pc = "acquire" /\ Subject(w, t) /\ worker[w].job = "bind"
  /\ SessionFree
  /\ \/ /\ connected /\ t \notin owned /\ proc[live] = "up"
        /\ loaded' = [loaded EXCEPT ![live] = @ \cup {t}]
        /\ owned' = owned \cup {t}
        /\ Touch
        /\ UNCHANGED events
     \/ /\ IF connected /\ t \notin owned THEN FailedCall(live) ELSE UNCHANGED events
        /\ UNCHANGED <<loaded, owned, clocks>>
  /\ Done(w)
  /\ UNCHANGED <<live, connected, releasing, routing, repairReq, ctl,
                 handling, op, proc, turn, bounds>>

\* /release: releaseTelegramWriters without an idle guard.
ReleaseAcquire(w) ==
  /\ worker[w].pc = "acquire" /\ worker[w].job = "release"
  /\ SessionFree /\ live < MaxInstance
  /\ BeginRelease("manual")
  /\ Goto(w, "admin")
  /\ UNCHANGED <<live, connected, owned, clocks, routing, control, appserver, bounds>>

\* archiveLiveThread: the Windows build needs a fresh session for a thread that this
\* generation resumed, anything else is archived in place.
ArchiveAcquire(w, t) ==
  /\ worker[w].pc = "acquire" /\ worker[w].job = "archive" /\ Subject(w, t)
  /\ SessionFree
  /\ \/ ~connected /\ Done(w) /\ UNCHANGED <<releasing, op, events>>
     \/ /\ connected /\ t \in loaded[live] /\ live < MaxInstance
        /\ releasing' = TRUE
        /\ op' = [NoOp EXCEPT !.kind = "archive", !.step = "verify", !.inst = live,
                              !.snap = owned \cup {t}, !.todo = owned \cup {t},
                              !.target = {t}]
        /\ Goto(w, "admin")
        /\ UNCHANGED events
     \/ /\ connected
        /\ \/ proc[live] = "up" /\ Goto(w, "archived") /\ UNCHANGED events
           \/ FailedCall(live) /\ Done(w)
        /\ UNCHANGED <<releasing, op>>
  /\ UNCHANGED <<live, connected, owned, clocks, routing, repairReq, ctl, handling,
                 appserver, bounds>>

\* confirmArchiveThread after the archive: the routing state is dropped and the
\* writer is marked released, no lock held.
FinishArchive(w, t) ==
  /\ worker[w].pc = "archived" /\ Subject(w, t)
  /\ archived' = archived \cup {t} /\ bound' = bound \ {t}
  /\ owned' = owned \ {t} /\ released' = released \cup {t}
  /\ Done(w)
  /\ UNCHANGED <<live, connected, releasing, clocks, control, op, appserver, bounds>>

\* The bot handles its next update once its session operation is over.
AdminReturns(w) ==
  /\ worker[w].pc = "admin" /\ op.kind \notin {"manual", "archive"}
  /\ Done(w)
  /\ UNCHANGED <<session, clocks, routing, control, op, appserver, bounds>>

-----------------------------------------------------------------------------
(* The App Server, the live event loops, the operator and the clock.        *)

TurnCompletes(t) ==
  /\ turn[t] # 0
  /\ turn' = [turn EXCEPT ![t] = 0]
  /\ UNCHANGED <<session, clocks, routing, control, op, worker, proc, loaded, bounds>>

\* The live process dies; its reader broadcasts transport_closed.
ProcessDies ==
  /\ proc[live] = "up" /\ crashes < MaxCrashes
  /\ proc' = [proc EXCEPT ![live] = "dead"]
  /\ turn' = TurnsWithout(live)
  /\ events' = events \cup {live}
  /\ crashes' = crashes + 1
  /\ UNCHANGED <<session, clocks, routing, repairReq, ctl, handling, op, worker,
                 loaded, repairs>>

\* liveEventLoop receives the event and checks liveEventLoopCurrent; a stale
\* loop ends silently.  Mutant: events that arrive while writers are owned are taken
\* for those of a stale loop.
DropWhileOwned(i) ==
  /\ i \in events \ handling
  /\ events' = events \ {i}
  /\ handling' = IF i = live /\ connected /\ owned = {} THEN handling \cup {i}
                 ELSE handling
  /\ UNCHANGED <<session, clocks, routing, repairReq, ctl, op, worker, appserver, bounds>>

LoopReceives(i) ==
  /\ i \in events \ handling
  /\ events' = events \ {i}
  /\ handling' = IF i = live /\ connected THEN handling \cup {i} ELSE handling
  /\ UNCHANGED <<session, clocks, routing, repairReq, ctl, op, worker, appserver, bounds>>

\* handleLiveEvent for a transport event: noteSessionError requests a repair.
LoopHandles(i) ==
  /\ i \in handling
  /\ handling' = handling \ {i} /\ repairReq' = TRUE
  /\ UNCHANGED <<session, clocks, routing, ctl, events, op, worker, appserver, bounds>>

OperatorRepair ==
  /\ repairs < MaxRepairs
  /\ repairs' = repairs + 1 /\ repairReq' = TRUE
  /\ UNCHANGED <<session, clocks, routing, ctl, events, handling, op, worker,
                 appserver, crashes>>

\* Every call of a job carries a deadline, so a job that does not wait for
\* sessionMu ends in time.
InTime(w) == worker[w].pc \in {"capture", "resume", "mark", "unmark", "turn"}

Older(age, limit) == IF age < limit THEN age + 1 ELSE age

Tick ==
  /\ \A w \in Workers : InTime(w) => worker[w].age < RequestTimeout
  /\ quiet' = IF quiet = NoActivity THEN quiet ELSE Older(quiet, IdleTimeout)
  /\ sinceTry' = Older(sinceTry, IdleRetry)
  /\ worker' = [w \in Workers |-> IF InTime(w)
                                  THEN [worker[w] EXCEPT !.age = @ + 1] ELSE worker[w]]
  /\ <<quiet, sinceTry, worker>>' # <<quiet, sinceTry, worker>>
  /\ UNCHANGED <<session, decision, routing, control, op, appserver, bounds>>

\* The control loop, the holder of sessionMu, the attach loop and the idle loop.
ControlLoop == RepairSwap \/ RepairClear

HolderStep ==
  \/ CloseOld \/ ConnectNew \/ VerifyBlocks \/ VerifyEnds \/ MarkFails \/ ReleaseSwap
  \/ ArchiveRestore
  \/ \E t \in Threads : VerifyIdle(t) \/ MarkReleased(t)

AttachLoop == Reconcile \/ \E t \in Threads : AttachTracked(t)

SessionStep == ControlLoop \/ HolderStep \/ AttachLoop \/ AutoCheck \/ AutoRelease

WorkerStep(w) ==
  \/ Capture(w) \/ ReleaseAcquire(w) \/ AdminReturns(w)
  \/ \E t \in Threads :
       \/ Resume(w, t) \/ MarkOwned(w, t) \/ ClearMarker(w, t)
       \/ StartTurn(w, t) \/ InterruptTurn(w, t)
       \/ BindAcquire(w, t) \/ ArchiveAcquire(w, t) \/ FinishArchive(w, t)

LoopStep(i) == LoopReceives(i) \/ LoopHandles(i)

Environment ==
  \/ ProcessDies \/ OperatorRepair \/ Tick
  \/ \E t \in Threads : TurnCompletes(t)
  \/ \E w \in Workers, job \in JobNames, t \in Threads : BeginJob(w, job, t)

Next ==
  \/ SessionStep
  \/ \E w \in Workers : WorkerStep(w)
  \/ \E i \in Instances : LoopStep(i)
  \/ Environment

Spec == Init /\ [][Next]_vars

\* The goroutines of the daemon keep being scheduled, and the loops that wait for
\* sessionMu get it in the end: sync.Mutex hands the lock over to its oldest
\* waiter.  Nothing is assumed of users, crashes, turns or the clock.
Fairness ==
  /\ SF_vars(ControlLoop) /\ SF_vars(AttachLoop)
  /\ WF_vars(HolderStep) /\ \A w \in Workers : WF_vars(WorkerStep(w))
  /\ \A i \in Instances : WF_vars(LoopStep(i))

FairSpec == Spec /\ Fairness

-----------------------------------------------------------------------------
(* Properties.                                                              *)

\* A release or an archive only reads the threads recorded as owned before it
\* kills the session, so every running turn of the current session must belong
\* to an owned thread (archived threads have left Telegram's hands).
TurnsOnLiveAreOwned ==
  \A t \in Threads : turn[t] = live => t \in owned \cup archived

\* The automatic release never closes a session on which a turn is running,
\* although input and scheduled dispatches do not take sessionMu: the activity
\* they record before they capture the session cancels the idle decision, and they
\* are turned away once the release has begun.  New chats are not, see below.
AutoReleaseSparesTurns ==
  op.kind = "auto" /\ op.step = "close" =>
    \A t \in Threads \ NewChats : turn[t] = op.inst => t \in archived

\* ADR-020: a thread the operator released stays released.  No background step
\* acquires its writer again, only a job about that very thread does; an archive
\* merely gives back what the session held before it was recycled.
ReleaseSticks ==
  [][\A t \in released \ owned : t \in owned' =>
       \/ \E w \in Workers : Subject(w, t) /\ worker[w].pc \in {"mark", "acquire"}
       \/ op.kind = "archive" /\ t \in op.snap]_vars

\* The daemon has one live App Server process at a time: the old one is gone
\* before the next one starts.
OneAppServer ==
  Cardinality({i \in Instances : proc[i] \in {"up", "dead"}}) <= 1

\* Why sessionMu comes free (next property): whatever jobs, crashes and other loops do,
\* its holder only goes forward.  It never reads a thread or writes a marker a second
\* time, starts a stage again, or hands the lock on to another operation.
Stages == <<"verify", "mark", "swap", "close", "connect", "archive">>

HolderGoesForward ==
  [][op.kind # "none" /\ op' # op =>
       \/ op' = NoOp
       \/ /\ op'.kind = op.kind /\ op'.inst = op.inst
          /\ \/ op'.step = op.step /\ op'.todo \subseteq op.todo
             \/ \E i, j \in 1 .. 6 : i < j /\ op.step = Stages[i] /\ op'.step = Stages[j]]_vars

\* sessionMu is never held for ever.
SessionLockIsReleased == op.kind # "none" ~> op.kind = "none"

\* The death of the live App Server is repaired without anybody's help, when the
\* control loop is not in the middle of a repair as the event arrives.
CrashIsRepaired ==
  proc[live] = "dead" /\ live \in events /\ connected /\ ctl = "idle"
    /\ live < MaxInstance
  ~> proc[live] # "dead"

\* success-metrics.md: a repair request recreates the sessions.  A dead session
\* is replaced, whenever it died.
DeadSessionIsReplaced ==
  proc[live] = "dead" /\ live < MaxInstance ~> proc[live] # "dead"

\* ADR-020: release fails closed when a recorded thread is active.
ReleaseSparesTurns ==
  op.kind = "manual" /\ op.step = "close" =>
    \A t \in Threads : turn[t] # op.inst
\* ADR-020: there is no automatic release in active-turn states.  The first turn of
\* a new chat is not cut off by the release of idle writers.
AutoReleaseSparesNewChats ==
  op.kind = "auto" /\ op.step = "close" => \A t \in NewChats : turn[t] # op.inst
=============================================================================
