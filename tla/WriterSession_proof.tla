------------------------- MODULE WriterSession_proof -------------------------
(* Theorems about the live session, for any numbers of threads, workers,    *)
(* sessions, crashes and repairs, and for any time limits.                  *)
EXTENDS WriterSession, FiniteSetTheorems, TLAPS

Ops == [kind : OpKinds, step : OpSteps, inst : Nat, snap : SUBSET Threads,
        todo : SUBSET Threads, target : SUBSET Threads]
Work == [pc : PCs, job : JobNames \cup {"none"}, on : SUBSET Threads, inst : Nat,
         age : 0..RequestTimeout]

\* What the holder of sessionMu knows: a release keeps its session until it swaps it,
\* and liveReleasing is set as long as it runs.
HolderShape ==
  /\ op.kind = "none" <=> op.step = "free"
  /\ op.step # "free" => op.inst \in Instances
  /\ op.step \in {"verify", "mark", "swap"} => op.inst = live /\ live < MaxInstance
  /\ op.step \in {"close", "connect", "archive"} => op.inst < live
  /\ op.step = "archive" => op.kind = "archive"
  /\ op.kind \in {"manual", "auto", "archive"} => releasing

HolderInv ==
  /\ op \in Ops /\ (op.kind = "none" <=> op = NoOp)
  /\ live \in Instances /\ owned \subseteq Threads
  /\ HolderShape

\* A job that goes on uses a session that was current once.
JobShape ==
  \A w \in Workers :
    /\ worker[w].pc \in {"resume", "mark", "unmark", "turn"} => worker[w].inst \in 1..live
    /\ worker[w].job = "newchat" => worker[w].on \subseteq NewChats

WorkInv ==
  /\ worker \in [Workers -> Work]
  /\ \A w \in Workers : worker[w].pc = "idle" <=> worker[w] = NoWork
  /\ JobShape

LEMMA IdleTypes == NoOp \in Ops /\ NoWork \in Work
BY ConstantsAssumption DEF NoOp, NoWork, Ops, Work, OpKinds, OpSteps, PCs, JobNames

-----------------------------------------------------------------------------
(* The holder of sessionMu.                                                  *)

LEMMA OwnedTypes == HolderInv /\ [Next]_vars => owned' \subseteq Threads
<1> SUFFICES ASSUME owned \subseteq Threads, op.snap \subseteq Threads, [Next]_vars
             PROVE owned' \subseteq Threads
  BY DEF HolderInv, Ops
<1>1. CASE AttachLoop
  BY <1>1 DEF AttachLoop, Reconcile, AttachTracked
<1>2. CASE HolderStep
  <2>1. CASE ArchiveRestore
    BY <2>1 DEF ArchiveRestore
  <2> QED
    BY <1>2, <2>1 DEF HolderStep, CloseOld, ConnectNew, VerifyBlocks, VerifyEnds,
       MarkReleased, MarkFails, ReleaseSwap, SwapLive, VerifyIdle, session
<1>3. CASE ControlLoop \/ AutoCheck \/ AutoRelease
  BY <1>3 DEF ControlLoop, RepairSwap, RepairClear, SwapLive, AutoCheck, AutoRelease,
     session
<1>4. ASSUME NEW w \in Workers, WorkerStep(w) PROVE owned' \subseteq Threads
  BY <1>4 DEF WorkerStep, Capture, ReleaseAcquire, AdminReturns, Resume, MarkOwned,
     ClearMarker, StartTurn, InterruptTurn, BindAcquire, ArchiveAcquire, FinishArchive,
     session
<1>5. CASE \E i \in Instances : LoopStep(i)
  BY <1>5 DEF LoopStep, LoopReceives, LoopHandles, session
<1>6. CASE Environment
  BY <1>6 DEF Environment, ProcessDies, OperatorRepair, Tick, TurnCompletes, BeginJob,
     session
<1>7. CASE UNCHANGED vars
  BY <1>7 DEF vars, session
<1> QED
  BY <1>1, <1>2, <1>3, <1>4, <1>5, <1>6, <1>7 DEF Next, SessionStep

\* A release or an archive begins, ...
LEMMA OpensHolder ==
  ASSUME HolderInv, SessionFree, live' = live, owned' \subseteq Threads,
         releasing' = TRUE, live < MaxInstance,
         NEW kind \in {"manual", "auto", "archive"},
         NEW S \in SUBSET Threads, NEW T \in SUBSET Threads,
         op' = [kind |-> kind, step |-> "verify", inst |-> live,
                snap |-> S, todo |-> S, target |-> T]
  PROVE  HolderInv'
<1>1. live \in Nat
  BY ConstantsAssumption DEF HolderInv, Instances
<1>2. op' \in Ops
  BY <1>1 DEF Ops, OpKinds, OpSteps
<1>3. (op.kind = "none" <=> op = NoOp)'
  BY DEF NoOp
<1>4. HolderShape'
  BY DEF HolderShape, HolderInv
<1> QED
  BY <1>2, <1>3, <1>4 DEF HolderInv

\* ... ends, ...
LEMMA ClosesHolder ==
  ASSUME HolderInv, live' = live, owned' \subseteq Threads, op' = NoOp
  PROVE  HolderInv'
BY IdleTypes DEF HolderInv, HolderShape, NoOp

\* ... is left alone, ...
LEMMA HolderStays ==
  ASSUME HolderInv, UNCHANGED <<op, live>>, owned' \subseteq Threads,
         releasing' = releasing \/ op = NoOp
  PROVE  HolderInv'
BY DEF HolderInv, HolderShape, NoOp

\* ... or goes on to its next stage; only the swap makes a new session.
LEMMA HolderMoves ==
  ASSUME HolderInv, owned' \subseteq Threads, op.step # "free",
         NEW s \in OpSteps \ {"free"}, NEW S \in SUBSET Threads,
         op' = [op EXCEPT !.step = s, !.todo = S], releasing' = releasing,
         \/ s = op.step /\ live' = live
         \/ op.step = "verify" /\ s = "swap" /\ live' = live
         \/ op.step = "verify" /\ s = "mark" /\ live' = live
         \/ op.step \in {"mark", "swap"} /\ s = "close" /\ live' = live + 1
         \/ op.step = "close" /\ s = "connect" /\ live' = live
         \/ op.step = "connect" /\ s = "archive" /\ op.kind = "archive" /\ live' = live
  PROVE  HolderInv'
<1>1. op \in Ops /\ op' = [op EXCEPT !.step = s, !.todo = S]
  BY DEF HolderInv
<1>2. /\ op' \in Ops /\ op'.step = s /\ op'.kind = op.kind /\ op'.inst = op.inst
  BY <1>1 DEF Ops
<1>3. op.kind # "none" /\ live' \in Instances
  BY ConstantsAssumption DEF HolderInv, HolderShape, Instances
<1>4. (op.kind = "none" <=> op = NoOp)'
  BY <1>2, <1>3 DEF NoOp
<1>5. HolderShape'
  BY <1>2, <1>3, ConstantsAssumption DEF HolderShape, HolderInv, Instances
<1> QED
  BY <1>2, <1>3, <1>4, <1>5 DEF HolderInv

\* The operations on the session keep what their holder knows.
LEMMA HolderNext == HolderInv /\ [Next]_vars => HolderInv'
<1> SUFFICES ASSUME HolderInv, [Next]_vars PROVE HolderInv'
  OBVIOUS
<1>0. /\ owned' \subseteq Threads /\ owned \subseteq Threads
      /\ op.todo \subseteq Threads
      /\ op.kind = "none" <=> op.step = "free"
      /\ op.step \in OpSteps
  BY OwnedTypes DEF HolderInv, Ops, HolderShape
<1>1. CASE RepairSwap
  <2>1. op' = [kind |-> "repair", step |-> "close", inst |-> live,
               snap |-> {}, todo |-> {}, target |-> {}]
    BY <1>1 DEF RepairSwap, NoOp
  <2>2. live' = live + 1 /\ live < MaxInstance
    BY <1>1 DEF RepairSwap, SwapLive
  <2> QED
    BY <1>0, <2>1, <2>2, ConstantsAssumption
       DEF HolderInv, HolderShape, Ops, OpKinds, OpSteps, NoOp, Instances
<1>2. CASE CloseOld
  <2>1. op' = [op EXCEPT !.step = "connect", !.todo = op.todo]
    BY <1>2 DEF CloseOld, HolderInv, Ops
  <2> QED
    BY <1>0, <1>2, <2>1, HolderMoves DEF CloseOld, OpSteps, session
<1>3. CASE ConnectNew
  <2>1. CASE op' = NoOp
    BY <1>0, <1>3, <2>1, ClosesHolder DEF ConnectNew
  <2>2. CASE /\ op.kind = "archive" /\ op' = [op EXCEPT !.step = "archive"]
             /\ releasing' = releasing
    <3>1. op' = [op EXCEPT !.step = "archive", !.todo = op.todo]
      BY <2>2 DEF HolderInv, Ops
    <3> QED
      BY <1>0, <1>3, <2>2, <3>1, HolderMoves DEF ConnectNew, OpSteps
  <2> QED
    BY <1>3, <2>1, <2>2 DEF ConnectNew
<1>4. CASE AutoRelease
  <2>1. CASE op' = op /\ releasing' = releasing
    BY <1>0, <1>4, <2>1, HolderStays DEF AutoRelease
  <2>2. CASE ~(op' = op /\ releasing' = releasing)
    <3>1. releasing' = TRUE /\ SessionFree /\ live' = live /\ live < MaxInstance
      BY <1>4, <2>2 DEF AutoRelease, BeginRelease
    <3>2. op' = [kind |-> "auto", step |-> "verify", inst |-> live,
                 snap |-> owned, todo |-> owned, target |-> {}]
      BY <1>4, <2>2 DEF AutoRelease, BeginRelease, NoOp
    <3> QED
      BY <1>0, <3>1, <3>2, OpensHolder
  <2> QED
    BY <2>1, <2>2
<1>5. ASSUME NEW t \in Threads, VerifyIdle(t) PROVE HolderInv'
  <2>1. op' = [op EXCEPT !.step = op.step, !.todo = op.todo \ {t}]
    BY <1>5 DEF VerifyIdle, HolderInv, Ops
  <2> QED
    BY <1>0, <1>5, <2>1, HolderMoves DEF VerifyIdle, session
<1>6. CASE VerifyBlocks \/ MarkFails
  BY <1>0, <1>6, ClosesHolder DEF VerifyBlocks, MarkFails
<1>7. CASE VerifyEnds
  <2>1. CASE op.kind = "archive"
    <3>1. op' = [op EXCEPT !.step = "swap", !.todo = op.todo]
      BY <1>7, <2>1 DEF VerifyEnds, HolderInv, Ops
    <3> QED
      BY <1>0, <1>7, <3>1, HolderMoves DEF VerifyEnds, OpSteps, session
  <2>2. CASE op.kind # "archive"
    <3>1. op.snap \subseteq Threads /\ op' = [op EXCEPT !.step = "mark", !.todo = op.snap]
      BY <1>7, <2>2 DEF VerifyEnds, HolderInv, Ops
    <3> QED
      BY <1>0, <1>7, <3>1, HolderMoves DEF VerifyEnds, OpSteps, session
  <2> QED
    BY <2>1, <2>2
<1>16. ASSUME NEW t \in Threads, MarkReleased(t) PROVE HolderInv'
  <2>1. op' = [op EXCEPT !.step = op.step, !.todo = op.todo \ {t}]
    BY <1>16 DEF MarkReleased, HolderInv, Ops
  <2> QED
    BY <1>0, <1>16, <2>1, HolderMoves DEF MarkReleased, session
<1>8. CASE ReleaseSwap
  <2>1. op' = [op EXCEPT !.step = "close", !.todo = op.todo]
    BY <1>8 DEF ReleaseSwap, HolderInv, Ops
  <2> QED
    BY <1>0, <1>8, <2>1, HolderMoves DEF ReleaseSwap, SwapLive, OpSteps
<1>9. CASE ArchiveRestore
  BY <1>0, <1>9, ClosesHolder DEF ArchiveRestore
<1>10. ASSUME NEW w \in Workers, ReleaseAcquire(w) PROVE HolderInv'
  <2>1. CASE op' = op /\ releasing' = releasing
    BY <1>0, <1>10, <2>1, HolderStays DEF ReleaseAcquire
  <2>2. CASE ~(op' = op /\ releasing' = releasing)
    <3>1. releasing' = TRUE /\ SessionFree /\ live' = live /\ live < MaxInstance
      BY <1>10, <2>2 DEF ReleaseAcquire, BeginRelease
    <3>2. op' = [kind |-> "manual", step |-> "verify", inst |-> live,
                 snap |-> owned, todo |-> owned, target |-> {}]
      BY <1>10, <2>2 DEF ReleaseAcquire, BeginRelease, NoOp
    <3> QED
      BY <1>0, <3>1, <3>2, OpensHolder
  <2> QED
    BY <2>1, <2>2
<1>11. ASSUME NEW w \in Workers, NEW t \in Threads, ArchiveAcquire(w, t) PROVE HolderInv'
  <2>1. CASE op' = op /\ releasing' = releasing
    BY <1>0, <1>11, <2>1, HolderStays DEF ArchiveAcquire
  <2>2. CASE ~(op' = op /\ releasing' = releasing)
    <3>1. releasing' = TRUE /\ SessionFree /\ live' = live /\ live < MaxInstance
      BY <1>11, <2>2 DEF ArchiveAcquire
    <3>2. op' = [kind |-> "archive", step |-> "verify", inst |-> live,
                 snap |-> owned \cup {t}, todo |-> owned \cup {t}, target |-> {t}]
      BY <1>11, <2>2 DEF ArchiveAcquire, NoOp
    <3> DEFINE snap == owned \cup {t}
    <3>3. op' = [kind |-> "archive", step |-> "verify", inst |-> live,
                 snap |-> snap, todo |-> snap, target |-> {t}]
      BY <3>2
    <3>4. snap \in SUBSET Threads /\ {t} \in SUBSET Threads
      BY <1>0
    <3> HIDE DEF snap
    <3> QED
      BY <1>0, <3>1, <3>3, <3>4, OpensHolder
  <2> QED
    BY <2>1, <2>2
<1>12. ASSUME NEW w \in Workers, WorkerStep(w), ~ReleaseAcquire(w),
              \A t \in Threads : ~ArchiveAcquire(w, t)
       PROVE  HolderInv'
  <2>1. UNCHANGED <<op, live, releasing>>
    BY <1>12 DEF WorkerStep, Capture, AdminReturns, Resume, MarkOwned, ClearMarker,
       StartTurn, InterruptTurn, BindAcquire, FinishArchive, session
  <2> QED
    BY <1>0, <2>1, HolderStays
<1>13. CASE AttachLoop \/ RepairClear \/ AutoCheck
  <2>1. UNCHANGED <<op, live, releasing>>
    BY <1>13 DEF AttachLoop, Reconcile, AttachTracked, RepairClear, AutoCheck, session
  <2> QED
    BY <1>0, <2>1, HolderStays
<1>14. CASE Environment \/ \E i \in Instances : LoopStep(i)
  <2>1. UNCHANGED <<op, live, releasing>>
    BY <1>14 DEF Environment, ProcessDies, OperatorRepair, Tick, TurnCompletes, BeginJob,
       LoopStep, LoopReceives, LoopHandles, session
  <2> QED
    BY <1>0, <2>1, HolderStays
<1>15. CASE UNCHANGED vars
  BY <1>0, <1>15, HolderStays DEF vars, session
<1> QED
  BY <1>1, <1>2, <1>3, <1>4, <1>5, <1>6, <1>7, <1>8, <1>9, <1>10, <1>11, <1>12, <1>13,
     <1>14, <1>15, <1>16 DEF Next, SessionStep, ControlLoop, HolderStep

\* s.live is only ever replaced by a fresh instance.
LEMMA LiveGrows == HolderInv /\ [Next]_vars => live' \in {live, live + 1}
<1> SUFFICES ASSUME HolderInv, [Next]_vars PROVE live' \in {live, live + 1}
  OBVIOUS
<1>1. CASE SessionStep
  BY <1>1 DEF SessionStep, ControlLoop, RepairSwap, RepairClear, HolderStep, CloseOld,
     ConnectNew, VerifyBlocks, VerifyEnds, MarkReleased, MarkFails, ReleaseSwap, ArchiveRestore, VerifyIdle,
     AttachLoop, Reconcile, AttachTracked, AutoCheck, AutoRelease, SwapLive, session
<1>2. ASSUME NEW w \in Workers, WorkerStep(w) PROVE live' = live
  BY <1>2 DEF WorkerStep, Capture, ReleaseAcquire, AdminReturns, Resume, MarkOwned,
     ClearMarker, StartTurn, InterruptTurn, BindAcquire, ArchiveAcquire, FinishArchive,
     session
<1>3. CASE (\E i \in Instances : LoopStep(i)) \/ Environment \/ UNCHANGED vars
  BY <1>3 DEF LoopStep, LoopReceives, LoopHandles, Environment, ProcessDies,
     OperatorRepair, Tick, TurnCompletes, BeginJob, session, vars
<1> QED
  BY <1>1, <1>2, <1>3 DEF Next

-----------------------------------------------------------------------------
(* The workers.                                                              *)

\* What WorkInv says of one worker's record.
GoodWork(x, l) ==
  /\ x \in Work
  /\ x.pc = "idle" <=> x = NoWork
  /\ x.pc \in {"resume", "mark", "unmark", "turn"} => x.inst \in 1..l
  /\ x.job = "newchat" => x.on \subseteq NewChats

LEMMA WorkIsGood ==
  WorkInv <=> /\ worker = [w \in Workers |-> worker[w]]
              /\ \A w \in Workers : GoodWork(worker[w], live)
BY DEF WorkInv, GoodWork, JobShape

LEMMA WorkAges ==
  ASSUME HolderInv, [Next]_vars, NEW x, GoodWork(x, live)
  PROVE  GoodWork(x, live')
BY LiveGrows, ConstantsAssumption DEF GoodWork, HolderInv, Instances

LEMMA GoodMove ==
  ASSUME NEW l \in Nat, NEW x, GoodWork(x, l), x.pc # "idle", NEW p \in PCs \ {"idle"},
         \/ p \notin {"resume", "mark", "unmark", "turn"}
         \/ x.pc \in {"resume", "mark", "unmark", "turn"},
         NEW a \in 0..RequestTimeout
  PROVE  GoodWork([x EXCEPT !.pc = p, !.age = a], l)
<1>1. /\ [x EXCEPT !.pc = p, !.age = a] \in Work
      /\ [x EXCEPT !.pc = p, !.age = a].pc = p
      /\ [x EXCEPT !.pc = p, !.age = a].inst = x.inst
      /\ [x EXCEPT !.pc = p, !.age = a].job = x.job
      /\ [x EXCEPT !.pc = p, !.age = a].on = x.on
  BY DEF GoodWork, Work
<1> QED
  BY <1>1 DEF GoodWork, NoWork

LEMMA GoodIdle == \A l : GoodWork(NoWork, l)
BY IdleTypes DEF GoodWork, NoWork

\* A step of one worker.
LEMMA WorkSet ==
  ASSUME HolderInv, WorkInv, [Next]_vars, NEW w \in Workers, NEW x, GoodWork(x, live'),
         worker' = [worker EXCEPT ![w] = x]
  PROVE  WorkInv'
<1>1. /\ worker' = [v \in Workers |-> worker'[v]]
      /\ \A v \in Workers : worker'[v] = IF v = w THEN x ELSE worker[v]
  BY DEF WorkInv
<1>2. \A v \in Workers : GoodWork(worker'[v], live')
  BY <1>1, WorkAges, WorkIsGood
<1> QED
  BY <1>1, <1>2 DEF WorkInv, GoodWork, JobShape

LEMMA WorkDone ==
  ASSUME HolderInv, WorkInv, [Next]_vars, NEW w \in Workers, Done(w)
  PROVE  WorkInv'
BY WorkSet, GoodIdle DEF Done

LEMMA WorkGoto ==
  ASSUME HolderInv, WorkInv, [Next]_vars, NEW w \in Workers, worker[w].pc # "idle",
         NEW p \in PCs \ {"idle"}, Goto(w, p),
         \/ p \notin {"resume", "mark", "unmark", "turn"}
         \/ worker[w].pc \in {"resume", "mark", "unmark", "turn"}
  PROVE  WorkInv'
<1> DEFINE x == [worker[w] EXCEPT !.pc = p, !.age = worker[w].age]
<1>1. GoodWork(worker[w], live) /\ worker[w].age \in 0..RequestTimeout /\ live \in Nat
  BY WorkIsGood, ConstantsAssumption DEF HolderInv, Instances, GoodWork, Work
<1>2. GoodWork(x, live)
  BY <1>1, GoodMove
<1>3. worker' = [worker EXCEPT ![w] = x]
  <2>1. x = [worker[w] EXCEPT !.pc = p]
    BY <1>1 DEF GoodWork, Work
  <2> QED
    BY <2>1 DEF Goto
<1> QED
  BY <1>2, <1>3, WorkSet, WorkAges

LEMMA WorkStays ==
  ASSUME HolderInv, WorkInv, [Next]_vars, UNCHANGED worker
  PROVE  WorkInv'
BY WorkIsGood, WorkAges DEF WorkInv, GoodWork, JobShape

\* The jobs keep their records well formed, whatever the holder does meanwhile.
LEMMA WorkNext == HolderInv /\ WorkInv /\ [Next]_vars => WorkInv'
<1> SUFFICES ASSUME HolderInv, WorkInv, [Next]_vars PROVE WorkInv'
  OBVIOUS
<1>1. CASE ArchiveRestore
  <2> DEFINE x(w) == [worker[w] EXCEPT !.pc = "archived", !.age = worker[w].age]
  <2>1. ASSUME NEW w \in Workers PROVE GoodWork(worker[w], live') /\ worker[w] \in Work
    BY WorkIsGood, WorkAges DEF GoodWork
  <2>2. ASSUME NEW w \in Workers, worker[w].pc = "admin"
        PROVE  GoodWork(x(w), live') /\ x(w) = [worker[w] EXCEPT !.pc = "archived"]
    <3>1. live' \in Nat
      BY HolderNext, ConstantsAssumption DEF HolderInv, Instances
    <3> QED
      BY <2>1, <2>2, <3>1, GoodMove DEF Work, PCs
  <2>3. PICK ok \in BOOLEAN : worker' = [w \in Workers |->
                 IF ok /\ worker[w].pc = "admin"
                 THEN [worker[w] EXCEPT !.pc = "archived"] ELSE worker[w]]
    BY <1>1 DEF ArchiveRestore
  <2> HIDE DEF x
  <2>4. \A w \in Workers : GoodWork(worker'[w], live')
    BY <2>1, <2>2, <2>3
  <2> QED
    BY <2>3, <2>4 DEF WorkInv, GoodWork, JobShape
<1>2. CASE SessionStep /\ ~ArchiveRestore
  <2>1. UNCHANGED worker
    BY <1>2 DEF SessionStep, ControlLoop, RepairSwap, RepairClear, HolderStep, CloseOld,
       ConnectNew, VerifyBlocks, VerifyEnds, MarkReleased, MarkFails, ReleaseSwap, VerifyIdle,
       AttachLoop, Reconcile, AttachTracked, AutoCheck, AutoRelease
  <2> QED
    BY <2>1, WorkStays
<1>3. ASSUME NEW w \in Workers, WorkerStep(w) PROVE WorkInv'
  <2>1. CASE Capture(w)
    <3>1. CASE Done(w)
      BY <3>1, WorkDone
    <3>2. CASE worker' = [worker EXCEPT ![w].pc = "resume", ![w].inst = live]
      <4> DEFINE x == [worker[w] EXCEPT !.pc = "resume", !.inst = live]
      <4>1. GoodWork(worker[w], live) /\ live \in Nat /\ live >= 1
        BY WorkIsGood, ConstantsAssumption DEF HolderInv, Instances
      <4>2. /\ x \in Work /\ x.pc = "resume" /\ x.inst = live
            /\ x.job = worker[w].job /\ x.on = worker[w].on
        BY <4>1 DEF GoodWork, Work, PCs
      <4>3. GoodWork(x, live)
        <5> HIDE DEF x
        <5> QED
          BY <4>1, <4>2 DEF GoodWork, NoWork
      <4> QED
        BY <3>2, <4>3, WorkSet, WorkAges
    <3> QED
      BY <2>1, <3>1, <3>2 DEF Capture
  <2>2. CASE ReleaseAcquire(w) \/ \E t \in Threads : ArchiveAcquire(w, t)
    <3>1. worker[w].pc = "acquire" /\ (Done(w) \/ Goto(w, "admin") \/ Goto(w, "archived"))
      BY <2>2 DEF ReleaseAcquire, ArchiveAcquire
    <3> QED
      BY <3>1, WorkDone, WorkGoto DEF PCs
  <2>3. CASE AdminReturns(w)
    BY <2>3, WorkDone DEF AdminReturns
  <2>4. ASSUME NEW t \in Threads, Resume(w, t) PROVE WorkInv'
    <3>1. worker[w].pc = "resume" /\ (Done(w) \/ Goto(w, "mark") \/ Goto(w, "turn"))
      BY <2>4 DEF Resume
    <3> QED
      BY <3>1, WorkDone, WorkGoto DEF PCs
  <2>5. ASSUME NEW t \in Threads, MarkOwned(w, t) PROVE WorkInv'
    <3> DEFINE x == [worker[w] EXCEPT !.pc = "unmark", !.age = 0]
    <3>1. GoodWork(worker[w], live) /\ live \in Nat /\ worker[w].pc = "mark"
      BY <2>5, WorkIsGood, ConstantsAssumption DEF HolderInv, Instances, MarkOwned
    <3>2. GoodWork(x, live)
      <4>1. 0 \in 0..RequestTimeout /\ "unmark" \in PCs \ {"idle"}
        BY ConstantsAssumption DEF PCs
      <4> QED
        BY <3>1, <4>1, GoodMove
    <3>3. worker' = [worker EXCEPT ![w] = x]
      BY <2>5 DEF MarkOwned
    <3> QED
      BY <3>2, <3>3, WorkSet, WorkAges
  <2>6. ASSUME NEW t \in Threads, ClearMarker(w, t) PROVE WorkInv'
    BY <2>6, WorkGoto DEF ClearMarker, PCs
  <2>7. CASE \E t \in Threads : StartTurn(w, t) \/ InterruptTurn(w, t) \/ BindAcquire(w, t)
                                \/ FinishArchive(w, t)
    <3>1. Done(w)
      BY <2>7 DEF StartTurn, InterruptTurn, BindAcquire, FinishArchive
    <3> QED
      BY <3>1, WorkDone
  <2> QED
    BY <1>3, <2>1, <2>2, <2>3, <2>4, <2>5, <2>6, <2>7 DEF WorkerStep
<1>4. ASSUME NEW w \in Workers, NEW job \in JobNames, NEW t \in Threads, BeginJob(w, job, t)
      PROVE  WorkInv'
  <2> DEFINE p == IF job \in {"input", "newchat", "interrupt", "automation"}
                  THEN "capture" ELSE "acquire"
             x == [pc |-> p, job |-> job, on |-> {t}, inst |-> 0, age |-> 0]
  <2>1. x \in Work
    BY ConstantsAssumption DEF Work, PCs
  <2>2. job = "newchat" => t \in NewChats
    BY <1>4 DEF BeginJob
  <2>3. GoodWork(x, live')
    BY <2>1, <2>2 DEF GoodWork, NoWork
  <2>4. worker' = [worker EXCEPT ![w] = x]
    BY <1>4 DEF BeginJob
  <2> QED
    BY <2>3, <2>4, WorkSet
<1>5. CASE Tick
  <2>1. ASSUME NEW w \in Workers
        PROVE  GoodWork(worker'[w], live')
    <3>1. GoodWork(worker[w], live) /\ live \in Nat
      BY WorkIsGood, ConstantsAssumption DEF HolderInv, Instances
    <3>2. CASE InTime(w)
      <4> DEFINE x == [worker[w] EXCEPT !.pc = worker[w].pc, !.age = worker[w].age + 1]
      <4>1. worker[w].age + 1 \in 0..RequestTimeout /\ worker[w].pc \in PCs \ {"idle"}
        BY <1>5, <3>1, <3>2, ConstantsAssumption DEF Tick, GoodWork, Work, InTime, PCs
      <4>2. worker'[w] = x
        BY <1>5, <3>1, <3>2 DEF Tick, GoodWork, Work
      <4>3. GoodWork(x, live)
        BY <3>1, <4>1, GoodMove
      <4> QED
        BY <4>2, <4>3, WorkAges
    <3>3. CASE ~InTime(w)
      <4>1. worker'[w] = worker[w]
        BY <1>5, <3>3 DEF Tick
      <4> QED
        BY <3>1, <4>1, WorkAges
    <3> QED
      BY <3>2, <3>3
  <2> QED
    BY <1>5, <2>1 DEF Tick, WorkInv, GoodWork, JobShape
<1>6. CASE ProcessDies \/ OperatorRepair \/ (\E t \in Threads : TurnCompletes(t))
           \/ (\E i \in Instances : LoopStep(i)) \/ UNCHANGED vars
  <2>1. UNCHANGED worker
    BY <1>6 DEF ProcessDies, OperatorRepair, TurnCompletes, LoopStep, LoopReceives,
       LoopHandles, vars
  <2> QED
    BY <2>1, WorkStays
<1> QED
  BY <1>1, <1>2, <1>3, <1>4, <1>5, <1>6 DEF Next, Environment

-----------------------------------------------------------------------------
(* Type correctness.                                                         *)

FlagTypes == connected \in BOOLEAN /\ releasing \in BOOLEAN /\ repairReq \in BOOLEAN

ClockTypes ==
  /\ ctl \in {"idle", "repair", "boot"}
  /\ decision \in {"none", "current", "outdated"}
  /\ quiet \in 0..NoActivity /\ sinceTry \in 0..IdleRetry
  /\ crashes \in Nat /\ repairs \in Nat

RoutingTypes ==
  released \subseteq Threads /\ bound \subseteq Threads /\ archived \subseteq Threads

ServerTypes ==
  /\ events \subseteq Instances /\ handling \subseteq Instances
  /\ proc \in [Instances -> {"new", "up", "dead", "closed"}]
  /\ loaded \in [Instances -> SUBSET Threads]
  /\ turn \in [Threads -> Nat]

TypeInv == HolderInv /\ WorkInv /\ FlagTypes /\ ClockTypes /\ RoutingTypes /\ ServerTypes

LEMMA TypesSplit == TypeInv => TypeOK
BY DEF TypeInv, HolderInv, WorkInv, FlagTypes, ClockTypes, RoutingTypes, ServerTypes,
   TypeOK, Ops,
   Work

LEMMA TypeInit == Init => TypeInv
<1> SUFFICES ASSUME Init PROVE TypeInv
  OBVIOUS
<1>1. HolderInv
  BY ConstantsAssumption, IdleTypes DEF Init, HolderInv, HolderShape, NoOp, Instances
<1>2. WorkInv
  BY IdleTypes DEF Init, WorkInv, JobShape, NoWork
<1>3. FlagTypes
  BY DEF Init, FlagTypes
<1>5. ClockTypes
  BY ConstantsAssumption DEF Init, ClockTypes, NoActivity
<1>4. RoutingTypes /\ ServerTypes
  BY DEF Init, RoutingTypes, ServerTypes
<1> QED
  BY <1>1, <1>2, <1>3, <1>4, <1>5 DEF TypeInv

LEMMA FlagNext == FlagTypes /\ [Next]_vars => FlagTypes'
<1> SUFFICES ASSUME FlagTypes, [Next]_vars PROVE FlagTypes'
  OBVIOUS
<1> USE DEF FlagTypes
<1>1. CASE SessionStep
  <2>1. CASE ControlLoop \/ AttachLoop \/ AutoCheck
    BY <2>1 DEF ControlLoop, RepairSwap, RepairClear, SwapLive, AttachLoop, Reconcile,
       AttachTracked, StartLive, AutoCheck, session, control
  <2>2. CASE AutoRelease
    BY <2>2 DEF AutoRelease, BeginRelease, control
  <2>3. CASE ConnectNew
    BY <2>3 DEF ConnectNew, StartLive
  <2>4. CASE ArchiveRestore \/ VerifyBlocks \/ MarkFails
    BY <2>4 DEF ArchiveRestore, VerifyBlocks, MarkFails, control
  <2> QED
    BY <1>1, <2>1, <2>2, <2>3, <2>4 DEF SessionStep, HolderStep, CloseOld, VerifyEnds, MarkReleased,
       ReleaseSwap, SwapLive, VerifyIdle, session, control
<1>2. ASSUME NEW w \in Workers, WorkerStep(w) PROVE FlagTypes'
  <2>1. CASE ReleaseAcquire(w)
    BY <2>1 DEF ReleaseAcquire, BeginRelease, control
  <2>2. ASSUME NEW t \in Threads, ArchiveAcquire(w, t) PROVE FlagTypes'
    BY <2>2 DEF ArchiveAcquire
  <2> QED
    BY <1>2, <2>1, <2>2 DEF WorkerStep, Capture, AdminReturns, Resume, MarkOwned,
       ClearMarker,
       StartTurn, InterruptTurn, BindAcquire, FinishArchive, session, control
<1>3. CASE Environment
  BY <1>3 DEF Environment, ProcessDies, OperatorRepair, Tick, TurnCompletes, BeginJob,
     session, control
<1>4. CASE (\E i \in Instances : LoopStep(i)) \/ UNCHANGED vars
  BY <1>4 DEF LoopStep, LoopReceives, LoopHandles, vars, session, control
<1> QED
  BY <1>1, <1>2, <1>3, <1>4 DEF Next

\* What a step does to the idle clock: it stays, is wound back, or runs on.
ClockMove ==
  \/ UNCHANGED <<quiet, sinceTry>>
  \/ quiet' \in {0, NoActivity} /\ sinceTry' = IdleRetry
  \/ quiet' = quiet /\ sinceTry' = 0
  \/ Tick

LEMMA ClockMoves ==
  [Next]_vars =>
    /\ ClockMove
    /\ decision' \in {decision, "none", "current", "outdated"}
    /\ ctl' \in {ctl, "idle", "repair", "boot"}
    /\ crashes' \in {crashes, crashes + 1} /\ repairs' \in {repairs, repairs + 1}
<1> SUFFICES ASSUME [Next]_vars
             PROVE  /\ ClockMove
                    /\ decision' \in {decision, "none", "current", "outdated"}
                    /\ ctl' \in {ctl, "idle", "repair", "boot"}
                    /\ crashes' \in {crashes, crashes + 1}
                    /\ repairs' \in {repairs, repairs + 1}
  OBVIOUS
<1> USE DEF ClockMove, clocks, control, bounds
<1>1. CASE SessionStep
  BY <1>1 DEF SessionStep, ControlLoop, RepairSwap, RepairClear, HolderStep, CloseOld,
     ConnectNew, VerifyBlocks, VerifyEnds, MarkReleased, MarkFails, ReleaseSwap, ArchiveRestore, VerifyIdle,
     AttachLoop, Reconcile, AttachTracked, AutoCheck, AutoRelease, SwapLive, Touch,
     Outdate
<1>2. ASSUME NEW w \in Workers, WorkerStep(w)
      PROVE  /\ ClockMove /\ UNCHANGED <<ctl, bounds>>
             /\ decision' \in {decision, "none", "outdated"}
  BY <1>2 DEF WorkerStep, Capture, ReleaseAcquire, AdminReturns, Resume, MarkOwned,
     ClearMarker, StartTurn, InterruptTurn, BindAcquire, ArchiveAcquire, FinishArchive,
     Touch, Outdate
<1>3. CASE Environment
  BY <1>3 DEF Environment, ProcessDies, OperatorRepair, Tick, TurnCompletes, BeginJob,
     Touch, Outdate
<1>4. CASE (\E i \in Instances : LoopStep(i)) \/ UNCHANGED vars
  BY <1>4 DEF LoopStep, LoopReceives, LoopHandles, vars
<1> QED
  BY <1>1, <1>2, <1>3, <1>4 DEF Next

LEMMA ClockNext == ClockTypes /\ [Next]_vars => ClockTypes'
<1> SUFFICES ASSUME ClockTypes, [Next]_vars PROVE ClockTypes'
  OBVIOUS
<1>1. quiet' \in 0..NoActivity /\ sinceTry' \in 0..IdleRetry
  <2>1. CASE Tick
    BY <2>1, ConstantsAssumption DEF Tick, Older, ClockTypes, NoActivity
  <2>2. CASE ~Tick
    BY <2>2, ClockMoves, ConstantsAssumption DEF ClockMove, ClockTypes, NoActivity
  <2> QED
    BY <2>1, <2>2
<1> QED
  BY <1>1, ClockMoves DEF ClockTypes

LEMMA RoutingNext == HolderInv /\ RoutingTypes /\ [Next]_vars => RoutingTypes'
<1> SUFFICES ASSUME RoutingTypes, op.snap \subseteq Threads, [Next]_vars
    PROVE  RoutingTypes'
  BY DEF HolderInv, Ops
<1> USE DEF RoutingTypes
<1>1. CASE SessionStep
  BY <1>1 DEF SessionStep, ControlLoop, RepairSwap, RepairClear, HolderStep, CloseOld,
     ConnectNew, VerifyBlocks, VerifyEnds, MarkReleased, MarkFails, ReleaseSwap, ArchiveRestore, VerifyIdle,
     AttachLoop, Reconcile, AttachTracked, AutoCheck, AutoRelease, routing
<1>2. ASSUME NEW w \in Workers, WorkerStep(w) PROVE RoutingTypes'
  BY <1>2 DEF WorkerStep, Capture, ReleaseAcquire, AdminReturns, Resume, MarkOwned,
     ClearMarker, StartTurn, InterruptTurn, BindAcquire, ArchiveAcquire, FinishArchive,
     routing
<1>3. CASE Environment
  BY <1>3 DEF Environment, ProcessDies, OperatorRepair, Tick, TurnCompletes, BeginJob,
     routing
<1>4. CASE (\E i \in Instances : LoopStep(i)) \/ UNCHANGED vars
  BY <1>4 DEF LoopStep, LoopReceives, LoopHandles, vars, routing
<1> QED
  BY <1>1, <1>2, <1>3, <1>4 DEF Next

LEMMA ServerNext == HolderInv /\ WorkInv /\ ServerTypes /\ [Next]_vars => ServerTypes'
<1> SUFFICES ASSUME HolderInv, WorkInv, ServerTypes, [Next]_vars PROVE ServerTypes'
  OBVIOUS
<1>0. /\ live \in Instances
      /\ op.step \in {"verify", "close"} => op.inst \in Instances
  BY DEF HolderInv, HolderShape
<1> USE DEF ServerTypes
<1>1. CASE SessionStep
  <2>1. CASE ArchiveRestore
    <3>1. PICK restored \in SUBSET Threads : loaded' = [loaded EXCEPT ![live] = @ \cup restored]
      BY <2>1 DEF ArchiveRestore, HolderInv, Ops
    <3> QED
      BY <1>0, <2>1, <3>1 DEF ArchiveRestore, control
  <2>2. CASE AttachLoop
    BY <1>0, <2>2 DEF AttachLoop, Reconcile, AttachTracked, StartLive, FailedCall, control
  <2>3. CASE CloseOld
    BY <1>0, <2>3 DEF CloseOld, TurnsWithout, control
  <2>4. CASE ConnectNew
    BY <1>0, <2>4 DEF ConnectNew, StartLive
  <2>5. CASE VerifyBlocks
    BY <1>0, <2>5 DEF VerifyBlocks, FailedCall, appserver
  <2> QED
    BY <1>1, <2>1, <2>2, <2>3, <2>4, <2>5 DEF SessionStep, ControlLoop, RepairSwap,
       RepairClear,
       HolderStep, VerifyEnds, MarkReleased, MarkFails, ReleaseSwap, VerifyIdle, AutoCheck, AutoRelease, control,
       appserver
<1>2. ASSUME NEW w \in Workers, WorkerStep(w) PROVE ServerTypes'
  <2>1. /\ worker[w].pc \in {"resume", "mark", "unmark", "turn"} =>
             worker[w].inst \in Instances /\ worker[w].inst \in Nat
    BY ConstantsAssumption DEF WorkInv, JobShape, HolderInv, Instances
  <2>2. ASSUME NEW t \in Threads, Resume(w, t) PROVE ServerTypes'
    BY <2>1, <2>2 DEF Resume, FailedCall
  <2>3. ASSUME NEW t \in Threads, StartTurn(w, t) \/ InterruptTurn(w, t)
        PROVE  ServerTypes'
    BY <2>1, <2>3 DEF StartTurn, InterruptTurn, FailedCall
  <2>4. ASSUME NEW t \in Threads, BindAcquire(w, t) \/ ArchiveAcquire(w, t)
        PROVE  ServerTypes'
    BY <1>0, <2>4 DEF BindAcquire, ArchiveAcquire, FailedCall, appserver
  <2> QED
    BY <1>2, <2>2, <2>3, <2>4 DEF WorkerStep, Capture, ReleaseAcquire, AdminReturns,
       MarkOwned, ClearMarker, FinishArchive, control, appserver
<1>3. CASE Environment
  BY <1>0, <1>3 DEF Environment, ProcessDies, TurnsWithout, OperatorRepair, Tick,
     TurnCompletes, BeginJob, control, appserver
<1>4. CASE (\E i \in Instances : LoopStep(i)) \/ UNCHANGED vars
  BY <1>4 DEF LoopStep, LoopReceives, LoopHandles, vars, control, appserver
<1> QED
  BY <1>1, <1>2, <1>3, <1>4 DEF Next

LEMMA TypeNext == TypeInv /\ [Next]_vars => TypeInv'
BY HolderNext, WorkNext, FlagNext, ClockNext, RoutingNext, ServerNext DEF TypeInv

\* Every state of the live session is well formed, and the holder of sessionMu and the
\* jobs name sessions that exist.
THEOREM SessionTypes == Spec => []TypeOK
BY TypeInit, TypeNext, TypesSplit, PTL DEF Spec


-----------------------------------------------------------------------------
(* One App Server: instances the daemon has not reached are unstarted, and the *)
(* one it left behind is closed before the next one starts.                    *)

ProcessShape ==
  /\ \A i \in Instances : i > live => proc[i] = "new"
  /\ op.step = "close" => proc[live] = "new"
  /\ \A i \in Instances :
       proc[i] \in {"up", "dead"} => i = live \/ (op.step = "close" /\ i = op.inst)

LEMMA SwapKeepsOne ==
  ASSUME HolderInv, ServerTypes, ProcessShape, live < MaxInstance, op.step # "close",
         live' = live + 1, op'.step = "close", op'.inst = live, UNCHANGED proc
  PROVE  ProcessShape'
<1>1. live \in Nat /\ live + 1 \in Instances /\ live + 1 > live
  BY ConstantsAssumption DEF HolderInv, Instances
<1>2. proc[live'] = "new"
  BY <1>1 DEF ProcessShape
<1>3. \A i \in Instances : i > live' => proc[i] = "new"
  BY <1>1 DEF ProcessShape, Instances
<1> QED
  BY <1>2, <1>3 DEF ProcessShape

LEMMA StartKeepsOne ==
  ASSUME HolderInv, ServerTypes, ProcessShape, live' = live, op.step # "close",
         op'.step # "close", StartLive
  PROVE  ProcessShape'
<1>1. \A i \in Instances : proc'[i] = IF i = live THEN proc'[live] ELSE proc[i]
  BY DEF StartLive, ServerTypes, HolderInv
<1> QED
  BY <1>1, ConstantsAssumption DEF ProcessShape, HolderInv, Instances

LEMMA StaysOne ==
  ASSUME ProcessShape, UNCHANGED <<live, proc>>,
         (op.step # "close" /\ op'.step # "close") \/ UNCHANGED op
  PROVE  ProcessShape'
BY DEF ProcessShape

\* Every step keeps at most the live process and the one being closed.
LEMMA ProcessNext == TypeInv /\ ProcessShape /\ [Next]_vars => ProcessShape'
<1> SUFFICES ASSUME HolderInv, ServerTypes, ProcessShape, [Next]_vars PROVE ProcessShape'
  BY DEF TypeInv
<1>0. /\ op.kind = "none" => op.step = "free"
      /\ op.step \in {"verify", "mark", "swap"} => op.inst = live /\ live < MaxInstance
      /\ op.step \in {"close", "connect"} => op.inst < live
      /\ NoOp.step = "free" /\ live \in Instances /\ op.inst \in Nat
  BY DEF HolderInv, HolderShape, Ops, NoOp
<1>1. CASE RepairSwap
  <2>1. op'.step = "close" /\ op'.inst = live
    BY <1>1 DEF RepairSwap, NoOp
  <2> QED
    BY <1>0, <1>1, <2>1, SwapKeepsOne DEF RepairSwap, SwapLive, SessionFree, appserver
<1>2. CASE ReleaseSwap
  BY <1>0, <1>2, SwapKeepsOne DEF ReleaseSwap, SwapLive, appserver
<1>3. CASE Reconcile \/ ConnectNew
  <2>1. op.step # "close" /\ op'.step # "close"
    BY <1>0, <1>3 DEF Reconcile, ConnectNew, SessionFree, HolderInv, Ops
  <2> QED
    BY <1>3, <2>1, StartKeepsOne DEF Reconcile, ConnectNew
<1>4. CASE CloseOld
  <2>1. \A i \in Instances : proc'[i] = IF i = op.inst THEN "closed" ELSE proc[i]
    BY <1>4 DEF CloseOld, ServerTypes
  <2>2. live' = live /\ op'.step = "connect" /\ op.inst < live
    BY <1>0, <1>4 DEF CloseOld, session
  <2> QED
    BY <1>0, <1>4, <2>1, <2>2, ConstantsAssumption DEF CloseOld, ProcessShape, Instances
<1>5. CASE ProcessDies
  <2>1. /\ \A i \in Instances : proc'[i] = IF i = live THEN "dead" ELSE proc[i]
        /\ proc[live] = "up" /\ UNCHANGED <<live, op>>
    BY <1>5 DEF ProcessDies, ServerTypes, session
  <2> QED
    BY <1>0, <2>1, ConstantsAssumption DEF ProcessShape, Instances
<1>6. CASE AutoRelease
  <2>1. op' = op \/ (SessionFree /\ op'.step = "verify")
    BY <1>6 DEF AutoRelease, BeginRelease, NoOp
  <2> QED
    BY <1>0, <1>6, <2>1, StaysOne DEF AutoRelease, SessionFree, appserver
<1>7. CASE \/ VerifyBlocks \/ VerifyEnds \/ MarkFails \/ ArchiveRestore
           \/ \E t \in Threads : VerifyIdle(t) \/ MarkReleased(t)
  <2> USE DEF VerifyBlocks, VerifyEnds, MarkFails, ArchiveRestore, VerifyIdle, MarkReleased
  <2>1. op.step # "close"
    BY <1>7
  <2>2. op'.step # "close"
    BY <1>0, <1>7 DEF HolderInv, Ops
  <2>3. UNCHANGED <<live, proc>>
    BY <1>7 DEF session, appserver
  <2> QED
    BY <2>1, <2>2, <2>3, StaysOne
<1>8. CASE (\E t \in Threads : AttachTracked(t)) \/ RepairClear \/ AutoCheck
  BY <1>8, StaysOne DEF AttachTracked, RepairClear, AutoCheck, session, appserver
<1>9. ASSUME NEW w \in Workers, WorkerStep(w) PROVE ProcessShape'
  <2>1. UNCHANGED <<live, proc>>
    BY <1>9 DEF WorkerStep, Capture, AdminReturns, Resume, MarkOwned, ClearMarker,
       StartTurn, InterruptTurn, BindAcquire, FinishArchive, ReleaseAcquire,
       ArchiveAcquire, session, appserver
  <2>2. CASE ReleaseAcquire(w)
    <3>1. op' = op \/ (SessionFree /\ op'.step = "verify")
      BY <2>2 DEF ReleaseAcquire, BeginRelease, NoOp
    <3> QED
      BY <1>0, <2>1, <3>1, StaysOne DEF SessionFree
  <2>3. ASSUME NEW t \in Threads, ArchiveAcquire(w, t) PROVE ProcessShape'
    <3>1. op' = op \/ (SessionFree /\ op'.step = "verify")
      BY <2>3 DEF ArchiveAcquire, NoOp
    <3> QED
      BY <1>0, <2>1, <3>1, StaysOne DEF SessionFree
  <2>4. UNCHANGED op \/ ReleaseAcquire(w) \/ \E t \in Threads : ArchiveAcquire(w, t)
    BY <1>9 DEF WorkerStep, Capture, AdminReturns, Resume, MarkOwned, ClearMarker,
       StartTurn, InterruptTurn, BindAcquire, FinishArchive
  <2> QED
    BY <2>1, <2>2, <2>3, <2>4, StaysOne
<1>10. CASE (Environment /\ ~ProcessDies) \/ (\E i \in Instances : LoopStep(i))
            \/ UNCHANGED vars
  BY <1>10, StaysOne DEF Environment, OperatorRepair, Tick, TurnCompletes, BeginJob,
     LoopStep, LoopReceives, LoopHandles, vars, session, appserver
<1> QED
  BY <1>1, <1>2, <1>3, <1>4, <1>5, <1>6, <1>7, <1>8, <1>9, <1>10
     DEF Next, SessionStep, ControlLoop, HolderStep, AttachLoop

\* The daemon never has two App Server processes: repair, release and archive close the
\* old session before they connect the new one.
THEOREM OneAppServerAtATime == Spec => []OneAppServer
<1>1. Init => ProcessShape
  BY DEF Init, ProcessShape, NoOp
<1>2. ProcessShape => OneAppServer
  <2> SUFFICES ASSUME ProcessShape PROVE OneAppServer
    OBVIOUS
  <2> DEFINE Running == {i \in Instances : proc[i] \in {"up", "dead"}}
             one == IF op.step = "close" THEN op.inst ELSE live
  <2>1. Running \subseteq {one}
    BY DEF ProcessShape
  <2>2. IsFiniteSet({one}) /\ Cardinality({one}) = 1
    BY FS_Singleton
  <2>3. Cardinality(Running) <= 1
    BY <2>1, <2>2, FS_Subset
  <2> QED
    BY <2>3 DEF OneAppServer
<1> QED
  BY <1>1, <1>2, TypeInit, TypeNext, ProcessNext, PTL DEF Spec

-----------------------------------------------------------------------------
(* What a step does to a job that has not come to its end.                   *)

Same(x, y) == x.job = y.job /\ x.on = y.on /\ x.inst = y.inst

Begins(w) == worker'[w].pc = "capture" /\ worker'[w].age = 0 /\ Touch
Goes(w, from, to) ==
  /\ worker[w].pc = from /\ worker'[w].pc = to
  /\ worker'[w].job = worker[w].job /\ worker'[w].on = worker[w].on

JobMove(w) ==
  \/ worker'[w] = worker[w]
  \/ Tick /\ Same(worker'[w], worker[w])
     /\ worker'[w].pc = worker[w].pc /\ worker'[w].age = worker[w].age + 1
  \/ Begins(w) /\ UNCHANGED op
  \/ Capture(w) /\ Goes(w, "capture", "resume") /\ worker'[w].age = worker[w].age
  \/ /\ \/ Goes(w, "resume", "mark")
        \/ Goes(w, "resume", "turn") /\ worker[w].job = "interrupt"
     /\ Same(worker'[w], worker[w]) /\ worker'[w].age = worker[w].age
     /\ UNCHANGED <<session, clocks, archived, op, turn>>
  \/ /\ Goes(w, "mark", "unmark") /\ Same(worker'[w], worker[w]) /\ worker'[w].age = 0
     /\ Touch /\ owned' = owned \cup worker[w].on
     /\ UNCHANGED <<live, archived, op, turn>>
  \/ /\ Goes(w, "unmark", "turn") /\ Same(worker'[w], worker[w])
     /\ worker'[w].age = worker[w].age
     /\ UNCHANGED <<session, clocks, archived, op, turn>>

\* A job in progress moves in one of these ways only.
LEMMA JobMoves ==
  ASSUME TypeInv, [Next]_vars, NEW w \in Workers, InTime(w)'
  PROVE  JobMove(w)
<1> SUFFICES ASSUME worker \in [Workers -> Work], [Next]_vars, InTime(w)'
             PROVE  JobMove(w)
  BY DEF TypeInv, WorkInv
<1>0. NoWork.pc = "idle" /\ worker[w] \in Work
  BY DEF NoWork
<1>1. CASE worker'[w] = worker[w]
  BY <1>1 DEF JobMove
<1>2. ASSUME NEW v \in Workers, WorkerStep(v) PROVE JobMove(w)
  <2>1. CASE v # w
    <3>1. worker'[w] = worker[w]
      BY <1>2, <2>1 DEF WorkerStep, Capture, AdminReturns, Resume, MarkOwned, ClearMarker,
         StartTurn, InterruptTurn, BindAcquire, FinishArchive, ReleaseAcquire,
         ArchiveAcquire, Done, Goto
    <3> QED
      BY <3>1 DEF JobMove
  <2>2. v # w \/ (WorkerStep(w) /\ ~Done(w))
    BY <1>0, <1>2 DEF InTime, Done
  <2>3. \A p : Goto(w, p) => /\ worker'[w].pc = p /\ Same(worker'[w], worker[w])
                             /\ worker'[w].age = worker[w].age
    BY <1>0 DEF Goto, Same, Work
  <2>4. ASSUME Capture(w), ~Done(w) PROVE JobMove(w)
    <3>1. worker' = [worker EXCEPT ![w].pc = "resume", ![w].inst = live]
      BY <2>4 DEF Capture
    <3>2. Goes(w, "capture", "resume") /\ worker'[w].age = worker[w].age
      BY <1>0, <2>4, <3>1 DEF Capture, Goes, Work
    <3> QED
      BY <2>4, <3>2 DEF JobMove
  <2>5. ASSUME NEW t \in Threads, Resume(w, t), ~Done(w) PROVE JobMove(w)
    <3>1. /\ worker[w].pc = "resume" /\ UNCHANGED <<session, clocks, archived, op, turn>>
          /\ Goto(w, "mark") \/ (Goto(w, "turn") /\ worker[w].job = "interrupt")
      BY <2>5 DEF Resume, routing
    <3> QED
      BY <2>3, <3>1 DEF JobMove, Goes, Same
  <2>6. ASSUME NEW t \in Threads, MarkOwned(w, t) PROVE JobMove(w)
    <3>1. /\ worker'[w].pc = "unmark" /\ worker'[w].age = 0 /\ Same(worker'[w], worker[w])
      BY <1>0, <2>6 DEF MarkOwned, Same, Work
    <3>2. /\ worker[w].pc = "mark" /\ Touch /\ owned' = owned \cup worker[w].on
          /\ UNCHANGED <<live, archived, op, turn>>
      BY <2>6 DEF MarkOwned, Subject, routing, appserver
    <3> QED
      BY <3>1, <3>2 DEF JobMove, Goes, Same
  <2>7. ASSUME NEW t \in Threads, ClearMarker(w, t) PROVE JobMove(w)
    <3>1. /\ worker[w].pc = "unmark" /\ Goto(w, "turn")
          /\ UNCHANGED <<session, clocks, archived, op, turn>>
      BY <2>7 DEF ClearMarker, appserver
    <3> QED
      BY <2>3, <3>1 DEF JobMove, Goes, Same
  <2>8. ASSUME ReleaseAcquire(w) \/ (\E t \in Threads : ArchiveAcquire(w, t)), ~Done(w)
        PROVE  FALSE
    <3>1. Goto(w, "admin") \/ Goto(w, "archived")
      BY <2>8 DEF ReleaseAcquire, ArchiveAcquire
    <3> QED
      BY <2>3, <3>1 DEF InTime
  <2> QED
    BY <1>2, <2>1, <2>2, <2>4, <2>5, <2>6, <2>7, <2>8
       DEF WorkerStep, AdminReturns, StartTurn, InterruptTurn, BindAcquire, FinishArchive
<1>3. CASE ArchiveRestore
  BY <1>0, <1>3 DEF ArchiveRestore, InTime, JobMove, Work
<1>4. CASE SessionStep /\ ~ArchiveRestore
  <2>1. UNCHANGED worker
    BY <1>4 DEF SessionStep, ControlLoop, RepairSwap, RepairClear, HolderStep, CloseOld,
       ConnectNew, VerifyBlocks, VerifyEnds, MarkReleased, MarkFails, ReleaseSwap, VerifyIdle,
       AttachLoop, Reconcile, AttachTracked, AutoCheck, AutoRelease
  <2> QED
    BY <1>1, <2>1
<1>5. ASSUME NEW v \in Workers, NEW job \in JobNames, NEW t \in Threads, BeginJob(v, job, t)
      PROVE  JobMove(w)
  <2>1. CASE v # w
    BY <1>1, <1>5, <2>1 DEF BeginJob
  <2>2. CASE v = w
    <3>1. /\ worker'[w].pc \in {"capture", "acquire"} /\ worker'[w].age = 0
          /\ Touch /\ UNCHANGED op
      BY <1>5, <2>2 DEF BeginJob
    <3> QED
      BY <3>1 DEF JobMove, Begins, InTime
  <2> QED
    BY <2>1, <2>2
<1>6. CASE Tick
  <2>1. worker'[w] = IF InTime(w) THEN [worker[w] EXCEPT !.age = @ + 1] ELSE worker[w]
    BY <1>6 DEF Tick
  <2> QED
    BY <1>0, <1>1, <1>6, <2>1 DEF JobMove, Same, Work
<1>7. CASE ProcessDies \/ OperatorRepair \/ (\E t \in Threads : TurnCompletes(t))
           \/ (\E i \in Instances : LoopStep(i)) \/ UNCHANGED vars
  <2>1. UNCHANGED worker
    BY <1>7 DEF ProcessDies, OperatorRepair, TurnCompletes, LoopStep, LoopReceives,
       LoopHandles, vars
  <2> QED
    BY <1>1, <2>1
<1> QED
  BY <1>2, <1>3, <1>4, <1>5, <1>6, <1>7 DEF Next, Environment
-----------------------------------------------------------------------------
(* Turns of the live session belong to owned threads: a job records the thread *)
(* before it starts the turn, and whatever drops owned threads leaves the      *)
(* session or archives the thread.                                             *)

MarkedShape ==
  /\ \A t \in Threads : turn[t] <= live
  /\ TurnsOnLiveAreOwned
  /\ \A w \in Workers, t \in Threads :
       /\ worker[w].pc \in {"unmark", "turn"} /\ worker[w].job # "interrupt"
       /\ Subject(w, t) /\ worker[w].inst = live
       => t \in owned \cup archived

LEMMA OwnedKept ==
  [Next]_vars => \/ live' = live + 1
                 \/ live' = live /\ owned \cup archived \subseteq owned' \cup archived'
<1> SUFFICES ASSUME [Next]_vars, ~(live' = live + 1)
             PROVE  live' = live /\ owned \cup archived \subseteq owned' \cup archived'
  OBVIOUS
<1>1. CASE SessionStep
  BY <1>1 DEF SessionStep, ControlLoop, RepairSwap, RepairClear, HolderStep, CloseOld,
     ConnectNew, VerifyBlocks, VerifyEnds, MarkReleased, MarkFails, ReleaseSwap, ArchiveRestore, VerifyIdle,
     AttachLoop, Reconcile, AttachTracked, AutoCheck, AutoRelease, SwapLive, session,
     routing
<1>2. ASSUME NEW w \in Workers, WorkerStep(w)
      PROVE  live' = live /\ owned \cup archived \subseteq owned' \cup archived'
  BY <1>2 DEF WorkerStep, Capture, ReleaseAcquire, AdminReturns, Resume, MarkOwned,
     ClearMarker, StartTurn, InterruptTurn, BindAcquire, ArchiveAcquire, FinishArchive,
     session, routing
<1>3. CASE Environment
  BY <1>3 DEF Environment, ProcessDies, OperatorRepair, Tick, TurnCompletes, BeginJob,
     session, routing
<1>4. CASE (\E i \in Instances : LoopStep(i)) \/ UNCHANGED vars
  BY <1>4 DEF LoopStep, LoopReceives, LoopHandles, vars, session, routing
<1> QED
  BY <1>1, <1>2, <1>3, <1>4 DEF Next

\* A turn starts on the session its job captured, or it runs on, or it is over.
TurnMove(t) ==
  \/ turn'[t] \in {0, turn[t]}
  \/ \E w \in Workers : StartTurn(w, t) /\ turn'[t] = worker[w].inst

LEMMA TurnMoves == ServerTypes /\ [Next]_vars => \A t \in Threads : TurnMove(t)
<1> SUFFICES ASSUME turn \in [Threads -> Nat], [Next]_vars, NEW t \in Threads
             PROVE  TurnMove(t)
  BY DEF ServerTypes
<1> USE DEF TurnMove
<1>1. CASE SessionStep
  BY <1>1 DEF SessionStep, ControlLoop, RepairSwap, RepairClear, HolderStep, CloseOld,
     ConnectNew, VerifyBlocks, VerifyEnds, MarkReleased, MarkFails, ReleaseSwap, ArchiveRestore, VerifyIdle,
     AttachLoop, Reconcile, AttachTracked, AutoCheck, AutoRelease, TurnsWithout, appserver
<1>2. ASSUME NEW w \in Workers, WorkerStep(w) PROVE TurnMove(t)
  <2>1. ASSUME NEW u \in Threads, StartTurn(w, u) PROVE TurnMove(t)
    BY <2>1 DEF StartTurn
  <2>2. ASSUME NEW u \in Threads, InterruptTurn(w, u) PROVE TurnMove(t)
    BY <2>2 DEF InterruptTurn
  <2> QED
    BY <1>2, <2>1, <2>2 DEF WorkerStep, Capture, ReleaseAcquire, AdminReturns, Resume,
       MarkOwned, ClearMarker, BindAcquire, ArchiveAcquire, FinishArchive, appserver
<1>3. CASE Environment
  BY <1>3 DEF Environment, ProcessDies, TurnsWithout, OperatorRepair, Tick, TurnCompletes,
     BeginJob, appserver
<1>4. CASE (\E i \in Instances : LoopStep(i)) \/ UNCHANGED vars
  BY <1>4 DEF LoopStep, LoopReceives, LoopHandles, vars, appserver
<1> QED
  BY <1>1, <1>2, <1>3, <1>4 DEF Next

\* A job about to start a turn has recorded its thread, or records it now.
LEMMA MarkedMoves ==
  ASSUME TypeInv, [Next]_vars, NEW w \in Workers, worker'[w].pc \in {"unmark", "turn"},
         worker'[w].job # "interrupt"
  PROVE  /\ Same(worker'[w], worker[w])
         /\ worker[w].inst \in 1..live
         /\ \/ worker[w].pc \in {"unmark", "turn"}
            \/ worker[w].on \subseteq owned' /\ live' = live
<1>1. JobMove(w)
  BY JobMoves DEF InTime
<1>2. /\ Same(worker'[w], worker[w])
      /\ \/ worker[w].pc \in {"unmark", "turn"}
         \/ worker[w].pc = "mark" /\ worker[w].on \subseteq owned' /\ live' = live
  BY <1>1 DEF JobMove, Goes, Same, Begins
<1>3. worker[w].inst \in 1..live
  BY <1>2 DEF TypeInv, WorkInv, JobShape
<1> QED
  BY <1>2, <1>3

LEMMA MarkedNext == TypeInv /\ MarkedShape /\ [Next]_vars => MarkedShape'
<1> SUFFICES ASSUME TypeInv, MarkedShape, [Next]_vars PROVE MarkedShape'
  OBVIOUS
<1>0. live \in Nat /\ live >= 1 /\ (live' = live + 1 \/ live' = live)
  BY LiveGrows, ConstantsAssumption DEF TypeInv, HolderInv, Instances
<1>1. \A t \in Threads : /\ turn'[t] <= live
                         /\ turn'[t] = live => t \in owned \cup archived
  <2> SUFFICES ASSUME NEW t \in Threads
               PROVE  turn'[t] <= live /\ (turn'[t] = live => t \in owned \cup archived)
    OBVIOUS
  <2>1. CASE turn'[t] \in {0, turn[t]}
    BY <1>0, <2>1 DEF MarkedShape, TurnsOnLiveAreOwned
  <2>2. ASSUME NEW w \in Workers, StartTurn(w, t), turn'[t] = worker[w].inst
        PROVE  turn'[t] <= live /\ (turn'[t] = live => t \in owned \cup archived)
    <3>1. worker[w].pc = "turn" /\ worker[w].job # "interrupt" /\ Subject(w, t)
      BY <2>2 DEF StartTurn
    <3>2. worker[w].inst <= live
      BY <1>0, <3>1 DEF TypeInv, WorkInv, JobShape
    <3> QED
      BY <2>2, <3>1, <3>2 DEF MarkedShape
  <2> QED
    BY <2>1, <2>2, TurnMoves DEF TurnMove, TypeInv
<1>2. ASSUME NEW w \in Workers, NEW t \in Threads,
             worker'[w].pc \in {"unmark", "turn"}, worker'[w].job # "interrupt",
             Subject(w, t)', worker'[w].inst = live'
      PROVE  t \in owned' \cup archived'
  <2>1. /\ Same(worker'[w], worker[w]) /\ worker[w].inst \in 1..live
        /\ worker[w].pc \in {"unmark", "turn"} \/ worker[w].on \subseteq owned'
    BY <1>2, MarkedMoves
  <2>2. live' = live
    BY <1>0, <1>2, <2>1 DEF Same
  <2> QED
    BY <1>0, <1>2, <2>1, <2>2, OwnedKept DEF Same, Subject, MarkedShape
<1>3. CASE live' = live + 1
  <2>1. \A t \in Threads : turn'[t] <= live' /\ turn'[t] # live'
    BY <1>0, <1>1, <1>3, ServerNext DEF TypeInv, ServerTypes
  <2> QED
    BY <1>2, <2>1 DEF MarkedShape, TurnsOnLiveAreOwned
<1>4. CASE live' = live
  <2>1. \A t \in Threads : /\ turn'[t] <= live'
                           /\ turn'[t] = live' => t \in owned' \cup archived'
    BY <1>0, <1>1, <1>4, OwnedKept
  <2> QED
    BY <1>2, <2>1 DEF MarkedShape, TurnsOnLiveAreOwned
<1> QED
  BY <1>0, <1>3, <1>4

LEMMA MarkedInit == Init => MarkedShape
BY ConstantsAssumption DEF Init, MarkedShape, TurnsOnLiveAreOwned, NoWork

\* Whatever runs on the live session is recorded as owned, so that a release reads every
\* thread it could cut off.
THEOREM LiveTurnsAreOwned == Spec => []TurnsOnLiveAreOwned
<1>1. MarkedShape => TurnsOnLiveAreOwned
  BY DEF MarkedShape
<1> QED
  BY <1>1, TypeInit, TypeNext, MarkedInit, MarkedNext, PTL DEF Spec

-----------------------------------------------------------------------------
(* The automatic release: the idle clock is no older than the oldest job, so    *)
(* that no job is under way when the release begins, and none but interrupts    *)
(* and new chats gets on the session after that.                                *)

QuietShape ==
  \A w \in Workers : InTime(w) => quiet = NoActivity \/ quiet <= worker[w].age

Closing == op.kind = "auto" /\ op.step \in {"verify", "mark", "swap", "close"}

Unread == IF op.step = "verify" THEN op.todo ELSE {}

TurnedAway ==
  \A w \in Workers :
    InTime(w) => worker[w].pc = "capture" \/ worker[w].job \in {"interrupt", "newchat"}

AutoShape ==
  Closing =>
    /\ TurnedAway
    /\ \A t \in Threads \ NewChats : turn[t] = op.inst => t \in archived \cup Unread

LEMMA QuietNext == TypeInv /\ QuietShape /\ [Next]_vars => QuietShape'
<1> SUFFICES ASSUME TypeInv, QuietShape, [Next]_vars, NEW w \in Workers, InTime(w)'
             PROVE  quiet' = NoActivity \/ quiet' <= worker'[w].age
  BY DEF QuietShape, NoActivity
<1>0. /\ quiet \in 0..NoActivity /\ NoActivity \in Nat /\ IdleTimeout \in Nat
      /\ worker[w].age \in Nat /\ worker'[w].age \in Nat
  BY TypeNext, ConstantsAssumption
     DEF TypeInv, ClockTypes, WorkInv, Work, NoActivity
<1>1. JobMove(w)
  BY JobMoves
<1>2. CASE Tick
  <2>1. InTime(w) /\ worker'[w].age = worker[w].age + 1
    <3>1. worker'[w] = IF InTime(w) THEN [worker[w] EXCEPT !.age = @ + 1] ELSE worker[w]
      BY <1>2 DEF Tick
    <3>2. worker[w] \in Work
      BY DEF TypeInv, WorkInv
    <3> QED
      BY <3>1, <3>2 DEF InTime, Work
  <2>2. quiet' = quiet \/ (quiet' = quiet + 1 /\ quiet < IdleTimeout)
    <3>1. quiet' = IF quiet = NoActivity THEN quiet
                   ELSE IF quiet < IdleTimeout THEN quiet + 1 ELSE quiet
      BY <1>2 DEF Tick, Older
    <3> QED
      BY <3>1
  <2>3. quiet = NoActivity \/ quiet <= worker[w].age
    BY <2>1 DEF QuietShape
  <2> QED
    BY <1>0, <2>1, <2>2, <2>3 DEF NoActivity
<1>3. CASE ~Tick
  <2>1. quiet' \in {quiet, 0, NoActivity}
    BY <1>3, ClockMoves DEF ClockMove
  <2>2. quiet' = 0 \/ (InTime(w) /\ worker'[w].age = worker[w].age)
    BY <1>1, <1>3 DEF JobMove, Begins, Goes, InTime, Touch
  <2> QED
    BY <1>0, <2>1, <2>2 DEF QuietShape
<1> QED
  BY <1>2, <1>3

LEMMA ArchivedGrows == [Next]_vars => archived \subseteq archived'
<1> SUFFICES ASSUME [Next]_vars PROVE archived \subseteq archived'
  OBVIOUS
<1>1. CASE SessionStep
  BY <1>1 DEF SessionStep, ControlLoop, RepairSwap, RepairClear, HolderStep, CloseOld,
     ConnectNew, VerifyBlocks, VerifyEnds, MarkReleased, MarkFails, ReleaseSwap, ArchiveRestore, VerifyIdle,
     AttachLoop, Reconcile, AttachTracked, AutoCheck, AutoRelease, routing
<1>2. ASSUME NEW w \in Workers, WorkerStep(w) PROVE archived \subseteq archived'
  BY <1>2 DEF WorkerStep, Capture, ReleaseAcquire, AdminReturns, Resume, MarkOwned,
     ClearMarker, StartTurn, InterruptTurn, BindAcquire, ArchiveAcquire, FinishArchive,
     routing
<1>3. CASE Environment \/ (\E i \in Instances : LoopStep(i)) \/ UNCHANGED vars
  BY <1>3 DEF Environment, ProcessDies, OperatorRepair, Tick, TurnCompletes, BeginJob,
     LoopStep, LoopReceives, LoopHandles, vars, routing
<1> QED
  BY <1>1, <1>2, <1>3 DEF Next

\* How an automatic release comes to be under way, and how it moves on.
Continues ==
  \/ UNCHANGED op
  \/ /\ op'.inst = op.inst /\ Unread = {} /\ Unread' = {}
     /\ UNCHANGED <<worker, turn>>
  \/ \E t \in Threads : /\ VerifyIdle(t) /\ Unread' = Unread \ {t}
                        /\ op'.inst = op.inst

LEMMA ClosingMoves ==
  ASSUME TypeInv, [Next]_vars, Closing'
  PROVE  \/ Closing /\ Continues
         \/ /\ AutoRelease /\ StillIdle /\ op'.todo = owned /\ op'.inst = live
            /\ op'.step = "verify"
<1> USE DEF Closing, Continues, Unread
<1>0. op \in Ops /\ NoOp.kind = "none" /\ (op.kind = "none" => op = NoOp)
  BY DEF TypeInv, HolderInv, NoOp
<1>1. CASE UNCHANGED op
  BY <1>1
<1>2. CASE AutoRelease /\ ~UNCHANGED op
  BY <1>2 DEF AutoRelease, BeginRelease, NoOp
<1>3. CASE VerifyEnds \/ ReleaseSwap \/ \E t \in Threads : MarkReleased(t)
  <2>1. CASE VerifyEnds
    BY <1>0, <2>1 DEF VerifyEnds, Ops, appserver
  <2>2. CASE ReleaseSwap
    BY <1>0, <2>2 DEF ReleaseSwap, Ops, appserver
  <2>3. ASSUME NEW t \in Threads, MarkReleased(t) PROVE Closing /\ Continues
    BY <1>0, <2>3 DEF MarkReleased, Ops, appserver
  <2> QED
    BY <1>3, <2>1, <2>2, <2>3
<1>4. ASSUME NEW t \in Threads, VerifyIdle(t) PROVE Closing /\ Continues
  BY <1>0, <1>4 DEF VerifyIdle, Ops
<1>5. ASSUME RepairSwap \/ CloseOld \/ ConnectNew \/ VerifyBlocks \/ MarkFails \/ ArchiveRestore
      PROVE  FALSE
  <2>1. CASE RepairSwap
    BY <2>1 DEF RepairSwap, NoOp
  <2>2. CASE CloseOld
    BY <1>0, <2>2 DEF CloseOld, Ops
  <2>3. CASE ConnectNew
    BY <1>0, <2>3 DEF ConnectNew, Ops
  <2>4. CASE VerifyBlocks \/ MarkFails \/ ArchiveRestore
    BY <1>0, <2>4 DEF VerifyBlocks, MarkFails, ArchiveRestore
  <2> QED
    BY <1>5, <2>1, <2>2, <2>3, <2>4
<1>6. ASSUME NEW w \in Workers, WorkerStep(w) PROVE UNCHANGED op
  <2>1. CASE ReleaseAcquire(w)
    BY <2>1 DEF ReleaseAcquire, BeginRelease, NoOp
  <2>2. ASSUME NEW t \in Threads, ArchiveAcquire(w, t) PROVE UNCHANGED op
    BY <2>2 DEF ArchiveAcquire, NoOp
  <2> QED
    BY <1>6, <2>1, <2>2 DEF WorkerStep, Capture, AdminReturns, Resume, MarkOwned,
       ClearMarker, StartTurn, InterruptTurn, BindAcquire, FinishArchive
<1>7. CASE AttachLoop \/ RepairClear \/ AutoCheck \/ Environment \/ UNCHANGED vars
           \/ (\E i \in Instances : LoopStep(i))
  <2>1. UNCHANGED op
    BY <1>7 DEF AttachLoop, Reconcile, AttachTracked, RepairClear, AutoCheck, Environment,
       ProcessDies, OperatorRepair, Tick, TurnCompletes, BeginJob, LoopStep, LoopReceives,
       LoopHandles, vars
  <2> QED
    BY <1>1, <2>1
<1> QED
  BY <1>1, <1>2, <1>3, <1>4, <1>5, <1>6, <1>7
     DEF Next, SessionStep, ControlLoop, HolderStep

\* The release begins: no job is under way, and what runs is owned or archived.
LEMMA AutoBegins ==
  ASSUME TypeInv, MarkedShape, QuietShape, AutoRelease, StillIdle, op'.todo = owned,
         op'.inst = live, op'.step = "verify"
  PROVE  AutoShape'
<1>1. \A w \in Workers : ~InTime(w)
  <2> SUFFICES ASSUME NEW w \in Workers, InTime(w) PROVE FALSE
    OBVIOUS
  <2>1. quiet = IdleTimeout /\ worker[w].age \in 0..RequestTimeout
    BY DEF StillIdle, TypeInv, WorkInv, Work
  <2>2. quiet = NoActivity \/ quiet <= worker[w].age
    BY DEF QuietShape
  <2> QED
    BY <2>1, <2>2, ConstantsAssumption DEF NoActivity
<1>2. UNCHANGED <<worker, turn, archived>>
  BY DEF AutoRelease, routing, appserver
<1>3. \A t \in Threads : turn[t] = live => t \in archived \cup owned
  BY DEF MarkedShape, TurnsOnLiveAreOwned
<1> QED
  BY <1>1, <1>2, <1>3 DEF AutoShape, TurnedAway, InTime, Unread

LEMMA AwayStays ==
  ASSUME TypeInv, [Next]_vars, Closing, Continues, TurnedAway
  PROVE  TurnedAway'
<1>1. releasing
  BY DEF Closing, TypeInv, HolderInv, HolderShape
<1> SUFFICES ASSUME NEW w \in Workers, InTime(w)'
             PROVE  worker'[w].pc = "capture" \/ worker'[w].job \in {"interrupt", "newchat"}
  BY DEF TurnedAway
<1>2. JobMove(w)
  BY JobMoves
<1>3. CASE Capture(w) /\ Goes(w, "capture", "resume")
  <2>1. ~Done(w)
    <3>1. worker \in [Workers -> Work]
      BY DEF TypeInv, WorkInv
    <3> QED
      BY <1>3, <3>1 DEF Goes, Done, NoWork
  <2> QED
    BY <1>1, <1>3, <2>1 DEF Capture, Goes
<1> QED
  BY <1>2, <1>3 DEF JobMove, Begins, Goes, Same, TurnedAway, InTime

LEMMA AutoNext == TypeInv /\ MarkedShape /\ QuietShape /\ AutoShape /\ [Next]_vars => AutoShape'
<1> SUFFICES ASSUME TypeInv, MarkedShape, QuietShape, AutoShape, [Next]_vars, Closing'
             PROVE  AutoShape'
  BY DEF AutoShape
<1>1. CASE Closing /\ Continues
  <2>1. TurnedAway'
    BY <1>1, AwayStays DEF AutoShape
  <2>2. op.inst \in Nat \ {0} /\ op'.inst = op.inst
    <3>1. op.inst \in Instances
      BY <1>1 DEF Closing, TypeInv, HolderInv, HolderShape
    <3> QED
      BY <1>1, <3>1, ConstantsAssumption DEF Continues, Instances
  <2>3. ASSUME NEW t \in Threads \ NewChats, turn'[t] = op'.inst
        PROVE  t \in archived' \cup Unread'
    <3>1. turn[t] = op.inst
      <4>1. ASSUME NEW w \in Workers, StartTurn(w, t) PROVE FALSE
        <5>1. worker[w].pc = "turn" /\ worker[w].job # "interrupt" /\ Subject(w, t)
          BY <4>1 DEF StartTurn
        <5>2. worker[w].job = "newchat"
          BY <1>1, <5>1 DEF AutoShape, TurnedAway, InTime
        <5> QED
          BY <5>1, <5>2 DEF Subject, TypeInv, WorkInv, JobShape
      <4> QED
        BY <2>2, <2>3, <4>1, TurnMoves DEF TurnMove, TypeInv
    <3>2. t \in archived \cup Unread
      BY <1>1, <3>1 DEF AutoShape
    <3>3. ~VerifyIdle(t)
      BY <3>1 DEF VerifyIdle
    <3> QED
      BY <1>1, <3>2, <3>3, ArchivedGrows DEF Continues, Unread
  <2> QED
    BY <2>1, <2>3 DEF AutoShape
<1> QED
  BY <1>1, ClosingMoves, AutoBegins

LEMMA AutoInit == Init => QuietShape /\ AutoShape
BY DEF Init, QuietShape, AutoShape, Closing, NoOp

\* The release of idle writers cuts off no turn but that of a new chat: the idle clock
\* outlives every job that could have started one before the release began, and
\* liveReleasing turns the later ones away.
THEOREM IdleReleaseIsSafe == Spec => []AutoReleaseSparesTurns
<1> DEFINE Inv == TypeInv /\ MarkedShape /\ QuietShape /\ AutoShape
<1>1. Init => Inv
  BY TypeInit, MarkedInit, AutoInit
<1>2. Inv /\ [Next]_vars => Inv'
  BY TypeNext, MarkedNext, QuietNext, AutoNext
<1>3. Inv => AutoReleaseSparesTurns
  BY DEF AutoShape, Closing, Unread, AutoReleaseSparesTurns
<1> QED
  BY <1>1, <1>2, <1>3, PTL DEF Spec

-----------------------------------------------------------------------------
(* Released threads.                                                         *)

LEMMA ReleaseKept ==
  ASSUME TypeInv, [Next]_vars, NEW t \in released \ owned, t \in owned'
  PROVE  \/ \E w \in Workers : Subject(w, t) /\ worker[w].pc \in {"mark", "acquire"}
         \/ op.kind = "archive" /\ t \in op.snap
<1>1. CASE SessionStep
  <2>1. CASE ArchiveRestore
    <3>1. op.kind = "archive"
      BY <2>1 DEF ArchiveRestore, TypeInv, HolderInv, HolderShape
    <3>2. owned' \subseteq owned \cup op.snap
      BY <2>1 DEF ArchiveRestore
    <3> QED
      BY <3>1, <3>2
  <2> QED
    BY <1>1, <2>1 DEF SessionStep, ControlLoop, RepairSwap, RepairClear, HolderStep,
       CloseOld, ConnectNew, VerifyBlocks, VerifyEnds, MarkReleased, MarkFails, ReleaseSwap, VerifyIdle,
       AttachLoop, Reconcile, AttachTracked, AutoCheck, AutoRelease, SwapLive, session
<1>2. ASSUME NEW w \in Workers, WorkerStep(w)
      PROVE  Subject(w, t) /\ worker[w].pc \in {"mark", "acquire"}
  BY <1>2 DEF WorkerStep, Capture, ReleaseAcquire, AdminReturns, Resume, MarkOwned,
     ClearMarker, StartTurn, InterruptTurn, BindAcquire, ArchiveAcquire, FinishArchive,
     session
<1>3. CASE Environment \/ (\E i \in Instances : LoopStep(i)) \/ UNCHANGED vars
  BY <1>3 DEF Environment, ProcessDies, OperatorRepair, Tick, TurnCompletes, BeginJob,
     LoopStep, LoopReceives, LoopHandles, vars, session
<1> QED
  BY <1>1, <1>2, <1>3 DEF Next

\* No background step takes back the writer of a released thread.
THEOREM ReleaseHolds == Spec => ReleaseSticks
<1>1. TypeInv /\ [Next]_vars =>
        [\A t \in released \ owned : t \in owned' =>
           \/ \E w \in Workers : Subject(w, t) /\ worker[w].pc \in {"mark", "acquire"}
           \/ op.kind = "archive" /\ t \in op.snap]_vars
  BY ReleaseKept
<1> QED
  BY <1>1, TypeInit, TypeNext, PTL DEF Spec, ReleaseSticks

-----------------------------------------------------------------------------
(* The holder's progress.                                                    *)

\* The holder gives the lock up, finishes one piece of its stage or enters a later one.
Forward ==
  \/ op' = NoOp
  \/ /\ op'.kind = op.kind /\ op'.inst = op.inst
     /\ \/ op'.step = op.step /\ op'.todo \subseteq op.todo
        \/ \E i, j \in 1 .. 6 : i < j /\ op.step = Stages[i] /\ op'.step = Stages[j]

LEMMA StageOrder ==
  ASSUME op \in Ops, NEW r \in OpSteps, NEW s \in OpSteps, NEW S,
         op.step = r, op' = [op EXCEPT !.step = s, !.todo = S],
         <<r, s>> \in {<<"verify", "mark">>, <<"verify", "swap">>, <<"mark", "close">>,
                      <<"swap", "close">>, <<"close", "connect">>, <<"connect", "archive">>}
  PROVE  Forward
<1>1. op'.kind = op.kind /\ op'.inst = op.inst /\ op'.step = s
  BY DEF Ops
<1>2. /\ Stages[1] = "verify" /\ Stages[2] = "mark" /\ Stages[3] = "swap"
      /\ Stages[4] = "close" /\ Stages[5] = "connect" /\ Stages[6] = "archive"
  BY DEF Stages
<1>3. \E i, j \in 1 .. 6 : i < j /\ r = Stages[i] /\ s = Stages[j]
  <2>1. CASE r = "verify" /\ s = "mark"
    BY <1>2, <2>1, 1 < 2 /\ 1 \in 1 .. 6 /\ 2 \in 1 .. 6
  <2>2. CASE r = "verify" /\ s = "swap"
    BY <1>2, <2>2, 1 < 3 /\ 1 \in 1 .. 6 /\ 3 \in 1 .. 6
  <2>3. CASE r = "mark" /\ s = "close"
    BY <1>2, <2>3, 2 < 4 /\ 2 \in 1 .. 6 /\ 4 \in 1 .. 6
  <2>4. CASE r = "swap" /\ s = "close"
    BY <1>2, <2>4, 3 < 4 /\ 3 \in 1 .. 6 /\ 4 \in 1 .. 6
  <2>5. CASE r = "close" /\ s = "connect"
    BY <1>2, <2>5, 4 < 5 /\ 4 \in 1 .. 6 /\ 5 \in 1 .. 6
  <2>6. CASE r = "connect" /\ s = "archive"
    BY <1>2, <2>6, 5 < 6 /\ 5 \in 1 .. 6 /\ 6 \in 1 .. 6
  <2> QED
    BY <2>1, <2>2, <2>3, <2>4, <2>5, <2>6
<1> QED
  BY <1>1, <1>3 DEF Forward

\* Nobody but the holder touches the operation while the lock is held.
LEMMA HolderGoesOn ==
  ASSUME HolderInv, [Next]_vars, op.kind # "none", op' # op
  PROVE  Forward
<1>0. op \in Ops /\ op.step \in OpSteps
  BY DEF HolderInv, Ops
<1>1. CASE CloseOld
  <2>1. op.step = "close" /\ op' = [op EXCEPT !.step = "connect", !.todo = op.todo]
    BY <1>0, <1>1 DEF CloseOld, Ops
  <2> QED
    BY <1>0, <2>1, StageOrder DEF OpSteps
<1>2. CASE ConnectNew
  <2>1. CASE op' = NoOp
    BY <2>1 DEF Forward
  <2>2. CASE op' # NoOp
    <3>1. op.step = "connect" /\ op' = [op EXCEPT !.step = "archive", !.todo = op.todo]
      BY <1>0, <1>2, <2>2 DEF ConnectNew, Ops
    <3> QED
      BY <1>0, <3>1, StageOrder DEF OpSteps
  <2> QED
    BY <2>1, <2>2
<1>3. ASSUME NEW t \in Threads, VerifyIdle(t) \/ MarkReleased(t) PROVE Forward
  <2>1. op' = [op EXCEPT !.todo = @ \ {t}]
    BY <1>3 DEF VerifyIdle, MarkReleased
  <2>2. /\ op'.kind = op.kind /\ op'.inst = op.inst /\ op'.step = op.step
        /\ op'.todo \subseteq op.todo
    BY <1>0, <2>1 DEF Ops
  <2> QED
    BY <2>2 DEF Forward
<1>4. CASE VerifyBlocks \/ MarkFails \/ ArchiveRestore
  BY <1>4 DEF VerifyBlocks, MarkFails, ArchiveRestore, Forward
<1>5. CASE VerifyEnds
  <2>1. CASE op.kind = "archive"
    <3>1. op.step = "verify" /\ op' = [op EXCEPT !.step = "swap", !.todo = op.todo]
      BY <1>0, <1>5, <2>1 DEF VerifyEnds, Ops
    <3> QED
      BY <1>0, <3>1, StageOrder DEF OpSteps
  <2>2. CASE op.kind # "archive"
    <3>1. op.step = "verify" /\ op' = [op EXCEPT !.step = "mark", !.todo = op.snap]
      BY <1>5, <2>2 DEF VerifyEnds
    <3> QED
      BY <1>0, <3>1, StageOrder DEF OpSteps
  <2> QED
    BY <2>1, <2>2
<1>6. CASE ReleaseSwap
  <2>1. op.step \in {"mark", "swap"} /\ op' = [op EXCEPT !.step = "close", !.todo = op.todo]
    BY <1>0, <1>6 DEF ReleaseSwap, Ops
  <2> QED
    BY <1>0, <2>1, StageOrder DEF OpSteps
<1>7. CASE ControlLoop \/ AttachLoop \/ AutoCheck \/ AutoRelease \/ UNCHANGED vars
  BY <1>7 DEF ControlLoop, RepairSwap, RepairClear, AttachLoop, Reconcile, AttachTracked,
     AutoCheck, AutoRelease, SessionFree, vars
<1>9. ASSUME NEW w \in Workers, WorkerStep(w) PROVE Forward
  BY <1>9 DEF WorkerStep, Capture, ReleaseAcquire, AdminReturns, Resume, MarkOwned,
     ClearMarker, StartTurn, InterruptTurn, BindAcquire, ArchiveAcquire, FinishArchive,
     SessionFree
<1>8. CASE Environment \/ \E i \in Instances : LoopStep(i)
  BY <1>8 DEF Environment, ProcessDies, OperatorRepair, Tick, TurnCompletes, BeginJob,
     LoopStep, LoopReceives, LoopHandles
<1> QED
  BY <1>1, <1>2, <1>3, <1>4, <1>5, <1>6, <1>7, <1>8, <1>9
     DEF Next, SessionStep, HolderStep

\* The holder of sessionMu never starts over and never hands the lock to another.
THEOREM HolderProgresses == Spec => HolderGoesForward
<1>1. TypeInv /\ [Next]_vars =>
        [op.kind # "none" /\ op' # op =>
           \/ op' = NoOp
           \/ /\ op'.kind = op.kind /\ op'.inst = op.inst
              /\ \/ op'.step = op.step /\ op'.todo \subseteq op.todo
                 \/ \E i, j \in 1 .. 6 : i < j /\ op.step = Stages[i] /\ op'.step = Stages[j]]_vars
  BY HolderGoesOn DEF TypeInv, Forward
<1> QED
  BY <1>1, TypeInit, TypeNext, PTL DEF Spec, HolderGoesForward
=============================================================================
