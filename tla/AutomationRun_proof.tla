------------------------- MODULE AutomationRun_proof -------------------------
(***************************************************************************)
(* Proofs about scheduled tasks: an occurrence starts at most once, silent  *)
(* results are not pushed, and the scheduler keeps the promises of the push *)
(* service, for any number of slots, threads, observers and restarts        *)
(* (AutomationRun, PushService); the slot that is due is the latest one     *)
(* that the rule means (Schedule, which shares no state with the others).   *)
(***************************************************************************)
EXTENDS AutomationRun, Schedule, FiniteSetTheorems, WellFoundedInduction, TLAPS

-----------------------------------------------------------------------------
(* The push service: at-most-once delivery, for any keys and publishers.     *)

PushInv == PushTypeOK /\ SentWasClaimed /\ OncePerKey

LEMMA PushInitInv == PushInit => PushInv
BY NobodyAssumption DEF PushInit, PushInv, PushTypeOK, SentWasClaimed, OncePerKey, Pushes

\* Each step of the service, whoever takes it, preserves the invariant: the row is
\* written before the message can go out, and nothing ever removes a row.
LEMMA PushNextInv == PushInv /\ [PushNext]_pushVars => PushInv'
<1> SUFFICES ASSUME PushInv, [PushNext]_pushVars PROVE PushInv'
  OBVIOUS
<1> USE NobodyAssumption DEF PushInv, PushTypeOK, SentWasClaimed, OncePerKey, Pushes
<1>1. ASSUME NEW c \in Callers, NEW k \in Keys, Claim(c, k) PROVE PushInv'
  <2>1. sent[k] = 0
    BY <1>1 DEF Claim
  <2>2. pushing' = [by |-> c, key |-> k, step |-> "send"] /\ pushing' # Nobody
    BY <1>1 DEF Claim
  <2> QED
    BY <1>1, <2>1, <2>2 DEF Claim
<1>2. CASE Deliver
  <2>1. pushing \in Pushes /\ sent[pushing.key] = 0 /\ pushing.key \in receipts
    BY <1>2 DEF Deliver
  <2>2. sent' = [sent EXCEPT ![pushing.key] = 1] /\ pushing'.step = "receipt"
    BY <1>2, <2>1 DEF Deliver
  <2>3. PushTypeOK' /\ pushing'.key = pushing.key
    BY <1>2, <2>1, <2>2 DEF Deliver
  <2> QED
    BY <1>2, <2>1, <2>2, <2>3 DEF Deliver
<1>3. CASE WriteReceipt
  BY <1>3 DEF WriteReceipt
<1>4. CASE Abandon
  BY <1>4 DEF Abandon
<1>5. CASE UNCHANGED pushVars
  BY <1>5 DEF pushVars
<1> QED
  BY <1>1, <1>2, <1>3, <1>4, <1>5 DEF PushNext

\* ADR-023: no idempotency key is delivered twice.
THEOREM PushAtMostOnce == PushSpec => []OncePerKey
<1>1. PushSpec => []PushInv
  BY PushInitInv, PushNextInv, PTL DEF PushSpec
<1>2. PushInv => OncePerKey
  BY DEF PushInv
<1> QED
  BY <1>1, <1>2, PTL

\* Why it holds: the row of a key exists before its message may be sent.
THEOREM PushClaimedFirst == PushSpec => []SentWasClaimed
<1>1. PushSpec => []PushInv
  BY PushInitInv, PushNextInv, PTL DEF PushSpec
<1>2. PushInv => SentWasClaimed
  BY DEF PushInv
<1> QED
  BY <1>1, <1>2, PTL

-----------------------------------------------------------------------------
(* The scheduler.                                                            *)

\* Slots only grow: nothing names a slot that is not due yet, and while a claim is
\* being worked on nothing names a later slot than it.
Ordered ==
  /\ run.slot <= due
  /\ \A t \in Threads : slotOf[t] <= due
  /\ \A o \in Observers : obs[o].loaded.slot <= due
  /\ tick.pc # "idle" =>
       /\ 0 < tick.slot /\ tick.slot <= due
       /\ run.slot <= tick.slot
       /\ \A t \in Threads : slotOf[t] <= tick.slot
       /\ \A o \in Observers : obs[o].loaded.slot <= tick.slot

\* The claim of the slot that is due now is still in the store, or overwritten.
ClaimHolds == run.slot = due \/ due \in overwritten

ClaimLasts ==
  /\ due # 0 => \A t \in Threads : slotOf[t] = due => ClaimHolds
  /\ tick.pc # "idle" /\ tick.slot = due => ClaimHolds

\* A claim that has not started its thread is the first one of its slot.
FirstClaim ==
  tick.pc = "start" =>
    \A t \in Threads : slotOf[t] = tick.slot => tick.slot \in overwritten

ClaimInv == Ordered /\ ClaimLasts /\ FirstClaim /\ StartedOnce

-----------------------------------------------------------------------------
(* The scheduler and its observers only use the push service by its steps.   *)

LEMMA KeysAreRunKeys ==
  ASSUME TypeOK
  PROVE  /\ tick.pc # "idle" => FailureKey \in Keys
         /\ \A o \in Observers : obs[o].pc # "idle" => KeyOf(o) \in Keys
BY AutomationAssumption DEF TypeOK, FailureKey, KeyOf, RunKeys, Phases, Phase

LEMMA StepIsPushStep == TypeOK /\ [Next]_vars => [PushNext]_pushVars
<1> SUFFICES ASSUME TypeOK, [Next]_vars PROVE [PushNext]_pushVars
  OBVIOUS
<1>1. CASE NotifyFailure
  BY <1>1, KeysAreRunKeys, AutomationAssumption DEF NotifyFailure, PushNext
<1>2. ASSUME NEW o \in Observers, Publish(o) PROVE [PushNext]_pushVars
  BY <1>2, KeysAreRunKeys, AutomationAssumption DEF Publish, PushNext
<1>3. CASE SendStep
  BY <1>3 DEF SendStep, Send, PushNext
<1>4. CASE Crash
  BY <1>4 DEF Crash, PushNext
<1>5. CASE TickWaits \/ (TickProgress /\ ~NotifyFailure)
  BY <1>5 DEF TickWaits, TickProgress, TickClaims, StartThread, StartThreadFails,
       RegisterThread, StartTurn, SaveRunning, SaveFailed
<1>6. ASSUME NEW o \in Observers, ObserverStep(o), ~Publish(o)
      PROVE  UNCHANGED pushVars
  BY <1>6 DEF ObserverStep, ReadSnapshot, Guard, LoadRun, SaveRun, ComposeKey
<1>7. CASE NextSlotIsDue \/ \E t \in Threads : TurnMoves(t)
  BY <1>7 DEF NextSlotIsDue, TurnMoves
<1>8. CASE UNCHANGED vars
  BY <1>8 DEF vars
<1> QED
  BY <1>1, <1>2, <1>3, <1>4, <1>5, <1>6, <1>7, <1>8 DEF Next, Environment

-----------------------------------------------------------------------------
(* Type correctness: TypeOK alone is not inductive, the thread being registered *)
(* must be one that was started.                                             *)

TickHasThread == tick.pc = "register" => tick.thread \in Threads

TypeInv == TypeOK /\ TickHasThread /\ PushInv

Ticks == [pc : {"idle", "start", "register", "turn", "started", "failed",
                "notify", "sending"},
          slot : 0..MaxSlot, thread : 0..MaxThread]
Syncs == [pc : {"idle", "guard", "update", "save", "key", "push", "sending"},
          thread : 0..MaxThread, status : Reported \cup {"none"},
          loaded : RunStates, slot : 0..MaxSlot]

LEMMA TypeInit == Init => TypeInv
BY PushInitInv, AutomationAssumption
   DEF Init, TypeInv, TypeOK, TickHasThread, PushInv, RunStates, NoRun, NoTick, NoSync,
       Threads

LEMMA IdleTypes == NoRun \in RunStates /\ NoTick \in Ticks /\ NoSync \in Syncs
BY AutomationAssumption DEF NoRun, RunStates, NoTick, Ticks, NoSync, Syncs

\* The scheduler's own steps.
LEMMA TickTypes ==
  ASSUME TypeInv, TickWaits \/ (TickProgress /\ ~NotifyFailure), PushTypeOK'
  PROVE  TypeOK' /\ TickHasThread'
<1> USE AutomationAssumption DEF TypeInv, TypeOK, TickHasThread
<1>1. CASE TickWaits
  BY <1>1 DEF TickWaits, RunStates, NoRun, history
<1>2. CASE TickClaims
  BY <1>2 DEF TickClaims, RunStates, history
<1>3. ASSUME NEW t \in Threads, StartThread(t) PROVE TypeOK' /\ TickHasThread'
  <2>1. tick \in Ticks /\ t \in 0..MaxThread
    BY DEF Ticks, Threads
  <2>3. tick' = [tick EXCEPT !.pc = "register", !.thread = t]
    BY <1>3 DEF StartThread
  <2>4. tick' \in Ticks /\ tick'.thread = t
    <3> HIDE DEF TypeOK, TypeInv
    <3> QED
      BY <2>1, <2>3 DEF Ticks
  <2>2. slotOf' \in [Threads -> 0..MaxSlot]
    BY <1>3 DEF StartThread
  <2> QED
    BY <1>3, <2>2, <2>4 DEF StartThread, Ticks
<1>4. CASE StartThreadFails
  BY <1>4 DEF StartThreadFails, history
<1>5. CASE RegisterThread
  <2>1. tick' \in Ticks /\ tick'.pc = "turn" /\ hidden' \subseteq Threads
    BY <1>5 DEF RegisterThread, Ticks
  <2> QED
    BY <1>5, <2>1 DEF RegisterThread, Ticks, history
<1>6. CASE StartTurn
  <2>1. tick' \in Ticks /\ tick'.pc # "register"
    BY <1>6 DEF StartTurn, Ticks
  <2>2. turn' \in [Threads -> Reported \cup {"none", "running"}]
    BY <1>6 DEF StartTurn
  <2> QED
    BY <1>6, <2>1, <2>2 DEF StartTurn, Ticks, history
<1>7. CASE SaveRunning \/ SaveFailed
  BY <1>7 DEF SaveRunning, SaveFailed, RunStates, NoTick, Reported, history
<1> QED
  BY <1>1, <1>2, <1>3, <1>4, <1>5, <1>6, <1>7 DEF TickProgress

\* The sync of one observer.
LEMMA SyncTypes ==
  ASSUME TypeInv, NEW o \in Observers, ObserverStep(o), PushTypeOK'
  PROVE  TypeOK' /\ TickHasThread'
<1> USE AutomationAssumption DEF TypeInv, TypeOK, TickHasThread
<1>1. \A s \in Syncs : [obs EXCEPT ![o] = s] \in [Observers -> Syncs]
  BY DEF Syncs
<1>2. obs[o] \in Syncs /\ run \in RunStates
  BY DEF Syncs
<1>3. UNCHANGED <<due, hidden, turn, slotOf, tick, crashes>>
  BY DEF ObserverStep, ReadSnapshot, Guard, LoadRun, SaveRun, ComposeKey, Publish, history
<1>4. obs' \in [Observers -> Syncs]
  <2>1. ASSUME NEW t \in Threads, ReadSnapshot(o, t) PROVE obs' \in [Observers -> Syncs]
    <3>1. t \in 0..MaxThread /\ turn[t] \in Reported
      BY <2>1 DEF ReadSnapshot, Threads
    <3>2. [NoSync EXCEPT !.pc = "guard", !.thread = t, !.status = turn[t]] \in Syncs
      <4> HIDE DEF TypeOK, TypeInv
      <4> QED
        BY <3>1, IdleTypes DEF Syncs
    <3> QED
      BY <1>1, <2>1, <3>2 DEF ReadSnapshot
  <2>2. CASE Guard(o)
    BY <1>1, <1>2, <2>2, IdleTypes DEF Guard, Syncs
  <2>3. CASE LoadRun(o)
    <3>1. /\ [obs[o] EXCEPT !.pc = "key"] \in Syncs
          /\ [obs[o] EXCEPT !.pc = "save", !.loaded = run] \in Syncs
      BY <1>2 DEF Syncs
    <3> QED
      BY <1>1, <2>3, <3>1 DEF LoadRun
  <2>4. CASE SaveRun(o)
    BY <1>1, <1>2, <2>4, IdleTypes DEF SaveRun, Syncs
  <2>5. CASE ComposeKey(o)
    <3>1. [obs[o] EXCEPT !.pc = "push", !.slot = run.slot] \in Syncs
      BY <1>2 DEF Syncs, RunStates
    <3> QED
      BY <1>1, <2>5, <3>1, IdleTypes DEF ComposeKey
  <2>6. CASE Publish(o)
    <3>1. [obs[o] EXCEPT !.pc = "sending"] \in Syncs
      BY <1>2 DEF Syncs
    <3> QED
      BY <1>1, <2>6, <3>1, IdleTypes DEF Publish
  <2> QED
    BY <2>1, <2>2, <2>3, <2>4, <2>5, <2>6 DEF ObserverStep
<1>5. run' \in RunStates /\ overwritten' \subseteq 0..MaxSlot
  <2>1. CASE SaveRun(o)
    BY <1>2, <2>1 DEF SaveRun, RunStates, Syncs
  <2>2. CASE ~SaveRun(o)
    BY <2>2 DEF ObserverStep, ReadSnapshot, Guard, LoadRun, ComposeKey, Publish, history
  <2> QED
    BY <2>1, <2>2
<1> QED
  BY <1>3, <1>4, <1>5 DEF Syncs

LEMMA TypeStep == TypeInv /\ [Next]_vars => TypeInv'
<1> SUFFICES ASSUME TypeInv, [Next]_vars PROVE TypeInv'
  OBVIOUS
<1>1. PushInv' /\ PushTypeOK'
  BY StepIsPushStep, PushNextInv DEF PushInv, TypeInv
<1> SUFFICES TypeOK' /\ TickHasThread'
  BY <1>1 DEF TypeInv
<1>2. CASE TickWaits \/ (TickProgress /\ ~NotifyFailure)
  BY <1>1, <1>2, TickTypes
<1>3. CASE \E o \in Observers : ObserverStep(o)
  BY <1>1, <1>3, SyncTypes
<1> USE AutomationAssumption DEF TypeInv, TypeOK, TickHasThread
<1>4. CASE NotifyFailure
  BY <1>1, <1>4 DEF NotifyFailure, NoTick, history
<1>5. CASE SendStep
  <2>1. tick' \in {tick, NoTick}
    BY <1>5 DEF SendStep, Send
  <2>2. obs' \in [Observers -> Syncs]
    BY <1>5, IdleTypes DEF SendStep, Send, Syncs
  <2>3. UNCHANGED <<due, run, hidden, turn, slotOf, overwritten, crashes>>
    BY <1>5 DEF SendStep, history
  <2> QED
    BY <1>1, <2>1, <2>2, <2>3, IdleTypes DEF Syncs, Ticks, NoTick
<1>6. CASE NextSlotIsDue
  BY <1>1, <1>6 DEF NextSlotIsDue, history
<1>7. CASE Crash
  <2>1. tick' = NoTick /\ obs' \in [Observers -> Syncs] /\ crashes' \in Nat
    BY <1>7, IdleTypes DEF Crash
  <2>2. turn' \in [Threads -> Reported \cup {"none", "running"}]
    BY <1>7 DEF Crash, Reported
  <2>3. UNCHANGED <<due, run, hidden, slotOf, overwritten>>
    BY <1>7 DEF Crash, history
  <2> QED
    BY <1>1, <2>1, <2>2, <2>3, IdleTypes DEF Syncs, Ticks, NoTick
<1>8. CASE \E t \in Threads : TurnMoves(t)
  BY <1>1, <1>8 DEF TurnMoves, history
<1>9. CASE UNCHANGED vars
  BY <1>1, <1>9 DEF vars, history
<1> QED
  BY <1>2, <1>3, <1>4, <1>5, <1>6, <1>7, <1>8, <1>9 DEF Next, TickProgress, Environment

\* Every state of the scheduler, its observers and the push service is well formed.
THEOREM AutomationTypes == Spec => []TypeOK
<1>1. TypeInv => TypeOK
  BY DEF TypeInv
<1> QED
  BY <1>1, TypeInit, TypeStep, PTL DEF Spec

-----------------------------------------------------------------------------
(* One occurrence starts one thread.                                         *)

LEMMA ClaimInit == Init => ClaimInv
BY AutomationAssumption
   DEF Init, ClaimInv, Ordered, ClaimLasts, FirstClaim, StartedOnce, NoRun, NoTick,
       NoSync

\* A step that claims no slot, starts no thread and saves no run state: it may only
\* finish the tick, and load the run state into an observer or forget it.
LEMMA NoClaimStep ==
  ASSUME TypeOK, ClaimInv,
         UNCHANGED <<due, slotOf, overwritten, run>>,
         \/ tick'.pc = "idle"
         \/ /\ tick.pc # "idle" /\ tick'.slot = tick.slot
            /\ tick'.pc = "start" => tick.pc = "start",
         \A o \in Observers : obs'[o].loaded \in {obs[o].loaded, NoRun, run}
  PROVE  ClaimInv'
<1> USE AutomationAssumption DEF TypeOK, RunStates, ClaimInv
<1>1. \A o \in Observers : /\ obs'[o].loaded.slot <= due
                           /\ tick.pc # "idle" => obs'[o].loaded.slot <= tick.slot
  BY DEF Ordered, NoRun
<1>2. Ordered'
  BY <1>1 DEF Ordered
<1>3. ClaimLasts'
  BY DEF ClaimLasts, ClaimHolds
<1>4. FirstClaim' /\ StartedOnce'
  BY DEF FirstClaim, StartedOnce
<1> QED
  BY <1>2, <1>3, <1>4

\* The claim itself: the due slot is later than the stored one, so that it has no
\* thread yet unless an observer overwrote its claim.
LEMMA ClaimStep == TypeOK /\ ClaimInv /\ TickClaims => ClaimInv'
<1> SUFFICES ASSUME TypeOK, ClaimInv, TickClaims PROVE ClaimInv'
  OBVIOUS
<1> USE AutomationAssumption DEF TypeOK, RunStates, ClaimInv, TickClaims, history
<1>1. /\ due # 0 /\ run.slot # due /\ run'.slot = due
      /\ tick'.slot = due /\ due' = due
  OBVIOUS
<1>2. Ordered'
  BY <1>1 DEF Ordered
<1>3. ClaimLasts' /\ StartedOnce'
  BY <1>1 DEF ClaimLasts, ClaimHolds, StartedOnce
<1>4. FirstClaim'
  BY <1>1 DEF FirstClaim, ClaimLasts, ClaimHolds
<1> QED
  BY <1>2, <1>3, <1>4

\* The thread is started for the slot claimed, the first one of that slot.
LEMMA ThreadStep ==
  ASSUME TypeOK, ClaimInv, NEW t \in Threads, StartThread(t)
  PROVE  ClaimInv'
<1> USE AutomationAssumption DEF TypeOK, RunStates, ClaimInv, StartThread
<1>1. /\ tick.pc = "start" /\ tick'.pc = "register" /\ tick'.slot = tick.slot
      /\ \A u \in Threads : slotOf'[u] = IF u = t THEN tick.slot ELSE slotOf[u]
  OBVIOUS
<1>2. Ordered'
  BY <1>1 DEF Ordered
<1>3. ClaimLasts'
  BY <1>1 DEF ClaimLasts, ClaimHolds
<1>4. FirstClaim'
  BY <1>1 DEF FirstClaim
<1>5. StartedOnce'
  BY <1>1 DEF FirstClaim, StartedOnce
<1> QED
  BY <1>2, <1>3, <1>4, <1>5

\* The outcome of the start is saved under the slot of the tick: no later slot has
\* been claimed meanwhile, since automationMu is held.
LEMMA SaveOutcomeStep == TypeOK /\ ClaimInv /\ (SaveRunning \/ SaveFailed) => ClaimInv'
<1> SUFFICES ASSUME TypeOK, ClaimInv, SaveRunning \/ SaveFailed PROVE ClaimInv'
  OBVIOUS
<1> USE AutomationAssumption DEF TypeOK, RunStates, ClaimInv
<1>1. /\ tick.pc # "idle" /\ run'.slot = tick.slot
      /\ tick'.pc = "idle" \/ (tick'.pc = "notify" /\ tick'.slot = tick.slot)
      /\ UNCHANGED <<due, slotOf, overwritten, obs>>
  BY DEF SaveRunning, SaveFailed, NoTick, history
<1>2. Ordered'
  BY <1>1 DEF Ordered
<1>3. ClaimLasts'
  <2>1. CASE tick.slot = due
    BY <1>1, <2>1 DEF ClaimLasts, ClaimHolds
  <2>2. CASE tick.slot # due
    <3>1. tick.slot < due /\ \A t \in Threads : slotOf[t] < due
      BY <1>1, <2>2 DEF Ordered
    <3> QED
      BY <1>1, <2>2, <3>1 DEF ClaimLasts
  <2> QED
    BY <2>1, <2>2
<1>4. FirstClaim' /\ StartedOnce'
  BY <1>1 DEF FirstClaim, StartedOnce
<1> QED
  BY <1>2, <1>3, <1>4

\* An observer may put an older slot back, and then the claim counts as overwritten.
LEMMA ObserverSaveStep ==
  ASSUME TypeOK, ClaimInv, NEW o \in Observers, SaveRun(o)
  PROVE  ClaimInv'
<1> USE AutomationAssumption DEF TypeOK, RunStates, ClaimInv, SaveRun
<1>1. /\ run'.slot = obs[o].loaded.slot
      /\ run.slot = run'.slot \/ run.slot \in overwritten'
      /\ overwritten \subseteq overwritten'
      /\ UNCHANGED <<due, slotOf, tick>>
  OBVIOUS
<1>2. \A p \in Observers : obs'[p].loaded \in {obs[p].loaded, NoRun}
  OBVIOUS
<1>3. Ordered'
  BY <1>1, <1>2 DEF Ordered, NoRun
<1>4. ClaimHolds => ClaimHolds'
  BY <1>1 DEF ClaimHolds
<1>5. ClaimLasts'
  BY <1>1, <1>4 DEF ClaimLasts
<1>6. FirstClaim'
  BY <1>1 DEF FirstClaim
<1>7. StartedOnce'
  BY <1>1 DEF StartedOnce
<1> QED
  BY <1>3, <1>5, <1>6, <1>7

LEMMA ClaimNext == TypeInv /\ ClaimInv /\ [Next]_vars => ClaimInv'
<1> SUFFICES ASSUME TypeInv, ClaimInv, [Next]_vars PROVE ClaimInv'
  OBVIOUS
<1>0. TypeOK
  BY DEF TypeInv
<1>1. CASE TickWaits
  BY <1>0, <1>1, AutomationAssumption
     DEF TypeOK, RunStates, TickWaits, NoRun, history, ClaimInv, Ordered, ClaimLasts,
         ClaimHolds, FirstClaim, StartedOnce
<1>2. CASE TickClaims \/ SaveRunning \/ SaveFailed
  BY <1>0, <1>2, ClaimStep, SaveOutcomeStep
<1>3. CASE \E t \in Threads : StartThread(t)
  BY <1>0, <1>3, ThreadStep
<1>4. CASE StartThreadFails \/ RegisterThread \/ StartTurn \/ NotifyFailure
  <2>1. /\ UNCHANGED <<due, slotOf, overwritten, run, obs>>
        /\ tick.pc # "idle"
        /\ tick'.pc = "idle" \/ (tick'.slot = tick.slot /\ tick'.pc # "start")
    BY <1>0, <1>4 DEF TypeOK, StartThreadFails, RegisterThread, StartTurn,
         NotifyFailure, NoTick, history
  <2> QED
    BY <1>0, <2>1, NoClaimStep
<1>5. CASE SendStep \/ Crash
  <2>1. /\ UNCHANGED <<due, slotOf, overwritten, run>>
        /\ tick' \in {tick, NoTick}
        /\ \A o \in Observers : obs'[o].loaded \in {obs[o].loaded, NoRun, run}
    BY <1>5 DEF SendStep, Send, Crash, NoSync, history
  <2> QED
    BY <1>0, <2>1, NoClaimStep DEF NoTick
<1>6. CASE NextSlotIsDue
  <2>1. due' = due + 1 /\ UNCHANGED <<run, slotOf, overwritten, tick, obs>>
    BY <1>6 DEF NextSlotIsDue, history
  <2>2. Ordered'
    BY <1>0, <2>1, AutomationAssumption DEF TypeOK, RunStates, ClaimInv, Ordered
  <2>3. ClaimLasts'
    BY <1>0, <2>1, AutomationAssumption DEF TypeOK, ClaimInv, Ordered, ClaimLasts
  <2> QED
    BY <2>1, <2>2, <2>3 DEF ClaimInv, FirstClaim, StartedOnce
<1>7. CASE (\E t \in Threads : TurnMoves(t)) \/ UNCHANGED vars
  <2>1. UNCHANGED <<due, slotOf, overwritten, run, tick, obs>>
    BY <1>7 DEF TurnMoves, vars, history
  <2> QED
    BY <1>0, <2>1, NoClaimStep
<1>8. ASSUME NEW o \in Observers, ObserverStep(o) PROVE ClaimInv'
  <2>1. CASE SaveRun(o)
    BY <1>0, <2>1, ObserverSaveStep
  <2>2. CASE ~SaveRun(o)
    <3>1. UNCHANGED <<due, slotOf, overwritten, run, tick>>
      BY <1>8, <2>2 DEF ObserverStep, ReadSnapshot, Guard, LoadRun, ComposeKey, Publish,
           history
    <3>2. \E sync : /\ obs' = [obs EXCEPT ![o] = sync]
                   /\ sync.loaded \in {obs[o].loaded, NoRun, run}
      <4>1. NoSync.loaded = NoRun /\ obs[o] \in Syncs
        BY <1>0 DEF NoSync, TypeOK, Syncs
      <4>2. CASE \E t \in Threads : ReadSnapshot(o, t)
        <5>1. PICK t \in Threads : ReadSnapshot(o, t)
          BY <4>2
        <5>2. [NoSync EXCEPT !.pc = "guard", !.thread = t, !.status = turn[t]].loaded = NoRun
          BY DEF NoSync
        <5> QED
          BY <5>1, <5>2 DEF ReadSnapshot
      <4>3. CASE Guard(o) \/ ComposeKey(o) \/ Publish(o)
        BY <4>1, <4>3 DEF Guard, ComposeKey, Publish, Syncs
      <4>4. CASE LoadRun(o)
        <5>1. [obs[o] EXCEPT !.pc = "key"].loaded = obs[o].loaded
          BY <4>1 DEF Syncs
        <5>2. [obs[o] EXCEPT !.pc = "save", !.loaded = run].loaded = run
          BY <4>1 DEF Syncs
        <5>3. CASE Foreign(run, o)
          BY <4>4, <5>1, <5>3 DEF LoadRun
        <5>4. CASE ~Foreign(run, o)
          BY <4>4, <5>2, <5>4 DEF LoadRun
        <5> QED
          BY <5>3, <5>4
      <4> QED
        BY <1>8, <2>2, <4>2, <4>3, <4>4 DEF ObserverStep
    <3>3. \A p \in Observers : obs'[p].loaded \in {obs[p].loaded, NoRun, run}
      BY <1>0, <3>2 DEF TypeOK
    <3> QED
      BY <1>0, <3>1, <3>3, NoClaimStep
  <2> QED
    BY <2>1, <2>2
<1> QED
  BY <1>1, <1>2, <1>3, <1>4, <1>5, <1>6, <1>7, <1>8
     DEF Next, TickProgress, Environment

\* ADR-023: an occurrence starts at most one thread, whatever fails or restarts, as
\* long as no observer overwrites its claim.
THEOREM OccurrenceStartsOnce == Spec => []StartedOnce
<1>1. Init => TypeInv /\ ClaimInv
  BY TypeInit, ClaimInit
<1>2. TypeInv /\ ClaimInv /\ [Next]_vars => (TypeInv /\ ClaimInv)'
  BY TypeStep, ClaimNext
<1>3. ClaimInv => StartedOnce
  BY DEF ClaimInv
<1> QED
  BY <1>1, <1>2, <1>3, PTL DEF Spec

-----------------------------------------------------------------------------
(* The composed system keeps the promises of the push service.               *)

\* Every behaviour of the scheduler and its observers is one of the push service:
\* they publish under pushMu, and a restart of the daemon is a given up delivery.
THEOREM AutomationImplementsPush == Spec => ImplementsPush
<1>1. Init => PushInit
  BY DEF Init
<1>2. TypeInv /\ [Next]_vars => [PushNext]_pushVars
  BY StepIsPushStep DEF TypeInv
<1> QED
  BY <1>1, <1>2, TypeInit, TypeStep, PTL DEF Spec, ImplementsPush, PushSpec

\* No notification of a scheduled task goes out twice under one key, in spite of the
\* observers that race for it, failed sends and restarts.
THEOREM AutomationPushesOnce == Spec => []OncePerKey
BY AutomationImplementsPush, PushAtMostOnce, PTL DEF ImplementsPush

-----------------------------------------------------------------------------
(* A silent result stays silent.  A turn that has ended is not turned again:   *)
(* what an observer read of it, and what was claimed or sent of it, stays so.   *)

Told == {"completed", "failed", "cancelled"}

\* What is pushed as the end of a turn ended, and not silently.
Spoken(k) == k.phase = "terminal" => k.thread \in Threads /\ turn[k.thread] \in Told

\* What an observer is in the middle of is so.
Sound(s) ==
  /\ s.thread \in Threads /\ s.status \in Reported
  /\ s.status # "needs_input" => turn[s.thread] = s.status
  /\ s.pc = "push" => s.status # "silent"

\* A thread has no turn before the scheduler starts it.
NoTurnYet ==
  tick.pc \in {"register", "turn"} =>
    tick.thread \in Threads /\ turn[tick.thread] = "none" /\ slotOf[tick.thread] # 0
Unused == \A t \in Threads : slotOf[t] = 0 => turn[t] = "none"

SilentInv ==
  /\ \A k \in RunKeys : sent[k] > 0 => Spoken(k)
  /\ pushing # Nobody => Spoken(pushing.key)
  /\ \A o \in Observers : obs[o].pc # "idle" => Sound(obs[o])
  /\ NoTurnYet /\ Unused

LEMMA SilentInit == Init => SilentInv
BY AutomationAssumption
   DEF Init, PushInit, SilentInv, NoTurnYet, Unused, NoTick, NoSync, RunKeys

\* A step that turns no ended turn, and reads, claims and sends only what is so.
LEMMA SilentKeeps ==
  ASSUME SilentInv,
         \A t \in Threads : turn[t] \in Told \cup {"silent"} => turn'[t] = turn[t],
         \A k \in RunKeys : sent'[k] > 0 => sent[k] > 0 \/ Spoken(k),
         \/ pushing' = Nobody
         \/ pushing # Nobody /\ pushing'.key = pushing.key
         \/ Spoken(pushing'.key),
         \A o \in Observers : obs'[o] = obs[o] \/ obs'[o].pc = "idle" \/ Sound(obs'[o]),
         NoTurnYet', Unused'
  PROVE  SilentInv'
<1>1. \A s : s.thread \in Threads /\ s.status \in Reported /\ s.status # "needs_input" /\ turn[s.thread] = s.status
             => turn'[s.thread] = s.status
  BY DEF Told, Reported
<1>2. \A k \in RunKeys : sent'[k] > 0 => Spoken(k)'
  BY DEF SilentInv, Spoken
<1>3. pushing' # Nobody => Spoken(pushing.key)'
  BY DEF SilentInv, Spoken
<1>4. \A o \in Observers : obs'[o].pc # "idle" => Sound(obs[o])'
  <2> SUFFICES ASSUME NEW o \in Observers, obs'[o].pc # "idle" PROVE Sound(obs[o])'
    OBVIOUS
  <2>1. Sound(obs'[o])
    BY DEF SilentInv
  <2> QED
    BY <1>1, <2>1 DEF Sound
<1> QED
  BY <1>2, <1>3, <1>4 DEF SilentInv

\* The scheduler: it starts a turn on a thread that had none.
LEMMA TickSilent ==
  ASSUME TypeInv, ClaimInv, SilentInv, TickWaits \/ (TickProgress /\ ~NotifyFailure)
  PROVE  SilentInv'
<1>1. UNCHANGED <<pushVars, obs>>
  BY DEF TickWaits, TickProgress, TickClaims, StartThread, StartThreadFails,
     RegisterThread, StartTurn, SaveRunning, SaveFailed
<1>2. tick \in Ticks /\ slotOf \in [Threads -> 0..MaxSlot] /\ turn \in [Threads -> Reported \cup {"none", "running"}]
  BY DEF TypeInv, TypeOK, Ticks
<1>3. ASSUME \A t \in Threads : turn[t] \in Told \cup {"silent"} => turn'[t] = turn[t], NoTurnYet', Unused'
      PROVE  SilentInv'
  BY <1>1, <1>3, SilentKeeps DEF pushVars, SilentInv
<1>4. CASE TickWaits \/ TickClaims \/ StartThreadFails \/ SaveRunning \/ SaveFailed
  <2>1. UNCHANGED <<turn, slotOf>> /\ (tick' = tick \/ tick'.pc \notin {"register", "turn"})
    BY <1>2, <1>4 DEF TickWaits, TickClaims, StartThreadFails, SaveRunning, SaveFailed, history, NoTick, Ticks
  <2> QED
    BY <1>3, <2>1 DEF SilentInv, NoTurnYet, Unused
<1>5. CASE \E t \in Threads : StartThread(t)
  <2>1. PICK t \in Threads : StartThread(t)
    BY <1>5
  <2>2. /\ slotOf[t] = 0 /\ slotOf' = [slotOf EXCEPT ![t] = tick.slot]
        /\ tick' = [tick EXCEPT !.pc = "register", !.thread = t] /\ turn' = turn
    BY <2>1 DEF StartThread
  <2>3. tick'.thread = t /\ tick.slot # 0 /\ slotOf'[t] = tick.slot
    BY <1>2, <2>1, <2>2 DEF Ticks, StartThread, ClaimInv, Ordered
  <2>4. \A u \in Threads : slotOf'[u] = 0 => u = t \/ slotOf[u] = 0
    BY <1>2, <2>2
  <2> QED
    BY <1>3, <2>2, <2>3, <2>4 DEF SilentInv, NoTurnYet, Unused
<1>6. CASE RegisterThread
  <2>1. tick.pc = "register" /\ tick'.thread = tick.thread /\ UNCHANGED <<turn, slotOf>>
    BY <1>2, <1>6 DEF RegisterThread, history, Ticks
  <2> QED
    BY <1>3, <2>1 DEF SilentInv, NoTurnYet, Unused
<1>7. CASE StartTurn
  <2>1. /\ tick.pc = "turn" /\ slotOf' = slotOf /\ tick'.pc \in {"started", "failed"}
        /\ turn' = turn \/ turn' = [turn EXCEPT ![tick.thread] = "running"]
    BY <1>2, <1>7 DEF StartTurn, history, Ticks
  <2>2. turn[tick.thread] = "none" /\ tick.thread \in Threads
    BY <2>1 DEF SilentInv, NoTurnYet
  <2>3. \A t \in Threads : turn[t] \in Told \cup {"silent"} => turn'[t] = turn[t]
    BY <1>2, <2>1, <2>2 DEF Told
  <2>4. NoTurnYet'
    BY <2>1 DEF NoTurnYet
  <2>5. Unused'
    BY <1>2, <2>1, <2>2 DEF SilentInv, NoTurnYet, Unused
  <2> QED
    BY <1>3, <2>3, <2>4, <2>5
<1> QED
  BY <1>4, <1>5, <1>6, <1>7 DEF TickProgress

\* The sync of one observer.
LEMMA SyncSilent ==
  ASSUME TypeInv, SilentInv, NEW o \in Observers, ObserverStep(o)
  PROVE  SilentInv'
<1>1. UNCHANGED <<turn, slotOf, tick, sent>>
  BY DEF ObserverStep, ReadSnapshot, Guard, LoadRun, SaveRun, ComposeKey, Publish, history, pushVars, Claim
<1>2. obs \in [Observers -> Syncs] /\ obs[o] \in Syncs /\ turn \in [Threads -> Reported \cup {"none", "running"}]
  BY DEF TypeInv, TypeOK, Syncs
<1>3. obs[o].pc # "idle" => Sound(obs[o])
  BY DEF SilentInv
<1>4. ASSUME NEW s, obs' = [obs EXCEPT ![o] = s], s.pc = "idle" \/ Sound(s),
             pushing' = pushing \/ Spoken(pushing'.key)
      PROVE  SilentInv'
  <2>1. \A p \in Observers : obs'[p] = obs[p] \/ obs'[p].pc = "idle" \/ Sound(obs'[p])
    BY <1>2, <1>4
  <2>2. NoTurnYet' /\ Unused'
    BY <1>1 DEF SilentInv, NoTurnYet, Unused
  <2>3. \/ pushing' = Nobody
        \/ pushing # Nobody /\ pushing'.key = pushing.key
        \/ Spoken(pushing'.key)
    BY <1>4
  <2> QED
    BY <1>1, <2>1, <2>2, <2>3, SilentKeeps
<1>5. NoSync.pc = "idle"
  BY DEF NoSync
<1>6. ASSUME NEW pc \in {"update", "key", "save", "sending"}, NEW r \in RunStates, obs[o].pc # "idle"
      PROVE  /\ Sound([obs[o] EXCEPT !.pc = pc])
             /\ Sound([obs[o] EXCEPT !.pc = pc, !.loaded = r])
  <2>1. PICK x \in Syncs : x = obs[o]
    BY <1>2
  <2>2. \A y \in {[x EXCEPT !.pc = pc], [x EXCEPT !.pc = pc, !.loaded = r]} :
          y.thread = x.thread /\ y.status = x.status /\ y.pc = pc
    BY <2>1 DEF Syncs
  <2> QED
    BY <1>3, <1>6, <2>1, <2>2 DEF Sound
<1>7. NoRun \in RunStates /\ run \in RunStates
  BY IdleTypes DEF TypeInv, TypeOK
<1>8. CASE \E t \in Threads : ReadSnapshot(o, t)
  <2>1. PICK t \in Threads : ReadSnapshot(o, t)
    BY <1>8
  <2> DEFINE st == turn[t]
             s == [NoSync EXCEPT !.pc = "guard", !.thread = t, !.status = st]
  <2>2. s.thread = t /\ s.status = st /\ s.pc = "guard"
    BY DEF NoSync
  <2>3. obs' = [obs EXCEPT ![o] = s] /\ st \in Reported /\ pushing' = pushing
    BY <2>1 DEF ReadSnapshot, pushVars
  <2>4. turn[t] = st
    OBVIOUS
  <2> HIDE DEF s, st
  <2>5. Sound(s)
    BY <2>2, <2>3, <2>4 DEF Sound
  <2> QED
    BY <1>4, <2>3, <2>5
<1>9. CASE Guard(o)
  <2>1. obs[o].pc # "idle" /\ pushing' = pushing
    BY <1>9 DEF Guard, pushVars
  <2>2. Sound([obs[o] EXCEPT !.pc = "update"])
    BY <1>6, <1>7, <2>1
  <2> QED
    BY <1>4, <1>5, <1>9, <2>1, <2>2 DEF Guard
<1>10. CASE LoadRun(o)
  <2>1. obs[o].pc # "idle" /\ pushing' = pushing
    BY <1>10 DEF LoadRun, pushVars
  <2>2. Sound([obs[o] EXCEPT !.pc = "key"]) /\ Sound([obs[o] EXCEPT !.pc = "save", !.loaded = run])
    BY <1>6, <1>7, <2>1
  <2> QED
    BY <1>4, <1>10, <2>1, <2>2 DEF LoadRun
<1>11. CASE SaveRun(o)
  <2>1. obs[o].pc # "idle" /\ pushing' = pushing
    BY <1>11 DEF SaveRun, pushVars
  <2>2. Sound([obs[o] EXCEPT !.pc = "key", !.loaded = NoRun])
    BY <1>6, <1>7, <2>1
  <2>3. obs' = [obs EXCEPT ![o] = [obs[o] EXCEPT !.pc = "key", !.loaded = NoRun]]
    BY <1>2, <1>11 DEF SaveRun
  <2> QED
    BY <1>4, <2>1, <2>2, <2>3
<1>12. CASE ComposeKey(o)
  <2>1. obs[o].pc # "idle" /\ pushing' = pushing
    BY <1>12 DEF ComposeKey, pushVars
  <2>2. CASE obs' = [obs EXCEPT ![o] = NoSync]
    BY <1>4, <1>5, <2>1, <2>2
  <2>3. CASE obs[o].status # "silent" /\ obs' = [obs EXCEPT ![o].pc = "push", ![o].slot = run.slot]
    <3>1. PICK x \in Syncs : x = obs[o]
      BY <1>2
    <3> DEFINE n == run.slot
               s == [x EXCEPT !.pc = "push", !.slot = n]
    <3>2. obs' = [obs EXCEPT ![o] = s]
      BY <2>3, <3>1
    <3> HIDE DEF n
    <3>3. s.thread = x.thread /\ s.status = x.status
      BY <3>1 DEF Syncs
    <3> HIDE DEF s
    <3>4. Sound(s)
      BY <1>3, <2>1, <2>3, <3>1, <3>3 DEF Sound
    <3> QED
      BY <1>4, <2>1, <3>2, <3>4
  <2> QED
    BY <1>12, <2>2, <2>3 DEF ComposeKey
<1>13. CASE Publish(o)
  <2>1. obs[o].pc = "push" /\ Sound(obs[o])
    BY <1>3, <1>13 DEF Publish
  <2>2. Spoken(KeyOf(o))
    BY <2>1 DEF Spoken, Sound, KeyOf, Phase, Told, Reported
  <2>3. Sound([obs[o] EXCEPT !.pc = "sending"])
    BY <1>6, <1>7, <2>1
  <2>4. CASE Claim(o, KeyOf(o)) /\ obs' = [obs EXCEPT ![o].pc = "sending"]
    <3>1. pushing'.key = KeyOf(o)
      BY <2>4 DEF Claim
    <3>2. Spoken(pushing'.key)
      BY <2>2, <3>1
    <3> QED
      BY <1>4, <2>3, <2>4, <3>2
  <2>5. CASE obs' = [obs EXCEPT ![o] = NoSync] /\ UNCHANGED pushVars
    BY <1>4, <1>5, <2>5 DEF pushVars
  <2> QED
    BY <1>13, <2>4, <2>5 DEF Publish
<1> QED
  BY <1>8, <1>9, <1>10, <1>11, <1>12, <1>13 DEF ObserverStep

LEMMA SilentNext == TypeInv /\ ClaimInv /\ SilentInv /\ [Next]_vars => SilentInv'
<1> SUFFICES ASSUME TypeInv, ClaimInv, SilentInv, [Next]_vars PROVE SilentInv'
  OBVIOUS
<1>1. CASE TickWaits \/ (TickProgress /\ ~NotifyFailure)
  BY <1>1, TickSilent
<1>2. CASE \E o \in Observers : ObserverStep(o)
  BY <1>2, SyncSilent
<1>3. CASE NotifyFailure
  <2>1. /\ UNCHANGED <<turn, slotOf, obs, sent>> /\ tick'.pc \notin {"register", "turn"}
        /\ pushing' = pushing \/ pushing'.key = FailureKey
    BY <1>3 DEF NotifyFailure, Claim, NoTick, history, pushVars, TypeInv, TypeOK
  <2>2. Spoken(FailureKey)
    BY DEF Spoken, FailureKey
  <2>3. NoTurnYet' /\ Unused'
    BY <2>1 DEF NoTurnYet, Unused, SilentInv
  <2> QED
    BY <2>1, <2>2, <2>3, SilentKeeps
<1>4. CASE SendStep
  <2>1. /\ UNCHANGED <<turn, slotOf>> /\ tick' \in {tick, NoTick}
        /\ obs' = obs \/ \A o \in Observers : obs'[o] = NoSync \/ obs'[o] = obs[o]
    BY <1>4 DEF SendStep, Send, history
  <2>2. NoSync.pc = "idle" /\ NoTick.pc = "idle"
    BY DEF NoSync, NoTick
  <2>3. pushing # Nobody /\ (pushing' = Nobody \/ pushing'.key = pushing.key)
    BY <1>4 DEF SendStep, Send, Deliver, WriteReceipt, Abandon, TypeInv, TypeOK, PushTypeOK, Pushes
  <2>4. \A k \in RunKeys : sent'[k] > 0 => sent[k] > 0 \/ k = pushing.key
    <3>1. sent' = sent \/ sent' = [sent EXCEPT ![pushing.key] = @ + 1]
      BY <1>4 DEF SendStep, Send, Deliver, WriteReceipt, Abandon
    <3> QED
      BY <3>1, AutomationAssumption DEF TypeInv, TypeOK, PushTypeOK
  <2>5. NoTurnYet' /\ Unused'
    BY <2>1, <2>2 DEF NoTurnYet, Unused, SilentInv
  <2>6. Spoken(pushing.key)
    BY <2>3 DEF SilentInv
  <2> QED
    BY <2>1, <2>2, <2>3, <2>4, <2>5, <2>6, SilentKeeps
<1>5. CASE Crash
  <2>1. /\ tick' = NoTick /\ obs' = [o \in Observers |-> NoSync] /\ slotOf' = slotOf /\ sent' = sent
        /\ pushing' = Nobody
        /\ turn' = [t \in Threads |-> IF turn[t] \in {"running", "needs_input"} THEN "cancelled" ELSE turn[t]]
    BY <1>5 DEF Crash, Abandon, history, pushVars
  <2>2. NoSync.pc = "idle" /\ NoTick.pc = "idle"
    BY DEF NoSync, NoTick
  <2>3. \A t \in Threads : turn[t] \notin {"running", "needs_input"} => turn'[t] = turn[t]
    BY <2>1
  <2>4. NoTurnYet' /\ Unused'
    BY <2>1, <2>2, <2>3 DEF NoTurnYet, Unused, SilentInv
  <2>5. \A t \in Threads : turn[t] \in Told \cup {"silent"} => turn'[t] = turn[t]
    BY <2>3 DEF Told
  <2>6. \A o \in Observers : obs'[o].pc = "idle"
    BY <2>1, <2>2
  <2> QED
    BY <2>1, <2>4, <2>5, <2>6, SilentKeeps
<1>6. CASE \E t \in Threads : TurnMoves(t)
  <2>1. PICK t \in Threads, status \in Outcomes \cup {"running"} :
          turn[t] \in {"running", "needs_input"} /\ turn' = [turn EXCEPT ![t] = status]
    BY <1>6 DEF TurnMoves
  <2>2. UNCHANGED <<pushVars, slotOf, tick, obs>>
    BY <1>6 DEF TurnMoves, history
  <2>3. \A u \in Threads : turn[u] \notin {"running", "needs_input"} => turn'[u] = turn[u]
    BY <2>1 DEF TypeInv, TypeOK
  <2>4. NoTurnYet' /\ Unused'
    BY <2>2, <2>3 DEF NoTurnYet, Unused, SilentInv
  <2>5. \A u \in Threads : turn[u] \in Told \cup {"silent"} => turn'[u] = turn[u]
    BY <2>3 DEF Told
  <2> QED
    BY <2>2, <2>4, <2>5, SilentKeeps DEF pushVars
<1>7. CASE NextSlotIsDue \/ UNCHANGED vars
  <2>1. UNCHANGED <<pushVars, slotOf, tick, obs, turn>>
    BY <1>7 DEF NextSlotIsDue, vars, history
  <2> QED
    BY <2>1 DEF SilentInv, Spoken, Sound, NoTurnYet, Unused, pushVars
<1> QED
  BY <1>1, <1>2, <1>3, <1>4, <1>5, <1>6, <1>7 DEF Next, TickProgress, Environment

\* failed_runs_only and DONT_NOTIFY: whichever observers see a silent result, in whatever
\* order, with whatever restarts and under whatever slot, nothing of it is pushed.
THEOREM AutomationStaysSilent == Spec => []SilentStaysSilent
<1>1. Init => TypeInv /\ ClaimInv /\ SilentInv
  BY TypeInit, ClaimInit, SilentInit
<1>2. TypeInv /\ ClaimInv /\ SilentInv /\ [Next]_vars => (TypeInv /\ ClaimInv /\ SilentInv)'
  BY TypeStep, ClaimNext, SilentNext
<1>3. SilentInv => SilentStaysSilent
  BY DEF SilentInv, Spoken, Told, SilentStaysSilent
<1> QED
  BY <1>1, <1>2, <1>3, PTL DEF Spec

-----------------------------------------------------------------------------
(* A thread without its row is empty, and there is one for each restart.     *)

\* The tick that starts a turn has recorded its thread, and a delivery for the scheduler
\* is waited for by the tick: neither a finished delivery nor a later tick takes the
\* thread that is being recorded away.
Recorded == tick.pc = "turn" => tick.thread \in hidden
TickWaitsForPush == pushing # Nobody /\ pushing.by = Scheduler => tick.pc = "sending"

StrayInv == StraysAreEmpty /\ Recorded /\ TickWaitsForPush

LEMMA StrayInit == Init => StrayInv
<1> SUFFICES ASSUME Init PROVE StrayInv
  OBVIOUS
<1>1. Strays = {}
  BY DEF Init, Strays
<1>2. Cardinality(Strays) <= crashes
  BY <1>1, FS_EmptySet DEF Init
<1> QED
  BY <1>2 DEF Init, PushInit, StrayInv, StraysAreEmpty, Recorded, TickWaitsForPush, NoTick

LEMMA StraysAreFinite == IsFiniteSet(Strays) /\ Cardinality(Strays) \in Nat
<1>1. IsFiniteSet(Threads) /\ Strays \subseteq Threads
  BY FS_Interval, AutomationAssumption DEF Threads, Strays
<1> QED
  BY <1>1, FS_Subset, FS_CardinalityType

\* A step that leaves no thread behind and turns only recorded threads.
LEMMA StraysKept ==
  ASSUME TypeInv, StrayInv, Strays' \subseteq Strays, crashes' = crashes,
         \A t \in Threads \ hidden' : turn[t] = "none" => turn'[t] = "none",
         hidden \subseteq hidden', Recorded', TickWaitsForPush'
  PROVE  StrayInv'
<1>1. Cardinality(Strays') <= Cardinality(Strays) /\ Cardinality(Strays') \in Nat
  BY StraysAreFinite, FS_Subset, FS_CardinalityType
<1>2. Cardinality(Strays') <= crashes'
  BY <1>1, StraysAreFinite DEF StrayInv, StraysAreEmpty, TypeInv, TypeOK
<1>3. (\A t \in Threads \ hidden : turn[t] = "none")'
  BY DEF StrayInv, StraysAreEmpty
<1> QED
  BY <1>2, <1>3 DEF StrayInv, StraysAreEmpty

\* A restart leaves the thread of the tick behind, if that was being recorded.
LEMMA StrayOfCrash == ASSUME TypeInv, StrayInv, Crash PROVE StrayInv'
<1>1. /\ tick' = NoTick /\ pushing' = Nobody /\ UNCHANGED <<slotOf, hidden>>
      /\ crashes' = crashes + 1 /\ crashes \in Nat
  BY DEF Crash, Abandon, pushVars, history, TypeInv, TypeOK
<1>2. Strays' \subseteq Strays \cup {tick.thread}
  BY <1>1 DEF Strays
<1>3. /\ IsFiniteSet(Strays \cup {tick.thread})
      /\ Cardinality(Strays \cup {tick.thread}) <= Cardinality(Strays) + 1
  <2> DEFINE S == Strays
             t == tick.thread
  <2>1. IsFiniteSet(S) /\ Cardinality(S) \in Nat
    BY StraysAreFinite
  <2> HIDE DEF S, t
  <2>2. IsFiniteSet(S \cup {t}) /\ Cardinality(S \cup {t}) <= Cardinality(S) + 1
    BY <2>1, FS_AddElement
  <2> QED
    BY <2>2 DEF S, t
<1>4. /\ Cardinality(Strays') <= Cardinality(Strays \cup {tick.thread})
      /\ Cardinality(Strays') \in Nat /\ Cardinality(Strays \cup {tick.thread}) \in Nat
  BY <1>2, <1>3, FS_Subset, FS_CardinalityType
<1>5. Cardinality(Strays') <= crashes'
  BY <1>1, <1>3, <1>4, StraysAreFinite DEF StrayInv, StraysAreEmpty
<1>6. (\A t \in Threads \ hidden : turn[t] = "none")'
  BY <1>1 DEF Crash, StrayInv, StraysAreEmpty
<1> QED
  BY <1>1, <1>5, <1>6 DEF StrayInv, StraysAreEmpty, Recorded, TickWaitsForPush, NoTick

LEMMA StrayNext == TypeInv /\ StrayInv /\ [Next]_vars => StrayInv'
<1> SUFFICES ASSUME TypeInv, StrayInv, [Next]_vars PROVE StrayInv'
  OBVIOUS
<1>0. /\ tick \in Ticks /\ slotOf \in [Threads -> 0..MaxSlot]
      /\ turn \in [Threads -> Reported \cup {"none", "running"}]
      /\ Recorded /\ TickWaitsForPush
  BY DEF TypeInv, TypeOK, Ticks, StrayInv
<1>1. CASE TickWaits \/ TickClaims \/ StartThreadFails \/ SaveRunning \/ SaveFailed
  <2>1. /\ UNCHANGED <<pushVars, hidden, turn, slotOf, crashes>> /\ tick.pc # "register"
        /\ tick' = tick \/ (tick.pc # "sending" /\ tick'.pc \notin {"register", "turn"})
    BY <1>0, <1>1 DEF TickWaits, TickClaims, StartThreadFails, SaveRunning, SaveFailed,
       history, NoTick, Ticks
  <2>2. Strays' \subseteq Strays
    BY <2>1 DEF Strays
  <2>3. Recorded' /\ TickWaitsForPush'
    BY <1>0, <2>1 DEF Recorded, TickWaitsForPush, pushVars
  <2> QED
    BY <2>1, <2>2, <2>3, StraysKept
<1>2. CASE \E t \in Threads : StartThread(t)
  <2>1. PICK t \in Threads : StartThread(t)
    BY <1>2
  <2>2. /\ tick'.pc = "register" /\ tick'.thread = t /\ tick.pc = "start"
        /\ slotOf' = [slotOf EXCEPT ![t] = tick.slot]
        /\ UNCHANGED <<pushVars, hidden, turn, crashes>>
    BY <1>0, <2>1 DEF StartThread, Ticks
  <2>3. Strays' \subseteq Strays
    BY <1>0, <2>2 DEF Strays
  <2>4. Recorded' /\ TickWaitsForPush'
    BY <1>0, <2>2 DEF Recorded, TickWaitsForPush, pushVars
  <2> QED
    BY <2>2, <2>3, <2>4, StraysKept
<1>3. CASE RegisterThread
  <2>1. /\ tick.pc = "register" /\ tick'.pc = "turn" /\ tick'.thread = tick.thread
        /\ hidden' = hidden \cup {tick.thread}
        /\ UNCHANGED <<pushVars, turn, slotOf, crashes>>
    BY <1>0, <1>3 DEF RegisterThread, history, Ticks
  <2>2. Strays' \subseteq Strays
    BY <2>1 DEF Strays
  <2>3. Recorded' /\ TickWaitsForPush'
    BY <1>0, <2>1 DEF Recorded, TickWaitsForPush, pushVars
  <2> QED
    BY <2>1, <2>2, <2>3, StraysKept
<1>4. CASE StartTurn
  <2>1. /\ tick.pc = "turn" /\ tick'.pc \in {"started", "failed"}
        /\ tick.thread \in hidden
        /\ turn' = turn \/ turn' = [turn EXCEPT ![tick.thread] = "running"]
        /\ UNCHANGED <<pushVars, hidden, slotOf, crashes>>
    BY <1>0, <1>4 DEF StartTurn, history, Ticks, Recorded
  <2>2. Strays' \subseteq Strays
    BY <2>1 DEF Strays
  <2>3. Recorded' /\ TickWaitsForPush'
    BY <1>0, <2>1 DEF Recorded, TickWaitsForPush, pushVars
  <2>4. \A t \in Threads \ hidden' : turn[t] = "none" => turn'[t] = "none"
    BY <1>0, <2>1
  <2> QED
    BY <2>1, <2>2, <2>3, <2>4, StraysKept
<1>5. CASE NotifyFailure
  <2>1. /\ tick.pc = "notify" /\ UNCHANGED <<hidden, turn, slotOf, crashes>>
        /\ \/ tick'.pc = "sending"
           \/ tick'.pc = "idle" /\ pushing' = Nobody
    BY <1>0, <1>5 DEF NotifyFailure, history, Ticks, NoTick, pushVars
  <2>2. Strays' \subseteq Strays
    BY <2>1 DEF Strays
  <2>3. Recorded' /\ TickWaitsForPush'
    BY <2>1 DEF Recorded, TickWaitsForPush
  <2> QED
    BY <2>1, <2>2, <2>3, StraysKept
<1>6. CASE SendStep
  <2>1. /\ UNCHANGED <<hidden, turn, slotOf, crashes>>
        /\ \/ tick' = tick
           \/ tick' = NoTick /\ tick.pc = "sending"
        /\ pushing' = Nobody \/ (tick' = tick /\ pushing # Nobody /\ pushing'.by = pushing.by)
    BY <1>0, <1>6 DEF SendStep, Send, Deliver, WriteReceipt, Abandon, history,
       TickWaitsForPush, TypeInv, TypeOK, PushTypeOK, Pushes
  <2>2. Strays' \subseteq Strays
    BY <2>1 DEF Strays
  <2>3. Recorded' /\ TickWaitsForPush'
    BY <1>0, <2>1 DEF Recorded, TickWaitsForPush, NoTick
  <2> QED
    BY <2>1, <2>2, <2>3, StraysKept
<1>7. ASSUME NEW o \in Observers, ObserverStep(o) PROVE StrayInv'
  <2>1. UNCHANGED <<hidden, turn, slotOf, crashes, tick>>
    BY ONLY <1>7, Zenon DEF ObserverStep, ReadSnapshot, Guard, LoadRun, SaveRun, ComposeKey,
       Publish, history
  <2>4. pushing' = pushing \/ pushing' = Nobody \/ pushing'.by = o
    <3>1. CASE Publish(o)
      <4>1. \/ pushing' = pushing
            \/ pushing' = [by |-> o, key |-> KeyOf(o), step |-> "send"]
        BY <3>1 DEF Publish, Claim, pushVars
      <4> QED
        BY <4>1
    <3>2. CASE ~Publish(o)
      BY ONLY <1>7, <3>2, Zenon DEF ObserverStep, ReadSnapshot, Guard, LoadRun, SaveRun,
         ComposeKey, pushVars
    <3> QED
      BY <3>1, <3>2
  <2>2. Strays' \subseteq Strays
    BY <2>1 DEF Strays
  <2>3. Recorded' /\ TickWaitsForPush'
    BY <1>0, <2>1, <2>4, AutomationAssumption DEF Recorded, TickWaitsForPush
  <2> QED
    BY <2>1, <2>2, <2>3, StraysKept
<1>8. CASE NextSlotIsDue \/ (\E t \in Threads : TurnMoves(t)) \/ UNCHANGED vars
  <2>1. UNCHANGED <<hidden, slotOf, crashes, tick, pushing>>
    BY <1>8 DEF NextSlotIsDue, TurnMoves, vars, history, pushVars
  <2>2. \A t \in Threads \ hidden' : turn[t] = "none" => turn'[t] = "none"
    BY <1>0, <1>8 DEF NextSlotIsDue, TurnMoves, vars, history
  <2>3. Strays' \subseteq Strays
    BY <2>1 DEF Strays
  <2>4. Recorded' /\ TickWaitsForPush'
    BY <1>0, <2>1 DEF Recorded, TickWaitsForPush
  <2> QED
    BY <2>1, <2>2, <2>3, <2>4, StraysKept
<1> QED
  BY <1>1, <1>2, <1>3, <1>4, <1>5, <1>6, <1>7, <1>8, StrayOfCrash
     DEF Next, TickProgress, Environment

\* Restarts lose at most one hidden thread each, and no turn ever runs on a thread that
\* is not recorded as hidden.
THEOREM StrayThreadsAreEmpty == Spec => []StraysAreEmpty
<1>1. StrayInv => StraysAreEmpty
  BY DEF StrayInv
<1> QED
  BY <1>1, TypeInit, TypeStep, StrayInit, StrayNext, PTL DEF Spec

-----------------------------------------------------------------------------
(* Schedule: any rules and any times.                                       *)

\* A set of times that ends has a greatest one.
LEMMA GreatestTime ==
  ASSUME NEW T, NEW b \in Nat, T \subseteq 0 .. b, T # {}
  PROVE  \E k \in T : \A l \in T : l <= k
<1> DEFINE U == {b - k : k \in T}
<1>1. U \subseteq Nat /\ U # {}
  <2>1. \A k \in T : k \in 0 .. b /\ b - k \in Nat
    OBVIOUS
  <2>2. U \subseteq Nat
    BY <2>1
  <2>3. PICK k \in T : TRUE
    OBVIOUS
  <2>4. b - k \in U
    BY <2>3
  <2> QED BY <2>2, <2>4
<1>2. PICK u \in U : \A y \in U : ~(<<y, u>> \in OpToRel(<, Nat))
  <2> HIDE DEF U
  <2> QED BY <1>1, NatLessThanWellFounded, WFMin
<1>3. \A y \in U : ~(y < u)
  <2> HIDE DEF U
  <2> SUFFICES ASSUME NEW y \in U, y < u PROVE FALSE
    OBVIOUS
  <2>1. <<y, u>> \in Nat \X Nat /\ <<y, u>>[1] = y /\ <<y, u>>[2] = u
    BY <1>1
  <2>2. <<y, u>> \in OpToRel(<, Nat)
    BY <2>1 DEF OpToRel
  <2> QED BY <1>2, <2>2
<1>4. PICK k \in T : u = b - k
  OBVIOUS
<1>5. ASSUME NEW l \in T PROVE l <= k
  <2>1. ~(b - l < u)
    BY <1>3
  <2> QED BY <2>1, <1>4
<1> QED BY <1>5

LEMMA LatestIsGreatest ==
  ASSUME NEW T, NEW b \in Nat, T \subseteq 0 .. b, T # {}
  PROVE  /\ LatestOf(T) \in T
         /\ Max(T) \in T
         /\ LatestOf(T) = Max(T)
         /\ \A l \in T : l <= Max(T)
<1>1. PICK k \in T : \A l \in T : l <= k
  BY GreatestTime
<1>2. \A l \in T : k >= l
  BY <1>1
<1>3. Max(T) \in T /\ \A l \in T : Max(T) >= l
  BY <1>2 DEF Max
<1>4. \A l \in T : l <= Max(T)
  BY <1>3
<1> QED BY <1>3, <1>4 DEF LatestOf

\* The latest of some slots is the latest of all, when it is one of the some.
LEMMA LatestOfSome ==
  ASSUME NEW T, NEW C, NEW b \in Nat, T \subseteq 0 .. b, C \subseteq T,
         \A x \in T : (\A y \in T : y <= x) => x \in C
  PROVE  LatestOf(C) = LatestOf(T)
<1>1. CASE T = {}
  BY <1>1
<1>2. CASE T # {}
  <2>1. LatestOf(T) \in T /\ \A l \in T : l <= LatestOf(T)
    BY <1>2, LatestIsGreatest
  <2>2. LatestOf(T) \in C
    BY <2>1
  <2>3. LatestOf(C) \in C /\ \A l \in C : l <= LatestOf(C)
    <3>1. C \subseteq 0 .. b /\ C # {}
      BY <2>2
    <3> QED BY <3>1, LatestIsGreatest
  <2>4. LatestOf(C) <= LatestOf(T) /\ LatestOf(T) <= LatestOf(C)
    BY <2>1, <2>2, <2>3
  <2>5. LatestOf(C) \in 0 .. b /\ LatestOf(T) \in 0 .. b
    BY <2>1, <2>3
  <2> QED BY <2>4, <2>5
<1> QED BY <1>1, <1>2

-----------------------------------------------------------------------------
(* Multiples.                                                               *)

LEMMA ModIs ==
  ASSUME NEW x \in Nat, NEW m \in Nat, m > 0, NEW q \in Nat, NEW r \in Nat, r < m, x = q * m + r
  PROVE  x \div m = q /\ x % m = r
OBVIOUS

LEMMA DivMod ==
  ASSUME NEW x \in Nat, NEW m \in Nat, m > 0
  PROVE  \E q \in Nat, r \in 0 .. m - 1 : x = q * m + r /\ x \div m = q /\ x % m = r
<1> DEFINE q == x \div m
<1>1. q \in Nat
  OBVIOUS
<1>2. x >= q * m /\ x < q * m + m /\ q * m \in Nat
  OBVIOUS
<1> HIDE DEF q
<1> DEFINE r == x - q * m
<1>3. r \in 0 .. m - 1 /\ r \in Nat /\ r < m /\ x = q * m + r
  BY <1>1, <1>2
<1> HIDE DEF r
<1>4. x \div m = q /\ x % m = r
  BY <1>1, <1>3, ModIs
<1> QED BY <1>1, <1>3, <1>4

LEMMA ModOfMore ==
  ASSUME NEW x \in Nat, NEW a \in Nat, NEW m \in Nat, m > 0
  PROVE  (x + a * m) % m = x % m
<1>1. PICK q \in Nat, r \in 0 .. m - 1 : x = q * m + r /\ x % m = r
  BY DivMod
<1>2. a * m \in Nat /\ q * m + a * m = (q + a) * m
  OBVIOUS
<1> DEFINE p == q + a
           y == x + a * m
<1>3. p \in Nat /\ y \in Nat /\ r \in Nat /\ r < m /\ y = p * m + r
  BY <1>1, <1>2
<1> HIDE DEF p, y
<1>4. y % m = r
  BY <1>3, ModIs
<1> QED BY <1>1, <1>4 DEF y

\* What is left after the rest of a division is taken away is a multiple.
LEMMA MultipleBelow ==
  ASSUME NEW x \in Nat, NEW d \in Nat, NEW m \in Nat, m > 0, d <= x
  PROVE  /\ x - (x % m) \in Nat
         /\ d % m = 0 => /\ d <= x - (x % m)
                         /\ ((x - (x % m)) - d) % m = 0
         /\ d <= x - (x % m) /\ ((x - (x % m)) - d) % m = 0 => d % m = 0
<1>1. PICK q \in Nat, r \in 0 .. m - 1 : x = q * m + r /\ x % m = r
  BY DivMod
<1> DEFINE rest == x % m
           below == x - rest
<1>0. rest = r
  BY <1>1
<1> HIDE DEF rest
<1>2. q * m \in Nat /\ below = q * m
  BY <1>0, <1>1
<1>3. ASSUME d % m = 0 PROVE d <= below /\ (below - d) % m = 0
  <2>1. PICK p \in Nat, s \in 0 .. m - 1 : d = p * m + s /\ d % m = s
    BY DivMod
  <2>2. d = p * m /\ p * m \in Nat
    BY <1>3, <2>1
  <2>3. p <= q
    <3>1. ASSUME p > q PROVE FALSE
      <4>1. q * m + m <= p * m
        BY <3>1
      <4> HIDE DEF below
      <4> QED BY <4>1, <2>2, <1>1, <1>2
    <3> QED BY <3>1
  <2>4. p * m <= q * m /\ q * m - p * m = (q - p) * m
    BY <2>3
  <2>5. q - p \in Nat
    BY <2>3
  <2>6. ((q - p) * m) % m = 0
    <3> DEFINE n == q - p
    <3> HIDE DEF n
    <3>1. n \in Nat
      BY <2>5 DEF n
    <3>2. n * m \in Nat /\ (n * m) = n * m + 0
      BY <3>1
    <3>3. (n * m) % m = 0
      BY <3>1, <3>2, ModIs
    <3> QED BY <3>3 DEF n
  <2> HIDE DEF below
  <2> QED BY <1>2, <2>2, <2>4, <2>6
<1>4. ASSUME d <= below, (below - d) % m = 0 PROVE d % m = 0
  <2> DEFINE n == below - d
  <2>1. n \in Nat
    BY <1>2, <1>4
  <2> HIDE DEF n
  <2>2. PICK p \in Nat, s \in 0 .. m - 1 : n = p * m + s /\ n % m = s
    BY <2>1, DivMod
  <2>3. n = p * m /\ p * m \in Nat
    BY <1>4, <2>2 DEF n
  <2>4. p <= q
    <3>1. ASSUME p > q PROVE FALSE
      <4>1. q * m + m <= p * m
        BY <3>1
      <4>2. n <= q * m
        BY <1>2 DEF n
      <4> QED BY <4>1, <4>2, <2>3, <1>2
    <3> QED BY <3>1
  <2>5. q * m - p * m = (q - p) * m /\ q - p \in Nat
    BY <2>4
  <2>6. d = q * m - p * m
    BY <1>2, <2>3 DEF n
  <2> DEFINE k == q - p
  <2>7. k \in Nat /\ d = k * m
    BY <2>5, <2>6
  <2> HIDE DEF k
  <2>8. d = k * m + 0
    BY <2>7
  <2> QED BY <2>7, <2>8, ModIs
<1>5. below \in Nat
  BY <1>2
<1> HIDE DEF below
<1>6. /\ below \in Nat
      /\ d % m = 0 => d <= below /\ (below - d) % m = 0
      /\ d <= below /\ (below - d) % m = 0 => d % m = 0
  BY <1>3, <1>4, <1>5
<1> QED BY <1>6 DEF below, rest
-----------------------------------------------------------------------------
(* Times.                                                                   *)

\* A rule as parseRRule leaves it.
Parsed == [freq : {"HOURLY", "DAILY", "WEEKLY", "MONTHLY"}, interval : 1 .. 365, days : SUBSET (0 .. 6),
           monthDays : SUBSET (1 .. 31), hour : 0 .. 23, minute : 0 .. 59]

Times == 0 .. Year - 1

LEMMA TimesAre ==
  ASSUME NEW now \in Times
  PROVE  now \in Nat /\ now < 365 * 1440 /\ \A t \in Nat : t <= now => t \in Times
<1>1. Day = 1440
  BY DEF Day, Hour
<1>2. Year = 365 * 1440
  BY <1>1 DEF Year
<1>3. 365 * 1440 \in Nat
  OBVIOUS
<1>4. Year \in Nat
  BY <1>2, <1>3
<1>5. now \in 0 .. Year - 1 /\ \A t \in Nat : t <= now => t \in 0 .. Year - 1
  BY <1>4 DEF Times
<1>6. now \in Nat /\ now < Year
  BY <1>4, <1>5
<1>7. \A t \in Nat : t <= now => t \in Times
  BY <1>5 DEF Times
<1> QED BY <1>2, <1>6, <1>7

LEMMA MinuteFacts ==
  ASSUME NEW t \in Nat
  PROVE  /\ MinuteOf(t) \in 0 .. 59 /\ HourOf(t) \in 0 .. 23 /\ Weekday(t) \in 0 .. 6
         /\ civilDay(t) \in Nat /\ weekStartDay(t) \in Nat
BY DEF MinuteOf, HourOf, Weekday, civilDay, weekStartDay, Hour, Day

\* The slots of a day and the hours that a rule asks for.
LEMMA AtOfDay ==
  ASSUME NEW t \in Nat, NEW h \in 0 .. 23, NEW m \in 0 .. 59
  PROVE  t % Day = h * Hour + m <=> HourOf(t) = h /\ MinuteOf(t) = m
BY DEF HourOf, MinuteOf, Hour, Day

\* The latest time of its kind that is not after now.
LEMMA AtOrBeforeIs ==
  ASSUME NEW step \in {Hour, Day}, NEW off \in 0 .. step - 1, NEW now \in Nat, step <= now
  PROVE  LET first == AtOrBefore((now \div step) * step + off, step, now)
         IN  first \in Nat /\ first <= now /\ now < first + step /\ first % step = off
<1>1. CASE step = Hour
  BY <1>1 DEF AtOrBefore, Hour
<1>2. CASE step = Day
  BY <1>2 DEF AtOrBefore, Day, Hour
<1> QED BY <1>1, <1>2

LEMMA CheckedAre ==
  ASSUME NEW step \in {Hour, Day}, NEW first \in Nat, NEW max \in Nat, NEW b \in Nat, NEW t
  PROVE  t \in Checked(first, step, max, b)
             <=> t \in Nat /\ b <= t /\ t <= first /\ t % step = first % step /\ first <= t + max * step
<1>1. CASE step = Hour
  <2>1. ASSUME NEW k \in 0 .. max, b + k * step <= first, t = first - k * step
        PROVE  t \in Nat /\ b <= t /\ t <= first /\ t % step = first % step /\ first <= t + max * step
    BY <1>1, <2>1 DEF Hour
  <2>2. ASSUME t \in Nat, b <= t, t <= first, t % step = first % step, first <= t + max * step
        PROVE  \E k \in 0 .. max : b + k * step <= first /\ t = first - k * step
    <3> DEFINE k == (first - t) \div 60
    <3>1. k \in Nat /\ first = t + k * 60
      BY <1>1, <2>2 DEF Hour
    <3> HIDE DEF k
    <3>2. k \in 0 .. max /\ b + k * step <= first /\ t = first - k * step
      BY <1>1, <2>2, <3>1 DEF Hour
    <3> QED BY <3>2
  <2> QED BY <2>1, <2>2 DEF Checked
<1>2. CASE step = Day
  <2>1. ASSUME NEW k \in 0 .. max, b + k * step <= first, t = first - k * step
        PROVE  t \in Nat /\ b <= t /\ t <= first /\ t % step = first % step /\ first <= t + max * step
    BY <1>2, <2>1 DEF Day, Hour
  <2>2. ASSUME t \in Nat, b <= t, t <= first, t % step = first % step, first <= t + max * step
        PROVE  \E k \in 0 .. max : b + k * step <= first /\ t = first - k * step
    <3> DEFINE k == (first - t) \div 1440
    <3>1. k \in Nat /\ first = t + k * 1440
      BY <1>2, <2>2 DEF Day, Hour
    <3> HIDE DEF k
    <3>2. k \in 0 .. max /\ b + k * step <= first /\ t = first - k * step
      BY <1>2, <2>2, <3>1 DEF Day, Hour
    <3> QED BY <3>2
  <2> QED BY <2>1, <2>2 DEF Checked
<1> QED BY <1>1, <1>2

\* Where the hours that an hourly rule looks back begin.
From(r, now) == IF r.freq = "HOURLY" /\ HourlyChecks(r) * Hour + Hour <= now
                THEN now + 1 - HourlyChecks(r) * Hour - Hour ELSE 0

LEMMA SlotsAre ==
  ASSUME NEW r \in Parsed, NEW byHour \in BOOLEAN, NEW b \in Nat, NEW now \in Nat, NEW t
  PROVE  t \in RuleSlots(r, byHour, b, now)
             <=> /\ t \in Nat /\ b <= t /\ From(r, now) <= t /\ t <= now
                 /\ Occurs(r, byHour, b, t)
<1>1. r.minute \in 0 .. 59
  BY DEF Parsed
<1>2. ASSUME t \in Nat, b <= t, t <= now, Occurs(r, byHour, b, t)
      PROVE  \E h \in b \div Hour .. now \div Hour : t = h * Hour + r.minute
  <2>1. t % 60 = r.minute
    BY <1>2 DEF Occurs, MinuteOf, Hour
  <2> DEFINE h == t \div 60
  <2>2. h \in b \div Hour .. now \div Hour /\ t = h * Hour + r.minute
    BY <1>1, <1>2, <2>1 DEF Hour
  <2> QED BY <2>2
<1>3. \A h \in b \div Hour .. now \div Hour : h * Hour + r.minute \in Nat
  BY <1>1 DEF Hour
<1> QED BY <1>2, <1>3 DEF RuleSlots, From
LEMMA SlotsBound ==
  ASSUME NEW r \in Parsed, NEW byHour \in BOOLEAN, NEW b \in Nat, NEW now \in Nat
  PROVE  RuleSlots(r, byHour, b, now) \subseteq 0 .. now
BY SlotsAre

-----------------------------------------------------------------------------
(* The four searches find the latest slot.                                  *)

LEMMA HourlyIsLatest ==
  ASSUME NEW r \in Parsed, NEW byHour \in BOOLEAN, NEW b \in Nat, NEW now \in Nat,
         Day <= b, b <= now, r.freq = "HOURLY"
  PROVE  latestHourlyDue(r, byHour, b, now) = LatestOf(RuleSlots(r, byHour, b, now))
<1> DEFINE anchor == b - MinuteOf(b)
           first == AtOrBefore(now - MinuteOf(now) + r.minute, Hour, now)
           max == HourlyChecks(r)
           Found == {t \in Checked(first, Hour, max, b) :
                       /\ ((t - anchor) \div Hour) % r.interval = 0
                       /\ byHour => HourOf(t) = r.hour
                       /\ AnyDay(r, t)}
<1>1. /\ r.minute \in 0 .. 59 /\ r.interval \in 1 .. 365 /\ max \in Nat
      /\ max * Hour + Hour \in Nat
  BY DEF Parsed, HourlyChecks, Hour
<1>2. first \in Nat /\ first <= now /\ now < first + Hour /\ first % Hour = r.minute
  <2>1. now - MinuteOf(now) + r.minute = (now \div Hour) * Hour + r.minute
    <3> DEFINE q == now \div 60
               m == now % 60
    <3>1. q \in Nat /\ m \in Nat /\ now = q * 60 + m
      OBVIOUS
    <3>2. MinuteOf(now) = m /\ now \div Hour = q
      BY DEF MinuteOf, Hour
    <3> HIDE DEF q, m
    <3>3. now - MinuteOf(now) = q * 60
      BY <3>1, <3>2
    <3>4. (now \div Hour) * Hour = q * 60
      BY <3>1, <3>2 DEF Hour
    <3> QED BY <3>3, <3>4
  <2>2. Hour <= now /\ r.minute \in 0 .. Hour - 1
    BY <1>1 DEF Hour, Day
  <2> QED BY <2>1, <2>2, AtOrBeforeIs
<1> HIDE DEF first, max
<1>3. ASSUME NEW t PROVE t \in Found <=> t \in RuleSlots(r, byHour, b, now)
  <2>1. t \in Checked(first, Hour, max, b)
            <=> t \in Nat /\ b <= t /\ t <= first /\ t % Hour = r.minute /\ first <= t + max * Hour
    BY <1>1, <1>2, CheckedAre
  <2>2. ASSUME t \in Nat, b <= t, t % Hour = r.minute
        PROVE  t <= first /\ first <= t + max * Hour <=> t <= now /\ From(r, now) <= t
    <3>1. t <= first <=> t <= now
      BY <1>1, <1>2, <2>2 DEF Hour
    <3>2. CASE max * Hour + Hour <= now
      <4>1. From(r, now) = now + 1 - max * Hour - Hour
        BY <3>2 DEF From, max
      <4>2. From(r, now) <= t <=> first <= t + max * Hour
        BY <4>1, <3>2, <1>1, <1>2, <2>2 DEF Hour
      <4> QED BY <3>1, <4>2
    <3>3. CASE ~(max * Hour + Hour <= now)
      <4>1. From(r, now) = 0
        BY <3>3 DEF From, max
      <4>2. first <= t + max * Hour
        BY <3>3, <1>1, <1>2, <2>2 DEF Hour
      <4> QED BY <3>1, <4>1, <4>2, <2>2
    <3> QED BY <3>2, <3>3
  <2>3. ASSUME t \in Nat, b <= t
        PROVE  (t - anchor) \div Hour = t \div Hour - b \div Hour
    BY <2>3 DEF MinuteOf, Hour
  <2>4. t \in Nat => (MinuteOf(t) = r.minute <=> t % Hour = r.minute)
    BY DEF MinuteOf
  <2> DEFINE Every == (t \div Hour - b \div Hour) % r.interval = 0
  <2>5. Occurs(r, byHour, b, t) <=> /\ MinuteOf(t) = r.minute
                                    /\ byHour => HourOf(t) = r.hour
                                    /\ AnyDay(r, t)
                                    /\ Every
    BY DEF Occurs, AnyDay
  <2>6. t \in RuleSlots(r, byHour, b, now)
            <=> /\ t \in Nat /\ b <= t /\ From(r, now) <= t /\ t <= now
                /\ Occurs(r, byHour, b, t)
    BY SlotsAre
  <2>7. t \in Found <=> /\ t \in Checked(first, Hour, max, b)
                        /\ ((t - anchor) \div Hour) % r.interval = 0
                        /\ byHour => HourOf(t) = r.hour
                        /\ AnyDay(r, t)
    OBVIOUS
  <2>8. ASSUME t \in Nat, b <= t PROVE ((t - anchor) \div Hour) % r.interval = 0 <=> Every
    BY <2>3, <2>8
  <2> HIDE DEF Found, Every, anchor
  <2>9. CASE t \in Nat /\ b <= t
    BY <2>9, <2>1, <2>2, <2>4, <2>5, <2>6, <2>7, <2>8
  <2> QED BY <2>9, <2>1, <2>6, <2>7
<1>4. Found = RuleSlots(r, byHour, b, now)
  <2> HIDE DEF Found
  <2> QED BY <1>3
<1>5. latestHourlyDue(r, byHour, b, now) = LatestOf(Found)
  BY DEF latestHourlyDue, first, max
<1> HIDE DEF Found
<1> QED BY <1>4, <1>5

\* A slot of today's hour or of the day before.
LEMMA FirstDayIs ==
  ASSUME NEW r \in Parsed, NEW now \in Nat, Day <= now
  PROVE  LET first == AtOrBefore(Today(r, now), Day, now)
         IN  /\ first \in Nat /\ first <= now /\ now < first + Day
             /\ first % Day = r.hour * Hour + r.minute
<1> DEFINE off == r.hour * Hour + r.minute
<1>1. r.hour \in 0 .. 23 /\ r.minute \in 0 .. 59
  BY DEF Parsed
<1>2. off \in 0 .. Day - 1
  BY <1>1 DEF Hour, Day
<1>3. Today(r, now) = (now \div Day) * Day + off
  BY <1>1 DEF Today, civilDay, Day, Hour
<1> HIDE DEF off
<1>4. LET first == AtOrBefore(Today(r, now), Day, now)
      IN  first \in Nat /\ first <= now /\ now < first + Day /\ first % Day = off
  BY <1>2, <1>3, AtOrBeforeIs
<1> QED BY <1>4 DEF off

\* What is looked at of the days is every time at the hour of the rule, down to a limit.
LEMMA DaysChecked ==
  ASSUME NEW r \in Parsed, NEW b \in Nat, NEW now \in Nat, Day <= b, b <= now, NEW t
  PROVE  LET first == AtOrBefore(Today(r, now), Day, now)
         IN  t \in Checked(first, Day, DailyChecks(r), b)
               <=> /\ t \in Nat /\ b <= t /\ t <= now
                   /\ HourOf(t) = r.hour /\ MinuteOf(t) = r.minute
                   /\ first <= t + DailyChecks(r) * Day
<1> DEFINE first == AtOrBefore(Today(r, now), Day, now)
           max == DailyChecks(r)
<1>1. /\ r.hour \in 0 .. 23 /\ r.minute \in 0 .. 59 /\ r.interval \in 1 .. 365 /\ max \in Nat
      /\ Day <= now
  BY DEF Parsed, DailyChecks, Day, Hour
<1>2. /\ first \in Nat /\ first <= now /\ now < first + Day
      /\ first % Day = r.hour * Hour + r.minute
  BY <1>1, FirstDayIs
<1> HIDE DEF first, max
<1>3. t \in Checked(first, Day, max, b)
          <=> t \in Nat /\ b <= t /\ t <= first /\ t % Day = first % Day /\ first <= t + max * Day
  BY <1>1, <1>2, CheckedAre
<1>4. t \in Nat => (t % Day = r.hour * Hour + r.minute <=> HourOf(t) = r.hour /\ MinuteOf(t) = r.minute)
  BY <1>1, AtOfDay
<1>5. ASSUME t \in Nat, t % Day = first % Day PROVE t <= first <=> t <= now
  BY <1>5, <1>2 DEF Day, Hour
<1>6. t \in Checked(first, Day, max, b)
        <=> /\ t \in Nat /\ b <= t /\ t <= now
            /\ HourOf(t) = r.hour /\ MinuteOf(t) = r.minute
            /\ first <= t + max * Day
  BY <1>2, <1>3, <1>4, <1>5
<1> QED BY <1>6 DEF first, max
\* Some weeks later it is the same day of the week and the same minute.
LEMMA WeeksLater ==
  ASSUME NEW t \in Nat, NEW n \in Nat
  PROVE  /\ t + n * (7 * Day) \in Nat
         /\ MinuteOf(t + n * (7 * Day)) = MinuteOf(t)
         /\ HourOf(t + n * (7 * Day)) = HourOf(t)
         /\ Weekday(t + n * (7 * Day)) = Weekday(t)
         /\ civilDay(t + n * (7 * Day)) = civilDay(t) + n * 7
         /\ weekStartDay(t + n * (7 * Day)) = weekStartDay(t) + n * 7
<1> DEFINE u == t + n * 10080
<1>1. u \in Nat /\ u = t + n * (7 * Day)
  BY DEF Day, Hour
<1>2. u % 60 = t % 60
  OBVIOUS
<1>3. u \div 1440 = (t \div 1440) + n * 7 /\ u % 1440 = t % 1440
  OBVIOUS
<1>4. t \div 1440 \in Nat
  OBVIOUS
<1> DEFINE d == t \div 1440
           e == u \div 1440
<1>5. d \in Nat /\ e = d + n * 7
  BY <1>3, <1>4
<1> HIDE DEF d, e
<1>6. e % 7 = d % 7 /\ e - (e % 7) = (d - (d % 7)) + n * 7
  BY <1>5
<1>7. civilDay(u) = e /\ civilDay(t) = d /\ Weekday(u) = e % 7 /\ Weekday(t) = d % 7
  BY DEF civilDay, Weekday, Day, Hour, d, e
<1>8. HourOf(u) = HourOf(t) /\ MinuteOf(u) = MinuteOf(t)
  BY <1>2, <1>3 DEF HourOf, MinuteOf, Day, Hour
<1>9. weekStartDay(u) = weekStartDay(t) + n * 7
  BY <1>6, <1>7 DEF weekStartDay
<1> HIDE DEF u
<1> QED BY <1>1, <1>5, <1>6, <1>7, <1>8, <1>9

\* Days and weeks do not go back in time.
LEMMA DaysGoOn ==
  ASSUME NEW b \in Nat, NEW t \in Nat, b <= t
  PROVE  /\ civilDay(t) - civilDay(b) \in Nat
         /\ weekStartDay(t) - weekStartDay(b) \in Nat
         /\ (weekStartDay(t) - weekStartDay(b)) % 7 = 0
<1> DEFINE d == t \div 1440
           e == b \div 1440
<1>1. d \in Nat /\ e \in Nat /\ e <= d
  OBVIOUS
<1>2. civilDay(t) = d /\ civilDay(b) = e
  BY DEF civilDay, Day, Hour
<1> HIDE DEF d, e
<1>3. /\ (d - (d % 7)) - (e - (e % 7)) \in Nat
      /\ ((d - (d % 7)) - (e - (e % 7))) % 7 = 0
  BY <1>1
<1>4. weekStartDay(t) = d - (d % 7) /\ weekStartDay(b) = e - (e % 7)
  BY <1>2 DEF weekStartDay, Weekday
<1> QED BY <1>1, <1>2, <1>3, <1>4

LEMMA DailyIsLatest ==
  ASSUME NEW r \in Parsed, NEW byHour \in BOOLEAN, NEW b \in Nat, NEW now \in Nat,
         Day <= b, b <= now, r.freq = "DAILY"
  PROVE  latestDailyDue(r, b, now) = LatestOf(RuleSlots(r, byHour, b, now))
<1> DEFINE first == AtOrBefore(Today(r, now), Day, now)
           Every(t) == (civilDay(t) - civilDay(b)) % r.interval = 0
           Found == {t \in Checked(first, Day, DailyChecks(r), b) : Every(t) /\ AnyDay(r, t)}
           S == RuleSlots(r, byHour, b, now)
<1>1. r.interval \in 1 .. 365 /\ DailyChecks(r) = r.interval * 7 + 7
  BY DEF Parsed, DailyChecks
<1>2. first \in Nat /\ first <= now
  <2>1. Day <= now
    BY DEF Day, Hour
  <2> QED BY <2>1, FirstDayIs
<1>3. ASSUME NEW t
      PROVE  t \in S <=> /\ t \in Nat /\ b <= t /\ t <= now
                         /\ HourOf(t) = r.hour /\ MinuteOf(t) = r.minute
                         /\ Every(t) /\ AnyDay(r, t)
  <2>1. From(r, now) = 0
    BY DEF From
  <2>2. Occurs(r, byHour, b, t) <=> /\ MinuteOf(t) = r.minute
                                    /\ HourOf(t) = r.hour
                                    /\ AnyDay(r, t)
                                    /\ Every(t)
    BY DEF Occurs, AnyDay
  <2>3. t \in S <=> /\ t \in Nat /\ b <= t /\ From(r, now) <= t /\ t <= now
                    /\ Occurs(r, byHour, b, t)
    BY SlotsAre
  <2> HIDE DEF Every, S
  <2> QED BY <2>1, <2>2, <2>3
<1>4. ASSUME NEW t
      PROVE  t \in Found <=> t \in S /\ first <= t + DailyChecks(r) * Day
  <2>1. t \in Checked(first, Day, DailyChecks(r), b)
               <=> /\ t \in Nat /\ b <= t /\ t <= now
                   /\ HourOf(t) = r.hour /\ MinuteOf(t) = r.minute
                   /\ first <= t + DailyChecks(r) * Day
    BY DaysChecked
  <2>2. t \in Found <=> t \in Checked(first, Day, DailyChecks(r), b) /\ Every(t) /\ AnyDay(r, t)
    OBVIOUS
  <2> HIDE DEF Every, S, Found, first
  <2> QED BY <1>3, <2>1, <2>2
<1>5. ASSUME NEW x \in S, \A y \in S : y <= x PROVE x \in Found
  <2> SUFFICES ASSUME ~(first <= x + DailyChecks(r) * Day) PROVE FALSE
    BY <1>4
  <2> DEFINE i == r.interval
             u == x + i * (7 * Day)
             n == civilDay(x) - civilDay(b)
  <2>1. x \in Nat /\ b <= x
    BY <1>3
  <2>2. i \in Nat /\ i > 0
    BY <1>1
  <2>3. u \in Nat /\ MinuteOf(u) = MinuteOf(x) /\ HourOf(u) = HourOf(x) /\ Weekday(u) = Weekday(x)
        /\ civilDay(u) = civilDay(x) + i * 7
    BY <2>1, <2>2, WeeksLater
  <2>4. n \in Nat
    BY <2>1, DaysGoOn
  <2>5. civilDay(x) \in Nat /\ civilDay(b) \in Nat
    BY <2>1, MinuteFacts
  <2>6. civilDay(u) - civilDay(b) = n + 7 * i
    BY <2>2, <2>3, <2>5
  <2>7. (n + 7 * i) % i = n % i
    <3> HIDE DEF n, i
    <3> QED BY <2>2, <2>4, ModOfMore
  <2>8. Every(u)
    BY <1>3, <2>6, <2>7
  <2>9. AnyDay(r, u)
    BY <1>3, <2>3 DEF AnyDay
  <2>10. x + DailyChecks(r) * Day = u + 7 * Day
    BY <1>1, <2>1, <2>2 DEF Day, Hour
  <2>11. x < u /\ b <= u /\ u <= now
    <3> HIDE DEF first
    <3>1. x < u
      BY <2>1, <2>2 DEF Day, Hour
    <3> HIDE DEF u
    <3>2. u < first
      BY <2>3, <2>10, <1>2 DEF Day, Hour
    <3> QED BY <3>1, <3>2, <1>2, <2>1, <2>3
  <2>12. u \in S
    <3> HIDE DEF u, S, Every
    <3> QED BY <1>3, <2>3, <2>8, <2>9, <2>11
  <2>13. u <= x
    BY <1>5, <2>12
  <2> HIDE DEF u
  <2> QED BY <2>1, <2>3, <2>11, <2>13
<1>6. latestDailyDue(r, b, now) = LatestOf(Found)
  BY DEF latestDailyDue
<1>7. S \subseteq 0 .. now
  BY SlotsBound
<1> HIDE DEF Found, S
<1>8. Found \subseteq S
  BY <1>4
<1>9. LatestOf(Found) = LatestOf(S)
  BY <1>5, <1>7, <1>8, LatestOfSome
<1> QED BY <1>6, <1>9 DEF S
LEMMA WeeklyIsLatest ==
  ASSUME NEW r \in Parsed, NEW byHour \in BOOLEAN, NEW b \in Nat, NEW now \in Nat,
         Day <= b, b <= now, r.freq = "WEEKLY"
  PROVE  latestWeeklyDue(r, b, now) = LatestOf(RuleSlots(r, byHour, b, now))
<1> DEFINE first == AtOrBefore(Today(r, now), Day, now)
           days == IF r.days = {} THEN {Weekday(b)} ELSE r.days
           Every(t) == ((weekStartDay(t) - weekStartDay(b)) \div 7) % r.interval = 0
           Found == {t \in Checked(first, Day, DailyChecks(r), b) : Every(t) /\ Weekday(t) \in days}
           S == RuleSlots(r, byHour, b, now)
<1>1. r.interval \in 1 .. 365 /\ DailyChecks(r) = r.interval * 7 + 7
  BY DEF Parsed, DailyChecks
<1>2. first \in Nat /\ first <= now
  <2>1. Day <= now
    BY DEF Day, Hour
  <2> QED BY <2>1, FirstDayIs
<1>3. ASSUME NEW t
      PROVE  t \in S <=> /\ t \in Nat /\ b <= t /\ t <= now
                         /\ HourOf(t) = r.hour /\ MinuteOf(t) = r.minute
                         /\ Every(t) /\ Weekday(t) \in days
  <2>1. From(r, now) = 0
    BY DEF From
  <2>2. Occurs(r, byHour, b, t) <=> /\ MinuteOf(t) = r.minute
                                    /\ HourOf(t) = r.hour
                                    /\ Weekday(t) \in days
                                    /\ Every(t)
    <3>1. days # {}
      OBVIOUS
    <3> QED BY <3>1 DEF Occurs
  <2>3. t \in S <=> /\ t \in Nat /\ b <= t /\ From(r, now) <= t /\ t <= now
                    /\ Occurs(r, byHour, b, t)
    BY SlotsAre
  <2> HIDE DEF Every, S, days
  <2> QED BY <2>1, <2>2, <2>3
<1>4. ASSUME NEW t
      PROVE  t \in Found <=> t \in S /\ first <= t + DailyChecks(r) * Day
  <2>1. t \in Checked(first, Day, DailyChecks(r), b)
               <=> /\ t \in Nat /\ b <= t /\ t <= now
                   /\ HourOf(t) = r.hour /\ MinuteOf(t) = r.minute
                   /\ first <= t + DailyChecks(r) * Day
    BY DaysChecked
  <2>2. t \in Found <=> t \in Checked(first, Day, DailyChecks(r), b) /\ Every(t) /\ Weekday(t) \in days
    OBVIOUS
  <2> HIDE DEF Every, S, days, Found, first
  <2> QED BY <1>3, <2>1, <2>2
<1>5. ASSUME NEW x \in S, \A y \in S : y <= x PROVE x \in Found
  <2> SUFFICES ASSUME ~(first <= x + DailyChecks(r) * Day) PROVE FALSE
    BY <1>4
  <2> DEFINE i == r.interval
             u == x + i * (7 * Day)
             n == (weekStartDay(x) - weekStartDay(b)) \div 7
  <2>1. x \in Nat /\ b <= x
    BY <1>3
  <2>2. i \in Nat /\ i > 0
    BY <1>1
  <2>3. u \in Nat /\ MinuteOf(u) = MinuteOf(x) /\ HourOf(u) = HourOf(x) /\ Weekday(u) = Weekday(x)
        /\ weekStartDay(u) = weekStartDay(x) + i * 7
    BY <2>1, <2>2, WeeksLater
  <2>4. n \in Nat
    <3> DEFINE k == weekStartDay(x) - weekStartDay(b)
    <3>1. k \in Nat
      BY <2>1, DaysGoOn
    <3> HIDE DEF k
    <3>2. k \div 7 \in Nat
      BY <3>1
    <3> QED BY <3>2 DEF k
  <2>5. weekStartDay(x) \in Nat /\ weekStartDay(b) \in Nat /\ weekStartDay(x) - weekStartDay(b) \in Nat
    BY <2>1, MinuteFacts, DaysGoOn
  <2>6. (weekStartDay(u) - weekStartDay(b)) \div 7 = n + 1 * i
    <3> DEFINE y == weekStartDay(x)
               z == weekStartDay(b)
    <3>1. weekStartDay(u) = y + i * 7 /\ n = (y - z) \div 7 /\ y \in Nat /\ z \in Nat /\ y - z \in Nat
      BY <2>3, <2>5
    <3> HIDE DEF y, z, n, i, u
    <3>2. ((y + i * 7) - z) \div 7 = ((y - z) \div 7) + i
      BY <2>2, <3>1
    <3>3. ((y - z) \div 7) + i = n + 1 * i
      BY <2>2, <2>4, <3>1
    <3> QED BY <3>1, <3>2, <3>3 DEF z
  <2>7. (n + 1 * i) % i = n % i
    <3> HIDE DEF n, i
    <3> QED BY <2>2, <2>4, ModOfMore
  <2>8. Every(u)
    BY <1>3, <2>6, <2>7
  <2>9. Weekday(u) \in days
    BY <1>3, <2>3
  <2>10. x + DailyChecks(r) * Day = u + 7 * Day
    BY <1>1, <2>1, <2>2 DEF Day, Hour
  <2>11. x < u /\ b <= u /\ u <= now
    <3> HIDE DEF first
    <3>1. x < u
      BY <2>1, <2>2 DEF Day, Hour
    <3> HIDE DEF u
    <3>2. u < first
      BY <2>3, <2>10, <1>2 DEF Day, Hour
    <3> QED BY <3>1, <3>2, <1>2, <2>1, <2>3
  <2>12. u \in S
    <3> HIDE DEF u, S, Every, days
    <3> QED BY <1>3, <2>3, <2>8, <2>9, <2>11
  <2>13. u <= x
    BY <1>5, <2>12
  <2> HIDE DEF u
  <2> QED BY <2>1, <2>3, <2>11, <2>13
<1>6. latestWeeklyDue(r, b, now) = LatestOf(Found)
  BY DEF latestWeeklyDue
<1>7. S \subseteq 0 .. now
  BY SlotsBound
<1> HIDE DEF Found, S
<1>8. Found \subseteq S
  BY <1>4
<1>9. LatestOf(Found) = LatestOf(S)
  BY <1>5, <1>7, <1>8, LatestOfSome
<1> QED BY <1>6, <1>9 DEF S
-----------------------------------------------------------------------------
(* Months.                                                                  *)

LEMMA MonthFacts ==
  ASSUME NEW m \in 0 .. 11
  PROVE  /\ MonthStart(m) \in 0 .. 334 /\ MonthLengths[m + 1] \in 28 .. 31
         /\ MonthStart(m + 1) = MonthStart(m) + MonthLengths[m + 1]
         /\ MonthStart(0) = 0 /\ MonthStart(12) = 365
<1>1. m = 0 \/ m = 1 \/ m = 2 \/ m = 3 \/ m = 4 \/ m = 5 \/ m = 6 \/ m = 7 \/ m = 8 \/ m = 9
      \/ m = 10 \/ m = 11
  OBVIOUS
<1> QED BY <1>1 DEF MonthStart, MonthLengths

LEMMA MonthsInOrder ==
  ASSUME NEW m \in 0 .. 11, NEW n \in 0 .. 11, m < n
  PROVE  MonthStart(m + 1) <= MonthStart(n)
<1> DEFINE starts == <<0, 31, 59, 90, 120, 151, 181, 212, 243, 273, 304, 334, 365>>
<1>1. m = 0 \/ m = 1 \/ m = 2 \/ m = 3 \/ m = 4 \/ m = 5 \/ m = 6 \/ m = 7 \/ m = 8 \/ m = 9
      \/ m = 10 \/ m = 11
  OBVIOUS
<1>2. n = 1 \/ n = 2 \/ n = 3 \/ n = 4 \/ n = 5 \/ n = 6 \/ n = 7 \/ n = 8 \/ n = 9
      \/ n = 10 \/ n = 11
  OBVIOUS
<1> QED BY <1>1, <1>2 DEF MonthStart

\* A day of the year is in one month.
LEMMA MonthIs ==
  ASSUME NEW t \in Nat, NEW m \in 0 .. 11, MonthStart(m) <= civilDay(t), civilDay(t) < MonthStart(m + 1)
  PROVE  civilMonth(t) = m
<1>1. civilDay(t) \in Nat
  BY MinuteFacts
<1>2. /\ civilMonth(t) \in 0 .. 11
      /\ MonthStart(civilMonth(t)) <= civilDay(t) /\ civilDay(t) < MonthStart(civilMonth(t) + 1)
  BY DEF civilMonth
<1>3. ASSUME NEW n \in 0 .. 11, MonthStart(n) <= civilDay(t), civilDay(t) < MonthStart(n + 1),
             NEW k \in 0 .. 11, MonthStart(k) <= civilDay(t), civilDay(t) < MonthStart(k + 1)
      PROVE  ~(n < k)
  <2>1. MonthStart(k) \in 0 .. 334 /\ MonthLengths[k + 1] \in 28 .. 31
    BY MonthFacts
  <2>2. /\ MonthStart(n) \in 0 .. 334 /\ MonthLengths[n + 1] \in 28 .. 31
        /\ MonthStart(n + 1) = MonthStart(n) + MonthLengths[n + 1]
    BY MonthFacts
  <2>3. n < k => MonthStart(n + 1) <= MonthStart(k)
    BY MonthsInOrder
  <2> DEFINE x == civilDay(t)
             start == MonthStart(k)
             over == MonthStart(n + 1)
  <2>4. x \in Nat /\ start \in Nat /\ over \in Nat
    BY <1>1, <2>1, <2>2
  <2>5. start <= x /\ x < over /\ (n < k => over <= start)
    BY <1>3, <2>3
  <2> HIDE DEF x, start, over
  <2> QED BY ONLY <2>4, <2>5
<1>4. ~(civilMonth(t) < m) /\ ~(m < civilMonth(t))
  BY <1>2, <1>3
<1> QED BY <1>2, <1>4

LEMMA MonthIsThere ==
  ASSUME NEW t \in Times
  PROVE  /\ civilMonth(t) \in 0 .. 11
         /\ MonthStart(civilMonth(t)) <= civilDay(t) /\ civilDay(t) < MonthStart(civilMonth(t) + 1)
         /\ MonthDay(t) \in 1 .. MonthLengths[civilMonth(t) + 1]
         /\ civilDay(t) = MonthStart(civilMonth(t)) + MonthDay(t) - 1
<1>1. civilDay(t) \in 0 .. 364
  <2>1. t \in Nat /\ t < 365 * 1440
    BY TimesAre
  <2>2. t \div 1440 \in 0 .. 364
    BY <2>1
  <2>3. Day = 1440
    BY DEF Day, Hour
  <2> QED BY <2>2, <2>3 DEF civilDay
<1>2. \E m \in 0 .. 11 : MonthStart(m) <= civilDay(t) /\ civilDay(t) < MonthStart(m + 1)
  <2> DEFINE d == civilDay(t)
  <2> HIDE DEF d
  <2>1. d \in 0 .. 364
    BY <1>1 DEF d
  <2>2. \/ (0 <= d /\ d < 31) \/ (31 <= d /\ d < 59) \/ (59 <= d /\ d < 90) \/ (90 <= d /\ d < 120)
        \/ (120 <= d /\ d < 151) \/ (151 <= d /\ d < 181) \/ (181 <= d /\ d < 212) \/ (212 <= d /\ d < 243)
        \/ (243 <= d /\ d < 273) \/ (273 <= d /\ d < 304) \/ (304 <= d /\ d < 334) \/ (334 <= d /\ d < 365)
    BY <2>1
  <2>3. /\ MonthStart(0) = 0 /\ MonthStart(0 + 1) = 31 /\ MonthStart(1) = 31 /\ MonthStart(1 + 1) = 59
        /\ MonthStart(2) = 59 /\ MonthStart(2 + 1) = 90 /\ MonthStart(3) = 90 /\ MonthStart(3 + 1) = 120
        /\ MonthStart(4) = 120 /\ MonthStart(4 + 1) = 151 /\ MonthStart(5) = 151 /\ MonthStart(5 + 1) = 181
        /\ MonthStart(6) = 181 /\ MonthStart(6 + 1) = 212 /\ MonthStart(7) = 212 /\ MonthStart(7 + 1) = 243
        /\ MonthStart(8) = 243 /\ MonthStart(8 + 1) = 273 /\ MonthStart(9) = 273 /\ MonthStart(9 + 1) = 304
        /\ MonthStart(10) = 304 /\ MonthStart(10 + 1) = 334 /\ MonthStart(11) = 334 /\ MonthStart(11 + 1) = 365
    BY DEF MonthStart
  <2>4. /\ 0 \in 0 .. 11 /\ 1 \in 0 .. 11 /\ 2 \in 0 .. 11 /\ 3 \in 0 .. 11 /\ 4 \in 0 .. 11 /\ 5 \in 0 .. 11
        /\ 6 \in 0 .. 11 /\ 7 \in 0 .. 11 /\ 8 \in 0 .. 11 /\ 9 \in 0 .. 11 /\ 10 \in 0 .. 11 /\ 11 \in 0 .. 11
    OBVIOUS
  <2>5. \E m \in 0 .. 11 : MonthStart(m) <= d /\ d < MonthStart(m + 1)
    BY <2>2, <2>3, <2>4
  <2> QED BY <2>5 DEF d
<1>3. PICK m \in 0 .. 11 : MonthStart(m) <= civilDay(t) /\ civilDay(t) < MonthStart(m + 1)
  BY <1>2
<1>4. civilMonth(t) = m
  BY <1>3, MonthIs, TimesAre
<1>5. MonthStart(m) \in Nat /\ MonthLengths[m + 1] \in Nat /\ MonthStart(m + 1) = MonthStart(m) + MonthLengths[m + 1]
  BY MonthFacts
<1>6. MonthDay(t) = civilDay(t) - MonthStart(m) + 1
  BY <1>4 DEF MonthDay
<1> QED BY <1>1, <1>3, <1>4, <1>5, <1>6

\* The months do not go back in time either.
LEMMA MonthsGoOn ==
  ASSUME NEW b \in Times, NEW t \in Times, b <= t
  PROVE  civilMonth(b) <= civilMonth(t)
<1> DEFINE k == civilMonth(b)
           n == civilMonth(t)
<1>1. /\ k \in 0 .. 11 /\ n \in 0 .. 11
      /\ MonthStart(k) <= civilDay(b) /\ civilDay(t) < MonthStart(n + 1)
  BY MonthIsThere
<1>2. civilDay(b) \in Nat /\ civilDay(t) \in Nat /\ civilDay(b) <= civilDay(t)
  BY TimesAre DEF civilDay, Day, Hour
<1> HIDE DEF k, n
<1>3. MonthStart(k) \in Nat /\ MonthStart(n + 1) \in Nat
  <2>1. MonthStart(k) \in 0 .. 334
    BY <1>1, MonthFacts
  <2>2. /\ MonthStart(n) \in 0 .. 334 /\ MonthLengths[n + 1] \in 28 .. 31
        /\ MonthStart(n + 1) = MonthStart(n) + MonthLengths[n + 1]
    BY <1>1, MonthFacts
  <2> QED BY <2>1, <2>2
<1>4. n < k => MonthStart(n + 1) <= MonthStart(k)
  BY <1>1, MonthsInOrder
<1>5. ~(n < k)
  BY <1>1, <1>2, <1>3, <1>4
<1>6. k <= n
  BY <1>1, <1>5
<1> QED BY <1>6 DEF k, n
LEMMA MonthlyIsLatest ==
  ASSUME NEW r \in Parsed, NEW byHour \in BOOLEAN, NEW b \in Times, NEW now \in Times,
         b <= now, r.freq = "MONTHLY", r.days = {}
  PROVE  latestMonthlyDue(r, b, now) = LatestOf(RuleSlots(r, byHour, b, now))
<1> DEFINE monthDays == IF r.monthDays = {} THEN {MonthDay(b)} ELSE r.monthDays
           first == civilMonth(b)
           end == civilMonth(now)
           last == end - ((end - first) % r.interval)
           In(m) == SlotsOf(m, r, monthDays, b, now)
           months == {m \in first .. last : (last - m) % r.interval = 0 /\ In(m) # {}}
           Every(m) == (m - first) % r.interval = 0
           S == RuleSlots(r, byHour, b, now)
<1>1. r.interval \in 1 .. 365 /\ r.hour \in 0 .. 23 /\ r.minute \in 0 .. 59
  BY DEF Parsed
<1>2. first \in 0 .. 11 /\ end \in 0 .. 11 /\ first <= end
  BY MonthIsThere, MonthsGoOn
<1>3. monthDays \subseteq 1 .. 31
  <2>1. MonthDay(b) \in 1 .. 31
    <3>1. MonthDay(b) \in 1 .. MonthLengths[first + 1] /\ MonthLengths[first + 1] \in 28 .. 31
      BY <1>2, MonthIsThere, MonthFacts
    <3> QED BY <3>1
  <2> QED BY <2>1 DEF Parsed
<1> HIDE DEF monthDays, first, end
\* A slot is a slot of its month.
<1>4. ASSUME NEW m \in 0 .. 11, NEW t \in In(m)
      PROVE  /\ t \in Times /\ b <= t /\ t <= now /\ civilMonth(t) = m /\ MonthDay(t) \in monthDays
             /\ HourOf(t) = r.hour /\ MinuteOf(t) = r.minute
  <2>1. PICK d \in monthDays : /\ d <= MonthLengths[m + 1]
                               /\ t = (MonthStart(m) + d - 1) * Day + r.hour * Hour + r.minute
                               /\ b <= t /\ t <= now
    BY <1>4 DEF SlotsOf
  <2>2. d \in 1 .. 31 /\ MonthStart(m) \in 0 .. 334 /\ MonthLengths[m + 1] \in 28 .. 31
        /\ MonthStart(m + 1) = MonthStart(m) + MonthLengths[m + 1]
    BY <1>3, MonthFacts
  <2> DEFINE c == MonthStart(m) + d - 1
  <2>3. c \in Nat /\ MonthStart(m) <= c /\ c < MonthStart(m + 1)
    <3> DEFINE s == MonthStart(m)
               len == MonthLengths[m + 1]
    <3>1. s \in Nat /\ len \in Nat /\ d \in Nat /\ 1 <= d /\ d <= len /\ MonthStart(m + 1) = s + len
      BY <2>1, <2>2
    <3> HIDE DEF s, len
    <3>2. c = s + d - 1
      BY DEF s
    <3> HIDE DEF c
    <3>3. c \in Nat /\ s <= c /\ c < s + len
      BY <3>1, <3>2
    <3> QED BY <3>1, <3>3 DEF s
  <2>4. t = c * Day + r.hour * Hour + r.minute
    BY <2>1
  <2> HIDE DEF c
  <2>5. t \in Nat /\ t \div Day = c /\ t % Day = r.hour * Hour + r.minute
    <3> DEFINE off == r.hour * 60 + r.minute
    <3>1. off \in 0 .. 1439 /\ t = c * 1440 + off
      <4>1. r.hour * 60 \in 0 .. 1380 /\ r.hour * 60 + r.minute \in 0 .. 1439
        <5> DEFINE hour == r.hour
                   minute == r.minute
        <5>1. hour \in 0 .. 23 /\ minute \in 0 .. 59
          BY <1>1
        <5> HIDE DEF hour, minute
        <5>2. hour * 60 \in 0 .. 1380 /\ hour * 60 + minute \in 0 .. 1439
          BY ONLY <5>1
        <5> QED BY <5>2 DEF hour, minute
      <4>2. t = c * 1440 + r.hour * 60 + r.minute
        BY <2>4 DEF Day, Hour
      <4> DEFINE h == r.hour * 60
                 m0 == r.minute
      <4>3. h \in Nat /\ m0 \in Nat /\ h + m0 \in 0 .. 1439 /\ t = c * 1440 + h + m0 /\ off = h + m0
        BY <1>1, <4>1, <4>2
      <4> HIDE DEF h, m0, off
      <4> QED BY <2>3, <4>3
    <3> HIDE DEF off
    <3>2. t \in Nat /\ t \div 1440 = c /\ t % 1440 = off
      BY <2>3, <3>1
    <3> QED BY <3>2 DEF off, Day, Hour
  <2>6. HourOf(t) = r.hour /\ MinuteOf(t) = r.minute
    BY <1>1, <2>5, AtOfDay
  <2>7. civilMonth(t) = m
    BY <2>3, <2>5, MonthIs DEF civilDay
  <2>8. MonthDay(t) = d
    BY <2>2, <2>5, <2>7 DEF MonthDay, civilDay, c
  <2>9. t \in Times
    BY <2>1, <2>5, TimesAre
  <2> QED BY <2>1, <2>6, <2>7, <2>8, <2>9
<1>5. ASSUME NEW t \in Times, b <= t, t <= now, MonthDay(t) \in monthDays,
             HourOf(t) = r.hour, MinuteOf(t) = r.minute
      PROVE  t \in In(civilMonth(t))
  <2> DEFINE m == civilMonth(t)
             d == MonthDay(t)
             c == MonthStart(m) + d - 1
  <2>1. m \in 0 .. 11 /\ d \in 1 .. MonthLengths[m + 1] /\ civilDay(t) = c
    BY MonthIsThere
  <2>2. t \in Nat /\ t = (t \div Day) * Day + r.hour * Hour + r.minute
    <3>1. t \in Nat
      BY TimesAre
    <3>2. t % Day = r.hour * Hour + r.minute
      BY <1>1, <1>5, <3>1, AtOfDay
    <3> QED BY <3>1, <3>2, <1>1 DEF Day, Hour
  <2>3. t = c * Day + r.hour * Hour + r.minute
    BY <2>1, <2>2 DEF civilDay
  <2>4. d \in monthDays /\ d <= MonthLengths[m + 1]
    BY <1>5, <2>1, MonthFacts
  <2>5. t \in {(MonthStart(m) + k - 1) * Day + r.hour * Hour + r.minute :
                 k \in {k \in monthDays : k <= MonthLengths[m + 1]}}
    BY <2>3, <2>4
  <2> QED BY <1>5, <2>5 DEF SlotsOf
<1>6. ASSUME NEW t \in Times, b <= t
      PROVE  Occurs(r, byHour, b, t) <=> /\ MinuteOf(t) = r.minute /\ HourOf(t) = r.hour
                                         /\ Every(civilMonth(t)) /\ MonthDay(t) \in monthDays
  BY DEF Occurs, monthDays, first
<1>7. ASSUME NEW t
      PROVE  t \in S <=> \E m \in 0 .. 11 : m >= first /\ m <= end /\ Every(m) /\ t \in In(m)
  <2>1. t \in S <=> /\ t \in Nat /\ b <= t /\ From(r, now) <= t /\ t <= now
                    /\ Occurs(r, byHour, b, t)
    <3>1. b \in Nat /\ now \in Nat
      BY TimesAre
    <3> QED BY <3>1, SlotsAre
  <2>2. From(r, now) = 0
    BY DEF From
  <2>3. ASSUME t \in S
        PROVE  \E m \in 0 .. 11 : m >= first /\ m <= end /\ Every(m) /\ t \in In(m)
    <3> HIDE DEF In, Every, S
    <3>1. t \in Times /\ b <= t /\ t <= now
      BY <2>1, <2>3, TimesAre
    <3>2. civilMonth(t) \in 0 .. 11 /\ first <= civilMonth(t) /\ civilMonth(t) <= end
      BY <3>1, MonthIsThere, MonthsGoOn DEF first, end
    <3>3. Every(civilMonth(t)) /\ t \in In(civilMonth(t))
      BY <2>1, <2>3, <3>1, <1>5, <1>6
    <3> QED BY <3>2, <3>3, <1>2
  <2>4. ASSUME NEW m \in 0 .. 11, Every(m), t \in In(m)
        PROVE  t \in S
    <3> HIDE DEF In, Every, S
    <3>1. t \in Times /\ b <= t /\ t <= now /\ civilMonth(t) = m /\ MonthDay(t) \in monthDays
          /\ HourOf(t) = r.hour /\ MinuteOf(t) = r.minute
      BY <2>4, <1>4
    <3>2. Occurs(r, byHour, b, t)
      BY <2>4, <3>1, <1>6
    <3>3. t \in Nat /\ 0 <= t
      BY <3>1, TimesAre
    <3> QED BY <2>1, <2>2, <3>1, <3>2, <3>3
  <2> QED BY <2>3, <2>4
\* The months that are looked at are those of the rule.
<1>8. ASSUME NEW m \in 0 .. 11
      PROVE  m \in months <=> m >= first /\ m <= end /\ Every(m) /\ In(m) # {}
  <2> DEFINE i == r.interval
             x == end - first
             d == m - first
  <2>1. i \in Nat /\ i > 0 /\ x \in Nat
    BY <1>1, <1>2
  <2>2. ASSUME m >= first, m <= end
        PROVE  m <= last /\ (last - m) % i = 0 <=> Every(m)
    <3>1. d \in Nat /\ d <= x
      BY <1>2, <2>2
    <3> HIDE DEF i
    <3>2. /\ x - (x % i) \in Nat
          /\ d % i = 0 => d <= x - (x % i) /\ ((x - (x % i)) - d) % i = 0
          /\ d <= x - (x % i) /\ ((x - (x % i)) - d) % i = 0 => d % i = 0
      <4> HIDE DEF x, d
      <4> QED BY <2>1, <3>1, MultipleBelow
    <3> DEFINE rest == x % i
               below == x - rest
    <3>3. rest \in Nat
      <4> HIDE DEF x
      <4> QED BY <2>1, DivMod
    <3>4. last = end - rest
      BY DEF i
    <3> HIDE DEF rest
    <3>5. last = first + below /\ last - m = below - d
      <4> HIDE DEF last
      <4> QED BY <3>3, <3>4, <1>2
    <3>6. m <= last <=> d <= below
      <4>1. below \in Nat
        BY <3>2 DEF rest
      <4> HIDE DEF last, below
      <4> QED BY <3>5, <4>1, <1>2
    <3>7. /\ d % i = 0 => d <= below /\ (below - d) % i = 0
          /\ d <= below /\ (below - d) % i = 0 => d % i = 0
      BY <3>2 DEF rest
    <3>8. (last - m) % i = (below - d) % i
      BY <3>5
    <3>9. Every(m) <=> d % i = 0
      BY DEF i
    <3> HIDE DEF last, below, d, Every
    <3> QED BY <3>6, <3>7, <3>8, <3>9
  <2>3. last \in Nat /\ last <= end /\ last >= first
    <3> HIDE DEF i, x
    <3>1. PICK q \in Nat, rest \in 0 .. i - 1 : x = q * i + rest /\ x % i = rest
      BY <2>1, DivMod
    <3>2. q * i \in Nat
      BY <2>1
    <3>3. rest \in Nat /\ rest <= x
      <4> DEFINE p == q * i
      <4> HIDE DEF p
      <4> QED BY <2>1, <3>1, <3>2 DEF p
    <3>4. last = end - rest
      BY <3>1 DEF i, x
    <3> HIDE DEF last
    <3> QED BY <3>3, <3>4, <1>2 DEF x
  <2>4. m \in months <=> m \in first .. last /\ (last - m) % r.interval = 0 /\ In(m) # {}
    OBVIOUS
  <2> HIDE DEF months, last, Every, In
  <2>5. m \in first .. last <=> m >= first /\ m <= last
    BY <1>2, <2>3
  <2>6. m <= last => m <= end
    BY <1>2, <2>3
  <2> QED BY <2>2, <2>4, <2>5, <2>6
<1>9. months \subseteq 0 .. 11
  <2>1. last \in Nat /\ last <= end
    <3> DEFINE i == r.interval
               x == end - first
    <3>1. i \in Nat /\ i > 0 /\ x \in Nat
      BY <1>1, <1>2
    <3> HIDE DEF i, x
    <3>2. PICK q \in Nat, rest \in 0 .. i - 1 : x = q * i + rest /\ x % i = rest
      BY <3>1, DivMod
    <3>3. rest \in Nat /\ rest <= x
      <4> DEFINE p == q * i
      <4>1. p \in Nat
        BY <3>1
      <4> HIDE DEF p
      <4> QED BY <3>1, <3>2, <4>1 DEF p
    <3>4. last = end - rest
      BY <3>2 DEF i, x
    <3> HIDE DEF last
    <3> QED BY <3>3, <3>4, <1>2 DEF x
  <2> HIDE DEF last, In
  <2> QED BY <2>1, <1>2
<1>10. latestMonthlyDue(r, b, now) = IF months = {} THEN Absent ELSE Max(In(Max(months)))
  BY DEF latestMonthlyDue, monthDays, first, end
<1>11. S \subseteq 0 .. now
  <2>1. b \in Nat /\ now \in Nat
    BY TimesAre
  <2> QED BY <2>1, SlotsBound
<1>12. CASE months = {}
  <2> HIDE DEF months, In, Every, S
  <2>1. S = {}
    <3> SUFFICES ASSUME NEW t \in S PROVE FALSE
      OBVIOUS
    <3>1. PICK m \in 0 .. 11 : m >= first /\ m <= end /\ Every(m) /\ t \in In(m)
      BY <1>7
    <3> QED BY <3>1, <1>8, <1>12
  <2>2. LatestOf(S) = Absent
    BY <2>1 DEF LatestOf
  <2> QED BY <1>10, <1>12, <2>2 DEF S
<1>13. CASE months # {}
  <2> DEFINE M == Max(months)
  <2> HIDE DEF months
  <2>1. M \in months /\ \A l \in months : l <= M
    BY <1>9, <1>13, LatestIsGreatest
  <2>2. M \in 0 .. 11 /\ M >= first /\ M <= end /\ Every(M) /\ In(M) # {}
    BY <2>1, <1>8, <1>9
  <2> HIDE DEF M, In, Every, S
  <2>3. In(M) \subseteq S
    BY <1>7, <2>2
  <2>4. Max(In(M)) \in In(M) /\ \A l \in In(M) : l <= Max(In(M))
    <3>1. now \in Nat
      BY TimesAre
    <3> DEFINE T == In(M)
    <3>4. T \subseteq S /\ T # {}
      BY <2>2, <2>3
    <3> HIDE DEF T
    <3>2. T \subseteq 0 .. now /\ T # {}
      <4>1. S \subseteq 0 .. now
        BY <1>11
      <4> QED BY <3>4, <4>1
    <3>3. Max(T) \in T /\ \A l \in T : l <= Max(T)
      BY <3>1, <3>2, LatestIsGreatest
    <3> QED BY <3>3 DEF T
  <2>5. ASSUME NEW t \in S PROVE t <= Max(In(M))
    <3>1. PICK m \in 0 .. 11 : m >= first /\ m <= end /\ Every(m) /\ t \in In(m)
      BY <1>7
    <3>2. m \in months
      BY <3>1, <1>8
    <3>3. m <= M
      BY <2>1, <3>2
    <3>4. CASE m = M
      BY <3>1, <3>4, <2>4
    <3>5. CASE m < M
      <4> DEFINE u == Max(In(M))
      <4>1. u \in In(M)
        BY <2>4
      <4> HIDE DEF u
      <4>2. u \in Times /\ t \in Times /\ civilMonth(u) = M /\ civilMonth(t) = m
        BY <3>1, <4>1, <2>2, <1>4
      <4>3. civilDay(t) < MonthStart(m + 1) /\ MonthStart(M) <= civilDay(u)
        BY <4>2, MonthIsThere
      <4>4. MonthStart(m + 1) <= MonthStart(M) /\ MonthStart(M) \in Nat /\ MonthStart(m + 1) \in Nat
        <5>1. M \in 0 .. 11 /\ m \in 0 .. 11 /\ m < M
          BY <3>5, <2>2
        <5>2. MonthStart(M) \in 0 .. 334
          BY <5>1, MonthFacts
        <5>3. MonthStart(m) \in 0 .. 334 /\ MonthLengths[m + 1] \in 28 .. 31
              /\ MonthStart(m + 1) = MonthStart(m) + MonthLengths[m + 1]
          BY <5>1, MonthFacts
        <5>4. MonthStart(m + 1) <= MonthStart(M)
          BY <5>1, MonthsInOrder
        <5> QED BY <5>2, <5>3, <5>4
      <4>5. civilDay(t) \in Nat /\ civilDay(u) \in Nat /\ t \in Nat /\ u \in Nat
        BY <4>2, MinuteFacts, TimesAre
      <4>6. civilDay(t) < civilDay(u)
        BY <4>3, <4>4, <4>5
      <4>7. t <= u
        BY <4>5, <4>6 DEF civilDay, Day, Hour
      <4> QED BY <4>7 DEF u
    <3>6. m = M \/ m < M
      BY <3>1, <3>3, <2>2
    <3> QED BY <3>4, <3>5, <3>6
  <2>6. LatestOf(S) = Max(In(M))
    <3>1. LatestOf(S) \in S /\ \A l \in S : l <= LatestOf(S)
      <4>1. S # {} /\ now \in Nat
        BY <2>2, <2>3, TimesAre
      <4> QED BY <4>1, <1>11, LatestIsGreatest
    <3>2. Max(In(M)) \in S
      BY <2>3, <2>4
    <3>3. LatestOf(S) <= Max(In(M)) /\ Max(In(M)) <= LatestOf(S)
      BY <2>5, <3>1, <3>2
    <3>4. LatestOf(S) \in Nat /\ Max(In(M)) \in Nat
      BY <3>1, <3>2, <1>11
    <3> QED BY <3>3, <3>4
  <2> QED BY <1>10, <1>13, <2>6 DEF M, S
<1> QED BY <1>12, <1>13
-----------------------------------------------------------------------------
(* The answer.                                                              *)

\* What a rule leaves out is taken from the boundary, so that every part is there.
LEMMA ParsedIs ==
  ASSUME NEW q \in Questions, validateRRule(q.task.rule), Boundary(q.task) <= q.now
  PROVE  LET b == Boundary(q.task)
             r == parseRRule(q.task.rule, b)
         IN  /\ b \in Times /\ q.now \in Times /\ Day <= b
             /\ r \in Parsed
             /\ r.freq = "MONTHLY" => r.days = {}
<1> DEFINE b == Boundary(q.task)
           rule == q.task.rule
           r == parseRRule(rule, b)
<1>1. /\ q.now \in Times
      /\ q.task.created \in Nat /\ q.task.created >= Day /\ q.task.updated \in Nat
      /\ rule \in [freq : STRING, interval : Nat, days : SUBSET Nat, monthDays : SUBSET Nat,
                   hour : Nat, minute : Nat]
  BY ScheduleAssumption DEF Times
<1>2. Day \in Nat
  BY DEF Day, Hour
<1>3. b \in Nat /\ Day <= b
  <2>1. CASE q.task.updated < q.task.created
    BY <2>1, <1>1, <1>2 DEF Boundary
  <2>2. CASE ~(q.task.updated < q.task.created)
    <3>1. b = q.task.updated /\ q.task.created <= b
      BY <2>2, <1>1 DEF Boundary
    <3> HIDE DEF b
    <3> QED BY <3>1, <1>1, <1>2
  <2> QED BY <2>1, <2>2
<1> HIDE DEF b, rule
<1>4. b \in Times
  BY <1>1, <1>3, TimesAre DEF b
<1>5. /\ rule.freq \in {"HOURLY", "DAILY", "WEEKLY", "MONTHLY"} /\ rule.interval \in 1 .. 365
      /\ rule.days # {} => rule.freq # "MONTHLY" /\ rule.days \subseteq 0 .. 6
      /\ rule.monthDays # {} => rule.freq = "MONTHLY" /\ rule.monthDays \subseteq 1 .. 31
      /\ rule.hour # Absent => rule.hour \in 0 .. 23
      /\ rule.minute # Absent => rule.minute \in 0 .. 59
  BY DEF validateRRule, rule
<1>6. MinuteOf(b) \in 0 .. 59 /\ HourOf(b) \in 0 .. 23
  BY <1>3, MinuteFacts
<1>7. /\ r.freq = rule.freq /\ r.interval = rule.interval /\ r.days = rule.days
      /\ r.monthDays = rule.monthDays
      /\ r.hour = IF rule.hour = Absent THEN HourOf(b) ELSE rule.hour
      /\ r.minute = IF rule.minute = Absent THEN MinuteOf(b) ELSE rule.minute
      /\ r \in [freq : STRING, interval : Nat, days : SUBSET Nat, monthDays : SUBSET Nat,
                hour : Nat, minute : Nat]
  <2> DEFINE h == IF rule.hour = Absent THEN HourOf(b) ELSE rule.hour
             m == IF rule.minute = Absent THEN MinuteOf(b) ELSE rule.minute
  <2>1. h \in Nat /\ m \in Nat
    BY <1>1, <1>6
  <2>2. r = [rule EXCEPT !.hour = h, !.minute = m]
    BY DEF parseRRule
  <2> HIDE DEF h, m, r
  <2>3. /\ r.freq = rule.freq /\ r.interval = rule.interval /\ r.days = rule.days
        /\ r.monthDays = rule.monthDays /\ r.hour = h /\ r.minute = m
        /\ r \in [freq : STRING, interval : Nat, days : SUBSET Nat, monthDays : SUBSET Nat,
                  hour : Nat, minute : Nat]
    BY <1>1, <2>1, <2>2
  <2> QED BY <2>3 DEF h, m
<1> HIDE DEF r
<1>8. r.hour \in 0 .. 23 /\ r.minute \in 0 .. 59
  BY <1>5, <1>6, <1>7
<1>9. r.days \in SUBSET (0 .. 6) /\ r.monthDays \in SUBSET (1 .. 31)
  BY <1>5, <1>7
<1>10. r \in Parsed /\ r.freq = "MONTHLY" => r.days = {}
  BY <1>5, <1>7, <1>8, <1>9 DEF Parsed
<1>11. r \in Parsed
  BY <1>5, <1>7, <1>8, <1>9 DEF Parsed
<1> QED BY <1>1, <1>3, <1>4, <1>10, <1>11 DEF b, r, rule

LEMMA LatestIsLatestDue ==
  ASSUME NEW q \in Questions, validateRRule(q.task.rule), Boundary(q.task) <= q.now
  PROVE  LatestDue(q.task, q.now) = Latest(q.task, q.now)
<1> DEFINE now == q.now
           b == Boundary(q.task)
           r == parseRRule(q.task.rule, b)
           byHour == q.task.rule.hour # Absent
           S == RuleSlots(r, byHour, b, now)
           found == CASE r.freq = "HOURLY" -> latestHourlyDue(r, byHour, b, now)
                      [] r.freq = "DAILY" -> latestDailyDue(r, b, now)
                      [] r.freq = "WEEKLY" -> latestWeeklyDue(r, b, now)
                      [] r.freq = "MONTHLY" -> latestMonthlyDue(r, b, now)
<1>1. b \in Times /\ now \in Times /\ Day <= b /\ r \in Parsed /\ (r.freq = "MONTHLY" => r.days = {})
  BY ParsedIs
<1>2. b \in Nat /\ now \in Nat /\ now < 365 * 1440 /\ b <= now /\ byHour \in BOOLEAN
  BY <1>1, TimesAre
<1>3. LatestDue(q.task, now) = IF found < b \/ found > now THEN Absent ELSE found
  BY DEF LatestDue
<1>4. Latest(q.task, now) = LatestOf(S)
  BY DEF Latest
<1>5. r.freq \in {"HOURLY", "DAILY", "WEEKLY", "MONTHLY"}
  BY <1>1 DEF Parsed
<1> HIDE DEF now, b, r, byHour
<1>6. found = LatestOf(S)
  <2>1. CASE r.freq = "HOURLY"
    BY <1>1, <1>2, <2>1, HourlyIsLatest
  <2>2. CASE r.freq = "DAILY"
    BY <1>1, <1>2, <2>2, DailyIsLatest
  <2>3. CASE r.freq = "WEEKLY"
    BY <1>1, <1>2, <2>3, WeeklyIsLatest
  <2>4. CASE r.freq = "MONTHLY"
    BY <1>1, <1>2, <2>4, MonthlyIsLatest
  <2> QED BY <1>5, <2>1, <2>2, <2>3, <2>4
<1> HIDE DEF found
<1>7. CASE S = {}
  <2>1. found = Absent
    BY <1>6, <1>7 DEF LatestOf
  <2> QED BY <2>1, <1>3, <1>4, <1>6 DEF now
<1>8. CASE S # {}
  <2>1. S \subseteq 0 .. now /\ \A t \in S : b <= t
    BY <1>1, <1>2, SlotsAre
  <2> HIDE DEF S
  <2>2. LatestOf(S) \in S
    <3>1. now \in Nat /\ S \subseteq 0 .. now /\ S # {}
      BY <1>2, <1>8, <2>1
    <3> QED BY ONLY <3>1, LatestIsGreatest, Zenon
  <2>3. found \in Nat /\ b <= found /\ found <= now
    <3> DEFINE t == LatestOf(S)
    <3>1. t \in S /\ found = t
      BY <1>6, <2>2
    <3> HIDE DEF t
    <3>2. t \in 0 .. now /\ b <= t
      BY <2>1, <3>1
    <3> QED BY <1>2, <3>1, <3>2
  <2>4. ~(found < b) /\ ~(found > now)
    BY <1>2, <2>3
  <2> QED BY <2>4, <1>3, <1>4, <1>6 DEF now
<1> QED BY <1>7, <1>8

-----------------------------------------------------------------------------
\* The question stays; the answer, once it is there, is that of LatestDue.
ScheduleIInv ==
  /\ question \in Questions /\ validateRRule(question.task.rule)
  /\ Boundary(question.task) <= question.now
  /\ dueAt # Unasked => dueAt = LatestDue(question.task, question.now)

LEMMA ScheduleInductive == ScheduleSpec => []ScheduleIInv
<1>1. ScheduleInit => ScheduleIInv
  BY DEF ScheduleInit, ScheduleIInv
<1>2. ScheduleIInv /\ [Ask]_scheduleVars => ScheduleIInv'
  BY DEF ScheduleIInv, Ask, scheduleVars
<1> QED BY <1>1, <1>2, PTL DEF ScheduleSpec

\* LatestDue of the scheduler gives the latest slot of the rule since the last edit of
\* the task, for every rule that validateRRule lets through and every time.
THEOREM DueIsTheLatest == ScheduleSpec => []DueIsLatest
<1>1. ScheduleIInv => DueIsLatest
  BY LatestIsLatestDue DEF ScheduleIInv, DueIsLatest
<1> QED BY <1>1, ScheduleInductive, PTL
=============================================================================
