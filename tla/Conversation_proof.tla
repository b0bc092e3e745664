------------------------- MODULE Conversation_proof -------------------------
(***************************************************************************)
(* Proofs about Conversation, for any threads, goroutines and plays, and    *)
(* any number of failing sends and stops.  The argument is about one thread *)
(* at a time: what its row, its notice and the history say of its latest    *)
(* turn.  A rendering changes what is known of its own thread, a switch     *)
(* what is known of the thread that leaves the front.                       *)
(***************************************************************************)
EXTENDS Conversation, TLAPS

Hows == {"final", "notice", "edit"}
JobTypes == [thread : Threads \cup {NoThread}, snap : [turn : Nat, phase : Phases],
             src : Sources]

\* Snapshot s of thread t was stored once: an end is final for its turn.
NotAhead(t, s) ==
  /\ s.turn <= stored[t].turn
  /\ isTerminalStatus(s) /\ s.turn = stored[t].turn => s = stored[t]

Types ==
  /\ play \in Plays
  /\ stored \in [Threads -> Snapshots]
  /\ fg \in Threads \cup {NoThread} /\ bound \in Threads \cup {NoThread}
  /\ panel \in [Threads -> Rows]
  /\ notice \in [Threads -> Snapshots] /\ \A t \in Threads : NotAhead(t, notice[t])
  /\ inbox \subseteq Threads /\ fg \notin inbox
  /\ job \in [Jobs -> JobTypes]
  /\ \A j \in Jobs : job[j] # Idle =>
       /\ job[j].thread \in Threads /\ job[j].snap \in Snapshots
       /\ NotAhead(job[j].thread, job[j].snap)
  /\ faults \in 0 .. MaxFaults
  /\ told \subseteq Threads \X Turns \X Hows
  /\ \A w \in told : w[2] \in 1 .. stored[w[1]].turn

\* Nothing is shown before a thread is in front, and the binding goes with the front.
Front ==
  /\ fg = NoThread => \A t \in Threads : panel[t] = NoRow
  /\ bound # NoThread => bound = fg

\* The row of a thread whose final card was sent says so, unless a card that could not
\* be sent anew took its place; in the back it has been acknowledged.
FinalIsShown(t) ==
  <<t, stored[t].turn, "final">> \in told /\ t \notin blurred =>
    /\ stored[t].phase = "done"
    /\ panel[t].turn = stored[t].turn /\ panel[t].phase = "done"
    /\ panel[t].final = stored[t].turn \/ ~panel[t].card
    /\ fg # t => notice[t] = stored[t]

\* An end that the row or the notice says was shown was told, or counts as shown.
MarkedIsTold(t) ==
  /\ panel[t].final <= stored[t].turn
  /\ stored[t].turn > 0 /\ (panel[t].final = stored[t].turn \/ (Ended(t) /\ notice[t] = stored[t])) =>
       WasTold(t, stored[t].turn) \/ <<t, stored[t].turn>> \in hushed

TelegramRuns == \A j \in Jobs : job[j].src = "telegram" => job[j].snap.phase = "running"

IInv ==
  /\ Types /\ Front /\ OnlyForegroundWorks /\ TelegramRuns
  /\ \A t \in Threads : FinalIsShown(t) /\ MarkedIsTold(t)
  /\ ToldOnce

-----------------------------------------------------------------------------
LEMMA TurnsAreNat == Turns \subseteq Nat
<1> SUFFICES ASSUME NEW p \in Plays, NEW t \in Threads PROVE p.turns[t] \in Nat
  BY DEF Turns
<1> QED
  BY ConversationAssumption

LEMMA ZeroIsTurn == ASSUME play \in Plays, NEW t \in Threads PROVE 0 \in Turns
<1>1. play.turns[t] \in Nat
  BY ConversationAssumption
<1>2. 0 \in 0 .. play.turns[t]
  BY <1>1
<1> DEFINE Ranges == {0 .. p.turns[u] : p \in Plays, u \in Threads}
<1>3. 0 .. play.turns[t] \in Ranges
  OBVIOUS
<1>4. Turns = UNION Ranges
  BY DEF Turns
<1> HIDE DEF Ranges
<1> QED
  BY <1>2, <1>3, <1>4

LEMMA Constants ==
  /\ NoThread \notin Threads /\ Observers \subseteq Jobs
  /\ Plays \subseteq [jobs : SUBSET Jobs, turns : [Threads -> Nat], may : [Threads -> SUBSET Phases]]
  /\ MaxFaults \in Nat
BY ConversationAssumption DEF Phases

LEMMA InitIInv == Init => IInv
<1> SUFFICES ASSUME Init PROVE IInv
  OBVIOUS
<1> USE Constants DEF Init
<1>1. \A t \in Threads : 0 \in Turns
  BY ZeroIsTurn
<1>2. Types
  <2>1. \A t \in Threads : NoTurn \in Snapshots /\ NoRow \in Rows
    BY <1>1 DEF NoTurn, Snapshots, Phases, NoRow, Rows, Sources
  <2>2. Idle \in JobTypes
    BY DEF Idle, JobTypes, NoTurn, Phases, Sources
  <2>3. \A t \in Threads : NotAhead(t, notice[t])
    BY DEF NotAhead, NoTurn
  <2>4. \A j \in Jobs : job[j] = Idle
    OBVIOUS
  <2> QED
    BY <2>1, <2>2, <2>3, <2>4 DEF Types
<1>3. Front /\ TelegramRuns
  BY DEF Front, TelegramRuns, Idle
<1>4. OnlyForegroundWorks
  BY DEF OnlyForegroundWorks
<1>5. \A t \in Threads : FinalIsShown(t) /\ MarkedIsTold(t)
  BY DEF FinalIsShown, MarkedIsTold, NoRow, NoTurn, Ended
<1>6. ToldOnce
  BY DEF ToldOnce, FinalCardOnce, NoEcho, NoEndIsLeft, Abandoned, Ended, NoTurn
<1> QED
  BY <1>2, <1>3, <1>4, <1>5, <1>6 DEF IInv

-----------------------------------------------------------------------------
(* What a step does to the threads.                                          *)

\* The snapshot of t goes on; an end is final for its turn.
GoesOn(t) ==
  /\ stored' \in [Threads -> Snapshots]
  /\ \A u \in Threads \ {t} : stored'[u] = stored[u]
  /\ stored[t].turn <= stored'[t].turn
  /\ isTerminalStatus(stored[t]) /\ stored'[t].turn = stored[t].turn => stored'[t] = stored[t]

LEMMA RefreshGoesOn ==
  ASSUME Types, NEW t \in Threads, NEW s \in Snapshots, Refreshes(t, s)
  PROVE  GoesOn(t)
<1>1. stored[t].turn \in Nat
  BY TurnsAreNat DEF Types, Snapshots
<1>2. stored' = [stored EXCEPT ![t] = s] /\ stored'[t] = s
  BY DEF Refreshes, Types
<1>3. s = stored[t] \/ (/\ s.turn \in {stored[t].turn, stored[t].turn + 1}
                        /\ s.turn = stored[t].turn => ~isTerminalStatus(stored[t]))
  BY DEF Refreshes, Later
<1> QED
  BY <1>1, <1>2, <1>3 DEF GoesOn, Types

\* The history keeps what it says of the other threads, and of t while its turn lasts.
LEMMA KeptOfTurn ==
  ASSUME NEW H, NEW t \in Threads, NEW u \in Threads, NEW n, NEW how, GoesOn(t)
  PROVE  /\ Kept(H, t) \subseteq H
         /\ u # t \/ stored'[t].turn = stored[t].turn =>
              /\ <<u, n, how>> \in Kept(H, t) <=> <<u, n, how>> \in H
              /\ <<u, n>> \in Kept(H, t) <=> <<u, n>> \in H
         /\ u = t /\ stored'[t].turn # stored[t].turn =>
              <<u, n, how>> \notin Kept(H, t) /\ <<u, n>> \notin Kept(H, t)
BY DEF Kept

-----------------------------------------------------------------------------
(* What a rendering changes.                                                 *)

LEMMA JobAtWork ==
  ASSUME Types, NEW j \in Jobs, job[j] # Idle
  PROVE  /\ job[j].thread \in Threads /\ job[j].snap \in Snapshots
         /\ job[j].snap.turn \in Nat /\ stored[job[j].thread].turn \in Nat
         /\ job[j].snap.turn <= stored[job[j].thread].turn
         /\ NotAhead(job[j].thread, job[j].snap)
         /\ job[j].src \in Sources
BY TurnsAreNat DEF Types, Snapshots, JobTypes, NotAhead

LEMMA NewRowIsRow ==
  ASSUME NEW t \in Threads, NEW snap \in Snapshots, NEW src \in Sources, NEW shown \in BOOLEAN,
         play \in Plays
  PROVE  NewRow(snap, src, shown) \in Rows
BY ZeroIsTurn DEF NewRow, Rows, Snapshots, NoTurn, Phases

LEMMA HiddenIsRow ==
  ASSUME NEW t \in Threads, NEW row \in Rows, play \in Plays PROVE Hidden(row) \in Rows
BY ZeroIsTurn DEF Hidden, Rows, Snapshots, NoTurn, Phases, Sources

\* A rendering of snapshot s of thread t leaves the rows and the history of others alone.
Frame(t, s) ==
  /\ panel' \in [Threads -> Rows] /\ \A u \in Threads \ {t} : panel'[u] = panel[u]
  /\ told \subseteq told' /\ told' \subseteq told \cup {<<t, s.turn, how>> : how \in Hows}
  /\ hushed \subseteq hushed' /\ hushed' \subseteq hushed \cup {<<t, s.turn>>}

LEMMA OneRow ==
  ASSUME Types, NEW t \in Threads, NEW row \in Rows, panel' = [panel EXCEPT ![t] = row]
  PROVE  /\ panel' \in [Threads -> Rows] /\ \A u \in Threads \ {t} : panel'[u] = panel[u]
         /\ panel'[t] = row
BY DEF Types

LEMMA ForegroundFrame ==
  ASSUME Types, NEW t \in Threads, NEW s \in Snapshots, NEW src \in Sources, NEW o,
         RendersForeground(t, s, src, o)
  PROVE  Frame(t, s)
<1> DEFINE old == panel[t]
           new == needsCreate(t, s, src)
           row == IF new THEN NewRow(s, src, s.phase # "done")
                  ELSE IF src = "telegram" THEN [old EXCEPT !.src = src] ELSE old
<1>1. old \in Rows /\ row \in Rows
  <2>1. NewRow(s, src, s.phase # "done") \in Rows
    BY NewRowIsRow, (s.phase # "done") \in BOOLEAN DEF Types
  <2>2. old \in Rows
    BY DEF Types
  <2>3. [old EXCEPT !.src = src] \in Rows
    BY <2>2 DEF Rows
  <2> QED
    BY <2>1, <2>2, <2>3
<1>2. CASE new /\ (sendTypingActivity(t, s) \/ CreateFails(t, s, o))
  BY <1>2 DEF sendTypingActivity, CreateFails, Frame, Types
<1>3. CASE s.phase = "done" /\ panel' = [panel EXCEPT ![t] = row] /\ UNCHANGED <<told, again, hushed>>
  BY <1>1, <1>3, OneRow DEF Frame
<1>4. CASE AdoptsLegacy(t, s, row)
  <2>1. [row EXCEPT !.final = s.turn] \in Rows
    BY <1>1 DEF Rows, Snapshots
  <2> QED
    BY <1>4, <2>1, OneRow DEF AdoptsLegacy, Frame
<1>5. CASE maybeRenderFinalCard(t, s, row, src, o)
  <2>1. [row EXCEPT !.turn = s.turn, !.phase = "done", !.final = s.turn,
                    !.card = TRUE, !.hash = s, !.src = "explicit"] \in Rows
    BY <1>1 DEF Rows, Snapshots, Phases, Sources
  <2> HIDE DEF row
  <2> QED
    BY <1>1, <1>5, <2>1, OneRow DEF maybeRenderFinalCard, Frame, Hows
<1>6. CASE updateCurrentPanel(t, s, row, src, o)
  <2> DEFINE same == [row EXCEPT !.turn = s.turn, !.phase = s.phase]
  <2>1. same \in Rows /\ [same EXCEPT !.hash = s] \in Rows
    BY <1>1 DEF Rows, Snapshots
  <2>2. NewRow(s, src, TRUE) \in Rows
    BY NewRowIsRow DEF Types
  <2> HIDE DEF row
  <2>3. \E r \in Rows : panel' = [panel EXCEPT ![t] = r]
    BY <1>1, <1>6, <2>1, <2>2 DEF updateCurrentPanel
  <2>4. told \subseteq told' /\ told' \subseteq told \cup {<<t, s.turn, how>> : how \in Hows}
    BY <1>6 DEF updateCurrentPanel, Hows
  <2> QED
    BY <1>6, <2>3, <2>4, OneRow DEF updateCurrentPanel, Frame
<1> QED
  BY <1>2, <1>3, <1>4, <1>5, <1>6 DEF RendersForeground

LEMMA BackgroundFrame ==
  ASSUME Types, NEW t \in Threads, NEW s \in Snapshots, NEW o,
         handleBackgroundThreadSnapshot(t, s, o)
  PROVE  /\ Frame(t, s) /\ hushed' = hushed
         /\ panel'[t] = Hidden(panel[t]) \/ (o = "fails" /\ panel'[t] = panel[t])
         /\ notice' \in [Threads -> Snapshots] /\ \A u \in Threads \ {t} : notice'[u] = notice[u]
         /\ inbox' \ {t} = inbox \ {t}
<1>1. panel[t] \in Rows /\ Hidden(panel[t]) \in Rows
  BY HiddenIsRow DEF Types
<1>2. panel' = [panel EXCEPT ![t] = Hidden(@)] \/ (o = "fails" /\ panel' = panel)
  BY DEF handleBackgroundThreadSnapshot
<1>3. /\ panel' \in [Threads -> Rows] /\ \A u \in Threads \ {t} : panel'[u] = panel[u]
      /\ panel'[t] = Hidden(panel[t]) \/ (o = "fails" /\ panel'[t] = panel[t])
  BY <1>1, <1>2, OneRow DEF Types
<1>4. told \subseteq told' /\ told' \subseteq told \cup {<<t, s.turn, how>> : how \in Hows}
  BY DEF handleBackgroundThreadSnapshot, Hows
<1>5. /\ notice' \in [Threads -> Snapshots] /\ \A u \in Threads \ {t} : notice'[u] = notice[u]
      /\ inbox' \ {t} = inbox \ {t}
  BY DEF handleBackgroundThreadSnapshot, Types
<1> QED
  BY <1>3, <1>4, <1>5 DEF Frame, handleBackgroundThreadSnapshot

\* A goroutine that ends, alone or with the process.
LEMMA LeavesFrame ==
  ASSUME Types, NEW j \in Jobs, NEW o \in Outcomes, Leaves(j, o), stored' = stored
  PROVE  /\ job' \in [Jobs -> JobTypes]
         /\ \A k \in Jobs : job'[k] = Idle \/ job'[k] = job[k]
         /\ o = "ok" => \A k \in Jobs \ {j} : job'[k] = job[k]
         /\ missed \subseteq missed'
         /\ faults' \in 0 .. MaxFaults /\ faults <= faults' /\ (o # "ok" => faults' > 0)
         /\ ~(o = "ok" /\ job[j].snap = stored[job[j].thread]) =>
              \A t \in Threads : Abandoned(t)' => <<t, stored'[t].turn>> \in missed'
<1>1. Idle \in JobTypes
  BY DEF Idle, JobTypes, NoTurn, Phases, Sources
<1>2. /\ job' \in [Jobs -> JobTypes]
      /\ \A k \in Jobs : job'[k] = Idle \/ job'[k] = job[k]
      /\ o = "ok" => \A k \in Jobs \ {j} : job'[k] = job[k]
  BY <1>1 DEF Leaves, Types
<1>3. faults' \in 0 .. MaxFaults /\ faults <= faults' /\ (o # "ok" => faults' > 0)
  BY Constants DEF Leaves, Outcomes, Types
<1>4. missed \subseteq missed'
  BY DEF Leaves
<1>5. ASSUME ~(o = "ok" /\ job[j].snap = stored[job[j].thread]),
             NEW t \in Threads, Abandoned(t)'
      PROVE  <<t, stored'[t].turn>> \in missed'
  BY <1>5 DEF Leaves
<1> QED
  BY <1>2, <1>3, <1>4, <1>5

-----------------------------------------------------------------------------
(* A snapshot is stored and loaded.                                          *)

LEMMA TurnsGrow ==
  ASSUME Types, NEW t \in Threads, GoesOn(t), NEW u \in Threads
  PROVE  /\ stored[u].turn \in Nat /\ stored'[u].turn \in Nat
         /\ stored[u].turn <= stored'[u].turn
         /\ u # t => stored'[u] = stored[u]
         /\ isTerminalStatus(stored[u]) /\ stored'[u].turn = stored[u].turn => stored'[u] = stored[u]
<1>1. stored[u] \in Snapshots /\ stored'[u] \in Snapshots
  BY DEF Types, GoesOn
<1>2. stored[u].turn \in Nat /\ stored'[u].turn \in Nat
  BY <1>1, TurnsAreNat DEF Snapshots
<1> QED
  BY <1>2 DEF GoesOn

LEMMA StaysBehind ==
  ASSUME Types, NEW t \in Threads, GoesOn(t), NEW u \in Threads, NEW s \in Snapshots,
         NotAhead(u, s)
  PROVE  NotAhead(u, s)'
<1>1. s.turn \in Nat
  BY TurnsAreNat DEF Snapshots
<1> QED
  BY <1>1, TurnsGrow DEF NotAhead, isTerminalStatus

\* The job that loads, in any of the actions that do.
LEMMA LoadsTypes ==
  ASSUME Types, NEW j \in Jobs, NEW t \in Threads, NEW s \in Snapshots, NEW src \in Sources,
         job[j] = Idle, Refreshes(t, s), Loads(j, t, src)
  PROVE  /\ job' \in [Jobs -> JobTypes]
         /\ \A k \in Jobs : job'[k] # Idle =>
              /\ job'[k].thread \in Threads /\ job'[k].snap \in Snapshots
              /\ NotAhead(job[k].thread, job[k].snap)'
         /\ \A k \in Jobs \ {j} : job'[k] = job[k]
         /\ job'[j] = [thread |-> t, snap |-> stored'[t], src |-> src]
<1> DEFINE new == [thread |-> t, snap |-> stored'[t], src |-> src]
<1>1. GoesOn(t)
  BY RefreshGoesOn
<1>2. stored'[t] \in Snapshots /\ stored'[t] \in [turn : Nat, phase : Phases]
  BY <1>1, TurnsAreNat DEF GoesOn, Snapshots
<1>3. new \in JobTypes
  BY <1>2 DEF JobTypes
<1>4. job' = [job EXCEPT ![j] = new]
  BY DEF Loads
<1>5. /\ job' \in [Jobs -> JobTypes] /\ job'[j] = new
      /\ \A k \in Jobs \ {j} : job'[k] = job[k]
  BY <1>3, <1>4 DEF Types
<1>6. ASSUME NEW k \in Jobs, job'[k] # Idle
      PROVE  /\ job'[k].thread \in Threads /\ job'[k].snap \in Snapshots
             /\ NotAhead(job[k].thread, job[k].snap)'
  <2>1. CASE k = j
    <3>1. job'[k].thread = t /\ job'[k].snap = stored'[t] /\ stored'[t].turn \in Nat
      BY <1>2, <1>5, <2>1
    <3> QED
      BY <1>2, <3>1 DEF NotAhead
  <2>2. CASE k # j
    <3>1. job'[k] = job[k] /\ job[k] # Idle
      BY <1>5, <1>6, <2>2
    <3>2. /\ job[k].thread \in Threads /\ job[k].snap \in Snapshots
          /\ NotAhead(job[k].thread, job[k].snap)
      BY <3>1, JobAtWork
    <3> DEFINE w == job[k].thread  x == job[k].snap
    <3>3. NotAhead(w, x) /\ w \in Threads /\ x \in Snapshots
      BY <3>2
    <3>4. NotAhead(w, x) =>
             /\ x.turn <= stored'[w].turn
             /\ isTerminalStatus(x) /\ x.turn = stored'[w].turn => x = stored'[w]
      <4> HIDE DEF w, x
      <4>1. ASSUME NEW y \in Snapshots, y = x, NotAhead(w, y)
            PROVE  /\ y.turn <= stored'[w].turn
                   /\ isTerminalStatus(y) /\ y.turn = stored'[w].turn => y = stored'[w]
        <5>1. y.turn \in Nat
          BY TurnsAreNat DEF Snapshots
        <5> QED
          BY <4>1, <3>3, <1>1, <5>1, TurnsGrow DEF NotAhead, isTerminalStatus
      <4> QED
        BY <4>1, <3>3
    <3> QED
      BY <3>1, <3>2, <3>4 DEF NotAhead, isTerminalStatus
  <2> QED
    BY <2>1, <2>2
<1> QED
  BY <1>5, <1>6

\* What the history keeps speaks of turns that were stored.
LEMMA KeptTypes ==
  ASSUME Types, NEW t \in Threads, GoesOn(t), told' = Kept(told, t)
  PROVE  /\ told' \subseteq Threads \X Turns \X Hows
         /\ \A w \in told' : w[2] \in 1 .. stored'[w[1]].turn
<1>1. told' \subseteq told
  BY DEF Kept
<1>2. ASSUME NEW w \in told' PROVE w[2] \in 1 .. stored'[w[1]].turn
  <2>1. w \in told /\ w[1] \in Threads /\ w[2] \in 1 .. stored[w[1]].turn
    BY <1>1 DEF Types
  <2> DEFINE u == w[1]
  <2>2. stored[u].turn \in Nat /\ stored'[u].turn \in Nat /\ stored[u].turn <= stored'[u].turn
    BY <2>1, TurnsGrow
  <2> QED
    BY <2>1, <2>2
<1> QED
  BY <1>1, <1>2 DEF Types

\* What is known of a thread survives that its snapshot goes on, as long as the row and
\* the notice stay.
LEMMA GoingOnKeeps ==
  ASSUME IInv, NEW t \in Threads, GoesOn(t), NEW u \in Threads,
         told' = Kept(told, t), Kept(hushed, t) \subseteq hushed', blurred' = blurred,
         panel'[u] = panel[u], notice'[u] = notice[u], fg' # u => fg # u
  PROVE  FinalIsShown(u)' /\ MarkedIsTold(u)'
<1> DEFINE n == stored[u].turn
<1>1. /\ n \in Nat /\ stored'[u].turn \in Nat /\ n <= stored'[u].turn
      /\ u # t => stored'[u] = stored[u]
      /\ isTerminalStatus(stored[u]) /\ stored'[u].turn = n => stored'[u] = stored[u]
  BY TurnsGrow DEF IInv
<1>2. panel[u].final \in Nat /\ notice[u].turn \in Nat /\ panel[u] \in Rows
  BY TurnsAreNat DEF IInv, Types, Snapshots, Rows
<1>3. FinalIsShown(u) /\ MarkedIsTold(u) /\ NotAhead(u, notice[u])
  BY DEF IInv, Types
<1>4. CASE stored'[u].turn = n
  <2>1. \A how : <<u, n, how>> \in told' <=> <<u, n, how>> \in told
    <3> TAKE how
    <3> QED
      BY <1>4, <1>1 DEF Kept
  <2>2. <<u, n>> \in hushed => <<u, n>> \in hushed'
    <3>1. <<u, n>> \in hushed => <<u, n>> \in Kept(hushed, t)
      BY <1>4 DEF Kept
    <3> QED
      BY <3>1
  <2>3. FinalIsShown(u)'
    <3>1. stored[u].phase = "done" => stored'[u] = stored[u]
      BY <1>1, <1>4 DEF isTerminalStatus
    <3> QED
      BY <1>3, <1>4, <2>1, <3>1 DEF FinalIsShown
  <2>5. Ended(u)' /\ notice[u] = stored'[u] => Ended(u) /\ notice[u] = stored[u]
    BY <1>1, <1>3, <1>4 DEF Ended, NotAhead
  <2>6. WasTold(u, stored[u].turn)' <=> WasTold(u, stored[u].turn)
    BY <2>1, <1>4 DEF WasTold
  <2> QED
    BY <1>3, <1>4, <2>2, <2>3, <2>5, <2>6 DEF MarkedIsTold
<1>5. CASE stored'[u].turn # n
  <2>1. u = t
    BY <1>1, <1>5
  <2>2. \A m, how : <<u, m, how>> \notin told'
    <3>1. stored'[t].turn # stored[t].turn
      BY <1>5, <2>1
    <3> QED
      BY <2>1, <3>1 DEF Kept
  <2>3. FinalIsShown(u)'
    BY <2>2 DEF FinalIsShown
  <2>4. notice[u] # stored'[u] /\ panel[u].final < stored'[u].turn
    BY <1>1, <1>2, <1>3, <1>5 DEF NotAhead, MarkedIsTold
  <2> QED
    BY <1>1, <1>2, <2>3, <2>4 DEF MarkedIsTold
<1> QED
  BY <1>4, <1>5

\* A thread that is left to itself once another was loaded was left by all goroutines before.
LEMMA LoadingLeaves ==
  ASSUME Types, NEW j \in Jobs, NEW t \in Threads, GoesOn(t), job[j] = Idle, job'[j].thread = t,
         \A k \in Jobs \ {j} : job'[k] = job[k], told' = Kept(told, t),
         NEW u \in Threads, Abandoned(u)'
  PROVE  /\ u # t /\ stored'[u] = stored[u]
         /\ Ended(u) /\ ~WasTold(u, stored[u].turn)
         /\ \A k \in Jobs : job[k].thread # u
         /\ \A H : \A n : <<u, n>> \in Kept(H, t) <=> <<u, n>> \in H
<1>1. Ended(u)' /\ ~WasTold(u, stored[u].turn)' /\ \A k \in Jobs : job'[k].thread # u
  BY DEF Abandoned
<1>2. u # t /\ stored'[u] = stored[u]
  BY <1>1 DEF GoesOn
<1>3. Ended(u)
  BY <1>1, <1>2 DEF Ended
<1>4. \A n, how : <<u, n, how>> \in told' <=> <<u, n, how>> \in told
  BY <1>2 DEF Kept
<1>5. ~WasTold(u, stored[u].turn)
  BY <1>1, <1>2, <1>4 DEF WasTold
<1>6. \A k \in Jobs : job[k].thread # u
  BY <1>1, Constants DEF Idle
<1>7. \A H : \A n : <<u, n>> \in Kept(H, t) <=> <<u, n>> \in H
  BY <1>2 DEF Kept
<1> QED
  BY <1>2, <1>3, <1>5, <1>6, <1>7

LEMMA ObservesKeeps ==
  ASSUME IInv, NEW j \in Jobs, NEW t \in Threads, Observes(j, t), play' = play
  PROVE  IInv'
<1>1. PICK s \in Snapshots : Refreshes(t, s)
  BY DEF Observes
<1>2. Types /\ Front /\ OnlyForegroundWorks /\ TelegramRuns /\ ToldOnce
  BY DEF IInv
<1>3. GoesOn(t)
  BY <1>1, <1>2, RefreshGoesOn
<1>4. job[j] = Idle /\ Loads(j, t, "observer") /\ "observer" \in Sources
  BY DEF Observes, Sources
<1>5. /\ job' \in [Jobs -> JobTypes]
      /\ \A k \in Jobs : job'[k] # Idle =>
           /\ job'[k].thread \in Threads /\ job'[k].snap \in Snapshots
           /\ NotAhead(job[k].thread, job[k].snap)'
      /\ \A k \in Jobs \ {j} : job'[k] = job[k]
      /\ job'[j] = [thread |-> t, snap |-> stored'[t], src |-> "observer"]
  BY <1>1, <1>2, <1>4, LoadsTypes
<1>6. /\ UNCHANGED <<fg, bound, panel, notice, inbox, faults, again, echo, blurred>>
      /\ told' = Kept(told, t) /\ hushed' = Kept(hushed, t) /\ missed' = Kept(missed, t)
  BY DEF Observes, chat
<1>7. Types'
  <2>1. /\ told' \subseteq Threads \X Turns \X Hows
        /\ \A w \in told' : w[2] \in 1 .. stored'[w[1]].turn
    BY <1>2, <1>3, <1>6, KeptTypes
  <2>2. ASSUME NEW u \in Threads PROVE NotAhead(u, notice[u])'
    <3>1. NotAhead(u, notice[u]) /\ notice[u] \in Snapshots /\ notice'[u] = notice[u]
      BY <1>2, <1>6 DEF Types
    <3> QED
      BY <1>2, <1>3, <3>1, StaysBehind DEF NotAhead
  <2> QED
    BY <1>2, <1>3, <1>5, <1>6, <2>1, <2>2 DEF Types, GoesOn
<1>8. Front' /\ OnlyForegroundWorks' /\ TelegramRuns'
  BY <1>2, <1>5, <1>6 DEF Front, OnlyForegroundWorks, TelegramRuns
<1>9. ASSUME NEW u \in Threads PROVE FinalIsShown(u)' /\ MarkedIsTold(u)'
  BY <1>3, <1>6, GoingOnKeeps
<1>10. ToldOnce'
  <2>1. ASSUME NEW u \in Threads, Abandoned(u)' PROVE <<u, stored'[u].turn>> \in hushed' \cup missed'
    <3>1. job'[j].thread = t
      BY <1>5
    <3>2. /\ u # t /\ stored'[u] = stored[u]
          /\ Ended(u) /\ ~WasTold(u, stored[u].turn)
          /\ \A k \in Jobs : job[k].thread # u
          /\ \A H : \A n : <<u, n>> \in Kept(H, t) <=> <<u, n>> \in H
      BY <1>2, <1>3, <1>4, <1>5, <1>6, <2>1, <3>1, LoadingLeaves
    <3>3. u \notin inbox /\ ~threadNeedsLiveSync(u)
      BY <1>6, <2>1 DEF Abandoned, threadNeedsLiveSync
    <3>4. <<u, stored[u].turn>> \in hushed \cup missed
      BY <1>2, <3>2, <3>3 DEF ToldOnce, NoEndIsLeft, Abandoned
    <3> QED
      BY <1>6, <3>2, <3>4
  <2> QED
    BY <1>2, <1>6, <2>1 DEF ToldOnce, FinalCardOnce, NoEcho, NoEndIsLeft
<1> QED
  BY <1>7, <1>8, <1>9, <1>10 DEF IInv

\* The thread that leaves the front, u, is acknowledged and its working card goes.
LEMMA OpensKeeps ==
  ASSUME IInv, NEW j \in Jobs, NEW t \in Threads, Opens(j, t), play' = play
  PROVE  IInv'
<1> DEFINE u == fg
           away == u \notin {NoThread, t}
           ack == away /\ Acknowledged(u)
<1>1. PICK s \in Snapshots : Refreshes(t, s)
  BY DEF Opens
<1>2. Types /\ Front /\ OnlyForegroundWorks /\ TelegramRuns /\ ToldOnce
  BY DEF IInv
<1>3. GoesOn(t)
  BY <1>1, <1>2, RefreshGoesOn
<1>4. PICK src \in {"telegram", "explicit"} :
        (src = "telegram" => stored'[t].phase = "running") /\ Loads(j, t, src)
  BY DEF Opens
<1>5. /\ job' \in [Jobs -> JobTypes]
      /\ \A k \in Jobs : job'[k] # Idle =>
           /\ job'[k].thread \in Threads /\ job'[k].snap \in Snapshots
           /\ NotAhead(job[k].thread, job[k].snap)'
      /\ \A k \in Jobs \ {j} : job'[k] = job[k]
      /\ job'[j] = [thread |-> t, snap |-> stored'[t], src |-> src]
  <2>1. src \in Sources /\ job[j] = Idle
    BY DEF Sources, Opens
  <2> QED
    BY <1>1, <1>2, <1>4, <2>1, LoadsTypes
<1>6. /\ UNCHANGED <<again, echo, blurred>>
      /\ told' = Kept(told, t) /\ missed' = Kept(missed, t)
      /\ activateForegroundThread(t)
      /\ job[j] = Idle
  BY DEF Opens
<1>7. /\ fg' = t /\ bound' = t
      /\ inbox' = inbox \ ({t} \cup (IF ack THEN {u} ELSE {}))
      /\ notice' = IF ack THEN [notice EXCEPT ![u] = stored[u]] ELSE notice
      /\ hushed' = IF ack /\ ~WasTold(u, stored[u].turn)
                   THEN Kept(hushed, t) \cup {<<u, stored[u].turn>>} ELSE Kept(hushed, t)
  BY <1>6 DEF activateForegroundThread
<1>8. \/ /\ panel' = IF away THEN [panel EXCEPT ![u] = Hidden(@)] ELSE panel
         /\ UNCHANGED faults
      \/ /\ away /\ MayHide(panel[u]) /\ faults < MaxFaults
         /\ faults' = faults + 1
         /\ UNCHANGED panel
  BY <1>6 DEF activateForegroundThread
<1>9. away => /\ u \in Threads /\ u # t /\ stored'[u] = stored[u]
               /\ panel[u] \in Rows /\ Hidden(panel[u]) \in Rows
  BY <1>2, <1>3, HiddenIsRow DEF Types, GoesOn
<1> HIDE DEF u, away, ack
<1>10. faults \in Nat /\ MaxFaults \in Nat /\ faults' \in 0 .. MaxFaults /\ (UNCHANGED faults \/ faults' > 0)
  BY <1>2, <1>8, Constants DEF Types
<1>11. /\ panel' \in [Threads -> Rows]
       /\ \A v \in Threads : panel'[v] # panel[v] => away /\ v = u
       /\ away => panel'[u] = Hidden(panel[u]) \/ (faults' > 0 /\ panel'[u] = panel[u])
  BY <1>2, <1>8, <1>9, <1>10 DEF Types
<1>12. /\ notice' \in [Threads -> Snapshots]
       /\ \A v \in Threads : notice'[v] # notice[v] => ack /\ v = u
       /\ ack => notice'[u] = stored[u] /\ away
  BY <1>2, <1>7, <1>9 DEF Types, ack
<1>13. Types'
  <2>1. /\ told' \subseteq Threads \X Turns \X Hows
        /\ \A w \in told' : w[2] \in 1 .. stored'[w[1]].turn
    BY <1>2, <1>3, <1>6, KeptTypes
  <2>2. ASSUME NEW v \in Threads PROVE NotAhead(v, notice[v])'
    <3>1. CASE notice'[v] = notice[v]
      <4>1. NotAhead(v, notice[v]) /\ notice[v] \in Snapshots
        BY <1>2 DEF Types
      <4> QED
        BY <1>2, <1>3, <3>1, <4>1, StaysBehind DEF NotAhead
    <3>2. CASE notice'[v] # notice[v]
      <4>1. notice'[v] = stored'[v]
        BY <1>9, <1>12, <3>2
      <4>2. stored'[v].turn \in Nat
        BY <1>2, <1>3, TurnsGrow
      <4> QED
        BY <4>1, <4>2 DEF NotAhead
    <3> QED
      BY <3>1, <3>2
  <2> QED
    BY <1>2, <1>3, <1>5, <1>7, <1>10, <1>11, <1>12, <2>1, <2>2 DEF Types, GoesOn
<1>14. Front'
  BY <1>7, Constants DEF Front
<1>15. TelegramRuns'
  BY <1>2, <1>4, <1>5 DEF TelegramRuns
<1>16. OnlyForegroundWorks'
  <2> SUFFICES ASSUME NEW v \in Threads, MayHide(panel'[v]), v # t PROVE faults' > 0
    BY <1>7 DEF OnlyForegroundWorks, MayHide, isTerminalStatus
  <2>1. CASE away /\ v = u
    <3>1. ~MayHide(Hidden(panel[u]))
      BY <1>9, <2>1 DEF MayHide, Hidden, Rows, isTerminalStatus
    <3> QED
      BY <1>11, <2>1, <3>1
  <2>2. CASE ~(away /\ v = u)
    <3>1. panel'[v] = panel[v]
      BY <1>11, <2>2
    <3>2. fg # NoThread
      BY <1>2, <3>1 DEF Front, NoRow, MayHide
    <3>3. fg # v
      BY <2>2, <3>2 DEF u, away
    <3>4. faults > 0
      BY <1>2, <3>1, <3>2, <3>3 DEF OnlyForegroundWorks
    <3> QED
      BY <1>10, <3>4
  <2> QED
    BY <2>1, <2>2
<1>17. ASSUME NEW v \in Threads PROVE FinalIsShown(v)' /\ MarkedIsTold(v)'
  <2>1. CASE ~(away /\ v = u)
    <3>1. panel'[v] = panel[v] /\ notice'[v] = notice[v]
      BY <1>11, <1>12, <2>1
    <3>2. fg' # v => fg # v
      BY <1>7, <2>1, Constants DEF u, away
    <3>3. Kept(hushed, t) \subseteq hushed'
      BY <1>7
    <3> QED
      BY <1>3, <1>6, <3>1, <3>2, <3>3, GoingOnKeeps
  <2>2. CASE away /\ v = u
    <3>1. FinalIsShown(v) /\ MarkedIsTold(v) /\ stored'[v] = stored[v] /\ v # t
      BY <1>9, <2>2 DEF IInv
    <3>2. \A n, how : <<v, n, how>> \in told' <=> <<v, n, how>> \in told
      BY <1>6, <3>1 DEF Kept
    <3>3. \A n : <<v, n>> \in hushed => <<v, n>> \in hushed'
      <4>1. \A n : <<v, n>> \in hushed => <<v, n>> \in Kept(hushed, t)
        BY <3>1 DEF Kept
      <4> QED
        BY <1>7, <4>1
    <3>4. panel[v].phase = "done" => panel'[v] = panel[v]
      BY <1>11, <2>2 DEF Hidden, MayHide, isTerminalStatus
    <3>5. panel'[v].final = panel[v].final
      BY <1>9, <1>11, <2>2 DEF Hidden, Rows
    <3>6. WasTold(v, stored[v].turn)' <=> WasTold(v, stored[v].turn)
      BY <3>1, <3>2 DEF WasTold
    <3>7. FinalIsShown(v)'
      <4> SUFFICES ASSUME <<v, stored'[v].turn, "final">> \in told', v \notin blurred'
                   PROVE  /\ stored'[v].phase = "done"
                          /\ panel'[v].turn = stored'[v].turn /\ panel'[v].phase = "done"
                          /\ panel'[v].final = stored'[v].turn \/ ~panel'[v].card
                          /\ notice'[v] = stored'[v]
        BY DEF FinalIsShown
      <4>1. <<v, stored[v].turn, "final">> \in told /\ v \notin blurred
        BY <1>6, <3>1, <3>2
      <4>2. /\ stored[v].phase = "done"
            /\ panel[v].turn = stored[v].turn /\ panel[v].phase = "done"
            /\ panel[v].final = stored[v].turn \/ ~panel[v].card
        BY <3>1, <4>1 DEF FinalIsShown
      <4>3. stored[v].turn > 0
        <5>1. \A w \in told : w[2] \in 1 .. stored[w[1]].turn
          BY <1>2 DEF Types
        <5>2. stored[v].turn \in 1 .. stored[v].turn
          BY <4>1, <5>1
        <5>3. stored[v].turn \in Nat
          BY <1>2, <1>3, TurnsGrow
        <5> QED
          BY <5>2, <5>3
      <4>4. ack
        BY <2>2, <4>2, <4>3 DEF ack, Acknowledged, Ended, isTerminalStatus
      <4> QED
        BY <1>12, <2>2, <3>1, <3>4, <4>2, <4>4
    <3>8. MarkedIsTold(v)'
      <4>1. ASSUME Ended(v)' PROVE WasTold(v, stored[v].turn) \/ <<v, stored[v].turn>> \in hushed'
        <5>1. ack
          BY <2>2, <3>1, <4>1 DEF ack, Acknowledged, Ended
        <5> QED
          BY <1>7, <2>2, <5>1
      <4> QED
        BY <3>1, <3>3, <3>5, <3>6, <4>1 DEF MarkedIsTold
    <3> QED
      BY <3>7, <3>8
  <2> QED
    BY <2>1, <2>2
<1>18. ToldOnce'
  <2>1. ASSUME NEW v \in Threads, Abandoned(v)' PROVE <<v, stored'[v].turn>> \in hushed' \cup missed'
    <3>1. job'[j].thread = t
      BY <1>5
    <3>2. /\ v # t /\ stored'[v] = stored[v]
          /\ Ended(v) /\ ~WasTold(v, stored[v].turn)
          /\ \A k \in Jobs : job[k].thread # v
          /\ \A H : \A n : <<v, n>> \in Kept(H, t) <=> <<v, n>> \in H
      BY <1>2, <1>3, <1>5, <1>6, <2>1, <3>1, LoadingLeaves
    <3>3. CASE v = u
      <4>1. ack
        BY <3>2, <3>3, Constants DEF ack, away, Acknowledged
      <4> QED
        BY <1>7, <3>2, <3>3, <4>1
    <3>4. CASE v # u
      <4>1. v \notin inbox
        BY <1>7, <2>1, <3>2, <3>4 DEF Abandoned
      <4>2. panel'[v] = panel[v]
        BY <1>11, <3>4
      <4>3. ~threadNeedsLiveSync(v)
        <5>1. v # bound
          BY <1>2, <3>4, Constants DEF Front, u
        <5>2. ~RowNeedsSync(v, panel[v])
          BY <2>1, <4>2 DEF Abandoned, threadNeedsLiveSync, RowNeedsSync
        <5> QED
          BY <5>1, <5>2 DEF threadNeedsLiveSync
      <4>4. <<v, stored[v].turn>> \in hushed \cup missed
        BY <1>2, <3>2, <4>1, <4>3 DEF ToldOnce, NoEndIsLeft, Abandoned
      <4> QED
        BY <1>6, <1>7, <3>2, <4>4
    <3> QED
      BY <3>3, <3>4
  <2> QED
    BY <1>2, <1>6, <2>1 DEF ToldOnce, FinalCardOnce, NoEcho, NoEndIsLeft
<1> QED
  BY <1>13, <1>14, <1>15, <1>16, <1>17, <1>18 DEF IInv

-----------------------------------------------------------------------------
(* A snapshot is rendered.                                                   *)

\* In front: the final card goes out once, and an end that is current is told.
LEMMA ForegroundTells ==
  ASSUME IInv, NEW t \in Threads, NEW s \in Snapshots, NEW src \in Sources,
         NEW o \in {"ok", "fails", "stops"},
         RendersForeground(t, s, src, o), s.turn > 0, NotAhead(t, s),
         src = "telegram" => s.phase = "running",
         stored' = stored, fg' = t, notice' = notice,
         blurred' = IF s # stored[t] \/ o = "stops" THEN blurred \cup {t} ELSE blurred
  PROVE  /\ FinalIsShown(t)' /\ MarkedIsTold(t)' /\ again' = {}
         /\ o = "ok" /\ s = stored[t] /\ Ended(t) =>
              WasTold(t, stored[t].turn)' \/ <<t, stored[t].turn>> \in hushed'
<1> DEFINE n == stored[t].turn
           old == panel[t]
           new == needsCreate(t, s, src)
           row == IF new THEN NewRow(s, src, s.phase # "done")
                  ELSE IF src = "telegram" THEN [old EXCEPT !.src = src] ELSE old
           Tells == o = "ok" /\ s = stored[t] /\ Ended(t) =>
                      WasTold(t, stored[t].turn)' \/ <<t, stored[t].turn>> \in hushed'
           Goal == FinalIsShown(t)' /\ MarkedIsTold(t)' /\ again' = {} /\ Tells
<1>1. Types /\ again = {} /\ FinalIsShown(t) /\ MarkedIsTold(t)
  BY DEF IInv, ToldOnce, FinalCardOnce
<1>2. /\ n \in Nat /\ s.turn \in Nat /\ s.turn <= n /\ old \in Rows /\ old.final \in Nat /\ old.final <= n
  BY <1>1, TurnsAreNat DEF Types, Snapshots, Rows, NotAhead, MarkedIsTold
<1>3. /\ row \in Rows
      /\ new => /\ row.turn = s.turn /\ row.phase = s.phase /\ row.final = 0 /\ row.src = src
                /\ row.card = (s.phase # "done")
                /\ s.phase = "done" => row.hash = NoTurn
      /\ ~new => /\ row.turn = old.turn /\ row.phase = old.phase /\ row.final = old.final
                 /\ row.card = old.card /\ old.card /\ old.turn = s.turn
  <2>1. NewRow(s, src, s.phase # "done") \in Rows
    BY <1>1, NewRowIsRow, (s.phase # "done") \in BOOLEAN DEF Types
  <2>2. [old EXCEPT !.src = src] \in Rows
    BY <1>2 DEF Rows
  <2> QED
    BY <1>2, <2>1, <2>2 DEF NewRow, needsCreate, Rows
<1>4. new => src = "explicit" \/ old.phase = "none" \/ ~old.card \/ old.turn # s.turn
  BY DEF needsCreate, NoRow
<1>5. Frame(t, s)
  BY <1>1, ForegroundFrame
<1>6. panel'[t] \in Rows /\ told \subseteq told' /\ hushed \subseteq hushed'
  BY <1>5 DEF Frame
<1>7. WasTold(t, n) => WasTold(t, stored[t].turn)'
  BY <1>6 DEF WasTold
\* What remains of MarkedIsTold(t).
<1>8. ASSUME panel'[t].final = old.final \/ panel'[t].final = 0
      PROVE  MarkedIsTold(t)'
  BY <1>1, <1>2, <1>6, <1>7, <1>8 DEF MarkedIsTold, Ended
<1>9. ASSUME WasTold(t, s.turn)' \/ <<t, s.turn>> \in hushed', panel'[t].final = s.turn
      PROVE  MarkedIsTold(t)' /\ Tells
  BY <1>1, <1>2, <1>6, <1>7, <1>9 DEF MarkedIsTold, Ended, WasTold
\* What remains of FinalIsShown(t).
<1>10. ASSUME <<t, n, "final">> \in told, t \notin blurred'
       PROVE  /\ s = stored[t] /\ s.phase = "done" /\ o # "stops"
              /\ old.turn = s.turn /\ old.phase = "done"
              /\ old.final = s.turn \/ ~old.card
  BY <1>1, <1>10 DEF FinalIsShown
<1>11. /\ \/ new /\ sendTypingActivity(t, s)
          \/ new /\ CreateFails(t, s, o)
          \/ /\ s.phase = "done" /\ FinalWasSent(row, s)
             /\ panel' = [panel EXCEPT ![t] = row]
             /\ UNCHANGED <<told, again, hushed>>
          \/ /\ s.phase = "done" /\ ~FinalWasSent(row, s)
             /\ IF old.turn = s.turn /\ isLegacyTerminalReplay(row, s)
                THEN AdoptsLegacy(t, s, row)
                ELSE maybeRenderFinalCard(t, s, row, src, o)
          \/ s.phase # "done" /\ updateCurrentPanel(t, s, row, src, o)
  BY DEF RendersForeground
<1> HIDE DEF row, new
<1>12. CASE new /\ (sendTypingActivity(t, s) \/ CreateFails(t, s, o))
  <2>1. UNCHANGED <<panel, told, again>> /\ s.phase # "done"
    BY <1>12 DEF sendTypingActivity, CreateFails
  <2>2. FinalIsShown(t)'
    BY <1>10, <2>1 DEF FinalIsShown
  <2>3. s.phase = "running" \/ o # "ok"
    BY <1>12 DEF sendTypingActivity, CreateFails
  <2>4. Tells
    BY <2>3 DEF Ended, isTerminalStatus
  <2> QED
    BY <1>1, <1>8, <2>1, <2>2, <2>4
<1>13. CASE /\ s.phase = "done" /\ FinalWasSent(row, s)
            /\ panel' = [panel EXCEPT ![t] = row]
            /\ UNCHANGED <<told, again, hushed>>
  <2>1. panel'[t] = row /\ row.final = s.turn /\ ~new
    BY <1>1, <1>3, <1>13 DEF FinalWasSent, Types
  <2>2. MarkedIsTold(t)'
    BY <1>3, <1>8, <2>1
  <2>3. Tells
    <3>1. ASSUME s = stored[t] PROVE WasTold(t, n) \/ <<t, n>> \in hushed
      BY <1>1, <1>2, <1>3, <2>1, <3>1 DEF MarkedIsTold
    <3> QED
      BY <1>6, <1>7, <3>1
  <2>4. FinalIsShown(t)'
    BY <1>3, <1>10, <1>13, <2>1 DEF FinalIsShown
  <2> QED
    BY <1>1, <1>13, <2>2, <2>3, <2>4
<1>14. CASE /\ s.phase = "done" /\ ~FinalWasSent(row, s)
            /\ old.turn = s.turn /\ AdoptsLegacy(t, s, row)
  <2>1. /\ panel'[t] = [row EXCEPT !.final = s.turn] /\ UNCHANGED <<told, again>>
        /\ hushed' = IF WasTold(t, s.turn) THEN hushed ELSE hushed \cup {<<t, s.turn>>}
    BY <1>1, <1>3, <1>14 DEF AdoptsLegacy, Types
  <2>2. panel'[t].final = s.turn /\ panel'[t].turn = row.turn /\ panel'[t].phase = row.phase
    BY <1>3, <2>1 DEF Rows
  <2>3. WasTold(t, s.turn)' \/ <<t, s.turn>> \in hushed'
    BY <2>1 DEF WasTold
  <2>4. FinalIsShown(t)'
    BY <1>3, <1>10, <1>14, <2>1, <2>2 DEF FinalIsShown
  <2> QED
    BY <1>1, <1>9, <2>1, <2>2, <2>3, <2>4
<1>15. CASE /\ s.phase = "done" /\ ~FinalWasSent(row, s)
            /\ ~(old.turn = s.turn /\ isLegacyTerminalReplay(row, s))
            /\ maybeRenderFinalCard(t, s, row, src, o)
  \* A card that was sent is in the row, or the row would have been adopted.
  <2>1. ASSUME <<t, s.turn, "final">> \in told, src # "explicit", t \notin blurred' PROVE FALSE
    <3>1. s = stored[t]
      BY <2>1
    <3>2. old.turn = s.turn /\ old.phase = "done" /\ (old.final = s.turn \/ ~old.card)
      BY <1>10, <2>1, <3>1
    <3>3. new
      BY <1>3, <1>15, <3>2 DEF FinalWasSent
    <3>4. src = "observer"
      BY <1>15, <2>1 DEF Sources
    <3>5. isLegacyTerminalReplay(row, s)
      BY <1>3, <1>15, <3>3, <3>4 DEF isLegacyTerminalReplay, isTerminalStatus
    <3> QED
      BY <1>15, <3>2, <3>5
  <2>2. again' = {}
    BY <1>1, <1>15, <2>1 DEF maybeRenderFinalCard
  <2>3. CASE o = "ok"
    <3>1. /\ panel'[t] = [row EXCEPT !.turn = s.turn, !.phase = "done", !.final = s.turn,
                                     !.card = TRUE, !.hash = s, !.src = "explicit"]
          /\ <<t, s.turn, "final">> \in told'
      BY <1>1, <1>15, <2>3 DEF maybeRenderFinalCard, Types
    <3>2. panel'[t].final = s.turn /\ panel'[t].turn = s.turn /\ panel'[t].phase = "done"
      BY <1>3, <3>1 DEF Rows
    <3>3. WasTold(t, s.turn)'
      BY <3>1 DEF WasTold
    <3>4. FinalIsShown(t)'
      BY <1>15, <3>2 DEF FinalIsShown
    <3> QED
      BY <1>9, <2>2, <3>2, <3>3, <3>4
  <2>4. CASE o # "ok"
    <3>1. panel'[t] = row
      BY <1>1, <1>15, <2>4 DEF maybeRenderFinalCard, Types
    <3>2. MarkedIsTold(t)'
      BY <1>3, <1>8, <3>1
    <3>3. FinalIsShown(t)'
      <4> SUFFICES ASSUME <<t, n, "final">> \in told', t \notin blurred'
                   PROVE  /\ stored[t].phase = "done"
                          /\ row.turn = n /\ row.phase = "done"
                          /\ row.final = n \/ ~row.card
        BY <3>1 DEF FinalIsShown
      <4>1. s = stored[t] /\ o = "fails"
        BY <2>4
      <4>2. told' = told
        BY <1>15, <4>1 DEF maybeRenderFinalCard
      <4>3. old.turn = n /\ old.phase = "done" /\ (old.final = n \/ ~old.card)
        BY <1>10, <4>1, <4>2
      <4>4. new => row.turn = n /\ row.phase = "done" /\ ~row.card
        BY <1>3, <1>15, <4>1
      <4> QED
        BY <1>3, <1>15, <4>1, <4>3, <4>4
    <3> QED
      BY <2>2, <2>4, <3>2, <3>3
  <2> QED
    BY <2>3, <2>4
<1>16. CASE s.phase # "done" /\ updateCurrentPanel(t, s, row, src, o)
  <2> DEFINE same == [row EXCEPT !.turn = s.turn, !.phase = s.phase]
  <2>1. same.final = row.final /\ [same EXCEPT !.hash = s].final = row.final /\ NewRow(s, src, TRUE).final = 0
    BY <1>3 DEF Rows, NewRow
  <2>2. panel'[t] \in {same, [same EXCEPT !.hash = s], row, NewRow(s, src, TRUE)}
    BY <1>1, <1>16 DEF updateCurrentPanel, Types
  <2>3. told' \subseteq told \cup {<<t, s.turn, "edit">>}
    BY <1>16 DEF updateCurrentPanel
  <2>4. MarkedIsTold(t)'
    <3>1. row.final = old.final \/ row.final = 0
      BY <1>3
    <3> HIDE DEF same
    <3>2. panel'[t].final = row.final \/ panel'[t].final = 0
      BY <2>1, <2>2
    <3> QED
      BY <1>8, <3>1, <3>2
  <2>5. FinalIsShown(t)'
    BY <1>10, <1>16, <2>3 DEF FinalIsShown
  <2>6. Tells
    <3>1. ASSUME o = "ok", s.phase = "stopped" PROVE <<t, s.turn, "edit">> \in told'
      BY <1>16, <3>1 DEF updateCurrentPanel
    <3> QED
      BY <1>16, <3>1 DEF WasTold, Ended, isTerminalStatus
  <2>7. again' = {}
    BY <1>1, <1>16 DEF updateCurrentPanel
  <2> QED
    BY <2>4, <2>5, <2>6, <2>7
<1> QED
  BY <1>11, <1>12, <1>13, <1>14, <1>15, <1>16

\* In the back: an end that was shown is not announced again, and one that is current is
\* announced or waits in the inbox.
LEMMA BackgroundTells ==
  ASSUME IInv, NEW t \in Threads, NEW s \in Snapshots, NEW o \in {"ok", "fails", "stops"},
         handleBackgroundThreadSnapshot(t, s, o), s.turn > 0, NotAhead(t, s),
         stored' = stored, fg # t,
         blurred' = IF s # stored[t] \/ o = "stops" THEN blurred \cup {t} ELSE blurred
  PROVE  /\ FinalIsShown(t)' /\ MarkedIsTold(t)' /\ again' = {} /\ echo' = {}
         /\ o = "ok" /\ s = stored[t] /\ Ended(t) =>
              \/ WasTold(t, stored[t].turn)' \/ <<t, stored[t].turn>> \in hushed'
              \/ t \in inbox'
<1> DEFINE n == stored[t].turn
<1>1. Types /\ again = {} /\ echo = {} /\ FinalIsShown(t) /\ MarkedIsTold(t)
  BY DEF IInv, ToldOnce, FinalCardOnce, NoEcho
<1>2. /\ n \in Nat /\ s.turn \in Nat /\ s.turn <= n /\ panel[t] \in Rows
      /\ panel[t].final \in Nat /\ panel[t].final <= n
  BY <1>1, TurnsAreNat DEF Types, Snapshots, Rows, NotAhead, MarkedIsTold
<1>3. /\ Frame(t, s) /\ hushed' = hushed
      /\ panel'[t] = Hidden(panel[t]) \/ panel'[t] = panel[t]
  BY <1>1, BackgroundFrame
<1>4. again' = {} /\ told \subseteq told' /\ told' \subseteq told \cup {<<t, s.turn, "notice">>}
  BY <1>1 DEF handleBackgroundThreadSnapshot
<1>5. WasTold(t, n) => WasTold(t, stored[t].turn)'
  BY <1>4 DEF WasTold
<1>6. panel'[t].final = panel[t].final /\ (panel[t].phase = "done" => panel'[t] = panel[t])
  BY <1>2, <1>3 DEF Hidden, Rows, MayHide, isTerminalStatus
<1>7. ASSUME <<t, n, "final">> \in told', t \notin blurred'
      PROVE  s = stored[t] /\ s.phase = "done" /\ Announced(t, s) /\ FinalIsShown(t)'
  <2>1. <<t, n, "final">> \in told /\ s = stored[t] /\ t \notin blurred
    BY <1>4, <1>7
  <2>2. s.phase = "done" /\ notice[t] = s
    BY <1>1, <2>1 DEF FinalIsShown
  <2>3. notice' = notice
    BY <2>2 DEF handleBackgroundThreadSnapshot, Announced
  <2> QED
    BY <1>1, <1>6, <2>1, <2>2, <2>3 DEF FinalIsShown, Announced
<1>8. FinalIsShown(t)'
  BY <1>7 DEF FinalIsShown
<1>9. echo' = {}
  <2> SUFFICES ASSUME <<t, s.turn, "final">> \in told, t \notin blurred', ~Announced(t, s) PROVE FALSE
    BY <1>1 DEF handleBackgroundThreadSnapshot
  <2> QED
    BY <1>4, <1>7
<1>10. CASE notice'[t] = notice[t]
  <2>1. MarkedIsTold(t)'
    BY <1>1, <1>3, <1>5, <1>6, <1>10 DEF MarkedIsTold, Ended
  <2>2. ASSUME o = "ok", s = stored[t], Ended(t)
        PROVE  WasTold(t, stored[t].turn)' \/ <<t, stored[t].turn>> \in hushed' \/ t \in inbox'
    <3>1. s.phase # "running" /\ isTerminalStatus(s)
      BY <2>2 DEF Ended, isTerminalStatus
    <3>2. CASE Announced(t, s)
      BY <1>1, <1>3, <1>5, <2>2, <3>2 DEF Announced, MarkedIsTold, Ended
    <3>3. CASE ~Announced(t, s)
      BY <3>1, <3>3 DEF handleBackgroundThreadSnapshot
    <3> QED
      BY <3>2, <3>3
  <2> QED
    BY <1>4, <1>8, <1>9, <2>1, <2>2
<1>11. CASE notice'[t] # notice[t]
  <2>1. s.phase # "running" /\ ~Announced(t, s) /\ o = "ok" /\ notice'[t] = s
    BY <1>1, <1>11 DEF handleBackgroundThreadSnapshot, Types
  <2>2. isTerminalStatus(s) => <<t, s.turn, "notice">> \in told'
    BY <2>1 DEF handleBackgroundThreadSnapshot
  <2>3. isTerminalStatus(s) => WasTold(t, s.turn)'
    BY <2>2 DEF WasTold
  <2>4. s = stored[t] /\ Ended(t) => WasTold(t, stored[t].turn)'
    BY <2>3 DEF Ended, WasTold
  <2>5. MarkedIsTold(t)'
    BY <1>1, <1>3, <1>5, <1>6, <2>1, <2>4 DEF MarkedIsTold, Ended
  <2> QED
    BY <1>4, <1>8, <1>9, <2>4, <2>5
<1> QED
  BY <1>10, <1>11

\* A thread that is left to itself after a rendering of another was so before.
LEMMA LeavingLeaves ==
  ASSUME Types, NoEndIsLeft, NEW j \in Jobs, NEW t, job[j].thread = t, stored' = stored, bound' = bound,
         \A k \in Jobs \ {j} : job'[k] = job[k],
         NEW u \in Threads, u # t, Abandoned(u)', panel'[u] = panel[u],
         \A n, how : <<u, n, how>> \in told => <<u, n, how>> \in told',
         u \in inbox => u \in inbox', hushed \subseteq hushed', missed \subseteq missed'
  PROVE  <<u, stored'[u].turn>> \in hushed' \cup missed'
<1>1. Ended(u) /\ ~WasTold(u, stored[u].turn)
  BY DEF Abandoned, Ended, WasTold
<1>2. u \notin inbox /\ ~threadNeedsLiveSync(u)
  BY DEF Abandoned, threadNeedsLiveSync, RowNeedsSync, isTerminalStatus
<1>3. \A k \in Jobs : job[k].thread # u
  BY DEF Abandoned
<1> QED
  BY <1>1, <1>2, <1>3 DEF NoEndIsLeft, Abandoned

LEMMA SyncKeeps ==
  ASSUME IInv, NEW j \in Jobs, syncThreadPanelToTarget(j), play' = play
  PROVE  IInv'
<1>1. Types /\ Front /\ OnlyForegroundWorks /\ TelegramRuns /\ ToldOnce
  BY DEF IInv
<1>0. PICK t \in Threads, s \in Snapshots, src \in Sources :
        job[j].thread = t /\ job[j].snap = s /\ job[j].src = src
  BY <1>1, JobAtWork DEF syncThreadPanelToTarget
<1>2. /\ job[j] # Idle /\ s.turn > 0 /\ UNCHANGED <<stored, bound>>
      /\ fg' = IF fg = NoThread THEN t ELSE fg
  BY <1>0 DEF syncThreadPanelToTarget
<1>3. PICK o \in Outcomes :
        /\ blurred' = IF s # stored[t] \/ o = "stops" THEN blurred \cup {t} ELSE blurred
        /\ \/ /\ fg' = t /\ RendersForeground(t, s, src, o)
              /\ inbox' = IF fg = NoThread THEN inbox \ {t} ELSE inbox
              /\ UNCHANGED <<notice, echo>>
           \/ fg' # t /\ handleBackgroundThreadSnapshot(t, s, o)
        /\ Leaves(j, o)
  BY <1>0, <1>2 DEF syncThreadPanelToTarget, ForegroundNow
<1>4. /\ t \in Threads /\ s \in Snapshots /\ s.turn \in Nat /\ stored[t].turn \in Nat
      /\ NotAhead(t, s) /\ s.turn <= stored[t].turn /\ src \in Sources
      /\ src = "telegram" => s.phase = "running"
  BY <1>0, <1>1, <1>2, JobAtWork DEF TelegramRuns
<1>5. o \in {"ok", "fails", "stops"}
  BY DEF Outcomes
<1>6. /\ job' \in [Jobs -> JobTypes]
      /\ \A k \in Jobs : job'[k] = Idle \/ job'[k] = job[k]
      /\ o = "ok" => \A k \in Jobs \ {j} : job'[k] = job[k]
      /\ missed \subseteq missed'
      /\ faults' \in 0 .. MaxFaults /\ faults <= faults' /\ (o # "ok" => faults' > 0)
      /\ ~(o = "ok" /\ s = stored[t]) =>
           \A u \in Threads : Abandoned(u)' => <<u, stored'[u].turn>> \in missed'
  BY <1>0, <1>1, <1>2, <1>3, LeavesFrame
<1>7. /\ Frame(t, s)
      /\ notice' \in [Threads -> Snapshots] /\ \A u \in Threads \ {t} : notice'[u] = notice[u]
      /\ inbox' \ {t} = inbox \ {t}
      /\ fg' # t => panel'[t] = Hidden(panel[t]) \/ (o = "fails" /\ panel'[t] = panel[t])
      /\ notice'[t] # notice[t] => notice'[t] = s
  <2>1. CASE fg' = t
    BY <1>1, <1>3, <1>4, <2>1, ForegroundFrame DEF Types
  <2>2. CASE fg' # t
    <3>1. handleBackgroundThreadSnapshot(t, s, o)
      BY <1>3, <2>2
    <3>2. notice'[t] # notice[t] => notice'[t] = s
      BY <1>1, <1>4, <3>1 DEF handleBackgroundThreadSnapshot, Types
    <3> QED
      BY <1>1, <1>4, <2>2, <3>1, <3>2, BackgroundFrame
  <2> QED
    BY <2>1, <2>2
<1>8. fg' \in Threads /\ (fg # NoThread => fg' = fg) /\ (fg = NoThread => fg' = t)
  BY <1>1, <1>2, <1>4 DEF Types
<1>9. Types'
  <2>1. told' \subseteq Threads \X Turns \X Hows
    <3>1. \A how \in Hows : <<t, s.turn, how>> \in Threads \X Turns \X Hows
      BY <1>4 DEF Snapshots
    <3> QED
      BY <1>1, <1>7, <3>1 DEF Frame, Types
  <2>2. ASSUME NEW w \in told' PROVE w[2] \in 1 .. stored'[w[1]].turn
    <3>1. CASE w \in told
      BY <1>1, <1>2, <3>1 DEF Types
    <3>2. CASE w \notin told
      <4>1. w[1] = t /\ w[2] = s.turn
        BY <1>7, <3>2 DEF Frame
      <4>2. s.turn > 0
        BY <1>2
      <4> QED
        BY <1>2, <1>4, <4>1, <4>2
    <3> QED
      BY <3>1, <3>2
  <2>3. \A u \in Threads : NotAhead(u, notice[u])'
    <3> SUFFICES ASSUME NEW u \in Threads PROVE NotAhead(u, notice[u])'
      OBVIOUS
    <3>1. NotAhead(u, notice[u])
      BY <1>1 DEF Types
    <3>2. CASE notice'[u] = notice[u]
      BY <1>2, <3>1, <3>2 DEF NotAhead
    <3>3. CASE notice'[u] # notice[u]
      BY <1>2, <1>4, <1>7, <3>3 DEF NotAhead
    <3> QED
      BY <3>2, <3>3
  <2>4. ASSUME NEW k \in Jobs, job'[k] # Idle
        PROVE  /\ job'[k].thread \in Threads /\ job'[k].snap \in Snapshots
               /\ NotAhead(job[k].thread, job[k].snap)'
    BY <1>1, <1>2, <1>6, <2>4 DEF Types, NotAhead
  <2>5. inbox' \subseteq Threads /\ fg' \notin inbox'
    BY <1>1, <1>3, <1>4, <1>7, <1>8 DEF Types
  <2> QED
    BY <1>1, <1>2, <1>6, <1>7, <1>8, <2>1, <2>2, <2>3, <2>4, <2>5 DEF Types, Frame
<1>10. Front'
  BY <1>1, <1>2, <1>8, Constants DEF Front
<1>11. TelegramRuns'
  BY <1>1, <1>6 DEF TelegramRuns, Idle
<1>12. OnlyForegroundWorks'
  <2> SUFFICES ASSUME NEW u \in Threads, MayHide(panel'[u]), u # fg' PROVE faults' > 0
    BY DEF OnlyForegroundWorks, MayHide, isTerminalStatus
  <2>1. faults \in Nat /\ faults' \in Nat /\ faults <= faults'
    BY <1>1, <1>6, Constants DEF Types
  <2>2. CASE u = t
    <3>1. panel[t] \in Rows
      BY <1>1, <1>4 DEF Types
    <3>2. ~MayHide(Hidden(panel[t]))
      BY <3>1 DEF MayHide, Hidden, Rows, isTerminalStatus
    <3> QED
      BY <1>6, <1>7, <2>2, <3>2
  <2>3. CASE u # t
    <3>1. panel'[u] = panel[u]
      BY <1>7, <2>3 DEF Frame
    <3>2. fg # NoThread
      BY <1>1, <3>1 DEF Front, NoRow, MayHide
    <3> QED
      BY <1>1, <1>8, <2>1, <3>1, <3>2 DEF OnlyForegroundWorks
  <2> QED
    BY <2>2, <2>3
\* The thread that is rendered.
<1>13. /\ FinalIsShown(t)' /\ MarkedIsTold(t)' /\ again' = {} /\ echo' = {}
       /\ o = "ok" /\ s = stored[t] /\ Ended(t) =>
            \/ WasTold(t, stored[t].turn)' \/ <<t, stored[t].turn>> \in hushed'
            \/ t \in inbox'
  <2>1. s.turn > 0 /\ echo = {}
    BY <1>1, <1>2 DEF ToldOnce, NoEcho
  <2>2. CASE fg' = t
    BY <1>2, <1>3, <1>4, <1>5, <2>1, <2>2, ForegroundTells
  <2>3. CASE fg' # t
    BY <1>2, <1>3, <1>4, <1>5, <1>8, <2>1, <2>3, BackgroundTells
  <2> QED
    BY <2>2, <2>3
<1>14. ASSUME NEW u \in Threads PROVE FinalIsShown(u)' /\ MarkedIsTold(u)'
  <2>1. CASE u = t
    BY <1>13, <2>1
  <2>2. CASE u # t
    <3>1. /\ FinalIsShown(u) /\ MarkedIsTold(u)
           /\ stored' = stored /\ panel'[u] = panel[u] /\ notice'[u] = notice[u]
      BY <1>2, <1>7, <2>2 DEF IInv, Frame
    <3>2. \A n, how : <<u, n, how>> \in told' <=> <<u, n, how>> \in told
      BY <1>7, <2>2 DEF Frame
    <3>3. u \in blurred' <=> u \in blurred
      BY <1>3, <2>2
    <3>4. fg' # u => fg # u
      BY <1>8, Constants
    <3>5. FinalIsShown(u)'
      BY <3>1, <3>2, <3>3, <3>4 DEF FinalIsShown
    <3>6. WasTold(u, stored[u].turn) => WasTold(u, stored[u].turn)'
      BY <3>1, <3>2 DEF WasTold
    <3>7. MarkedIsTold(u)'
      BY <1>7, <3>1, <3>6 DEF MarkedIsTold, Ended, Frame
    <3> QED
      BY <3>5, <3>7
  <2> QED
    BY <2>1, <2>2
<1>15. ToldOnce'
  <2> SUFFICES ASSUME NEW u \in Threads, Abandoned(u)' PROVE <<u, stored'[u].turn>> \in hushed' \cup missed'
    BY <1>13 DEF ToldOnce, FinalCardOnce, NoEcho, NoEndIsLeft
  <2>1. CASE ~(o = "ok" /\ s = stored[t])
    BY <1>6, <2>1
  <2>2. CASE o = "ok" /\ s = stored[t] /\ u = t
    <3>1. Ended(t) /\ ~WasTold(t, stored[t].turn)' /\ t \notin inbox'
      BY <1>2, <2>2 DEF Abandoned, Ended
    <3> QED
      BY <1>2, <1>13, <2>2, <3>1
  <2>3. CASE o = "ok" /\ s = stored[t] /\ u # t
    <3>1. /\ panel'[u] = panel[u] /\ (u \in inbox => u \in inbox') /\ hushed \subseteq hushed'
          /\ \A n, how : <<u, n, how>> \in told => <<u, n, how>> \in told'
      BY <1>7, <2>3 DEF Frame
    <3>2. job[j].thread = t /\ \A k \in Jobs \ {j} : job'[k] = job[k]
      BY <1>0, <1>6, <2>3
    <3> QED
      BY <1>1, <1>2, <1>6, <2>3, <3>1, <3>2, LeavingLeaves DEF ToldOnce
  <2> QED
    BY <2>1, <2>2, <2>3
<1> QED
  BY <1>9, <1>10, <1>11, <1>12, <1>14, <1>15 DEF IInv

\* A goroutine, or the daemon, that ends with nothing rendered.
LEMMA LeavesKeeps ==
  ASSUME IInv, NEW j \in Jobs, NEW o \in Outcomes, Leaves(j, o), o = "ok" => job[j].snap.turn = 0,
         UNCHANGED <<stored, chat, told, again, echo, hushed, blurred>>, play' = play
  PROVE  IInv'
<1>1. Types /\ Front /\ OnlyForegroundWorks /\ TelegramRuns /\ ToldOnce
  BY DEF IInv
<1>2. UNCHANGED <<stored, fg, bound, panel, notice, inbox, told, again, echo, hushed, blurred, play>>
  BY DEF chat
<1>3. /\ job' \in [Jobs -> JobTypes]
      /\ \A k \in Jobs : job'[k] = Idle \/ job'[k] = job[k]
      /\ o = "ok" => \A k \in Jobs \ {j} : job'[k] = job[k]
      /\ missed \subseteq missed'
      /\ faults' \in 0 .. MaxFaults /\ faults <= faults' /\ (o # "ok" => faults' > 0)
      /\ ~(o = "ok" /\ job[j].snap = stored[job[j].thread]) =>
           \A u \in Threads : Abandoned(u)' => <<u, stored'[u].turn>> \in missed'
  BY <1>1, <1>2, LeavesFrame
<1>4. Types'
  <2>1. \A u \in Threads : NotAhead(u, notice[u])'
    BY <1>1, <1>2 DEF Types, NotAhead
  <2>2. ASSUME NEW k \in Jobs, job'[k] # Idle
        PROVE  /\ job'[k].thread \in Threads /\ job'[k].snap \in Snapshots
               /\ NotAhead(job[k].thread, job[k].snap)'
    BY <1>1, <1>2, <1>3, <2>2 DEF Types, NotAhead
  <2> QED
    BY <1>1, <1>2, <1>3, <2>1, <2>2 DEF Types
<1>5. Front' /\ TelegramRuns'
  BY <1>1, <1>2, <1>3 DEF Front, TelegramRuns, Idle
<1>6. OnlyForegroundWorks'
  <2>1. faults \in Nat /\ faults' \in Nat /\ faults <= faults'
    BY <1>1, <1>3, Constants DEF Types
  <2> QED
    BY <1>1, <1>2, <2>1 DEF OnlyForegroundWorks
<1>7. \A u \in Threads : FinalIsShown(u)' /\ MarkedIsTold(u)'
  BY <1>2 DEF IInv, FinalIsShown, MarkedIsTold, WasTold, Ended
<1>8. ToldOnce'
  <2> SUFFICES ASSUME NEW u \in Threads, Abandoned(u)' PROVE <<u, stored'[u].turn>> \in hushed' \cup missed'
    BY <1>1, <1>2 DEF ToldOnce, FinalCardOnce, NoEcho, NoEndIsLeft
  <2>1. CASE ~(o = "ok" /\ job[j].snap = stored[job[j].thread])
    BY <1>3, <2>1
  <2>2. CASE o = "ok" /\ job[j].snap = stored[job[j].thread]
    <3>1. u # job[j].thread
      BY <1>2, <2>2 DEF Abandoned, Ended
    <3>2. \A n, how : <<u, n, how>> \in told => <<u, n, how>> \in told'
      BY <1>2
    <3>3. \A k \in Jobs \ {j} : job'[k] = job[k]
      BY <1>3, <2>2
    <3> QED
      BY <1>1, <1>2, <1>3, <3>1, <3>2, <3>3, LeavingLeaves DEF ToldOnce
  <2> QED
    BY <2>1, <2>2
<1> QED
  BY <1>4, <1>5, <1>6, <1>7, <1>8 DEF IInv

LEMMA NextKeeps == IInv /\ [Next]_vars => IInv'
<1> SUFFICES ASSUME IInv, [Next]_vars PROVE IInv'
  OBVIOUS
<1>1. ASSUME NEW j \in play.jobs, NEW t \in Threads, Observes(j, t) \/ Opens(j, t), play' = play
      PROVE  IInv'
  <2>1. j \in Jobs
    <3>1. play \in [jobs : SUBSET Jobs, turns : [Threads -> Nat], may : [Threads -> SUBSET Phases]]
      BY Constants DEF IInv, Types
    <3> QED
      BY <3>1
  <2> QED
    BY <1>1, <2>1, ObservesKeeps, OpensKeeps
<1>2. ASSUME NEW j \in Jobs, syncThreadPanelToTarget(j), play' = play PROVE IInv'
  BY <1>2, SyncKeeps
<1>3. ASSUME NEW j \in Jobs, RendersNothing(j), play' = play PROVE IInv'
  <2>1. "ok" \in Outcomes
    BY DEF Outcomes
  <2>2. /\ Leaves(j, "ok") /\ job[j].snap.turn = 0
        /\ UNCHANGED <<stored, chat, told, again, echo, hushed, blurred>>
    BY <1>3 DEF RendersNothing
  <2> QED
    BY <1>3, <2>1, <2>2, LeavesKeeps
<1>4. ASSUME Restarts, play' = play PROVE IInv'
  <2>1. "stops" \in Outcomes /\ (CHOOSE j \in Jobs : TRUE) \in Jobs
    BY <1>4 DEF Restarts, Outcomes
  <2>2. /\ Leaves(CHOOSE j \in Jobs : TRUE, "stops")
        /\ UNCHANGED <<stored, chat, told, again, echo, hushed, blurred>>
    BY <1>4 DEF Restarts
  <2> QED
    BY <1>4, <2>1, <2>2, LeavesKeeps
<1>5. ASSUME UNCHANGED vars PROVE IInv'
  BY <1>5 DEF vars, chat, tale, IInv, Types, Front, OnlyForegroundWorks, TelegramRuns, FinalIsShown,
              MarkedIsTold, ToldOnce, FinalCardOnce, NoEcho, NoEndIsLeft, Abandoned, Ended, WasTold,
              threadNeedsLiveSync, RowNeedsSync, NotAhead
<1> QED
  BY <1>1, <1>2, <1>3, <1>4, <1>5 DEF Next, Steps

-----------------------------------------------------------------------------
(* Theorems                                                                  *)

\* The inductive invariant holds of every reachable state.
THEOREM IInvHolds == Spec => []IInv
BY InitIInv, NextKeeps, PTL DEF Spec

\* Type correctness, and: the foreground thread has no inbox item, a loaded snapshot is
\* not newer than the stored one, the history speaks of turns that were stored.
THEOREM ConversationTypes == Spec => []TypeOK
<1>1. IInv => TypeOK
  BY DEF IInv, Types, TypeOK, NotAhead
<1> QED
  BY <1>1, IInvHolds, PTL

\* As long as no call fails, a thread that is not in front shows no working card
\* (hideForegroundWorkingCardLocked, handleBackgroundThreadSnapshot).
THEOREM ConversationForeground == Spec => []OnlyForegroundWorks
<1>1. IInv => OnlyForegroundWorks
  BY DEF IInv
<1> QED
  BY <1>1, IInvHolds, PTL

\* However polls, events, switches, failing sends and stops interleave, the final card of
\* a turn goes out once, no shown end is announced again, and an end that nothing will
\* render again was told, waits in the inbox or is one of the named exceptions
\* (syncThreadPanelToTarget, acknowledgeTerminalThreadBeforeSwitch).
THEOREM ConversationToldOnce == Spec => []ToldOnce
<1>1. IInv => ToldOnce
  BY DEF IInv
<1> QED
  BY <1>1, IInvHolds, PTL

=============================================================================
