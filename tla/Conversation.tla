------------------------------ MODULE Conversation ------------------------------
(***************************************************************************)
(* What one Telegram chat shows of the conversations it follows            *)
(* (internal/daemon/panels.go, foreground_session.go, details.go).         *)
(*                                                                         *)
(* One thread of the chat is in the foreground: it has a card that is      *)
(* edited while a turn works and replaced by a final card.  Every other    *)
(* thread hides its working card and announces its end, or its question,   *)
(* in one notice.  The poll loop, the live event loop and the operator's   *)
(* messages each load the stored snapshot of a thread first and render it  *)
(* later, one after the other under panelMu; a send may fail, and the      *)
(* daemon may stop at any point and go on from what the database holds.    *)
(***************************************************************************)
EXTENDS Naturals, FiniteSets

CONSTANTS
    Threads,        \* the threads of the App Server that the chat follows
    NoThread,       \* the chat has no foreground thread, or no binding
    Jobs,           \* the goroutines that render
    Observers,      \* those of them that are pollTracked or a live event loop
    Plays,          \* bound: which goroutines run, and for each thread how
                    \* many turns there are and which phases they reach
    MaxFaults       \* bound: calls of Telegram that fail, and stops

ASSUME ConversationAssumption ==
    /\ NoThread \notin Threads
    /\ Observers \subseteq Jobs
    /\ Plays \subseteq [jobs : SUBSET Jobs, turns : [Threads -> Nat],
                        may : [Threads -> SUBSET {"running", "asks", "done", "stopped"}]]
    /\ MaxFaults \in Nat

VARIABLES
    play,           \* what the App Server and the goroutines do in this run
    stored,         \* the snapshot of each thread in thread_snapshots
    fg, bound,      \* ui.foreground_thread and the binding of the chat
    panel,          \* the current row of thread_panels of each thread
    notice,         \* the background notice recorded last
    inbox,          \* the threads with an inbox item
    job,            \* what each goroutine has loaded and does next
    faults,         \* counted for the bound
    told,           \* history: <<thread, turn, how>> the operator was told
    again,          \* history: final cards sent a second time
    echo,           \* history: notices of a turn whose final card was shown
    hushed,         \* history: ends that were marked as shown but never were
    missed,         \* history: ends that a failure, or an outdated snapshot,
                    \* left untold without another try
    blurred         \* history: threads of which an outdated snapshot was
                    \* rendered, or a send left unrecorded

chat == <<fg, bound, panel, notice, inbox>>
tale == <<told, again, echo, hushed, missed, blurred>>
vars == <<play, stored, chat, job, faults, tale>>

-----------------------------------------------------------------------------
(* Snapshots and rows                                                      *)

Turns == UNION {0 .. p.turns[t] : p \in Plays, t \in Threads}
Phases == {"running", "asks", "done", "stopped"}
Snapshots == [turn : Turns, phase : Phases]
NoTurn == [turn |-> 0, phase |-> "stopped"]

\* An end with an answer has a final fingerprint, an interruption has none.
isTerminalStatus(s) == s.phase \in {"done", "stopped"}

Sources == {"observer", "telegram", "explicit"}
NoRow == [turn |-> 0, phase |-> "none", final |-> 0, card |-> FALSE,
          hash |-> NoTurn, src |-> "explicit"]
Rows == [turn : Turns, phase : Phases \cup {"none"}, final : Turns,
         card : BOOLEAN, hash : Snapshots, src : Sources]

Idle == [thread |-> NoThread, snap |-> NoTurn, src |-> "observer"]

\* A row in a working state, or a binding, makes every poll and every event
\* of the thread render it again.
RowNeedsSync(t, row) == row # NoRow /\ ~isTerminalStatus(row)
threadNeedsLiveSync(t) == t = bound \/ RowNeedsSync(t, panel[t])

WasTold(t, turn) == \E how \in {"final", "notice", "edit"} : <<t, turn, how>> \in told

Ended(t) == isTerminalStatus(stored[t]) /\ stored[t].turn > 0

Init ==
    /\ play \in Plays
    /\ stored = [t \in Threads |-> NoTurn]
    /\ fg = NoThread /\ bound = NoThread
    /\ panel = [t \in Threads |-> NoRow]
    /\ notice = [t \in Threads |-> NoTurn] /\ inbox = {}
    /\ job = [j \in Jobs |-> Idle]
    /\ faults = 0
    /\ told = {} /\ again = {} /\ echo = {} /\ hushed = {} /\ missed = {} /\ blurred = {}

-----------------------------------------------------------------------------
(* What the goroutines load                                                *)

\* ThreadRead returns the turn as it is: it went on, ended, or another began.
Later(t) ==
    {s \in [turn : {stored[t].turn, stored[t].turn + 1}, phase : play.may[t]] :
        /\ s.turn <= play.turns[t]
        /\ s.turn = stored[t].turn => ~isTerminalStatus(stored[t])}

\* Snapshot s is stored, which a goroutine loads; the history is about the
\* latest turn of a thread.
Refreshes(t, s) ==
    /\ s \in Later(t) \cup {stored[t]}
    /\ stored' = [stored EXCEPT ![t] = s]
Kept(H, t) == IF stored'[t].turn = stored[t].turn THEN H ELSE {w \in H : w[1] # t}
Loads(j, t, src) ==
    job' = [job EXCEPT ![j] = [thread |-> t, snap |-> stored'[t], src |-> src]]

\* pollTracked and handleLiveEvent store what ThreadRead returned and render
\* it when the thread needs it or the snapshot changed.
Observes(j, t) ==
    /\ j \in Observers /\ job[j] = Idle
    /\ \E s \in Snapshots : Refreshes(t, s)
    /\ threadNeedsLiveSync(t) \/ stored' # stored
    /\ Loads(j, t, "observer")
    /\ told' = Kept(told, t) /\ hushed' = Kept(hushed, t) /\ missed' = Kept(missed, t)
    /\ UNCHANGED <<chat, faults, again, echo, blurred>>

\* Mutant of Acknowledged: a switch leaves the notice of the thread alone.
NothingAcknowledged(u) == FALSE

\* The foreground thread of the chat goes to the back: an end that is stored
\* counts as shown, a working card is deleted.
Acknowledged(u) == Ended(u)
MayHide(row) == row.card /\ ~isTerminalStatus(row)
Hidden(row) ==
    IF MayHide(row) THEN [row EXCEPT !.card = FALSE, !.hash = NoTurn, !.src = "explicit"] ELSE row

\* Mutant of activateForegroundThread: the inbox keeps its item.
KeepsInbox(t) ==
    /\ fg' = t /\ bound' = t /\ hushed' = Kept(hushed, t)
    /\ UNCHANGED <<notice, panel, faults, inbox>>

activateForegroundThread(t) ==
    LET u == fg
        away == u \notin {NoThread, t}
        ack == away /\ Acknowledged(u)
    IN  /\ notice' = IF ack THEN [notice EXCEPT ![u] = stored[u]] ELSE notice
        /\ hushed' = IF ack /\ ~WasTold(u, stored[u].turn)
                     THEN Kept(hushed, t) \cup {<<u, stored[u].turn>>} ELSE Kept(hushed, t)
        /\ \/ /\ panel' = IF away THEN [panel EXCEPT ![u] = Hidden(@)] ELSE panel
              /\ UNCHANGED faults
           \/ /\ away /\ MayHide(panel[u]) /\ faults < MaxFaults
              /\ faults' = faults + 1
              /\ UNCHANGED panel
        /\ fg' = t /\ bound' = t
        /\ inbox' = inbox \ ({t} \cup (IF ack THEN {u} ELSE {}))

\* Input started a turn, or the operator switches to a thread: its snapshot
\* is stored, it comes to the front and is rendered next.
Opens(j, t) ==
    /\ j \notin Observers /\ job[j] = Idle
    /\ \E s \in Snapshots : Refreshes(t, s)
    /\ \E src \in {"telegram", "explicit"} :
          /\ src = "telegram" => stored'[t].phase = "running"
          /\ Loads(j, t, src)
    /\ activateForegroundThread(t)
    /\ told' = Kept(told, t) /\ missed' = Kept(missed, t)
    /\ UNCHANGED <<again, echo, blurred>>

-----------------------------------------------------------------------------
(* Rendering, under panelMu                                                *)

Outcomes == {"ok"} \cup (IF faults < MaxFaults THEN {"fails", "stops"} ELSE {})

\* Nothing will render the end of thread t again: no goroutine has it loaded
\* and no poll finds a change, a binding or a working row.
Abandoned(t) ==
    /\ Ended(t)
    /\ ~WasTold(t, stored[t].turn) /\ t \notin inbox /\ ~threadNeedsLiveSync(t)
    /\ \A j \in Jobs : job[j].thread # t

\* Job j ends; with the process, so do the others.
Leaves(j, o) ==
    /\ job' = IF o = "stops" THEN [k \in Jobs |-> Idle] ELSE [job EXCEPT ![j] = Idle]
    /\ faults' = IF o = "ok" THEN faults ELSE faults + 1
    /\ missed' = IF o = "ok" /\ job[j].snap = stored[job[j].thread] THEN missed
                 ELSE missed \cup {<<t, stored[t].turn>> : t \in {u \in Threads : Abandoned(u)'}}

\* The notice recorded last was for this turn and this phase.
Announced(t, s) == notice[t] = s

\* A thread in the back: its card goes, and an end or a question that was not
\* announced yet is put into the inbox and announced.
handleBackgroundThreadSnapshot(t, s, o) ==
    LET ended == isTerminalStatus(s)
    IN  /\ \/ panel' = [panel EXCEPT ![t] = Hidden(@)]
           \/ MayHide(panel[t]) /\ o = "fails" /\ UNCHANGED panel
        /\ \/ /\ s.phase = "running"
              /\ inbox' = inbox \ {t}
              /\ UNCHANGED <<notice, told, echo>>
           \/ /\ s.phase # "running" /\ Announced(t, s)
              /\ UNCHANGED <<inbox, notice, told, echo>>
           \/ /\ s.phase # "running" /\ ~Announced(t, s)
              /\ inbox' = inbox \cup {t}
              /\ notice' = IF o = "ok" THEN [notice EXCEPT ![t] = s] ELSE notice
              /\ told' = IF o = "fails" \/ ~ended THEN told ELSE told \cup {<<t, s.turn, "notice">>}
              /\ echo' = IF ended /\ <<t, s.turn, "final">> \in told /\ t \notin blurred'
                         THEN echo \cup {<<t, s.turn>>} ELSE echo
        /\ UNCHANGED <<again, hushed>>

NewRow(s, src, shown) ==
    [turn |-> s.turn, phase |-> s.phase, final |-> 0, card |-> shown,
     hash |-> IF shown THEN s ELSE NoTurn, src |-> src]

\* Only a row that never had a rendered card looks like one of the time
\* before the cards were aggregated.
isLegacyTerminalReplay(row, s) ==
    /\ row.hash = NoTurn /\ row.src = "observer" /\ row.final = 0
    /\ row.turn = s.turn /\ isTerminalStatus(row) /\ s.phase = "done"

needsCreate(t, s, src) ==
    src = "explicit" \/ panel[t] = NoRow \/ ~panel[t].card \/ panel[t].turn # s.turn

\* A turn that began a moment ago shows as typing, not as a card.
sendTypingActivity(t, s) ==
    /\ s.phase = "running"
    /\ UNCHANGED <<panel, told, again, hushed>>

\* The card of a working, asking or interrupted turn could not be sent.
CreateFails(t, s, o) ==
    /\ s.phase # "done" /\ o # "ok"
    /\ UNCHANGED <<panel, told, again, hushed>>

\* The final card goes out with a sound, and the working card is deleted.
maybeRenderFinalCard(t, s, row, src, o) ==
    /\ panel' = [panel EXCEPT ![t] =
           IF o = "ok" THEN [row EXCEPT !.turn = s.turn, !.phase = "done", !.final = s.turn,
                                        !.card = TRUE, !.hash = s, !.src = "explicit"]
                       ELSE row]
    /\ told' = IF o = "fails" THEN told ELSE told \cup {<<t, s.turn, "final">>}
    /\ again' = IF /\ o # "fails" /\ <<t, s.turn, "final">> \in told
                   /\ src # "explicit" /\ t \notin blurred'
                THEN again \cup {<<t, s.turn>>} ELSE again
    /\ UNCHANGED hushed

\* Mutant of FinalWasSent: the row is for the turn, so its final card is taken for sent.
TurnIsInRow(row, s) == row.turn = s.turn

\* The row says that this final card was sent, or it is an old row.
FinalWasSent(row, s) == row.final = s.turn

AdoptsLegacy(t, s, row) ==
    /\ panel' = [panel EXCEPT ![t] = [row EXCEPT !.final = s.turn]]
    /\ hushed' = IF WasTold(t, s.turn) THEN hushed ELSE hushed \cup {<<t, s.turn>>}
    /\ UNCHANGED <<told, again>>

\* The card is edited when its text changed and it is urgent or four seconds
\* old; one that cannot be edited is sent anew.
updateCurrentPanel(t, s, row, src, o) ==
    LET changed == row.hash # s
        urgent == s.phase # "running"
        stopped == IF s.phase = "stopped" THEN {<<t, s.turn, "edit">>} ELSE {}
        same == [row EXCEPT !.turn = s.turn, !.phase = s.phase]
        protected == row.src = "telegram" /\ row.turn = s.turn /\ src = "observer"
    IN  /\ \/ /\ ~changed \/ ~urgent
              /\ panel' = [panel EXCEPT ![t] = same]
              /\ told' = told \cup (IF changed THEN {} ELSE stopped)
           \/ /\ changed /\ o # "fails"
              /\ panel' = [panel EXCEPT ![t] = IF o = "ok" THEN [same EXCEPT !.hash = s] ELSE row]
              /\ told' = told \cup stopped
           \/ /\ changed /\ o = "fails" /\ protected
              /\ panel' = [panel EXCEPT ![t] = row]
              /\ UNCHANGED told
           \/ /\ changed /\ o = "fails" /\ ~protected
              /\ panel' = [panel EXCEPT ![t] = NewRow(s, src, TRUE)]
              /\ told' = told \cup stopped
        /\ UNCHANGED <<again, hushed>>

\* The thread in front has one current row, made when it has none with a card
\* for this turn.
RendersForeground(t, s, src, o) ==
    LET old == panel[t]
        new == needsCreate(t, s, src)
        row == IF new THEN NewRow(s, src, s.phase # "done")
               ELSE IF src = "telegram" THEN [old EXCEPT !.src = src] ELSE old
    IN  \/ new /\ sendTypingActivity(t, s)
        \/ new /\ CreateFails(t, s, o)
        \/ /\ s.phase = "done" /\ FinalWasSent(row, s)
           /\ panel' = [panel EXCEPT ![t] = row]
           /\ UNCHANGED <<told, again, hushed>>
        \/ /\ s.phase = "done" /\ ~FinalWasSent(row, s)
           /\ IF old.turn = s.turn /\ isLegacyTerminalReplay(row, s)
              THEN AdoptsLegacy(t, s, row)
              ELSE maybeRenderFinalCard(t, s, row, src, o)
        \/ s.phase # "done" /\ updateCurrentPanel(t, s, row, src, o)

\* Mutant of ForegroundNow: whoever renders counts as in front.
ForegroundIsMine(j) == job[j].thread

\* The foreground is taken from the database, under the lock.
ForegroundNow(j) == fg

syncThreadPanelToTarget(j) ==
    LET t == job[j].thread
        s == job[j].snap
        current == IF fg = NoThread THEN t ELSE ForegroundNow(j)
    IN  /\ job[j] # Idle /\ s.turn > 0
        /\ UNCHANGED <<stored, bound>>
        /\ fg' = IF fg = NoThread THEN t ELSE fg
        /\ \E o \in Outcomes :
              /\ blurred' = IF s # stored[t] \/ o = "stops" THEN blurred \cup {t} ELSE blurred
              /\ IF current = t
                 THEN /\ RendersForeground(t, s, job[j].src, o)
                      /\ inbox' = IF fg = NoThread THEN inbox \ {t} ELSE inbox
                      /\ UNCHANGED <<notice, echo>>
                 ELSE handleBackgroundThreadSnapshot(t, s, o)
              /\ Leaves(j, o)

\* A thread without a stored snapshot is not rendered.
RendersNothing(j) ==
    /\ job[j] # Idle /\ job[j].snap.turn = 0
    /\ UNCHANGED <<stored, chat, told, again, echo, hushed, blurred>>
    /\ Leaves(j, "ok")

\* The daemon stops with work loaded and goes on with what is stored.
Restarts ==
    /\ faults < MaxFaults /\ \E j \in Jobs : job[j] # Idle
    /\ UNCHANGED <<stored, chat, told, again, echo, hushed, blurred>>
    /\ Leaves(CHOOSE j \in Jobs : TRUE, "stops")

-----------------------------------------------------------------------------
(* Specification                                                           *)

Steps ==
    \/ \E j \in play.jobs, t \in Threads :
          \/ Observes(j, t)
          \/ Opens(j, t)
    \/ \E j \in Jobs :
          \/ syncThreadPanelToTarget(j)
          \/ RendersNothing(j)
    \/ Restarts

Next == Steps /\ UNCHANGED play

Spec == Init /\ [][Next]_vars

\* The loops of the daemon go through every thread again and again, panelMu is
\* handed on, and the goroutine of the bot works off its updates; nothing is
\* asked of the App Server, the operator or Telegram.
Fairness ==
    /\ \A j \in Jobs : /\ WF_vars(UNCHANGED play /\ syncThreadPanelToTarget(j))
                       /\ WF_vars(UNCHANGED play /\ RendersNothing(j))
    /\ \A j \in Observers, t \in Threads :
          SF_vars(j \in play.jobs /\ UNCHANGED play /\ Observes(j, t))

FairSpec == Spec /\ Fairness

-----------------------------------------------------------------------------
(* Properties                                                              *)

\* Types, and: the foreground thread has no inbox item, the history speaks of
\* turns that were stored, a loaded snapshot is not newer than the stored one.
TypeOK ==
    /\ stored \in [Threads -> Snapshots]
    /\ fg \in Threads \cup {NoThread} /\ bound \in Threads \cup {NoThread}
    /\ panel \in [Threads -> Rows]
    /\ notice \in [Threads -> Snapshots]
    /\ inbox \subseteq Threads /\ fg \notin inbox
    /\ \A j \in Jobs :
          /\ job[j] # Idle => /\ job[j].thread \in Threads
                              /\ job[j].snap.turn <= stored[job[j].thread].turn
    /\ faults \in 0 .. MaxFaults
    /\ \A w \in told : w[2] \in 1 .. stored[w[1]].turn

\* A working card is shown for the foreground thread only, unless Telegram
\* refused to delete it or there is no foreground thread
\* (hideForegroundWorkingCardLocked, ensureForegroundThread).
OnlyForegroundWorks ==
    \A t \in Threads :
        MayHide(panel[t]) /\ fg \notin {t, NoThread} => faults > 0

\* Two goroutines that hold the same snapshot, polls that come back to it and
\* switches between threads send the final card of a turn once; sends that
\* were not recorded and outdated snapshots are excepted (LastFinalNoticeFP).
FinalCardOnce == again = {}

\* A turn whose final card was shown is not announced again after the
\* operator switched to another thread (acknowledgeTerminalThreadBeforeSwitch).
NoEcho == echo = {}

\* An end that no goroutine will come back to was told, or waits in the inbox;
\* excepted are the ends that EndIsTold excepts.
NoEndIsLeft ==
    \A t \in Threads : Abandoned(t) => <<t, stored[t].turn>> \in hushed \cup missed

\* The end of a turn is told, and told once.
ToldOnce == FinalCardOnce /\ NoEcho /\ NoEndIsLeft

\* Every end of a turn reaches the operator, by the final card, the edited
\* card, a notice or the inbox, whatever fails on the way; excepted are ends
\* that were marked as shown, and failures after which no poll has a reason to
\* render the thread again (threadNeedsLiveSync, snapshotHasPassiveChange).
EndIsTold ==
    \A t \in Threads :
        Ended(t) ~> \/ ~Ended(t)
                    \/ WasTold(t, stored[t].turn) \/ t \in inbox
                    \/ <<t, stored[t].turn>> \in hushed \cup missed

=============================================================================
