----------------------------- MODULE InputRoute -----------------------------
(***************************************************************************)
(* Where the messages of one Telegram chat go (internal/daemon/service.go,  *)
(* projects.go, collaboration_reset.go, panels.go).                         *)
(*                                                                          *)
(* A plain message is the title or the first prompt of a new chat that was  *)
(* asked for, or it goes to the thread that it replies to, that a steer was *)
(* armed for, or that is bound.  There it joins the turn in progress or     *)
(* starts one, in Plan Mode when that was asked for, and in Default Mode    *)
(* once after the operator left Plan Mode.  The bot's loop handles one      *)
(* update after the other, and beside it a timer hands albums on: both read *)
(* and write the same rows without a lock.                                  *)
(***************************************************************************)
EXTENDS Naturals

CONSTANTS
    Threads,        \* threads that turns are started on
    NoThread,       \* no binding, or one to a chat made in this run
    MaxTurns,       \* bound: turns of a thread
    MaxRequests,    \* bound: new chats asked for, and steers armed
    Talks           \* bound: the commands given in a run, its turns and its requests

Commands == {"new", "cancel", "arm", "bind", "stop", "off", "plan", "default", "text"}

ASSUME RouteAssumption ==
    /\ NoThread \notin Threads
    /\ MaxTurns \in Nat /\ MaxRequests \in Nat
    /\ Talks \subseteq [does : SUBSET Commands, turns : 0 .. MaxTurns, asks : 0 .. MaxRequests]

VARIABLES
    talk,           \* the commands of this run, and its bounds
    pending,        \* chat.new_thread: the request, and what it waits for
    armed,          \* chat_steer_state
    bound,          \* the binding of the chat
    override,       \* threads with thread_collaboration_override
    marker,         \* threads with thread_collaboration_marker
    cur, running,   \* the App Server: latest turn of a thread, and whether it goes on
    mode,           \* the App Server: the mode that a thread stays in
    hand,           \* what the loop and the album timer are at
    requests,       \* new chats asked for, steers armed
    made,           \* history: chats made for a request
    used,           \* history: inputs that went with an armed steer
    shared,         \* history: requests and steers that both handlers had read
    owed,           \* history: threads whose operator left Plan Mode
    planned,        \* history: an ordinary turn began in Plan Mode nevertheless
    crossed,        \* history: threads at which two handlers were at once
    unnoted,        \* history: threads with a start whose answer was lost
    aware           \* history: handlers whose ordinary turn is to honour that they did

oneShots == <<pending, armed, bound, requests, made, used, shared>>
modes == <<override, marker, mode, owed, planned, crossed, unnoted, aware>>
turnsOf == <<cur, running>>
routeVars == <<talk, oneShots, modes, turnsOf, hand>>

Hands == {"loop", "album"}
NoRequest == [no |-> 0, stage |-> "none", fresh |-> FALSE]
Unarmed == [no |-> 0, thread |-> NoThread, turn |-> 0, fresh |-> FALSE]
HandAtRest == [pc |-> "rests", thread |-> NoThread, turn |-> 0, mode |-> "", req |-> 0]

RouteInit ==
    /\ talk \in Talks
    /\ pending = NoRequest /\ armed = Unarmed /\ bound = NoThread
    /\ requests = 0
    /\ override = {} /\ marker = {}
    /\ cur = [t \in Threads |-> 0] /\ running = {}
    /\ mode = [t \in Threads |-> "default"]
    /\ hand = [h \in Hands |-> HandAtRest]
    /\ made = [r \in 1 .. MaxRequests |-> 0] /\ used = [r \in 1 .. MaxRequests |-> 0]
    /\ shared = {} /\ owed = {} /\ planned = FALSE /\ crossed = {} /\ unnoted = {} /\ aware = {}

Rests(h) == hand[h] = HandAtRest
HandRests(h) == hand' = [hand EXCEPT ![h] = HandAtRest]
HandGoes(h, pc) == hand' = [hand EXCEPT ![h].pc = pc]
Other(h) == IF h = "loop" THEN "album" ELSE "loop"

-----------------------------------------------------------------------------
(* Commands and buttons, all of them handled by the loop.                   *)

\* A command that starts, which the loop is free for.
Given(command) == command \in talk.does /\ Rests("loop")

\* armNewThreadPrompt, for /new, /newthread and the buttons of a project.
armNewThreadPrompt ==
    /\ Given("new") /\ requests < talk.asks
    /\ requests' = requests + 1
    /\ \E stage \in {"title", "prompt"} :
          pending' = [no |-> requests', stage |-> stage, fresh |-> TRUE]
    /\ UNCHANGED <<talk, armed, bound, made, used, shared, modes, turnsOf, hand>>

cancelPendingNewThreadPrompt ==
    /\ Given("cancel") /\ pending # NoRequest
    /\ pending' = NoRequest
    /\ UNCHANGED <<talk, armed, bound, requests, made, used, shared, modes, turnsOf, hand>>

\* The button of a turn's card.
armSteer ==
    /\ Given("arm") /\ requests < talk.asks
    /\ requests' = requests + 1
    /\ \E t \in Threads, turn \in 1 .. MaxTurns :
          /\ turn <= cur[t]
          /\ armed' = [no |-> requests', thread |-> t, turn |-> turn, fresh |-> TRUE]
    /\ UNCHANGED <<talk, pending, bound, made, used, shared, modes, turnsOf, hand>>

Binds ==
    /\ Given("bind")
    /\ \E t \in Threads : bound' = t
    /\ UNCHANGED <<talk, pending, armed, requests, made, used, shared, modes, turnsOf, hand>>

\* Mutant of Resets: nothing is remembered once the turn is over.
ResetsRunning(t) ==
    /\ override' = IF t \in running THEN override \cup {t} ELSE override
    /\ owed' = owed \cup {t}
    /\ crossed' = IF hand["album"].pc = "clear" /\ hand["album"].thread = t
                  THEN crossed \cup {t} ELSE crossed

\* setThreadCollaborationDefaultOverride: the next ordinary turn is to start
\* in Default Mode.
Resets(t) ==
    /\ override' = override \cup {t}
    /\ owed' = owed \cup {t}
    /\ crossed' = IF hand["album"].pc = "clear" /\ hand["album"].thread = t
                  THEN crossed \cup {t} ELSE crossed

\* /stop does so before it looks for a turn.
stopThread ==
    /\ Given("stop")
    /\ \E t \in Threads : Resets(t)
    /\ UNCHANGED <<talk, oneShots, marker, mode, planned, unnoted, aware, turnsOf, hand>>

\* finalCardShouldShowTurnOffPlan.
OffersTurnOff(t) == cur[t] > 0 /\ t \notin override /\ (mode[t] = "plan" \/ t \in marker)

handleTurnOffPlanCallback ==
    /\ Given("off")
    /\ \E t \in Threads : OffersTurnOff(t) /\ Resets(t)
    /\ UNCHANGED <<talk, oneShots, marker, mode, planned, unnoted, aware, turnsOf, hand>>

\* A row that nobody used in time.
Expires ==
    /\ \/ /\ pending.fresh /\ pending' = [pending EXCEPT !.fresh = FALSE]
          /\ UNCHANGED armed
       \/ /\ armed.fresh /\ armed' = [armed EXCEPT !.fresh = FALSE]
          /\ UNCHANGED pending
    /\ UNCHANGED <<talk, bound, requests, made, used, shared, modes, turnsOf, hand>>

-----------------------------------------------------------------------------
(* A new chat: maybeConsumeNewThreadPromptInputs.                           *)

Both(h, pc, no) == hand[Other(h)].pc = pc /\ hand[Other(h)].req = no

\* pendingNewThreadState.  A picture is no title.
ReadsPending(h) ==
    LET next == IF ~pending.fresh THEN "drop"
                ELSE IF pending.stage = "title" THEN "title" ELSE "make"
    IN  /\ Rests(h) /\ "text" \in talk.does
        /\ \/ pending = NoRequest /\ HandGoes(h, "route")
           \/ pending # NoRequest /\ next = "title" /\ h = "album" /\ UNCHANGED hand
           \/ /\ pending # NoRequest /\ ~(next = "title" /\ h = "album")
              /\ hand' = [hand EXCEPT ![h].pc = next, ![h].req = pending.no]
        /\ shared' = IF pending # NoRequest /\ next = "make" /\ Both(h, "make", pending.no)
                     THEN shared \cup {pending.no} ELSE shared
        /\ UNCHANGED <<talk, pending, armed, bound, requests, made, used, modes, turnsOf>>

\* The title is stored with a new time limit, or refused.
Titles(h) ==
    /\ hand[h].pc = "title"
    /\ pending' \in {pending, [no |-> hand[h].req, stage |-> "prompt", fresh |-> TRUE]}
    /\ HandRests(h)
    /\ UNCHANGED <<talk, armed, bound, requests, made, used, shared, modes, turnsOf>>

\* A request that is too old is deleted, and the message with it.
Drops(h) ==
    /\ hand[h].pc = "drop"
    /\ pending' = NoRequest
    /\ HandRests(h)
    /\ UNCHANGED <<talk, armed, bound, requests, made, used, shared, modes, turnsOf>>

Deleted == NoRequest

MakesChat(h) ==
    /\ hand[h].pc = "make"
    /\ pending' = Deleted
    /\ HandGoes(h, "create")
    /\ UNCHANGED <<talk, armed, bound, requests, made, used, shared, modes, turnsOf>>

\* createThreadFromProjectPromptInputs: no folder, no session, no thread, or a
\* thread that is bound at once, with its first turn or without.
Creates(h) ==
    /\ hand[h].pc = "create"
    /\ \/ UNCHANGED <<made, bound>>
       \/ /\ made' = [made EXCEPT ![hand[h].req] = @ + 1]
          /\ bound' = NoThread
    /\ HandRests(h)
    /\ UNCHANGED <<talk, pending, armed, requests, used, shared, modes, turnsOf>>

-----------------------------------------------------------------------------
(* The route of an input, and its turn.                                     *)

\* resolveRoute without a reply; a steer that is too old is cleared.
Implicit == IF armed.fresh THEN armed.thread ELSE bound

\* The thread and turn of the message replied to; a notice names no turn.
Replies == {[thread |-> t, turn |-> n] : t \in Threads, n \in 0 .. MaxTurns}

Sends(h, t, turn, m) ==
    hand' = [hand EXCEPT ![h] = [HandAtRest EXCEPT !.pc = "read", !.thread = t, !.turn = turn, !.mode = m]]

Cleared == IF armed.fresh THEN armed ELSE Unarmed

\* The text goes nowhere, to the thread of a card, or where the chat points.  A
\* reply to a question answers it instead.
resolveRoute(h) ==
    /\ hand[h].pc = "route"
    /\ \/ \E r \in Replies :
             r.turn <= cur[r.thread] /\ Sends(h, r.thread, r.turn, "") /\ UNCHANGED armed
       \/ HandRests(h) /\ UNCHANGED armed
       \/ /\ armed' = Cleared
          /\ IF Implicit = NoThread THEN HandRests(h) ELSE Sends(h, Implicit, 0, "")
    /\ UNCHANGED <<talk, pending, bound, requests, made, used, shared, modes, turnsOf>>

\* /plan, /default and /reply: the thread is named, or it is the implicit one.
resolveInputCommand ==
    /\ \E m \in {"plan", "default"} :
          /\ Given(m)
          /\ \/ \E t \in Threads : Sends("loop", t, 0, m) /\ UNCHANGED armed
             \/ \E r \in Replies :
                   r.turn <= cur[r.thread] /\ Sends("loop", r.thread, r.turn, m) /\ UNCHANGED armed
             \/ Implicit # NoThread /\ Sends("loop", Implicit, 0, m) /\ armed' = Cleared
    /\ UNCHANGED <<talk, pending, bound, requests, made, used, shared, modes, turnsOf>>

\* The thread is resumed and read, and the armed steer looked up.
Resumes(h) ==
    LET t == hand[h].thread
        mine == armed.fresh /\ armed.thread = t
    IN  /\ hand[h].pc = "read"
        /\ \/ HandRests(h) /\ UNCHANGED <<armed, shared>>
           \/ /\ armed' = Cleared
              /\ hand' = [hand EXCEPT ![h].pc = "steer", ![h].req = IF mine THEN armed.no ELSE 0]
              /\ shared' = IF mine /\ \E pc \in {"steer", "disarm"} : Both(h, pc, armed.no)
                           THEN shared \cup {armed.no} ELSE shared
        /\ UNCHANGED <<talk, pending, bound, requests, made, used, modes, turnsOf>>

\* The steers that are tried: with the armed turn, the one replied to, the one
\* in progress.  One is taken, or the thread is busy, or a turn is started.
SteersInput(h) ==
    LET t == hand[h].thread
        no == hand[h].req
    IN  /\ hand[h].pc = "steer"
        /\ \/ /\ no # 0 /\ t \in running /\ (armed.no = no => armed.turn = cur[t])
              /\ used' = [used EXCEPT ![no] = @ + 1]
              /\ HandGoes(h, "disarm")
           \/ t \in running /\ HandRests(h) /\ UNCHANGED used
           \/ HandRests(h) /\ UNCHANGED used
           \/ t \notin running /\ HandGoes(h, "choose") /\ UNCHANGED used
        /\ UNCHANGED <<talk, pending, armed, bound, requests, made, shared, modes, turnsOf>>

Disarmed == Unarmed

Disarms(h) ==
    /\ hand[h].pc = "disarm"
    /\ armed' = Disarmed
    /\ HandRests(h)
    /\ UNCHANGED <<talk, pending, bound, requests, made, used, shared, modes, turnsOf>>

\* The override turns an ordinary turn into one of Default Mode.
Chooses(h) ==
    LET t == hand[h].thread
        default == hand[h].mode = "" /\ t \in override
    IN  /\ hand[h].pc = "choose"
        /\ hand' = [hand EXCEPT ![h].pc = "start", ![h].mode = IF default THEN "default" ELSE @]
        /\ aware' = IF hand[h].mode = "" /\ t \in owed THEN aware \cup {h} ELSE aware
        /\ UNCHANGED <<talk, oneShots, override, marker, mode, owed, planned, crossed, unnoted, turnsOf>>

\* What a turn that starts makes of its thread.
RunsAs(h) ==
    LET t == hand[h].thread
        m == hand[h].mode
        runs == IF m = "" THEN mode[t] ELSE m
    IN  /\ cur[t] < talk.turns /\ t \notin running
        /\ cur' = [cur EXCEPT ![t] = @ + 1] /\ running' = running \cup {t}
        /\ mode' = [mode EXCEPT ![t] = runs]
        /\ owed' = IF m = "plan" THEN owed \ {t} ELSE owed
        /\ aware' = IF m = "plan" THEN {o \in aware : hand[o].thread # t} \ {h} ELSE aware \ {h}
        /\ planned' = (planned \/ (h \in aware /\ t \notin crossed /\ runs = "plan"))

\* TurnStart is taken, refused, or taken with its answer lost.
InputStartsTurn(h) ==
    LET t == hand[h].thread
        beside == hand[Other(h)].pc = "clear" /\ hand[Other(h)].thread = t
    IN  /\ hand[h].pc = "start"
        /\ \/ /\ RunsAs(h) /\ HandGoes(h, "clear")
              /\ crossed' = IF beside THEN crossed \cup {t} ELSE crossed
              /\ UNCHANGED unnoted
           \/ /\ RunsAs(h) /\ HandRests(h)
              /\ unnoted' = unnoted \cup {t} /\ UNCHANGED crossed
           \/ /\ HandRests(h) /\ aware' = aware \ {h}
              /\ UNCHANGED <<turnsOf, mode, owed, planned, crossed, unnoted>>
        /\ UNCHANGED <<talk, oneShots, override, marker>>

Marked(t, m) ==
    CASE m = "plan" -> marker \cup {t}
      [] m = "default" -> marker \ {t}
      [] OTHER -> marker

\* What a started turn has used up is cleared, and the mode noted.
TurnStarted(h) ==
    LET t == hand[h].thread
        m == hand[h].mode
    IN  /\ hand[h].pc = "clear"
        /\ override' = IF m = "" THEN override ELSE override \ {t}
        /\ marker' = Marked(t, m)
        /\ armed' = Unarmed
        /\ HandRests(h)
        /\ UNCHANGED <<talk, pending, bound, requests, made, used, shared, mode, owed, planned, crossed, unnoted, aware, turnsOf>>

TurnEnds ==
    /\ \E t \in running : running' = running \ {t}
    /\ UNCHANGED <<talk, oneShots, modes, cur, hand>>

-----------------------------------------------------------------------------
RouteNext ==
    \/ armNewThreadPrompt \/ cancelPendingNewThreadPrompt \/ armSteer \/ Binds
    \/ stopThread \/ handleTurnOffPlanCallback \/ Expires \/ TurnEnds
    \/ resolveInputCommand
    \/ \E h \in Hands :
          \/ ReadsPending(h) \/ Titles(h) \/ Drops(h) \/ MakesChat(h) \/ Creates(h)
          \/ resolveRoute(h) \/ Resumes(h) \/ SteersInput(h) \/ Disarms(h)
          \/ Chooses(h) \/ InputStartsTurn(h) \/ TurnStarted(h)

RouteSpec == RouteInit /\ [][RouteNext]_routeVars

RouteTypeOK ==
    /\ talk \in Talks /\ requests \in 0 .. MaxRequests
    /\ pending \in [no : 0 .. requests, stage : {"none", "title", "prompt"}, fresh : BOOLEAN]
    /\ armed \in [no : 0 .. requests, thread : Threads \cup {NoThread}, turn : 0 .. MaxTurns, fresh : BOOLEAN]
    /\ bound \in Threads \cup {NoThread}
    /\ override \subseteq Threads /\ marker \subseteq Threads /\ running \subseteq Threads
    /\ cur \in [Threads -> 0 .. MaxTurns] /\ mode \in [Threads -> {"default", "plan"}]
    /\ \A h \in Hands : hand[h].thread \in Threads \cup {NoThread} /\ hand[h].req \in 0 .. requests
    /\ shared \subseteq 1 .. requests /\ owed \subseteq Threads /\ crossed \cup unnoted \subseteq Threads
    /\ aware \subseteq Hands

-----------------------------------------------------------------------------
(* Properties                                                               *)

\* A request makes one chat and an armed steer takes one input, whatever is
\* retitled, cancelled, asked again or outdated in between, unless the loop and
\* the album timer read it together.
OneShotsAreUsedOnce ==
    \A r \in 1 .. MaxRequests : made[r] + used[r] <= 1 \/ r \in shared

\* After /stop or Turn off Plan no ordinary turn begins in Plan Mode, until it is
\* asked for again (wiki Plan-Mode.md, ADR-016).
ResetIsHonoured == ~planned

\* A thread that the App Server keeps in Plan Mode can be left: its reset is
\* noted, or its final card has the button.
PlanCanBeLeft ==
    \A t \in Threads :
        mode[t] = "plan" =>
            \/ t \in override \cup marker \cup crossed \cup unnoted
            \/ \E h \in Hands : hand[h].pc = "clear" /\ hand[h].thread = t

\* Inputs go where the operator said, in the mode that was asked for.
InputsAreRouted == OneShotsAreUsedOnce /\ ResetIsHonoured /\ PlanCanBeLeft
=============================================================================
