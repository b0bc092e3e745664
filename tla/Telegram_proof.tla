-------------------------- MODULE Telegram_proof --------------------------
(***************************************************************************)
(* Proofs about the parts that stand between the chat and the threads: the  *)
(* input of the user on its way to a turn (InputRoute), the updates of the  *)
(* bot (TelegramBot) and the details of a turn (Details).  They share no    *)
(* state; each part has an inductive invariant and theorems of its own.     *)
(***************************************************************************)
EXTENDS InputRoute, TelegramBot, Details, FiniteSetTheorems, WellFoundedInduction, TLAPS

-----------------------------------------------------------------------------
(* InputRoute: any threads, talks, turns and requests.                      *)

RouteRequests == 1 .. MaxRequests

RoutePlaces == {"rests", "title", "drop", "make", "create", "route", "read", "steer", "disarm",
                "choose", "start", "clear"}

\* Where a handler has a request in its hands, and where a thread.
WithRequest == {"title", "drop", "make", "create", "disarm"}
WithThread == {"read", "steer", "disarm", "choose", "start", "clear"}

RouteHands == [pc : RoutePlaces, thread : Threads \cup {NoThread}, turn : 0 .. MaxTurns,
               mode : {"", "plan", "default"}, req : 0 .. MaxRequests]

HandTypes ==
  /\ hand \in [Hands -> RouteHands]
  /\ \A h \in Hands :
       /\ hand[h].req <= requests
       /\ hand[h].pc \in WithRequest => hand[h].req # 0
       /\ hand[h].pc = "title" => h = "loop"
       /\ hand[h].pc \in WithThread => hand[h].thread \in Threads

\* Requests are numbered as they come; a row that is there carries its number.
ShotTypes ==
  /\ requests \in 0 .. MaxRequests
  /\ pending \in [no : 0 .. requests, stage : {"none", "title", "prompt"}, fresh : BOOLEAN]
  /\ armed \in [no : 0 .. requests, thread : Threads \cup {NoThread}, turn : 0 .. MaxTurns,
                fresh : BOOLEAN]
  /\ pending # NoRequest => pending.no # 0 /\ pending.stage # "none"
  /\ armed # Unarmed => armed.no # 0
  /\ bound \in Threads \cup {NoThread}
  /\ made \in [RouteRequests -> Nat] /\ used \in [RouteRequests -> Nat]
  /\ \A r \in RouteRequests : r > requests => made[r] = 0 /\ used[r] = 0
  /\ shared \subseteq 1 .. requests

ModeTypes ==
  /\ override \subseteq Threads /\ marker \subseteq Threads /\ running \subseteq Threads
  /\ cur \in [Threads -> 0 .. MaxTurns] /\ mode \in [Threads -> {"default", "plan"}]
  /\ owed \subseteq Threads /\ crossed \subseteq Threads /\ unnoted \subseteq Threads
  /\ aware \subseteq Hands

At(h, pc, r) == hand[h].pc = pc /\ hand[h].req = r
Makes(h, r) == At(h, "make", r) \/ At(h, "create", r)
Steers(h, r) == At(h, "steer", r) \/ At(h, "disarm", r)

ChatPlaces == {"title", "drop", "make", "create"}
ShotPlaces == ChatPlaces \cup {"steer", "disarm"}

\* A number is of a chat that was asked for, or of a steer.
OfChat(r) == pending.no = r \/ made[r] > 0 \/ \E h \in Hands : hand[h].pc \in ChatPlaces /\ hand[h].req = r
OfSteer(r) == armed.no = r \/ used[r] > 0 \/ \E h \in Hands : Steers(h, r)

\* While the loop stores a title, the request waits for it, or is gone.
RouteTitles ==
  hand["loop"].pc = "title" =>
    \/ pending = NoRequest
    \/ pending.no = hand["loop"].req /\ pending.stage = "title"

\* Unless both handlers read it, one handler makes the chat of a request, and the
\* request is gone before it does.
ChatOnce(r) ==
  /\ made[r] <= 1
  /\ pending.no = r => made[r] = 0 /\ \A h \in Hands : ~At(h, "create", r)
  /\ \A h \in Hands : At(h, "title", r) \/ At(h, "make", r) =>
       made[r] = 0 /\ \A g \in Hands : ~At(g, "create", r)
  /\ \A h \in Hands : At(h, "create", r) => made[r] = 0
  /\ \A h, g \in Hands : Makes(h, r) /\ Makes(g, r) => h = g
  /\ \A h \in Hands : At(h, "make", r) =>
       ~At("loop", "title", r) /\ (pending.no = r => pending.stage = "prompt")

\* Unless both handlers read it, one handler has an armed steer, which it used if it is
\* about to clear it.
SteerOnce(r) ==
  /\ used[r] <= 1
  /\ \A h \in Hands : At(h, "steer", r) => used[r] = 0
  /\ armed.no = r => used[r] = 0 \/ \E h \in Hands : At(h, "disarm", r)
  /\ \A h, g \in Hands : Steers(h, r) /\ Steers(g, r) => h = g

ShotRight(r) == ~(OfChat(r) /\ OfSteer(r)) /\ (r \notin shared => ChatOnce(r) /\ SteerOnce(r))

RouteShots == RouteTitles /\ \A r \in RouteRequests : ShotRight(r)

Clears(h, t) == hand[h].pc = "clear" /\ hand[h].thread = t

\* What a handler that is about to clear knows of its thread.
ClearsRight(h, t) ==
  Clears(h, t) =>
    /\ hand[h].mode = "default" => mode[t] = "default" \/ (t \in unnoted /\ t \notin owed)
    /\ hand[h].mode = "plan" => t \notin owed
    /\ hand[h].mode = "" /\ mode[t] = "plan" => t \in override \cup marker \cup unnoted
    /\ ~Clears(Other(h), t)

\* Unless two handlers were at the thread, a reset that is owed is still noted or
\* already took effect.
ThreadRight(t) ==
  /\ t \in owed => t \in override \/ mode[t] = "default"
  /\ \A h \in Hands : ClearsRight(h, t)

\* A turn that is to honour a reset will not begin in Plan Mode.
AwareRight(h) ==
  h \in aware =>
    /\ hand[h].pc = "start"
    /\ \/ hand[h].thread \in crossed
       \/ hand[h].mode = "default"
       \/ hand[h].mode = "" /\ mode[hand[h].thread] = "default"

Leavable(t) ==
  mode[t] = "plan" => t \in override \cup marker \cup crossed \cup unnoted \/ \E h \in Hands : Clears(h, t)

RouteModes ==
  /\ \A t \in Threads : t \notin crossed => ThreadRight(t)
  /\ \A h \in Hands : AwareRight(h)
  /\ \A t \in Threads : Leavable(t)
  /\ ~planned

RouteTypesOK == talk \in Talks /\ HandTypes /\ ShotTypes /\ ModeTypes

LEMMA RouteFacts ==
  /\ NoThread \notin Threads /\ MaxTurns \in Nat /\ MaxRequests \in Nat
  /\ "loop" \in Hands /\ "album" \in Hands
  /\ \A h \in Hands : Other(h) \in Hands /\ Other(h) # h /\ \A g \in Hands : g = h \/ g = Other(h)
  /\ HandAtRest \in RouteHands
BY RouteAssumption DEF Hands, Other, HandAtRest, RouteHands, RoutePlaces

LEMMA HandFields ==
  ASSUME NEW x \in RouteHands
  PROVE  /\ x.pc \in RoutePlaces /\ x.thread \in Threads \cup {NoThread} /\ x.turn \in 0 .. MaxTurns
         /\ x.mode \in {"", "plan", "default"} /\ x.req \in 0 .. MaxRequests /\ x.req \in Nat
<1>1. /\ x.pc \in RoutePlaces /\ x.thread \in Threads \cup {NoThread} /\ x.turn \in 0 .. MaxTurns
      /\ x.mode \in {"", "plan", "default"}
  BY DEF RouteHands
<1>2. x.req \in 0 .. MaxRequests
  BY DEF RouteHands
<1>3. x.req \in Nat
  BY <1>2, RouteAssumption
<1> QED
  BY <1>1, <1>2, <1>3

-----------------------------------------------------------------------------
(* What a handler does with its own record.                                 *)

HandMoves(h, pc, t, m, r) ==
  /\ hand' \in [Hands -> RouteHands]
  /\ hand'[h].pc = pc /\ hand'[h].thread = t /\ hand'[h].mode = m /\ hand'[h].req = r
  /\ \A g \in Hands : g # h => hand'[g] = hand[g]

LEMMA HandBecomes ==
  ASSUME hand \in [Hands -> RouteHands], NEW h \in Hands, NEW x \in RouteHands,
         hand' = [hand EXCEPT ![h] = x]
  PROVE  HandMoves(h, x.pc, x.thread, x.mode, x.req)
<1>1. hand' \in [Hands -> RouteHands] /\ hand'[h] = x /\ \A g \in Hands : g # h => hand'[g] = hand[g]
  OBVIOUS
<1> QED
  BY <1>1 DEF HandMoves

LEMMA MoveGoes ==
  ASSUME hand \in [Hands -> RouteHands], NEW h \in Hands, NEW pc \in RoutePlaces, HandGoes(h, pc)
  PROVE  HandMoves(h, pc, hand[h].thread, hand[h].mode, hand[h].req)
<1>1. PICK y \in RouteHands : y = hand[h]
  OBVIOUS
<1> DEFINE x == [y EXCEPT !.pc = pc]
<1>2. /\ x \in RouteHands /\ x.pc = pc /\ x.thread = y.thread
      /\ x.mode = y.mode /\ x.req = y.req
  BY DEF RouteHands
<1>3. hand' = [hand EXCEPT ![h] = x]
  BY <1>1 DEF HandGoes
<1> HIDE DEF x
<1>4. HandMoves(h, x.pc, x.thread, x.mode, x.req)
  BY <1>2, <1>3, HandBecomes
<1> QED
  BY <1>1, <1>2, <1>4 DEF HandMoves

LEMMA MoveTakes ==
  ASSUME hand \in [Hands -> RouteHands], NEW h \in Hands, NEW pc \in RoutePlaces,
         NEW r \in 0 .. MaxRequests, hand' = [hand EXCEPT ![h].pc = pc, ![h].req = r]
  PROVE  HandMoves(h, pc, hand[h].thread, hand[h].mode, r)
<1>1. PICK y \in RouteHands : y = hand[h]
  OBVIOUS
<1> DEFINE x == [y EXCEPT !.pc = pc, !.req = r]
<1>2. x \in RouteHands /\ x.pc = pc /\ x.thread = y.thread /\ x.mode = y.mode /\ x.req = r
  BY DEF RouteHands
<1>3. hand' = [hand EXCEPT ![h] = x]
  BY <1>1
<1> HIDE DEF x
<1>4. HandMoves(h, x.pc, x.thread, x.mode, x.req)
  BY <1>2, <1>3, HandBecomes
<1> QED
  BY <1>1, <1>2, <1>4 DEF HandMoves

LEMMA MoveChooses ==
  ASSUME hand \in [Hands -> RouteHands], NEW h \in Hands, NEW m \in {"", "plan", "default"},
         hand' = [hand EXCEPT ![h].pc = "start", ![h].mode = m]
  PROVE  HandMoves(h, "start", hand[h].thread, m, hand[h].req)
<1>1. PICK y \in RouteHands : y = hand[h]
  OBVIOUS
<1> DEFINE x == [y EXCEPT !.pc = "start", !.mode = m]
<1>2. x \in RouteHands /\ x.pc = "start" /\ x.thread = y.thread /\ x.mode = m /\ x.req = y.req
  BY DEF RouteHands, RoutePlaces
<1>3. hand' = [hand EXCEPT ![h] = x]
  BY <1>1
<1> HIDE DEF x
<1>4. HandMoves(h, x.pc, x.thread, x.mode, x.req)
  BY <1>2, <1>3, HandBecomes
<1> QED
  BY <1>1, <1>2, <1>4 DEF HandMoves

LEMMA MoveRests ==
  ASSUME hand \in [Hands -> RouteHands], NEW h \in Hands, HandRests(h)
  PROVE  HandMoves(h, "rests", NoThread, "", 0)
<1>1. HandMoves(h, HandAtRest.pc, HandAtRest.thread, HandAtRest.mode, HandAtRest.req)
  <2>1. hand' = [hand EXCEPT ![h] = HandAtRest]
    BY DEF HandRests
  <2> QED
    BY <2>1, HandBecomes, RouteFacts
<1> QED
  BY <1>1 DEF HandMoves, HandAtRest

LEMMA MoveSends ==
  ASSUME hand \in [Hands -> RouteHands], NEW h \in Hands, NEW t \in Threads,
         NEW n \in 0 .. MaxTurns, NEW m \in {"", "plan", "default"}, Sends(h, t, n, m)
  PROVE  HandMoves(h, "read", t, m, 0)
<1> DEFINE x == [HandAtRest EXCEPT !.pc = "read", !.thread = t, !.turn = n, !.mode = m]
<1>1. x \in RouteHands /\ x.pc = "read" /\ x.thread = t /\ x.mode = m /\ x.req = 0
  BY RouteFacts DEF HandAtRest, RouteHands, RoutePlaces
<1>2. hand' = [hand EXCEPT ![h] = x]
  BY DEF Sends
<1> HIDE DEF x
<1>3. HandMoves(h, x.pc, x.thread, x.mode, x.req)
  BY <1>1, <1>2, HandBecomes
<1> QED
  BY <1>1, <1>3 DEF HandMoves

-----------------------------------------------------------------------------
(* Types.                                                                   *)

LEMMA TypesSuffice ==
  ASSUME RouteTypesOK
  PROVE  RouteTypeOK
<1>1. \A h \in Hands : hand[h] \in RouteHands /\ hand[h].req <= requests
  BY DEF RouteTypesOK, HandTypes
<1>2. \A h \in Hands : hand[h].thread \in Threads \cup {NoThread} /\ hand[h].req \in 0 .. requests
  <2> TAKE h \in Hands
  <2>1. hand[h].thread \in Threads \cup {NoThread} /\ hand[h].req \in Nat
    BY <1>1, HandFields
  <2>2. requests \in Nat
    BY RouteAssumption DEF RouteTypesOK, ShotTypes
  <2> QED
    BY <1>1, <2>1, <2>2
<1>3. crossed \cup unnoted \subseteq Threads
  BY DEF RouteTypesOK, ModeTypes
<1> QED
  BY <1>2, <1>3 DEF RouteTypesOK, ShotTypes, ModeTypes, RouteTypeOK

LEMMA RequestsCount ==
  ASSUME ShotTypes
  PROVE  /\ requests \in Nat /\ 0 <= requests /\ requests <= MaxRequests
         /\ \A r \in 0 .. requests : r \in 0 .. MaxRequests /\ r <= requests
BY RouteAssumption DEF ShotTypes

LEMMA HandKeepsTypes ==
  ASSUME HandTypes, requests' = requests, NEW h \in Hands, NEW pc, NEW t, NEW m, NEW r,
         HandMoves(h, pc, t, m, r), r <= requests,
         pc \in WithRequest => r # 0,
         pc = "title" => h = "loop",
         pc \in WithThread => t \in Threads
  PROVE  HandTypes'
BY DEF HandTypes, HandMoves

LEMMA HandsStay ==
  ASSUME HandTypes, UNCHANGED hand, requests \in Nat, requests' \in {requests, requests + 1}
  PROVE  HandTypes'
<1>1. \A h \in Hands : hand[h].req \in Nat
  BY HandFields DEF HandTypes
<1> QED
  BY <1>1 DEF HandTypes

LEMMA RouteInitTypes ==
  ASSUME RouteInit
  PROVE  RouteTypesOK
<1>1. HandTypes
  <2>1. \A h \in Hands : hand[h] = HandAtRest
    BY DEF RouteInit
  <2>2. hand \in [Hands -> RouteHands]
    BY RouteFacts DEF RouteInit
  <2>3. requests = 0
    BY DEF RouteInit
  <2>4. HandAtRest.req = 0 /\ HandAtRest.pc = "rests"
    BY DEF HandAtRest
  <2> QED
    BY <2>1, <2>2, <2>3, <2>4 DEF HandTypes, WithRequest, WithThread
<1>2. ShotTypes
  BY RouteFacts DEF RouteInit, ShotTypes, NoRequest, Unarmed, RouteRequests
<1>3. ModeTypes
  BY RouteFacts DEF RouteInit, ModeTypes
<1> QED
  BY <1>1, <1>2, <1>3 DEF RouteInit, RouteTypesOK

\* The loop's commands.
LEMMA CommandTypes ==
  ASSUME RouteTypesOK,
         \/ armNewThreadPrompt \/ cancelPendingNewThreadPrompt \/ armSteer \/ Binds
         \/ stopThread \/ handleTurnOffPlanCallback \/ Expires \/ TurnEnds
  PROVE  RouteTypesOK'
<1> USE DEF RouteTypesOK
<1>1. CASE armNewThreadPrompt
  <2>1. requests \in Nat /\ requests + 1 <= MaxRequests /\ requests' = requests + 1
    <3>1. talk.asks \in 0 .. MaxRequests /\ requests \in Nat
      BY RouteAssumption DEF ShotTypes
    <3> QED
      BY <1>1, <3>1, RouteFacts DEF armNewThreadPrompt
  <2>2. HandTypes'
    BY <1>1, <2>1, HandsStay DEF armNewThreadPrompt
  <2>3. PICK stage \in {"title", "prompt"} :
          pending' = [no |-> requests + 1, stage |-> stage, fresh |-> TRUE]
    BY <1>1, <2>1 DEF armNewThreadPrompt
  <2>4. /\ pending' \in [no : 0 .. requests + 1, stage : {"none", "title", "prompt"}, fresh : BOOLEAN]
        /\ pending'.no # 0 /\ pending'.stage # "none"
    BY <2>1, <2>3
  <2>5. ShotTypes'
    <3>1. requests' \in 0 .. MaxRequests
      BY <2>1, RouteFacts
    <3>2. armed \in [no : 0 .. requests + 1, thread : Threads \cup {NoThread}, turn : 0 .. MaxTurns,
                      fresh : BOOLEAN]
      BY <2>1 DEF ShotTypes
    <3>3. shared \subseteq 1 .. requests'
      BY <2>1 DEF ShotTypes
    <3>4. \A r \in RouteRequests : r > requests' => made[r] = 0 /\ used[r] = 0
      BY <2>1 DEF ShotTypes, RouteRequests
    <3> QED
      BY <1>1, <2>1, <2>4, <3>1, <3>2, <3>3, <3>4 DEF armNewThreadPrompt, ShotTypes
  <2> QED
    BY <1>1, <2>2, <2>5 DEF armNewThreadPrompt, ModeTypes, modes, turnsOf
<1>2. CASE cancelPendingNewThreadPrompt
  BY <1>2 DEF cancelPendingNewThreadPrompt, HandTypes, ShotTypes, ModeTypes, modes, turnsOf, NoRequest
<1>3. CASE armSteer
  <2>1. requests \in Nat /\ requests + 1 <= MaxRequests /\ requests' = requests + 1
    <3>1. talk.asks \in 0 .. MaxRequests /\ requests \in Nat
      BY RouteAssumption DEF ShotTypes
    <3> QED
      BY <1>3, <3>1, RouteFacts DEF armSteer
  <2>2. HandTypes'
    BY <1>3, <2>1, HandsStay DEF armSteer
  <2>3. PICK t \in Threads, turn \in 1 .. MaxTurns :
          armed' = [no |-> requests + 1, thread |-> t, turn |-> turn, fresh |-> TRUE]
    BY <1>3, <2>1 DEF armSteer
  <2>4. /\ armed' \in [no : 0 .. requests + 1, thread : Threads \cup {NoThread}, turn : 0 .. MaxTurns,
                       fresh : BOOLEAN]
        /\ armed'.no # 0
    BY <2>1, <2>3, RouteFacts
  <2>5. ShotTypes'
    <3>1. requests' \in 0 .. MaxRequests
      BY <2>1, RouteFacts
    <3>2. pending \in [no : 0 .. requests + 1, stage : {"none", "title", "prompt"}, fresh : BOOLEAN]
      BY <2>1 DEF ShotTypes
    <3>3. shared \subseteq 1 .. requests'
      BY <2>1 DEF ShotTypes
    <3>4. \A r \in RouteRequests : r > requests' => made[r] = 0 /\ used[r] = 0
      BY <2>1 DEF ShotTypes, RouteRequests
    <3> QED
      BY <1>3, <2>1, <2>4, <3>1, <3>2, <3>3, <3>4 DEF armSteer, ShotTypes
  <2> QED
    BY <1>3, <2>2, <2>5 DEF armSteer, ModeTypes, modes, turnsOf
<1>4. CASE Binds
  BY <1>4 DEF Binds, HandTypes, ShotTypes, ModeTypes, modes, turnsOf
<1>5. CASE stopThread
  BY <1>5 DEF stopThread, Resets, HandTypes, ShotTypes, ModeTypes, oneShots, turnsOf
<1>6. CASE handleTurnOffPlanCallback
  BY <1>6 DEF handleTurnOffPlanCallback, Resets, HandTypes, ShotTypes, ModeTypes, oneShots, turnsOf
<1>7. CASE Expires
  <2>1. pending' = [pending EXCEPT !.fresh = FALSE] =>
          /\ pending' \in [no : 0 .. requests, stage : {"none", "title", "prompt"}, fresh : BOOLEAN]
          /\ pending'.no = pending.no /\ pending'.stage = pending.stage
    BY DEF ShotTypes
  <2>2. armed' = [armed EXCEPT !.fresh = FALSE] =>
          /\ armed' \in [no : 0 .. requests, thread : Threads \cup {NoThread}, turn : 0 .. MaxTurns,
                         fresh : BOOLEAN]
          /\ armed'.no = armed.no
    BY DEF ShotTypes
  <2>3. (pending.fresh => pending # NoRequest) /\ (armed.fresh => armed # Unarmed)
    BY DEF NoRequest, Unarmed
  <2>4. ShotTypes'
    BY <1>7, <2>1, <2>2, <2>3 DEF Expires, ShotTypes
  <2> QED
    BY <1>7, <2>4 DEF Expires, HandTypes, ModeTypes, modes, turnsOf
<1>8. CASE TurnEnds
  BY <1>8 DEF TurnEnds, HandTypes, ShotTypes, ModeTypes, modes, oneShots
<1> QED
  BY <1>1, <1>2, <1>3, <1>4, <1>5, <1>6, <1>7, <1>8

LEMMA GoesTypes ==
  ASSUME HandTypes, requests' = requests, NEW h \in Hands, NEW pc \in RoutePlaces,
         HandGoes(h, pc),
         pc \in WithRequest => hand[h].req # 0,
         pc = "title" => h = "loop",
         pc \in WithThread => hand[h].thread \in Threads
  PROVE  HandTypes'
<1>1. HandMoves(h, pc, hand[h].thread, hand[h].mode, hand[h].req) /\ hand[h].req <= requests
  BY MoveGoes DEF HandTypes
<1> QED
  BY <1>1, HandKeepsTypes

LEMMA RestsTypes ==
  ASSUME HandTypes, ShotTypes, requests' = requests, NEW h \in Hands, HandRests(h)
  PROVE  HandTypes'
<1>1. HandMoves(h, "rests", NoThread, "", 0)
  BY MoveRests DEF HandTypes
<1>2. 0 <= requests
  BY RequestsCount
<1> QED
  BY <1>1, <1>2, HandKeepsTypes DEF WithRequest, WithThread

LEMMA SendsTypes ==
  ASSUME HandTypes, ShotTypes, requests' = requests, NEW h \in Hands, NEW t \in Threads,
         NEW n \in 0 .. MaxTurns, NEW m \in {"", "plan", "default"}, Sends(h, t, n, m)
  PROVE  HandTypes'
<1>1. HandMoves(h, "read", t, m, 0)
  BY MoveSends DEF HandTypes
<1>2. 0 <= requests
  BY RequestsCount
<1> QED
  BY <1>1, <1>2, HandKeepsTypes DEF WithRequest, WithThread

LEMMA TakesTypes ==
  ASSUME HandTypes, ShotTypes, requests' = requests, NEW h \in Hands, NEW pc \in RoutePlaces,
         NEW r \in 0 .. requests, hand' = [hand EXCEPT ![h].pc = pc, ![h].req = r],
         pc \in WithRequest => r # 0,
         pc = "title" => h = "loop",
         pc \in WithThread => hand[h].thread \in Threads
  PROVE  HandTypes'
<1>1. r \in 0 .. MaxRequests /\ r <= requests
  BY RequestsCount
<1>2. HandMoves(h, pc, hand[h].thread, hand[h].mode, r)
  BY <1>1, MoveTakes DEF HandTypes
<1> QED
  BY <1>1, <1>2, HandKeepsTypes

LEMMA ArmedKeepsTypes ==
  ASSUME ShotTypes, armed' = armed \/ armed' = Cleared \/ armed' = Unarmed,
         UNCHANGED <<requests, pending, bound, made, used>>, shared' \subseteq 1 .. requests
  PROVE  ShotTypes'
<1>1. 0 \in 0 .. requests /\ 0 \in 0 .. MaxTurns
  BY RequestsCount, RouteAssumption
<1>2. Unarmed \in [no : 0 .. requests, thread : Threads \cup {NoThread}, turn : 0 .. MaxTurns,
                  fresh : BOOLEAN]
  BY <1>1 DEF Unarmed
<1>3. armed' = armed \/ armed' = Unarmed
  BY DEF Cleared
<1> HIDE DEF Unarmed
<1> QED
  BY <1>2, <1>3 DEF ShotTypes

LEMMA InputTypes ==
  ASSUME RouteTypesOK, NEW h \in Hands,
         \/ ReadsPending(h) \/ Titles(h) \/ Drops(h) \/ MakesChat(h) \/ Creates(h)
         \/ resolveRoute(h) \/ Resumes(h) \/ SteersInput(h) \/ Disarms(h)
         \/ Chooses(h) \/ InputStartsTurn(h) \/ TurnStarted(h) \/ resolveInputCommand
  PROVE  RouteTypesOK'
<1> USE DEF RouteTypesOK
<1>h. /\ hand \in [Hands -> RouteHands] /\ hand[h] \in RouteHands
      /\ hand[h].pc \in WithRequest => hand[h].req # 0
      /\ hand[h].pc = "title" => h = "loop"
      /\ hand[h].pc \in WithThread => hand[h].thread \in Threads
      /\ hand[h].req \in 0 .. requests /\ (hand[h].req # 0 => hand[h].req \in RouteRequests)
  <2>1. /\ hand \in [Hands -> RouteHands] /\ hand[h] \in RouteHands
        /\ hand[h].pc \in WithRequest => hand[h].req # 0
        /\ hand[h].pc = "title" => h = "loop"
        /\ hand[h].pc \in WithThread => hand[h].thread \in Threads
    BY DEF HandTypes
  <2>2. hand[h].req \in Nat /\ hand[h].req <= requests
    BY <2>1, HandFields DEF HandTypes
  <2>3. requests \in Nat /\ requests <= MaxRequests /\ MaxRequests \in Nat
    BY RequestsCount, RouteAssumption
  <2>4. hand[h].req \in 0 .. requests /\ (hand[h].req # 0 => hand[h].req \in 1 .. MaxRequests)
    BY <2>2, <2>3
  <2> QED
    BY <2>1, <2>4 DEF RouteRequests
<1>p. pending.no \in 0 .. requests /\ (pending # NoRequest => pending.no # 0) /\ armed.no \in 0 .. requests
  BY DEF ShotTypes
<1>1. CASE ReadsPending(h)
  <2>1. requests' = requests
    BY <1>1 DEF ReadsPending
  <2>2. HandTypes'
    <3>1. CASE HandGoes(h, "route")
      BY <3>1, <2>1, GoesTypes DEF RoutePlaces, WithRequest, WithThread
    <3>2. ASSUME NEW pc \in {"drop", "title", "make"}, pending # NoRequest, ~(pc = "title" /\ h = "album"),
                 hand' = [hand EXCEPT ![h].pc = pc, ![h].req = pending.no]
          PROVE  HandTypes'
      <4>1. pc \in RoutePlaces /\ pc \notin WithThread /\ (pc = "title" => h = "loop")
        BY <3>2 DEF RoutePlaces, WithThread, Hands
      <4> QED
        BY <3>2, <4>1, <2>1, <1>p, TakesTypes
    <3>3. CASE UNCHANGED hand
      BY <3>3, <2>1 DEF HandTypes
    <3> QED
      BY <1>1, <3>1, <3>2, <3>3 DEF ReadsPending
  <2>3. shared' \subseteq 1 .. requests
    BY <1>1, <1>p DEF ReadsPending, ShotTypes
  <2> QED
    BY <1>1, <2>2, <2>3 DEF ReadsPending, ShotTypes, ModeTypes, modes, turnsOf
<1>2. CASE Titles(h)
  <2>1. hand[h].req # 0
    BY <1>2, <1>h DEF Titles, WithRequest
  <2>2. ShotTypes'
    <3>1. PICK row : row = [no |-> hand[h].req, stage |-> "prompt", fresh |-> TRUE]
      OBVIOUS
    <3>2. /\ row \in [no : 0 .. requests, stage : {"none", "title", "prompt"}, fresh : BOOLEAN]
          /\ row.no # 0 /\ row.stage # "none"
      BY <3>1, <2>1, <1>h
    <3>3. pending' \in {pending, row}
      BY <3>1, <1>2 DEF Titles
    <3> QED
      BY <1>2, <3>2, <3>3 DEF Titles, ShotTypes
  <2>3. HandTypes'
    BY <1>2, RestsTypes DEF Titles
  <2> QED
    BY <1>2, <2>2, <2>3 DEF Titles, ModeTypes, modes, turnsOf
<1>3. CASE Drops(h)
  <2>1. HandTypes'
    BY <1>3, RestsTypes DEF Drops
  <2>2. ShotTypes'
    BY <1>3 DEF Drops, ShotTypes, NoRequest
  <2> QED
    BY <1>3, <2>1, <2>2 DEF Drops, ModeTypes, modes, turnsOf
<1>4. CASE MakesChat(h)
  <2>1. HandTypes'
    BY <1>4, <1>h, GoesTypes DEF MakesChat, RoutePlaces, WithRequest, WithThread
  <2>2. ShotTypes'
    BY <1>4 DEF MakesChat, Deleted, ShotTypes, NoRequest
  <2> QED
    BY <1>4, <2>1, <2>2 DEF MakesChat, ModeTypes, modes, turnsOf
<1>5. CASE Creates(h)
  <2>1. HandTypes'
    BY <1>5, RestsTypes DEF Creates
  <2>2. hand[h].req # 0 /\ hand[h].req \in RouteRequests /\ hand[h].req <= requests
    BY <1>5, <1>h, RequestsCount DEF Creates, WithRequest
  <2>3. /\ made' \in [RouteRequests -> Nat]
        /\ \A r \in RouteRequests : r > requests => made'[r] = 0
    <3>1. PICK n \in RouteRequests : n = hand[h].req
      BY <2>2
    <3>2. n \in Nat /\ requests \in Nat /\ n <= requests
      BY <2>2, <3>1, RequestsCount, RouteAssumption DEF RouteRequests
    <3>3. made' = made \/ made' = [made EXCEPT ![n] = @ + 1]
      BY <1>5, <3>1 DEF Creates
    <3>4. made[n] + 1 \in Nat
      BY DEF ShotTypes
    <3>5. \A r \in RouteRequests : r > requests => r # n
      BY <3>2 DEF RouteRequests
    <3> QED
      BY <3>3, <3>4, <3>5 DEF ShotTypes
  <2>4. ShotTypes'
    BY <1>5, <2>3 DEF Creates, ShotTypes
  <2> QED
    BY <1>5, <2>1, <2>4 DEF Creates, ModeTypes, modes, turnsOf
<1>6. CASE resolveRoute(h)
  <2>1. \A t \in Threads \cup {NoThread} : t # NoThread => t \in Threads
    OBVIOUS
  <2>2. Implicit \in Threads \cup {NoThread} /\ 0 \in 0 .. MaxTurns
    BY RouteAssumption DEF Implicit, ShotTypes
  <2>3. HandTypes' /\ (armed' = armed \/ armed' = Cleared)
    <3>1. CASE HandRests(h)
      BY <1>6, <3>1, RestsTypes DEF resolveRoute
    <3>2. CASE \E r \in Replies : Sends(h, r.thread, r.turn, "")
      <4>1. PICK r \in Replies : Sends(h, r.thread, r.turn, "")
        BY <3>2
      <4>2. PICK t \in Threads, n \in 0 .. MaxTurns : t = r.thread /\ n = r.turn
        BY DEF Replies
      <4>3. Sends(h, t, n, "")
        BY <4>1, <4>2
      <4> QED
        BY <1>6, <4>3, SendsTypes DEF resolveRoute
    <3>3. CASE Implicit # NoThread /\ Sends(h, Implicit, 0, "")
      <4>1. PICK t \in Threads : t = Implicit
        BY <3>3, <2>1, <2>2
      <4>2. Sends(h, t, 0, "")
        BY <3>3, <4>1
      <4> QED
        BY <1>6, <2>2, <4>2, SendsTypes DEF resolveRoute
    <3> QED
      BY <1>6, <3>1, <3>2, <3>3 DEF resolveRoute
  <2>4. ShotTypes'
    <3>1. shared' \subseteq 1 .. requests
      BY <1>6 DEF resolveRoute, ShotTypes
    <3> QED
      BY <1>6, <2>3, <3>1, ArmedKeepsTypes DEF resolveRoute
  <2> QED
    BY <1>6, <2>3, <2>4 DEF resolveRoute, ModeTypes, modes, turnsOf
<1>7. CASE Resumes(h)
  <2>1. requests' = requests
    BY <1>7 DEF Resumes
  <2>2. HandTypes'
    <3>1. CASE HandRests(h)
      BY <2>1, <3>1, RestsTypes
    <3>2. ASSUME NEW r \in 0 .. requests, hand' = [hand EXCEPT ![h].pc = "steer", ![h].req = r]
          PROVE  HandTypes'
      <4>1. hand[h].thread \in Threads
        BY <1>7, <1>h DEF Resumes, WithThread
      <4> QED
        BY <2>1, <3>2, <4>1, TakesTypes DEF RoutePlaces, WithRequest
    <3>3. 0 \in 0 .. requests
      BY RequestsCount
    <3> QED
      BY <1>7, <1>p, <3>1, <3>2, <3>3 DEF Resumes
  <2>3. shared' \subseteq 1 .. requests
    <3>1. armed.fresh => armed.no # 0
      BY DEF ShotTypes, Unarmed
    <3> QED
      BY <1>7, <1>p, <3>1 DEF Resumes, ShotTypes
  <2>4. ShotTypes'
    BY <1>7, <2>3, ArmedKeepsTypes DEF Resumes
  <2> QED
    BY <1>7, <2>2, <2>4 DEF Resumes, ModeTypes, modes, turnsOf
<1>8. CASE SteersInput(h)
  <2>1. hand[h].thread \in Threads
    BY <1>8, <1>h DEF SteersInput, WithThread
  <2>2. HandTypes'
    <3>1. CASE HandRests(h)
      BY <1>8, <3>1, RestsTypes DEF SteersInput
    <3>2. CASE HandGoes(h, "choose")
      BY <1>8, <2>1, <3>2, GoesTypes DEF SteersInput, RoutePlaces, WithRequest
    <3>3. CASE hand[h].req # 0 /\ HandGoes(h, "disarm")
      BY <1>8, <2>1, <3>3, GoesTypes DEF SteersInput, RoutePlaces
    <3> QED
      BY <1>8, <3>1, <3>2, <3>3 DEF SteersInput
  <2>3. /\ used' \in [RouteRequests -> Nat]
        /\ \A r \in RouteRequests : r > requests => used'[r] = 0
    <3>1. CASE used' = used
      BY <3>1 DEF ShotTypes
    <3>2. CASE hand[h].req # 0 /\ used' = [used EXCEPT ![hand[h].req] = @ + 1]
      <4>1. PICK n \in RouteRequests : n = hand[h].req
        BY <1>h, <3>2
      <4>2. n \in Nat /\ requests \in Nat /\ n <= requests
        BY <1>h, <4>1, RequestsCount, RouteAssumption DEF RouteRequests
      <4>3. used' = [used EXCEPT ![n] = @ + 1]
        BY <3>2, <4>1
      <4>4. used[n] + 1 \in Nat
        BY DEF ShotTypes
      <4>5. \A r \in RouteRequests : r > requests => r # n
        BY <4>2 DEF RouteRequests
      <4> QED
        BY <4>3, <4>4, <4>5 DEF ShotTypes
    <3> QED
      BY <1>8, <3>1, <3>2 DEF SteersInput
  <2>4. ShotTypes'
    BY <1>8, <2>3 DEF SteersInput, ShotTypes
  <2> QED
    BY <1>8, <2>2, <2>4 DEF SteersInput, ModeTypes, modes, turnsOf
<1>9. CASE Disarms(h)
  <2>1. HandTypes'
    BY <1>9, RestsTypes DEF Disarms
  <2>2. ShotTypes'
    <3>1. shared' \subseteq 1 .. requests
      BY <1>9 DEF Disarms, ShotTypes
    <3> QED
      BY <1>9, <3>1, ArmedKeepsTypes DEF Disarms, Disarmed
  <2> QED
    BY <1>9, <2>1, <2>2 DEF Disarms, ModeTypes, modes, turnsOf
<1>10. CASE Chooses(h)
  <2>1. requests' = requests /\ hand[h].thread \in Threads
    BY <1>10, <1>h DEF Chooses, WithThread, oneShots
  <2>2. HandTypes'
    <3>1. PICK m \in {"", "plan", "default"} : hand' = [hand EXCEPT ![h].pc = "start", ![h].mode = m]
      <4>1. hand[h].mode \in {"", "plan", "default"}
        BY <1>h, HandFields
      <4> QED
        BY <1>10, <4>1 DEF Chooses
    <3>2. HandMoves(h, "start", hand[h].thread, m, hand[h].req)
      BY <1>h, <3>1, MoveChooses
    <3>3. hand[h].req <= requests
      BY DEF HandTypes
    <3>4. "start" \notin WithRequest /\ "start" # "title"
      BY DEF WithRequest
    <3> QED
      BY <2>1, <3>2, <3>3, <3>4, HandKeepsTypes
  <2>3. aware' \subseteq Hands
    BY <1>10 DEF Chooses, ModeTypes
  <2> QED
    BY <1>10, <2>2, <2>3 DEF Chooses, ShotTypes, ModeTypes, oneShots, turnsOf
<1>11. CASE InputStartsTurn(h)
  <2>1. requests' = requests /\ UNCHANGED <<talk, oneShots, override, marker>>
    BY <1>11 DEF InputStartsTurn, oneShots
  <2>2. PICK t \in Threads : t = hand[h].thread
    BY <1>11, <1>h DEF InputStartsTurn, WithThread
  <2>3. HandTypes'
    <3>1. CASE HandRests(h)
      BY <2>1, <3>1, RestsTypes
    <3>2. CASE HandGoes(h, "clear")
      BY <2>1, <2>2, <3>2, GoesTypes DEF RoutePlaces, WithRequest
    <3> QED
      BY <1>11, <3>1, <3>2 DEF InputStartsTurn
  <2>4. crossed' \subseteq Threads /\ unnoted' \subseteq Threads
    BY <1>11, <2>2 DEF InputStartsTurn, ModeTypes
  <2>5. CASE RunsAs(h)
    <3>1. cur[t] + 1 \in 0 .. MaxTurns
      <4>1. talk.turns \in 0 .. MaxTurns
        BY RouteAssumption
      <4>2. cur[t] \in 0 .. MaxTurns /\ cur[t] < talk.turns
        BY <2>2, <2>5 DEF RunsAs, ModeTypes
      <4> QED
        BY <4>1, <4>2, RouteAssumption
    <3>2. cur' = [cur EXCEPT ![t] = @ + 1] /\ running' = running \cup {t}
      BY <2>2, <2>5 DEF RunsAs
    <3>3. PICK m \in {"default", "plan"} : mode' = [mode EXCEPT ![t] = m]
      <4>1. hand[h].mode \in {"", "plan", "default"} /\ mode[t] \in {"default", "plan"}
        BY <1>h, HandFields DEF ModeTypes
      <4> QED
        BY <2>2, <2>5, <4>1 DEF RunsAs
    <3>4. owed' \subseteq Threads /\ aware' \subseteq Hands
      BY <2>5 DEF RunsAs, ModeTypes
    <3>5. cur' \in [Threads -> 0 .. MaxTurns] /\ mode' \in [Threads -> {"default", "plan"}]
      BY <3>1, <3>2, <3>3 DEF ModeTypes
    <3> QED
      BY <2>1, <2>3, <2>4, <3>2, <3>4, <3>5 DEF ShotTypes, ModeTypes, oneShots
  <2>6. CASE HandRests(h) /\ aware' = aware \ {h} /\ UNCHANGED <<turnsOf, mode, owed>>
    BY <2>1, <2>3, <2>4, <2>6 DEF ShotTypes, ModeTypes, oneShots, turnsOf
  <2> QED
    BY <1>11, <2>5, <2>6 DEF InputStartsTurn
<1>12. CASE TurnStarted(h)
  <2>1. PICK t \in Threads : t = hand[h].thread
    BY <1>12, <1>h DEF TurnStarted, WithThread
  <2>2. HandTypes'
    BY <1>12, RestsTypes DEF TurnStarted
  <2>3. ShotTypes'
    <3>1. shared' \subseteq 1 .. requests
      BY <1>12 DEF TurnStarted, ShotTypes
    <3> QED
      BY <1>12, <3>1, ArmedKeepsTypes DEF TurnStarted
  <2>4. override' \subseteq Threads /\ marker' \subseteq Threads
    BY <1>12, <2>1 DEF TurnStarted, Marked, ModeTypes
  <2> QED
    BY <1>12, <2>2, <2>3, <2>4 DEF TurnStarted, ModeTypes, turnsOf
<1>13. CASE resolveInputCommand
  <2>1. requests' = requests /\ "loop" \in Hands
    BY <1>13 DEF resolveInputCommand, Hands
  <2>2. Implicit \in Threads \cup {NoThread} /\ 0 \in 0 .. MaxTurns
    BY RouteAssumption DEF Implicit, ShotTypes
  <2>3. HandTypes' /\ (armed' = armed \/ armed' = Cleared)
    <3>1. PICK m \in {"plan", "default"} :
            \/ \E t \in Threads : Sends("loop", t, 0, m) /\ UNCHANGED armed
            \/ \E r \in Replies : Sends("loop", r.thread, r.turn, m) /\ UNCHANGED armed
            \/ Implicit # NoThread /\ Sends("loop", Implicit, 0, m) /\ armed' = Cleared
      BY <1>13 DEF resolveInputCommand
    <3>2. m \in {"", "plan", "default"}
      OBVIOUS
    <3>3. CASE \E t \in Threads : Sends("loop", t, 0, m) /\ UNCHANGED armed
      BY <2>1, <2>2, <3>2, <3>3, SendsTypes
    <3>4. CASE \E r \in Replies : Sends("loop", r.thread, r.turn, m) /\ UNCHANGED armed
      <4>1. PICK r \in Replies : Sends("loop", r.thread, r.turn, m) /\ UNCHANGED armed
        BY <3>4
      <4>2. PICK t \in Threads, n \in 0 .. MaxTurns : t = r.thread /\ n = r.turn
        BY DEF Replies
      <4>3. Sends("loop", t, n, m)
        BY <4>1, <4>2
      <4> QED
        BY <2>1, <3>2, <4>1, <4>3, SendsTypes
    <3>5. CASE Implicit # NoThread /\ Sends("loop", Implicit, 0, m) /\ armed' = Cleared
      <4>1. PICK t \in Threads : t = Implicit
        BY <3>5, <2>2
      <4>2. Sends("loop", t, 0, m)
        BY <3>5, <4>1
      <4> QED
        BY <2>1, <2>2, <3>2, <3>5, <4>2, SendsTypes
    <3> QED
      BY <3>1, <3>3, <3>4, <3>5
  <2>4. ShotTypes'
    <3>1. shared' \subseteq 1 .. requests
      BY <1>13 DEF resolveInputCommand, ShotTypes
    <3> QED
      BY <1>13, <2>3, <3>1, ArmedKeepsTypes DEF resolveInputCommand
  <2> QED
    BY <1>13, <2>3, <2>4 DEF resolveInputCommand, ModeTypes, modes, turnsOf
<1> QED
  BY <1>1, <1>2, <1>3, <1>4, <1>5, <1>6, <1>7, <1>8, <1>9, <1>10, <1>11, <1>12, <1>13

LEMMA RouteTypesStep ==
  ASSUME RouteTypesOK, [RouteNext]_routeVars
  PROVE  RouteTypesOK'
<1>1. CASE UNCHANGED routeVars
  BY <1>1 DEF routeVars, oneShots, modes, turnsOf, RouteTypesOK, HandTypes, ShotTypes, ModeTypes
<1>2. CASE RouteNext
  BY <1>2, CommandTypes, InputTypes DEF RouteNext, Hands
<1> QED
  BY <1>1, <1>2

\* Every variable keeps its range: rows name requests that were asked for and threads
\* that exist, whatever the loop and the album timer do at once (RouteTypeOK).
THEOREM RouteTypes == RouteSpec => []RouteTypeOK
<1>1. RouteInit => RouteTypesOK
  BY RouteInitTypes
<1>2. RouteTypesOK /\ [RouteNext]_routeVars => RouteTypesOK'
  BY RouteTypesStep
<1>3. RouteTypesOK => RouteTypeOK
  BY TypesSuffice
<1> QED
  BY <1>1, <1>2, <1>3, PTL DEF RouteSpec

-----------------------------------------------------------------------------
(* The modes of the threads.                                                *)

\* A handler that neither was nor is between choosing and clearing has no part in them.
StaysAside(h) ==
  hand'[h] = hand[h] \/ (hand[h].pc \notin {"start", "clear"} /\ hand'[h].pc \notin {"start", "clear"})

LEMMA ModesStay ==
  ASSUME RouteModes, UNCHANGED modes, \A h \in Hands : StaysAside(h)
  PROVE  RouteModes'
<1>1. \A h \in Hands, t \in Threads : Clears(h, t)' <=> Clears(h, t)
  BY DEF StaysAside, Clears
<1>2. \A h \in Hands, t \in Threads : Clears(h, t) => hand'[h] = hand[h]
  BY DEF StaysAside, Clears
<1>3. \A h \in Hands, t \in Threads : ClearsRight(h, t) => ClearsRight(h, t)'
  BY <1>1, <1>2, RouteFacts DEF ClearsRight, modes
<1>4. \A t \in Threads : ThreadRight(t) => ThreadRight(t)'
  BY <1>3 DEF ThreadRight, modes
<1>5. \A h \in Hands : AwareRight(h) => AwareRight(h)'
  BY DEF AwareRight, StaysAside, modes
<1>6. \A t \in Threads : Leavable(t) => Leavable(t)'
  BY <1>1 DEF Leavable, modes
<1> QED
  BY <1>4, <1>5, <1>6 DEF RouteModes, modes

LEMMA RouteInitModes ==
  ASSUME RouteInit
  PROVE  RouteModes
<1>1. \A h \in Hands, t \in Threads : ~Clears(h, t)
  BY DEF RouteInit, Clears, HandAtRest
<1>2. \A t \in Threads : mode[t] = "default"
  BY DEF RouteInit
<1>3. owed = {} /\ aware = {} /\ planned = FALSE
  BY DEF RouteInit
<1> QED
  BY <1>1, <1>2, <1>3 DEF RouteModes, ThreadRight, ClearsRight, AwareRight, Leavable

\* The loop resets a thread: the album timer alone can be about to clear it.
LEMMA ResetModes ==
  ASSUME RouteTypesOK, RouteModes, NEW t \in Threads, Resets(t), Rests("loop"),
         UNCHANGED <<marker, mode, planned, unnoted, aware, hand>>
  PROVE  RouteModes'
<1>1. \A h \in Hands, u \in Threads : Clears(h, u)' <=> Clears(h, u)
  BY DEF Clears
<1>2. \A h \in Hands : Clears(h, t) => t \in crossed'
  <2>1. hand["loop"].pc = "rests"
    <3>1. HandAtRest.pc = "rests"
      BY DEF HandAtRest
    <3> QED
      BY <3>1 DEF Rests
  <2>2. \A h \in Hands : h = "loop" \/ h = "album"
    BY DEF Hands
  <2>3. Clears("album", t) => t \in crossed'
    BY DEF Clears, Resets
  <2> QED
    BY <2>1, <2>2, <2>3 DEF Clears
<1>3. /\ crossed \subseteq crossed' /\ override' = override \cup {t} /\ owed' = owed \cup {t}
      /\ \A u \in Threads : u # t => (u \in crossed' <=> u \in crossed)
  BY DEF Resets
<1>4. ASSUME NEW u \in Threads, u \notin crossed'
      PROVE  ThreadRight(u)'
  <2>1. ThreadRight(u)
    BY <1>3, <1>4 DEF RouteModes
  <2>2. CASE u = t
    BY <2>2, <1>1, <1>2, <1>3, <1>4 DEF ThreadRight, ClearsRight
  <2>3. CASE u # t
    <3>1. \A h \in Hands : ClearsRight(h, u)'
      BY <2>1, <2>3, <1>1, <1>3, RouteFacts DEF ThreadRight, ClearsRight
    <3> QED
      BY <2>1, <2>3, <1>3, <3>1 DEF ThreadRight
  <2> QED
    BY <2>2, <2>3
<1>5. \A h \in Hands : AwareRight(h)'
  BY <1>3 DEF RouteModes, AwareRight
<1>6. \A u \in Threads : Leavable(u)'
  BY <1>1, <1>3 DEF RouteModes, Leavable
<1> QED
  BY <1>4, <1>5, <1>6 DEF RouteModes

LEMMA ChooseModes ==
  ASSUME RouteTypesOK, RouteModes, NEW h \in Hands, Chooses(h)
  PROVE  RouteModes'
<1>1. PICK t \in Threads : t = hand[h].thread
  BY DEF Chooses, RouteTypesOK, HandTypes, WithThread
<1>2. PICK m : /\ m = IF hand[h].mode = "" /\ t \in override THEN "default" ELSE hand[h].mode
               /\ m \in {"", "plan", "default"}
  BY HandFields DEF RouteTypesOK, HandTypes
<1>3. HandMoves(h, "start", t, m, hand[h].req)
  <2>1. hand' = [hand EXCEPT ![h].pc = "start", ![h].mode = m]
    BY <1>1, <1>2 DEF Chooses
  <2> QED
    BY <1>1, <1>2, <2>1, MoveChooses DEF RouteTypesOK, HandTypes
<1>4. \A g \in Hands, u \in Threads :
        (Clears(g, u)' <=> Clears(g, u)) /\ (Clears(g, u) => hand'[g] = hand[g])
  <2>1. hand[h].pc = "choose" /\ hand'[h].pc = "start" /\ \A g \in Hands : g # h => hand'[g] = hand[g]
    BY <1>3 DEF HandMoves, Chooses
  <2> QED
    BY <2>1 DEF Clears
<1>5. UNCHANGED <<override, marker, mode, owed, planned, crossed, unnoted>>
  BY DEF Chooses
<1>6. \A u \in Threads : u \notin crossed' => ThreadRight(u)'
  <2>1. \A g \in Hands, u \in Threads : ClearsRight(g, u) => ClearsRight(g, u)'
    <3> TAKE g \in Hands, u \in Threads
    <3>1. Other(g) \in Hands
      BY RouteFacts
    <3>2. /\ Clears(g, u)' <=> Clears(g, u)
          /\ Clears(Other(g), u)' <=> Clears(Other(g), u)
          /\ Clears(g, u) => hand'[g] = hand[g]
      BY <1>4, <3>1
    <3> QED
      BY <1>5, <3>2 DEF ClearsRight
  <2> QED
    BY <2>1, <1>5 DEF RouteModes, ThreadRight
<1>7. \A u \in Threads : Leavable(u)'
  <2>1. \A g \in Hands, u \in Threads : Clears(g, u)' <=> Clears(g, u)
    BY <1>4
  <2> QED
    BY <2>1, <1>5 DEF RouteModes, Leavable
<1>8. AwareRight(h)'
  <2>1. h \in aware' => hand[h].mode = "" /\ t \in owed
    BY <1>1 DEF Chooses, RouteModes, AwareRight
  <2>2. t \in owed /\ t \notin crossed => t \in override \/ mode[t] = "default"
    BY DEF RouteModes, ThreadRight
  <2> QED
    BY <2>1, <2>2, <1>2, <1>3, <1>5 DEF AwareRight, HandMoves
<1>9. \A g \in Hands : g # h => AwareRight(g)'
  <2>1. \A g \in Hands : g # h => hand'[g] = hand[g] /\ (g \in aware' => g \in aware)
    BY <1>3 DEF HandMoves, Chooses
  <2> QED
    BY <2>1, <1>5 DEF RouteModes, AwareRight
<1> QED
  BY <1>5, <1>6, <1>7, <1>8, <1>9 DEF RouteModes

\* What holds of another thread than the one that a handler moves at.
LEMMA OtherThreads ==
  ASSUME RouteModes, NEW t \in Threads, NEW u \in Threads, u # t,
         \A g \in Hands : Clears(g, u)' <=> Clears(g, u),
         \A g \in Hands : Clears(g, u) => hand'[g] = hand[g],
         mode'[u] = mode[u],
         u \in owed' <=> u \in owed,
         u \in crossed' <=> u \in crossed,
         u \in unnoted' <=> u \in unnoted,
         u \in override' <=> u \in override,
         u \in marker' <=> u \in marker
  PROVE  (u \notin crossed' => ThreadRight(u)') /\ Leavable(u)'
<1>1. ASSUME NEW g \in Hands, ClearsRight(g, u)
      PROVE  ClearsRight(g, u)'
  <2>1. Other(g) \in Hands
    BY RouteFacts
  <2>2. /\ Clears(g, u)' <=> Clears(g, u)
        /\ Clears(Other(g), u)' <=> Clears(Other(g), u)
        /\ Clears(g, u) => hand'[g] = hand[g]
    BY <2>1
  <2> QED
    BY <1>1, <2>2 DEF ClearsRight
<1>2. ThreadRight(u) => ThreadRight(u)'
  BY <1>1 DEF ThreadRight
<1> QED
  BY <1>2 DEF RouteModes, Leavable

LEMMA StartModes ==
  ASSUME RouteTypesOK, RouteModes, NEW h \in Hands, InputStartsTurn(h)
  PROVE  RouteModes'
<1>1. PICK t \in Threads : t = hand[h].thread
  BY DEF InputStartsTurn, RouteTypesOK, HandTypes, WithThread
<1>2. PICK m \in {"", "plan", "default"} : m = hand[h].mode
  BY HandFields DEF RouteTypesOK, HandTypes
<1>3. PICK o \in Hands : o = Other(h) /\ o # h /\ \A g \in Hands : g = h \/ g = o
  BY RouteFacts
<1>4. hand[h].pc = "start" /\ UNCHANGED <<override, marker>>
  BY DEF InputStartsTurn
<1>5. hand'[o] = hand[o]
  <2>1. HandGoes(h, "clear") => hand'[o] = hand[o]
    BY <1>3, MoveGoes DEF HandMoves, RouteTypesOK, HandTypes, RoutePlaces
  <2>2. HandRests(h) => hand'[o] = hand[o]
    BY <1>3, MoveRests DEF HandMoves, RouteTypesOK, HandTypes
  <2> QED
    BY <2>1, <2>2 DEF InputStartsTurn
<1>6. /\ HandGoes(h, "clear") => hand'[h].pc = "clear" /\ hand'[h].thread = t /\ hand'[h].mode = m
      /\ HandRests(h) => hand'[h].pc = "rests"
  <2>1. HandGoes(h, "clear") => HandMoves(h, "clear", hand[h].thread, hand[h].mode, hand[h].req)
    BY MoveGoes DEF RouteTypesOK, HandTypes, RoutePlaces
  <2>2. HandRests(h) => HandMoves(h, "rests", NoThread, "", 0)
    BY MoveRests DEF RouteTypesOK, HandTypes
  <2> QED
    BY <1>1, <1>2, <2>1, <2>2 DEF HandMoves
<1>7. \A u \in Threads : /\ Clears(o, u)' <=> Clears(o, u)
                         /\ ~Clears(h, u)
                         /\ HandRests(h) => ~Clears(h, u)'
                         /\ u # t => ~Clears(h, u)'
  <2>1. HandGoes(h, "clear") \/ HandRests(h)
    BY DEF InputStartsTurn
  <2> QED
    BY <2>1, <1>4, <1>5, <1>6 DEF Clears
<1>8. AwareRight(h) /\ AwareRight(o) /\ Leavable(t) /\ (t \notin crossed => ThreadRight(t)) /\ ~planned
  BY DEF RouteModes
<1>9. CASE HandRests(h) /\ aware' = aware \ {h} /\ UNCHANGED <<mode, owed, planned, crossed, unnoted>>
  <2>1. \A u \in Threads, g \in Hands : (Clears(g, u)' <=> Clears(g, u)) /\ (Clears(g, u) => hand'[g] = hand[g])
    BY <1>3, <1>5, <1>7, <1>9
  <2>2. \A u \in Threads : (u \notin crossed' => ThreadRight(u)') /\ Leavable(u)'
    <3>1. \A u \in Threads, g \in Hands : ClearsRight(g, u) => ClearsRight(g, u)'
      <4> TAKE u \in Threads, g \in Hands
      <4>1. Other(g) \in Hands
        BY RouteFacts
      <4>2. /\ Clears(g, u)' <=> Clears(g, u)
            /\ Clears(Other(g), u)' <=> Clears(Other(g), u)
            /\ Clears(g, u) => hand'[g] = hand[g]
        BY <2>1, <4>1
      <4> QED
        BY <1>4, <1>9, <4>2 DEF ClearsRight
    <3>2. \A u \in Threads : Leavable(u) => Leavable(u)'
      BY <2>1, <1>4, <1>9 DEF Leavable
    <3> QED
      BY <3>1, <3>2, <1>4, <1>9 DEF RouteModes, ThreadRight
  <2>3. AwareRight(h)' /\ AwareRight(o)'
    BY <1>3, <1>5, <1>8, <1>9 DEF AwareRight
  <2> QED
    BY <1>3, <1>8, <1>9, <2>2, <2>3 DEF RouteModes
<1>10. ASSUME RunsAs(h),
              \/ /\ HandGoes(h, "clear") /\ unnoted' = unnoted
                 /\ crossed' = IF Clears(o, t) THEN crossed \cup {t} ELSE crossed
              \/ HandRests(h) /\ unnoted' = unnoted \cup {t} /\ crossed' = crossed
       PROVE  RouteModes'
  <2>1. PICK runs \in {"plan", "default"} : runs = (IF m = "" THEN mode[t] ELSE m)
    BY <1>2 DEF RouteTypesOK, ModeTypes
  <2>2. mode'[t] = runs /\ \A u \in Threads : u # t => mode'[u] = mode[u]
    BY <1>1, <1>2, <1>10, <2>1 DEF RunsAs, RouteTypesOK, ModeTypes
  <2>3. /\ owed' = IF m = "plan" THEN owed \ {t} ELSE owed
        /\ h \notin aware'
        /\ o \in aware' => o \in aware /\ (m = "plan" => hand[o].thread # t)
        /\ planned' = (planned \/ (h \in aware /\ t \notin crossed /\ runs = "plan"))
    BY <1>1, <1>2, <1>3, <1>10, <2>1 DEF RunsAs
  <2>4. \A u \in Threads : u # t => (u \notin crossed' => ThreadRight(u)') /\ Leavable(u)'
    <3> TAKE u \in Threads
    <3> HAVE u # t
    <3>1. \A g \in Hands : Clears(g, u)' <=> Clears(g, u)
      BY <1>3, <1>7
    <3>2. \A g \in Hands : Clears(g, u) => hand'[g] = hand[g]
      BY <1>3, <1>5, <1>7
    <3>3. /\ mode'[u] = mode[u]
          /\ u \in owed' <=> u \in owed
          /\ u \in crossed' <=> u \in crossed
          /\ u \in unnoted' <=> u \in unnoted
          /\ u \in override' <=> u \in override
          /\ u \in marker' <=> u \in marker
      BY <1>4, <1>10, <2>2, <2>3
    <3> QED
      BY <3>1, <3>2, <3>3, OtherThreads
  <2>5. /\ t \in owed' => t \in owed /\ m # "plan"
        /\ crossed \subseteq crossed' /\ unnoted \subseteq unnoted'
    BY <1>10, <2>3
  <2>6. t \in owed' /\ t \notin crossed => t \in override' \/ mode'[t] = "default"
    BY <1>4, <1>8, <2>1, <2>2, <2>5 DEF ThreadRight
  <2>7. \/ HandGoes(h, "clear") /\ (Clears(o, t) => t \in crossed')
        \/ HandRests(h) /\ t \in unnoted'
    BY <1>10
  <2>8. t \notin crossed' => ClearsRight(h, t)'
    <3> SUFFICES ASSUME t \notin crossed', Clears(h, t)'
                 PROVE  ClearsRight(h, t)'
      BY DEF ClearsRight
    <3>1. HandGoes(h, "clear") /\ ~Clears(o, t) /\ ~Clears(o, t)'
      BY <1>7, <2>7
    <3>2. hand'[h].mode = m
      BY <1>6, <3>1
    <3>3. m = "default" => mode'[t] = "default"
      BY <2>1, <2>2
    <3>4. m = "" /\ mode'[t] = "plan" => t \in override' \cup marker' \cup unnoted'
      BY <1>3, <1>4, <1>7, <1>8, <2>1, <2>2, <2>5, <3>1 DEF Leavable
    <3> QED
      BY <1>3, <2>5, <3>1, <3>2, <3>3, <3>4 DEF ClearsRight
  <2>9. t \notin crossed' => ClearsRight(o, t)'
    <3> SUFFICES ASSUME t \notin crossed', Clears(o, t)'
                 PROVE  ClearsRight(o, t)'
      BY DEF ClearsRight
    <3>1. Clears(o, t) /\ HandRests(h) /\ t \in unnoted' /\ ~Clears(h, t)'
      BY <1>7, <2>7
    <3>2. Other(o) = h
      BY <1>3 DEF Other, Hands
    <3>3. ClearsRight(o, t)
      BY <1>8, <2>5 DEF ThreadRight
    <3>4. hand[o].mode = "default" => mode'[t] = "default" \/ t \notin owed'
      BY <2>1, <2>2, <2>5, <3>1, <3>3 DEF ClearsRight
    <3>5. hand[o].mode = "plan" => t \notin owed'
      BY <2>5, <3>1, <3>3 DEF ClearsRight
    <3> QED
      BY <1>5, <3>1, <3>2, <3>4, <3>5 DEF ClearsRight
  <2>10. Leavable(t)'
    BY <1>6, <2>7 DEF Leavable, Clears
  <2>11. AwareRight(h)' /\ AwareRight(o)'
    <3>1. ASSUME o \in aware'
          PROVE  /\ hand[o].pc = "start"
                 /\ \/ hand[o].thread \in crossed'
                    \/ hand[o].mode = "default"
                    \/ hand[o].mode = "" /\ mode'[hand[o].thread] = "default"
      <4>1. /\ hand[o].pc = "start"
            /\ \/ hand[o].thread \in crossed
               \/ hand[o].mode = "default"
               \/ hand[o].mode = "" /\ mode[hand[o].thread] = "default"
        BY <1>8, <2>3, <3>1 DEF AwareRight
      <4>2. PICK u \in Threads : u = hand[o].thread
        BY <4>1 DEF RouteTypesOK, HandTypes, WithThread
      <4>3. mode[u] = "default" => mode'[u] = "default"
        BY <2>1, <2>2, <2>3, <3>1, <4>2
      <4> QED
        BY <2>5, <4>1, <4>2, <4>3
    <3> QED
      BY <1>5, <2>3, <3>1 DEF AwareRight
  <2>12. ~planned'
    BY <1>1, <1>2, <1>8, <2>1, <2>3 DEF AwareRight
  <2>13. \A u \in Threads : (u \notin crossed' => ThreadRight(u)') /\ Leavable(u)'
    <3>1. t \notin crossed' => ThreadRight(t)'
      BY <1>3, <2>5, <2>6, <2>8, <2>9 DEF ThreadRight
    <3> QED
      BY <2>4, <2>10, <3>1
  <2> QED
    BY <1>3, <2>11, <2>12, <2>13 DEF RouteModes
<1> QED
  BY <1>9, <1>10, <1>1, <1>3 DEF InputStartsTurn, Clears

LEMMA ClearModes ==
  ASSUME RouteTypesOK, RouteModes, NEW h \in Hands, TurnStarted(h)
  PROVE  RouteModes'
<1>1. PICK t \in Threads : t = hand[h].thread
  BY DEF TurnStarted, RouteTypesOK, HandTypes, WithThread
<1>2. PICK m \in {"", "plan", "default"} : m = hand[h].mode
  BY HandFields DEF RouteTypesOK, HandTypes
<1>3. PICK o \in Hands : o = Other(h) /\ o # h /\ \A g \in Hands : g = h \/ g = o
  BY RouteFacts
<1>4. /\ UNCHANGED <<mode, owed, planned, crossed, unnoted, aware>> /\ Clears(h, t)
      /\ override' = IF m = "" THEN override ELSE override \ {t}
      /\ marker' = Marked(t, m)
  BY <1>1, <1>2 DEF TurnStarted, Clears
<1>5. hand'[o] = hand[o] /\ hand'[h].pc = "rests"
  BY <1>3, MoveRests DEF TurnStarted, HandMoves, RouteTypesOK, HandTypes
<1>6. \A u \in Threads : /\ Clears(o, u)' <=> Clears(o, u)
                         /\ ~Clears(h, u)'
                         /\ u # t => ~Clears(h, u)
  BY <1>1, <1>5 DEF Clears
<1>7. \A u \in Threads : u # t => (u \in override' <=> u \in override) /\ (u \in marker' <=> u \in marker)
  BY <1>4 DEF Marked
<1>8. \A u \in Threads : u # t => (u \notin crossed' => ThreadRight(u)') /\ Leavable(u)'
  <2> TAKE u \in Threads
  <2> HAVE u # t
  <2>1. \A g \in Hands : Clears(g, u)' <=> Clears(g, u)
    BY <1>3, <1>6
  <2>2. \A g \in Hands : Clears(g, u) => hand'[g] = hand[g]
    BY <1>3, <1>5, <1>6
  <2>3. /\ mode'[u] = mode[u]
        /\ u \in owed' <=> u \in owed
        /\ u \in crossed' <=> u \in crossed
        /\ u \in unnoted' <=> u \in unnoted
        /\ u \in override' <=> u \in override
        /\ u \in marker' <=> u \in marker
    BY <1>4, <1>7
  <2> QED
    BY <2>1, <2>2, <2>3, OtherThreads
<1>9. t \notin crossed' => ThreadRight(t)' /\ Leavable(t)'
  <2> HAVE t \notin crossed'
  <2>1. ThreadRight(t) /\ ClearsRight(h, t)
    BY <1>4 DEF RouteModes, ThreadRight
  <2>2. ~Clears(o, t) /\ ~Clears(o, t)' /\ ~Clears(h, t)'
    BY <1>3, <1>4, <1>6, <2>1 DEF ClearsRight
  <2>3. t \in owed' => t \in override' \/ mode'[t] = "default"
    BY <1>2, <1>4, <2>1 DEF ThreadRight, ClearsRight
  <2>4. mode'[t] = "plan" => t \in override' \cup marker' \cup unnoted'
    BY <1>2, <1>4, <2>1 DEF ClearsRight, Marked
  <2> QED
    BY <1>3, <2>2, <2>3, <2>4 DEF ThreadRight, ClearsRight, Leavable
<1>10. t \in crossed' => Leavable(t)'
  BY DEF Leavable
<1>11. \A g \in Hands : AwareRight(g)'
  <2>1. AwareRight(o) /\ AwareRight(h)
    BY DEF RouteModes
  <2>2. h \notin aware'
    BY <1>4, <2>1 DEF AwareRight, Clears
  <2> QED
    BY <1>3, <1>4, <1>5, <2>1, <2>2 DEF AwareRight
<1> QED
  BY <1>4, <1>8, <1>9, <1>10, <1>11 DEF RouteModes

Sent(h) ==
  \E t \in Threads, n \in 0 .. MaxTurns, m \in {"", "plan", "default"} : Sends(h, t, n, m)

LEMMA SentMoves ==
  ASSUME hand \in [Hands -> RouteHands], NEW h \in Hands, Sent(h)
  PROVE  hand'[h].pc = "read" /\ \A g \in Hands : g # h => hand'[g] = hand[g]
<1>1. ASSUME NEW t \in Threads, NEW n \in 0 .. MaxTurns, NEW m \in {"", "plan", "default"},
             Sends(h, t, n, m)
      PROVE  hand'[h].pc = "read" /\ \A g \in Hands : g # h => hand'[g] = hand[g]
  <2>1. HandMoves(h, "read", t, m, 0)
    BY <1>1, MoveSends
  <2> QED
    BY <2>1 DEF HandMoves
<1> QED
  BY <1>1 DEF Sent

LEMMA GoesAside ==
  ASSUME RouteTypesOK, NEW h \in Hands, hand[h].pc \notin {"start", "clear"},
         \/ HandRests(h)
         \/ \E pc \in RoutePlaces \ {"start", "clear"} : HandGoes(h, pc)
         \/ Sent(h)
         \/ \E pc \in RoutePlaces \ {"start", "clear"}, r \in 0 .. requests :
               hand' = [hand EXCEPT ![h].pc = pc, ![h].req = r]
  PROVE  \A g \in Hands : StaysAside(g)
<1>h. hand \in [Hands -> RouteHands]
  BY DEF RouteTypesOK, HandTypes
<1>1. CASE HandRests(h)
  <2>1. HandMoves(h, "rests", NoThread, "", 0)
    BY <1>h, <1>1, MoveRests
  <2> QED
    BY <2>1 DEF HandMoves, StaysAside
<1>2. ASSUME NEW pc \in RoutePlaces \ {"start", "clear"}, HandGoes(h, pc)
      PROVE  \A g \in Hands : StaysAside(g)
  <2>1. HandMoves(h, pc, hand[h].thread, hand[h].mode, hand[h].req)
    BY <1>h, <1>2, MoveGoes
  <2> QED
    BY <2>1 DEF HandMoves, StaysAside
<1>3. CASE Sent(h)
  BY <1>h, <1>3, SentMoves DEF StaysAside
<1>4. ASSUME NEW pc \in RoutePlaces \ {"start", "clear"}, NEW r \in 0 .. requests,
             hand' = [hand EXCEPT ![h].pc = pc, ![h].req = r]
      PROVE  \A g \in Hands : StaysAside(g)
  <2>1. r \in 0 .. MaxRequests
    BY RequestsCount DEF RouteTypesOK
  <2>2. HandMoves(h, pc, hand[h].thread, hand[h].mode, r)
    BY <1>h, <1>4, <2>1, MoveTakes
  <2> QED
    BY <2>2 DEF HandMoves, StaysAside
<1> QED
  BY <1>1, <1>2, <1>3, <1>4

\* An input on its way to a thread, or none: how its handler moves.
LEMMA RouteMoves ==
  ASSUME RouteTypesOK, NEW h \in Hands,
         resolveRoute(h) \/ (resolveInputCommand /\ h = "loop")
  PROVE  /\ hand[h].pc \notin {"start", "clear", "title", "drop", "make", "create", "steer", "disarm"}
         /\ \/ HandRests(h)
            \/ Sent(h)
<1>1. 0 \in 0 .. MaxTurns /\ (Implicit # NoThread => Implicit \in Threads)
  BY RouteAssumption DEF Implicit, RouteTypesOK, ShotTypes
<1>2. \A r \in Replies : r.thread \in Threads /\ r.turn \in 0 .. MaxTurns
  BY DEF Replies
<1>3. CASE resolveRoute(h)
  BY <1>1, <1>2, <1>3 DEF resolveRoute, Sent
<1>4. CASE resolveInputCommand /\ h = "loop"
  <2>1. HandAtRest.pc = "rests" /\ hand["loop"] = HandAtRest
    BY <1>4 DEF resolveInputCommand, Given, Rests, HandAtRest
  <2>2. PICK m \in {"plan", "default"} :
          \/ \E t \in Threads : Sends("loop", t, 0, m)
          \/ \E r \in Replies : Sends("loop", r.thread, r.turn, m)
          \/ Implicit # NoThread /\ Sends("loop", Implicit, 0, m)
    BY <1>4 DEF resolveInputCommand
  <2>3. \E t \in Threads, n \in 0 .. MaxTurns : Sends("loop", t, n, m)
    BY <1>1, <1>2, <2>2
  <2> QED
    BY <1>4, <2>1, <2>3 DEF Sent
<1> QED
  BY <1>3, <1>4

LEMMA RouteModesStep ==
  ASSUME RouteTypesOK, RouteModes, [RouteNext]_routeVars
  PROVE  RouteModes'
<1>1. CASE UNCHANGED <<modes, hand>>
  BY <1>1, ModesStay DEF StaysAside
<1>2. ASSUME NEW t \in Threads, Resets(t), Rests("loop"),
             UNCHANGED <<marker, mode, planned, unnoted, aware, hand>>
      PROVE  RouteModes'
  BY <1>2, ResetModes
<1>3. ASSUME NEW h \in Hands,
             \/ ReadsPending(h) \/ Titles(h) \/ Drops(h) \/ MakesChat(h) \/ Creates(h)
             \/ resolveRoute(h) \/ Resumes(h) \/ SteersInput(h) \/ Disarms(h)
             \/ (resolveInputCommand /\ h = "loop")
      PROVE  RouteModes'
  <2>1. UNCHANGED modes
    BY <1>3 DEF ReadsPending, Titles, Drops, MakesChat, Creates, resolveRoute, Resumes, SteersInput,
                Disarms, resolveInputCommand
  <2>2. \A g \in Hands : StaysAside(g)
    <3>1. CASE ReadsPending(h)
      <4>1. hand[h].pc = "rests"
        <5>1. HandAtRest.pc = "rests"
          BY DEF HandAtRest
        <5> QED
          BY <3>1, <5>1 DEF ReadsPending, Rests
      <4>2. pending.no \in 0 .. requests
        BY DEF RouteTypesOK, ShotTypes
      <4>3. \/ HandGoes(h, "route")
            \/ UNCHANGED hand
            \/ \E pc \in {"drop", "title", "make"} :
                 hand' = [hand EXCEPT ![h].pc = pc, ![h].req = pending.no]
        BY <3>1 DEF ReadsPending
      <4>4. \A pc \in {"drop", "title", "make", "route"} : pc \in RoutePlaces \ {"start", "clear"}
        BY DEF RoutePlaces
      <4>5. CASE UNCHANGED hand
        BY <4>5 DEF StaysAside
      <4> QED
        BY <4>1, <4>2, <4>3, <4>4, <4>5, GoesAside
    <3>2. CASE Titles(h) \/ Drops(h) \/ Creates(h) \/ Disarms(h)
      BY <3>2, GoesAside DEF Titles, Drops, Creates, Disarms
    <3>3. CASE MakesChat(h)
      BY <3>3, GoesAside DEF MakesChat, RoutePlaces
    <3>4. CASE resolveRoute(h) \/ (resolveInputCommand /\ h = "loop")
      BY <3>4, RouteMoves, GoesAside
    <3>5. CASE Resumes(h)
      <4>1. armed.no \in 0 .. requests /\ 0 \in 0 .. requests
        BY RequestsCount DEF RouteTypesOK, ShotTypes
      <4>2. hand[h].pc \notin {"start", "clear"} /\ "steer" \in RoutePlaces \ {"start", "clear"}
        BY <3>5 DEF Resumes, RoutePlaces
      <4>3. HandRests(h) \/ \E r \in 0 .. requests : hand' = [hand EXCEPT ![h].pc = "steer", ![h].req = r]
        BY <3>5, <4>1 DEF Resumes
      <4> QED
        BY <4>2, <4>3, GoesAside
    <3>6. CASE SteersInput(h)
      <4>1. hand[h].pc \notin {"start", "clear"} /\ {"disarm", "choose"} \subseteq RoutePlaces \ {"start", "clear"}
        BY <3>6 DEF SteersInput, RoutePlaces
      <4>2. HandRests(h) \/ \E pc \in {"disarm", "choose"} : HandGoes(h, pc)
        BY <3>6 DEF SteersInput
      <4> QED
        BY <4>1, <4>2, GoesAside
    <3> QED
      BY <1>3, <3>1, <3>2, <3>3, <3>4, <3>5, <3>6
  <2> QED
    BY <2>1, <2>2, ModesStay
<1>4. CASE \E h \in Hands : Chooses(h) \/ InputStartsTurn(h) \/ TurnStarted(h)
  BY <1>4, ChooseModes, StartModes, ClearModes
<1>5. CASE armNewThreadPrompt \/ cancelPendingNewThreadPrompt \/ armSteer \/ Binds \/ Expires \/ TurnEnds
           \/ UNCHANGED routeVars
  BY <1>5, <1>1 DEF armNewThreadPrompt, cancelPendingNewThreadPrompt, armSteer, Binds, Expires,
                    TurnEnds, routeVars
<1>6. CASE stopThread \/ handleTurnOffPlanCallback
  BY <1>6, <1>2 DEF stopThread, handleTurnOffPlanCallback, Given
<1> QED
  BY <1>3, <1>4, <1>5, <1>6 DEF RouteNext, Hands

-----------------------------------------------------------------------------
(* New chats and armed steers.                                              *)

\* A step that no more has to do with a request than to let go of it.
LetsBe(r) ==
  /\ made'[r] = made[r] /\ used'[r] = used[r] /\ (r \in shared => r \in shared')
  /\ pending'.no = r => pending.no = r /\ pending'.stage = pending.stage
  /\ armed'.no = r => armed.no = r
  /\ \A g \in Hands : \A pc \in ShotPlaces : At(g, pc, r)' => At(g, pc, r)
  /\ \A g \in Hands : At(g, "disarm", r) => At(g, "disarm", r)' \/ armed'.no # r

LEMMA ShotStays ==
  ASSUME NEW r \in RouteRequests, ShotRight(r), LetsBe(r)
  PROVE  ShotRight(r)'
<1>1. /\ made'[r] = made[r] /\ used'[r] = used[r] /\ (r \in shared => r \in shared')
      /\ pending'.no = r => pending.no = r /\ pending'.stage = pending.stage
      /\ armed'.no = r => armed.no = r
      /\ \A g \in Hands : At(g, "disarm", r) => At(g, "disarm", r)' \/ armed'.no # r
  BY DEF LetsBe
<1>2. \A g \in Hands : /\ At(g, "title", r)' => At(g, "title", r)
                       /\ At(g, "drop", r)' => At(g, "drop", r)
                       /\ At(g, "make", r)' => At(g, "make", r)
                       /\ At(g, "create", r)' => At(g, "create", r)
                       /\ At(g, "steer", r)' => At(g, "steer", r)
                       /\ At(g, "disarm", r)' => At(g, "disarm", r)
  BY DEF LetsBe, ShotPlaces, ChatPlaces
<1>3. \A g \in Hands : (Makes(g, r)' => Makes(g, r)) /\ (Steers(g, r)' => Steers(g, r))
  BY <1>2 DEF Makes, Steers
<1>4. (OfChat(r)' => OfChat(r)) /\ (OfSteer(r)' => OfSteer(r))
  <2>1. \A g \in Hands : hand'[g].pc \in ChatPlaces /\ hand'[g].req = r =>
                            hand[g].pc \in ChatPlaces /\ hand[g].req = r
    BY <1>2 DEF At, ChatPlaces
  <2> QED
    BY <1>1, <1>3, <2>1 DEF OfChat, OfSteer
<1>5. "loop" \in Hands
  BY DEF Hands
<1>6. ChatOnce(r) => ChatOnce(r)'
  BY <1>1, <1>2, <1>3, <1>5 DEF ChatOnce
<1>7. SteerOnce(r) => SteerOnce(r)'
  BY <1>1, <1>2, <1>3 DEF SteerOnce
<1> QED
  BY <1>1, <1>4, <1>6, <1>7 DEF ShotRight

LEMMA RouteInitShots ==
  ASSUME RouteInit
  PROVE  RouteShots
<1>1. \A h \in Hands : hand[h].pc = "rests"
  <2>1. HandAtRest.pc = "rests"
    BY DEF HandAtRest
  <2> QED
    BY <2>1 DEF RouteInit
<1>2. pending.no = 0 /\ armed.no = 0
  BY DEF RouteInit, NoRequest, Unarmed
<1>3. \A r \in RouteRequests : made[r] = 0 /\ used[r] = 0 /\ r # 0
  BY DEF RouteInit, RouteRequests
<1>4. \A h \in Hands, r \in RouteRequests :
        /\ ~At(h, "title", r) /\ ~At(h, "make", r) /\ ~At(h, "create", r)
        /\ ~At(h, "steer", r) /\ ~At(h, "disarm", r) /\ hand[h].pc \notin ChatPlaces
  BY <1>1 DEF At, ChatPlaces
<1>5. \A r \in RouteRequests : ShotRight(r)
  BY <1>2, <1>3, <1>4 DEF ShotRight, OfChat, ChatOnce, SteerOnce, Makes, Steers
<1>6. hand["loop"].pc # "title"
  BY <1>1 DEF Hands
<1> QED
  BY <1>5, <1>6 DEF RouteShots, RouteTitles

\* A handler that stays, or goes where it has no request in its hands.
LetsGo(g) ==
  \/ hand'[g] = hand[g]
  \/ hand'[g].pc \notin ShotPlaces /\ (hand[g].pc = "disarm" => armed'.no = 0)

LEMMA ShotsStay ==
  ASSUME RouteShots, UNCHANGED <<made, used, shared>>,
         \/ pending' = pending
         \/ pending' = NoRequest
         \/ pending # NoRequest /\ pending'.no = pending.no /\ pending'.stage = pending.stage,
         armed'.no = armed.no \/ armed'.no = 0,
         \A g \in Hands : LetsGo(g)
  PROVE  RouteShots'
<1>1. \A r \in RouteRequests : r # 0 /\ NoRequest.no = 0
  BY DEF RouteRequests, NoRequest
<1>2. \A r \in RouteRequests : LetsBe(r)
  <2> TAKE r \in RouteRequests
  <2>1. \A g \in Hands : \A pc \in ShotPlaces : At(g, pc, r)' => At(g, pc, r)
    BY DEF LetsGo, At
  <2>2. \A g \in Hands : At(g, "disarm", r) => At(g, "disarm", r)' \/ armed'.no # r
    BY <1>1 DEF LetsGo, At
  <2> QED
    BY <1>1, <2>1, <2>2 DEF LetsBe
<1>3. \A r \in RouteRequests : ShotRight(r)'
  BY <1>2, ShotStays DEF RouteShots
<1>4. RouteTitles'
  <2>1. hand'["loop"].pc = "title" => hand'["loop"] = hand["loop"]
    BY DEF LetsGo, Hands, ShotPlaces, ChatPlaces
  <2> QED
    BY <2>1 DEF RouteShots, RouteTitles
<1> QED
  BY <1>3, <1>4 DEF RouteShots

LEMMA AskShots ==
  ASSUME RouteTypesOK, RouteShots, armNewThreadPrompt
  PROVE  RouteShots'
<1>1. PICK n : n = requests + 1
  OBVIOUS
<1>2. /\ UNCHANGED <<armed, made, used, shared, hand>> /\ pending'.no = n
      /\ hand["loop"].pc = "rests"
  <2>1. HandAtRest.pc = "rests"
    BY DEF HandAtRest
  <2> QED
    BY <1>1, <2>1 DEF armNewThreadPrompt, Given, Rests
<1>3. \A h \in Hands : hand[h].req \in Nat /\ hand[h].req <= requests
  BY HandFields DEF RouteTypesOK, HandTypes
<1>4. n \in Nat /\ (\A h \in Hands : hand[h].req # n) /\ armed.no # n
  <2>1. requests \in Nat /\ armed.no \in 0 .. requests
    BY RequestsCount DEF RouteTypesOK, ShotTypes
  <2> QED
    BY <1>1, <1>3, <2>1
<1>5. n \in RouteRequests => made[n] = 0 /\ used[n] = 0
  <2>1. requests \in Nat
    BY RequestsCount DEF RouteTypesOK
  <2> QED
    BY <1>1, <2>1 DEF RouteTypesOK, ShotTypes
<1>6. ASSUME NEW r \in RouteRequests, r # n
      PROVE  ShotRight(r)'
  <2>1. LetsBe(r)
    BY <1>2, <1>6 DEF LetsBe, At
  <2> QED
    BY <1>6, <2>1, ShotStays DEF RouteShots
<1>7. ASSUME n \in RouteRequests
      PROVE  ShotRight(n)'
  <2>1. \A h \in Hands, pc \in ShotPlaces : ~At(h, pc, n)'
    BY <1>2, <1>4 DEF At
  <2>2. \A h \in Hands : ~Steers(h, n)' /\ ~Makes(h, n)'
    BY <2>1 DEF Makes, Steers, ShotPlaces, ChatPlaces
  <2>3. ~OfSteer(n)'
    BY <1>2, <1>4, <1>5, <1>7, <2>2 DEF OfSteer
  <2>4. ChatOnce(n)' /\ SteerOnce(n)'
    BY <1>2, <1>4, <1>5, <1>7, <2>1, <2>2 DEF ChatOnce, SteerOnce, ShotPlaces, ChatPlaces
  <2> QED
    BY <2>3, <2>4 DEF ShotRight
<1>8. RouteTitles'
  BY <1>2 DEF RouteTitles
<1> QED
  BY <1>6, <1>7, <1>8 DEF RouteShots

LEMMA ArmShots ==
  ASSUME RouteTypesOK, RouteShots, armSteer
  PROVE  RouteShots'
<1>1. PICK n : n = requests + 1
  OBVIOUS
<1>2. UNCHANGED <<pending, made, used, shared, hand>> /\ armed'.no = n
  BY <1>1 DEF armSteer
<1>3. \A h \in Hands : hand[h].req \in Nat /\ hand[h].req <= requests
  BY HandFields DEF RouteTypesOK, HandTypes
<1>4. n \in Nat /\ (\A h \in Hands : hand[h].req # n) /\ pending.no # n
  <2>1. requests \in Nat /\ pending.no \in 0 .. requests
    BY RequestsCount DEF RouteTypesOK, ShotTypes
  <2> QED
    BY <1>1, <1>3, <2>1
<1>5. n \in RouteRequests => made[n] = 0 /\ used[n] = 0
  <2>1. requests \in Nat
    BY RequestsCount DEF RouteTypesOK
  <2> QED
    BY <1>1, <2>1 DEF RouteTypesOK, ShotTypes
<1>6. ASSUME NEW r \in RouteRequests, r # n
      PROVE  ShotRight(r)'
  <2>1. LetsBe(r)
    BY <1>2, <1>6 DEF LetsBe, At
  <2> QED
    BY <1>6, <2>1, ShotStays DEF RouteShots
<1>7. ASSUME n \in RouteRequests
      PROVE  ShotRight(n)'
  <2>1. \A h \in Hands, pc \in ShotPlaces : ~At(h, pc, n)'
    BY <1>2, <1>4 DEF At
  <2>2. \A h \in Hands : ~Steers(h, n)' /\ ~Makes(h, n)'
    BY <2>1 DEF Makes, Steers, ShotPlaces, ChatPlaces
  <2>3. ~OfChat(n)'
    BY <1>2, <1>4, <1>5, <1>7 DEF OfChat
  <2>4. ChatOnce(n)' /\ SteerOnce(n)'
    BY <1>2, <1>4, <1>5, <1>7, <2>1, <2>2 DEF ChatOnce, SteerOnce, ShotPlaces, ChatPlaces
  <2> QED
    BY <2>3, <2>4 DEF ShotRight
<1>8. RouteTitles'
  BY <1>2 DEF RouteShots, RouteTitles
<1> QED
  BY <1>6, <1>7, <1>8 DEF RouteShots

LEMMA ReadShots ==
  ASSUME RouteTypesOK, RouteShots, NEW h \in Hands, ReadsPending(h)
  PROVE  RouteShots'
<1>1. PICK o \in Hands : o = Other(h) /\ o # h /\ \A g \in Hands : g = h \/ g = o
  BY RouteFacts
<1>2. hand[h].pc = "rests" /\ UNCHANGED <<pending, armed, made, used>>
  <2>1. HandAtRest.pc = "rests"
    BY DEF HandAtRest
  <2> QED
    BY <2>1 DEF ReadsPending, Rests
<1>3. hand \in [Hands -> RouteHands] /\ pending.no \in 0 .. requests /\ (pending # NoRequest => pending.no # 0)
  BY DEF RouteTypesOK, HandTypes, ShotTypes
<1>4. CASE HandGoes(h, "route") /\ pending = NoRequest
  <2>1. HandMoves(h, "route", hand[h].thread, hand[h].mode, hand[h].req)
    BY <1>3, <1>4, MoveGoes DEF RoutePlaces
  <2>2. \A g \in Hands : LetsGo(g)
    BY <1>2, <2>1 DEF LetsGo, HandMoves, ShotPlaces, ChatPlaces
  <2>3. shared' = shared
    BY <1>4 DEF ReadsPending
  <2> QED
    BY <1>2, <2>2, <2>3, ShotsStay
<1>5. CASE UNCHANGED <<hand, shared>>
  BY <1>2, <1>5, ShotsStay DEF LetsGo
<1>6. ASSUME pending # NoRequest,
             NEW pc \in {"drop", "title", "make"}, pc = "title" => h = "loop",
             pc = "title" => pending.stage = "title", pc = "make" => pending.stage # "title",
             hand' = [hand EXCEPT ![h].pc = pc, ![h].req = pending.no],
             shared' = IF pc = "make" /\ At(o, "make", pending.no) THEN shared \cup {pending.no} ELSE shared
      PROVE  RouteShots'
  <2>1. PICK n \in RouteRequests : n = pending.no /\ n \in 0 .. MaxRequests
    BY <1>3, <1>6, RequestsCount DEF RouteRequests, RouteTypesOK
  <2>2. HandMoves(h, pc, hand[h].thread, hand[h].mode, n)
    BY <1>3, <1>6, <2>1, MoveTakes DEF RoutePlaces
  <2>3. /\ hand'[h].pc = pc /\ hand'[h].req = n /\ hand'[o] = hand[o]
    BY <1>1, <2>2 DEF HandMoves
  <2>4. ASSUME NEW r \in RouteRequests, r # n
        PROVE  ShotRight(r)'
    <3>1. LetsBe(r)
      BY <1>1, <1>2, <1>6, <2>3, <2>4 DEF LetsBe, At
    <3> QED
      BY <2>4, <3>1, ShotStays DEF RouteShots
  <2>5. ShotRight(n)'
    <3>1. ~OfSteer(n)
      BY <2>1 DEF RouteShots, ShotRight, OfChat
    <3>2. ~OfSteer(n)'
      BY <1>1, <1>2, <2>3, <3>1 DEF OfSteer, Steers, At
    <3>3. ASSUME n \notin shared'
          PROVE  ChatOnce(n)' /\ SteerOnce(n)'
      <4>1. n \notin shared /\ (pc = "make" => ~At(o, "make", n))
        BY <1>6, <2>1, <3>3
      <4>2. ChatOnce(n)
        BY <4>1 DEF RouteShots, ShotRight
      <4>3. SteerOnce(n)'
        <5>1. \A g \in Hands : ~Steers(g, n)' /\ ~At(g, "disarm", n)' /\ ~At(g, "steer", n)'
          BY <3>2 DEF OfSteer, Steers
        <5>2. used'[n] <= 1 /\ armed'.no # n
          BY <1>2, <3>1 DEF OfSteer, RouteTypesOK, ShotTypes
        <5> QED
          BY <5>1, <5>2 DEF SteerOnce
      <4>4. made'[n] = 0 /\ (\A g \in Hands : ~At(g, "create", n)')
        BY <1>1, <1>2, <1>6, <2>1, <2>3, <4>2 DEF ChatOnce, At
      <4>5. ~At(o, "create", n) /\ (At(o, "make", n) <=> At(o, "make", n)')
        BY <1>1, <2>1, <2>3, <4>2 DEF ChatOnce, At
      <4>6. pending'.no = n => (\A g \in Hands : At(g, "make", n)' => pending'.stage = "prompt")
        <5>1. pending.stage \in {"title", "prompt"}
          BY <1>6 DEF RouteTypesOK, ShotTypes
        <5> QED
          BY <1>1, <1>2, <1>6, <2>1, <2>3, <4>2, <4>5, <5>1 DEF ChatOnce, At
      <4>7. \A g \in Hands : At(g, "make", n)' => ~At("loop", "title", n)'
        <5>1. CASE pc = "make"
          <6>1. ~At("loop", "title", n)
            BY <1>6, <2>1, <5>1 DEF RouteShots, RouteTitles, At
          <6> QED
            BY <1>1, <2>3, <5>1, <6>1 DEF At, Hands
        <5>2. CASE pc = "title"
          <6>1. ~At(o, "make", n)
            BY <1>6, <2>1, <4>2, <5>2 DEF ChatOnce
          <6> QED
            BY <1>1, <2>3, <4>5, <5>2, <6>1 DEF At
        <5>3. CASE pc = "drop"
          BY <1>1, <2>3, <4>2, <4>5, <5>3 DEF ChatOnce, At, Hands
        <5> QED
          BY <1>6, <5>1, <5>2, <5>3
      <4>8. \A g, k \in Hands : Makes(g, n)' /\ Makes(k, n)' => g = k
        <5>1. ~(Makes(h, n)' /\ Makes(o, n)')
          BY <1>6, <2>3, <4>1, <4>5 DEF Makes, At
        <5> QED
          BY <1>1, <5>1
      <4> QED
        BY <4>3, <4>4, <4>6, <4>7, <4>8 DEF ChatOnce
    <3> QED
      BY <3>2, <3>3 DEF ShotRight
  <2>6. RouteTitles'
    BY <1>1, <1>2, <1>6, <2>1, <2>3 DEF RouteShots, RouteTitles, Hands
  <2> QED
    BY <2>4, <2>5, <2>6 DEF RouteShots
<1>7. \/ HandGoes(h, "route") /\ pending = NoRequest
      \/ UNCHANGED <<hand, shared>>
      \/ /\ pending # NoRequest
         /\ \E pc \in {"drop", "title", "make"} :
              /\ pc = "title" => h = "loop"
              /\ pc = "title" => pending.stage = "title"
              /\ pc = "make" => pending.stage # "title"
              /\ hand' = [hand EXCEPT ![h].pc = pc, ![h].req = pending.no]
              /\ shared' = IF pc = "make" /\ At(o, "make", pending.no)
                           THEN shared \cup {pending.no} ELSE shared
  <2>1. h = "loop" \/ h = "album"
    BY DEF Hands
  <2> QED
    BY <1>1, <2>1 DEF ReadsPending, Both, At
<1> QED
  BY <1>4, <1>5, <1>6, <1>7

LEMMA TitleShots ==
  ASSUME RouteTypesOK, RouteShots, NEW h \in Hands, Titles(h)
  PROVE  RouteShots'
<1>1. PICK o \in Hands : o = Other(h) /\ o # h /\ \A g \in Hands : g = h \/ g = o
  BY RouteFacts
<1>2. PICK n \in RouteRequests : n = hand[h].req
  <2>1. hand[h].req \in 0 .. MaxRequests /\ hand[h].req # 0
    BY HandFields DEF Titles, RouteTypesOK, HandTypes, WithRequest
  <2> QED
    BY <2>1, RouteAssumption DEF RouteRequests
<1>3. /\ UNCHANGED <<armed, made, used, shared>> /\ h = "loop" /\ hand[h].pc = "title"
      /\ pending' = pending \/ (pending'.no = n /\ pending'.stage = "prompt")
  BY <1>2 DEF Titles, RouteTypesOK, HandTypes
<1>4. hand'[h].pc = "rests" /\ hand'[o] = hand[o]
  <2>1. HandMoves(h, "rests", NoThread, "", 0)
    BY MoveRests DEF Titles, RouteTypesOK, HandTypes
  <2> QED
    BY <1>1, <2>1 DEF HandMoves
<1>5. At(h, "title", n)
  BY <1>2, <1>3 DEF At
<1>6. ASSUME NEW r \in RouteRequests, r # n
      PROVE  ShotRight(r)'
  <2>1. LetsBe(r)
    BY <1>1, <1>3, <1>4, <1>6 DEF LetsBe, At, ShotPlaces, ChatPlaces
  <2> QED
    BY <1>6, <2>1, ShotStays DEF RouteShots
<1>7. ShotRight(n)'
  <2>1. OfChat(n)
    BY <1>2, <1>3 DEF OfChat, ChatPlaces
  <2>2. ~OfSteer(n)'
    BY <1>1, <1>3, <1>4, <2>1 DEF RouteShots, ShotRight, OfSteer, Steers, At
  <2>3. ASSUME n \notin shared'
        PROVE  ChatOnce(n)' /\ SteerOnce(n)'
    <3>1. ChatOnce(n) /\ SteerOnce(n)
      BY <1>3, <2>3 DEF RouteShots, ShotRight
    <3>2. made[n] = 0 /\ ~At(o, "create", n) /\ ~At(o, "make", n)
      BY <1>3, <1>5, <3>1 DEF ChatOnce
    <3>3. \A g \in Hands : ~At(g, "create", n)' /\ ~At(g, "make", n)' /\ ~Makes(g, n)'
      BY <1>1, <1>4, <3>2 DEF At, Makes
    <3>4. ChatOnce(n)'
      BY <1>3, <3>2, <3>3 DEF ChatOnce
    <3>5. \A g \in Hands : ~Steers(g, n)' /\ ~At(g, "steer", n)'
      BY <2>2 DEF OfSteer, Steers
    <3> QED
      BY <1>3, <2>2, <3>1, <3>4, <3>5 DEF SteerOnce, OfSteer
  <2> QED
    BY <2>2, <2>3 DEF ShotRight
<1>8. RouteTitles'
  BY <1>3, <1>4 DEF RouteTitles
<1> QED
  BY <1>6, <1>7, <1>8 DEF RouteShots

LEMMA MakeShots ==
  ASSUME RouteTypesOK, RouteShots, NEW h \in Hands, MakesChat(h)
  PROVE  RouteShots'
<1>1. PICK o \in Hands : o = Other(h) /\ o # h /\ \A g \in Hands : g = h \/ g = o
  BY RouteFacts
<1>2. PICK n \in RouteRequests : n = hand[h].req
  <2>1. hand[h].req \in 0 .. MaxRequests /\ hand[h].req # 0
    BY HandFields DEF MakesChat, RouteTypesOK, HandTypes, WithRequest
  <2> QED
    BY <2>1, RouteAssumption DEF RouteRequests
<1>3. /\ UNCHANGED <<armed, made, used, shared>> /\ hand[h].pc = "make"
      /\ pending' = NoRequest /\ pending'.no # n
  BY <1>2 DEF MakesChat, Deleted, NoRequest, RouteRequests
<1>4. hand'[h].pc = "create" /\ hand'[h].req = n /\ hand'[o] = hand[o]
  <2>1. HandMoves(h, "create", hand[h].thread, hand[h].mode, hand[h].req)
    BY MoveGoes DEF MakesChat, RouteTypesOK, HandTypes, RoutePlaces
  <2> QED
    BY <1>1, <1>2, <2>1 DEF HandMoves
<1>5. At(h, "make", n)
  BY <1>2, <1>3 DEF At
<1>6. ASSUME NEW r \in RouteRequests, r # n
      PROVE  ShotRight(r)'
  <2>0. pending'.no # r
    BY <1>3 DEF NoRequest, RouteRequests
  <2>1. LetsBe(r)
    BY <1>1, <1>3, <1>4, <1>6, <2>0 DEF LetsBe, At, ShotPlaces, ChatPlaces
  <2> QED
    BY <1>6, <2>1, ShotStays DEF RouteShots
<1>7. ShotRight(n)'
  <2>1. OfChat(n)
    BY <1>2, <1>3 DEF OfChat, ChatPlaces
  <2>2. ~OfSteer(n)'
    BY <1>1, <1>3, <1>4, <2>1 DEF RouteShots, ShotRight, OfSteer, Steers, At
  <2>3. ASSUME n \notin shared'
        PROVE  ChatOnce(n)' /\ SteerOnce(n)'
    <3>1. ChatOnce(n) /\ SteerOnce(n)
      BY <1>3, <2>3 DEF RouteShots, ShotRight
    <3>2. made[n] = 0 /\ ~At("loop", "title", n) /\ ~Makes(o, n)
      BY <1>1, <1>5, <3>1 DEF ChatOnce, Makes
    <3>3. ~At(o, "title", n)
      BY <1>1, <3>2 DEF RouteTypesOK, HandTypes, At
    <3>4. \A g \in Hands : ~At(g, "title", n)' /\ ~At(g, "make", n)'
      BY <1>1, <1>4, <3>2, <3>3 DEF At, Makes
    <3>5. ~Makes(o, n)'
      BY <1>4, <3>2 DEF At, Makes
    <3>6. ChatOnce(n)'
      BY <1>1, <1>3, <3>2, <3>4, <3>5 DEF ChatOnce
    <3>7. \A g \in Hands : ~Steers(g, n)' /\ ~At(g, "steer", n)'
      BY <2>2 DEF OfSteer, Steers
    <3> QED
      BY <1>3, <2>2, <3>1, <3>6, <3>7 DEF SteerOnce, OfSteer
  <2> QED
    BY <2>2, <2>3 DEF ShotRight
<1>8. RouteTitles'
  BY <1>3 DEF RouteTitles
<1> QED
  BY <1>6, <1>7, <1>8 DEF RouteShots

LEMMA CreateShots ==
  ASSUME RouteTypesOK, RouteShots, NEW h \in Hands, Creates(h)
  PROVE  RouteShots'
<1>1. PICK o \in Hands : o = Other(h) /\ o # h /\ \A g \in Hands : g = h \/ g = o
  BY RouteFacts
<1>2. PICK n \in RouteRequests : n = hand[h].req
  <2>1. hand[h].req \in 0 .. MaxRequests /\ hand[h].req # 0
    BY HandFields DEF Creates, RouteTypesOK, HandTypes, WithRequest
  <2> QED
    BY <2>1, RouteAssumption DEF RouteRequests
<1>3. /\ UNCHANGED <<pending, armed, used, shared>> /\ hand[h].pc = "create"
      /\ made'[n] \in {made[n], made[n] + 1}
      /\ \A r \in RouteRequests : r # n => made'[r] = made[r]
  BY <1>2 DEF Creates, RouteTypesOK, ShotTypes
<1>4. hand'[h].pc = "rests" /\ hand'[o] = hand[o]
  <2>1. HandMoves(h, "rests", NoThread, "", 0)
    BY MoveRests DEF Creates, RouteTypesOK, HandTypes
  <2> QED
    BY <1>1, <2>1 DEF HandMoves
<1>5. At(h, "create", n)
  BY <1>2, <1>3 DEF At
<1>6. ASSUME NEW r \in RouteRequests, r # n
      PROVE  ShotRight(r)'
  <2>1. LetsBe(r)
    BY <1>1, <1>3, <1>4, <1>6 DEF LetsBe, At, ShotPlaces, ChatPlaces
  <2> QED
    BY <1>6, <2>1, ShotStays DEF RouteShots
<1>7. ShotRight(n)'
  <2>1. OfChat(n)
    BY <1>2, <1>3 DEF OfChat, ChatPlaces
  <2>2. ~OfSteer(n)'
    BY <1>1, <1>3, <1>4, <2>1 DEF RouteShots, ShotRight, OfSteer, Steers, At
  <2>3. ASSUME n \notin shared'
        PROVE  ChatOnce(n)' /\ SteerOnce(n)'
    <3>1. ChatOnce(n) /\ SteerOnce(n)
      BY <1>3, <2>3 DEF RouteShots, ShotRight
    <3>2. made'[n] <= 1 /\ pending.no # n /\ ~At(o, "title", n) /\ ~Makes(o, n)
      BY <1>1, <1>3, <1>5, <3>1 DEF ChatOnce, Makes
    <3>3. \A g \in Hands : ~At(g, "title", n)' /\ ~At(g, "make", n)' /\ ~At(g, "create", n)' /\ ~Makes(g, n)'
      BY <1>1, <1>4, <3>2 DEF At, Makes
    <3>4. ChatOnce(n)'
      BY <1>3, <3>2, <3>3 DEF ChatOnce
    <3>5. \A g \in Hands : ~Steers(g, n)' /\ ~At(g, "steer", n)'
      BY <2>2 DEF OfSteer, Steers
    <3> QED
      BY <1>3, <2>2, <3>1, <3>4, <3>5 DEF SteerOnce, OfSteer
  <2> QED
    BY <2>2, <2>3 DEF ShotRight
<1>8. RouteTitles'
  BY <1>1, <1>3, <1>4 DEF RouteShots, RouteTitles, Hands
<1> QED
  BY <1>6, <1>7, <1>8 DEF RouteShots

LEMMA ResumeShots ==
  ASSUME RouteTypesOK, RouteShots, NEW h \in Hands, Resumes(h)
  PROVE  RouteShots'
<1>1. PICK o \in Hands : o = Other(h) /\ o # h /\ \A g \in Hands : g = h \/ g = o
  BY RouteFacts
<1>2. hand[h].pc = "read" /\ UNCHANGED <<pending, made, used>>
  BY DEF Resumes
<1>3. /\ hand \in [Hands -> RouteHands] /\ armed.no \in 0 .. requests /\ 0 \in 0 .. requests
      /\ armed.fresh => armed.no # 0
  BY RequestsCount DEF RouteTypesOK, HandTypes, ShotTypes, Unarmed
<1>4. CASE HandRests(h) /\ UNCHANGED <<armed, shared>>
  <2>1. HandMoves(h, "rests", NoThread, "", 0)
    BY <1>3, <1>4, MoveRests
  <2>2. \A g \in Hands : LetsGo(g)
    BY <1>2, <2>1 DEF LetsGo, HandMoves, ShotPlaces, ChatPlaces
  <2> QED
    BY <1>2, <1>4, <2>2, ShotsStay
<1>5. ASSUME NEW n \in 0 .. requests,
             hand' = [hand EXCEPT ![h].pc = "steer", ![h].req = n],
             armed' = Cleared,
             \/ n = 0 /\ shared' = shared
             \/ /\ n # 0 /\ n = armed.no /\ armed' = armed
                /\ shared' = IF Steers(o, n) THEN shared \cup {n} ELSE shared
      PROVE  RouteShots'
  <2>1. n \in 0 .. MaxRequests /\ (n # 0 => n \in RouteRequests)
    BY RequestsCount, RouteAssumption DEF RouteRequests, RouteTypesOK
  <2>2. HandMoves(h, "steer", hand[h].thread, hand[h].mode, n)
    BY <1>3, <1>5, <2>1, MoveTakes DEF RoutePlaces
  <2>3. hand'[h].pc = "steer" /\ hand'[h].req = n /\ hand'[o] = hand[o]
    BY <1>1, <2>2 DEF HandMoves
  <2>4. armed' = armed \/ armed'.no = 0
    BY <1>5 DEF Cleared, Unarmed
  <2>5. ASSUME NEW r \in RouteRequests, r # n
        PROVE  ShotRight(r)'
    <3>1. r # 0
      BY DEF RouteRequests
    <3>2. LetsBe(r)
      BY <1>1, <1>2, <1>5, <2>3, <2>4, <2>5, <3>1 DEF LetsBe, At
    <3> QED
      BY <2>5, <3>2, ShotStays DEF RouteShots
  <2>6. ASSUME n # 0
        PROVE  ShotRight(n)'
    <3>1. OfSteer(n) /\ armed' = armed
      BY <1>5, <2>6 DEF OfSteer
    <3>2. ~OfChat(n)
      BY <2>1, <2>6, <3>1 DEF RouteShots, ShotRight
    <3>3. ~OfChat(n)'
      BY <1>1, <1>2, <2>3, <3>2 DEF OfChat, ChatPlaces
    <3>4. ASSUME n \notin shared'
          PROVE  ChatOnce(n)' /\ SteerOnce(n)'
      <4>1. n \notin shared /\ ~Steers(o, n)
        BY <1>5, <2>6, <3>4
      <4>2. ChatOnce(n) /\ SteerOnce(n)
        BY <2>1, <2>6, <4>1 DEF RouteShots, ShotRight
      <4>3. ~At(o, "disarm", n) /\ ~At(h, "disarm", n)
        BY <1>2, <4>1 DEF Steers, At
      <4>4. used[n] = 0
        BY <1>1, <1>5, <2>6, <4>2, <4>3 DEF SteerOnce
      <4>5. ~Steers(o, n)'
        BY <2>3, <4>1 DEF Steers, At
      <4>6. SteerOnce(n)'
        BY <1>1, <1>2, <4>4, <4>5 DEF SteerOnce
      <4>7. \A g \in Hands : /\ ~At(g, "title", n)' /\ ~At(g, "make", n)'
                             /\ ~At(g, "create", n)' /\ ~Makes(g, n)'
        BY <3>3 DEF OfChat, ChatPlaces, At, Makes
      <4> QED
        BY <1>2, <3>3, <4>2, <4>6, <4>7 DEF ChatOnce, OfChat
    <3> QED
      BY <3>3, <3>4 DEF ShotRight
  <2>7. RouteTitles'
    BY <1>1, <1>2, <2>3 DEF RouteShots, RouteTitles, Hands
  <2>8. \A r \in RouteRequests : ShotRight(r)'
    <3>1. \A r \in RouteRequests : r # 0
      BY DEF RouteRequests
    <3> QED
      BY <2>5, <2>6, <3>1
  <2> QED
    BY <2>7, <2>8 DEF RouteShots
<1>6. \/ HandRests(h) /\ UNCHANGED <<armed, shared>>
      \/ /\ armed' = Cleared /\ hand' = [hand EXCEPT ![h].pc = "steer", ![h].req = 0]
         /\ shared' = shared
      \/ /\ armed' = Cleared /\ armed' = armed /\ armed.no # 0
         /\ hand' = [hand EXCEPT ![h].pc = "steer", ![h].req = armed.no]
         /\ shared' = IF Steers(o, armed.no) THEN shared \cup {armed.no} ELSE shared
  BY <1>1, <1>3 DEF Resumes, Cleared, Both, Steers, At
<1> QED
  BY <1>3, <1>4, <1>5, <1>6

LEMMA SteerShots ==
  ASSUME RouteTypesOK, RouteShots, NEW h \in Hands, hand[h].pc = "steer", hand[h].req # 0,
         used' = [used EXCEPT ![hand[h].req] = @ + 1], HandGoes(h, "disarm"),
         UNCHANGED <<pending, armed, made, shared>>
  PROVE  RouteShots'
<1>1. PICK o \in Hands : o = Other(h) /\ o # h /\ \A g \in Hands : g = h \/ g = o
  BY RouteFacts
<1>2. PICK n \in RouteRequests : n = hand[h].req
  <2>1. hand[h].req \in 0 .. MaxRequests /\ hand[h].req # 0
    BY HandFields DEF RouteTypesOK, HandTypes
  <2> QED
    BY <2>1, RouteAssumption DEF RouteRequests
<1>3. used'[n] = used[n] + 1 /\ \A r \in RouteRequests : r # n => used'[r] = used[r]
  BY <1>2 DEF RouteTypesOK, ShotTypes
<1>4. hand'[h].pc = "disarm" /\ hand'[h].req = n /\ hand'[o] = hand[o]
  <2>1. HandMoves(h, "disarm", hand[h].thread, hand[h].mode, hand[h].req)
    BY MoveGoes DEF RouteTypesOK, HandTypes, RoutePlaces
  <2> QED
    BY <1>1, <1>2, <2>1 DEF HandMoves
<1>5. At(h, "steer", n) /\ Steers(h, n)
  BY <1>2 DEF At, Steers
<1>6. ASSUME NEW r \in RouteRequests, r # n
      PROVE  ShotRight(r)'
  <2>1. LetsBe(r)
    BY <1>1, <1>3, <1>4, <1>6 DEF LetsBe, At
  <2> QED
    BY <1>6, <2>1, ShotStays DEF RouteShots
<1>7. ShotRight(n)'
  <2>1. ~OfChat(n)
    BY <1>5 DEF RouteShots, ShotRight, OfSteer
  <2>2. ~OfChat(n)'
    BY <1>1, <1>4, <2>1 DEF OfChat, ChatPlaces
  <2>3. ASSUME n \notin shared'
        PROVE  ChatOnce(n)' /\ SteerOnce(n)'
    <3>1. ChatOnce(n) /\ SteerOnce(n)
      BY <2>3 DEF RouteShots, ShotRight
    <3>2. used'[n] <= 1 /\ ~Steers(o, n)
      BY <1>1, <1>3, <1>5, <3>1 DEF SteerOnce
    <3>3. ~Steers(o, n)' /\ ~At(o, "steer", n)' /\ ~At(h, "steer", n)' /\ At(h, "disarm", n)'
      BY <1>4, <3>2 DEF Steers, At
    <3>4. SteerOnce(n)'
      BY <1>1, <3>2, <3>3 DEF SteerOnce
    <3>5. \A g \in Hands : /\ ~At(g, "title", n)' /\ ~At(g, "make", n)'
                           /\ ~At(g, "create", n)' /\ ~Makes(g, n)'
      BY <2>2 DEF OfChat, ChatPlaces, At, Makes
    <3> QED
      BY <2>2, <3>1, <3>4, <3>5 DEF ChatOnce, OfChat
  <2> QED
    BY <2>2, <2>3 DEF ShotRight
<1>8. RouteTitles'
  BY <1>1, <1>4 DEF RouteShots, RouteTitles, Hands
<1> QED
  BY <1>6, <1>7, <1>8 DEF RouteShots

\* A handler that goes where it has no request in its hands.
LEMMA GoLets ==
  ASSUME RouteTypesOK, NEW h \in Hands, hand[h].pc = "disarm" => armed'.no = 0,
         \/ HandRests(h)
         \/ Sent(h)
         \/ \E pc \in RoutePlaces \ ShotPlaces : HandGoes(h, pc)
         \/ \E m \in {"", "plan", "default"} : hand' = [hand EXCEPT ![h].pc = "start", ![h].mode = m]
  PROVE  \A g \in Hands : LetsGo(g)
<1>h. hand \in [Hands -> RouteHands]
  BY DEF RouteTypesOK, HandTypes
<1>1. CASE HandRests(h)
  <2>1. HandMoves(h, "rests", NoThread, "", 0)
    BY <1>h, <1>1, MoveRests
  <2> QED
    BY <2>1 DEF LetsGo, HandMoves, ShotPlaces, ChatPlaces
<1>2. CASE Sent(h)
  BY <1>h, <1>2, SentMoves DEF LetsGo, ShotPlaces, ChatPlaces
<1>3. ASSUME NEW pc \in RoutePlaces \ ShotPlaces, HandGoes(h, pc)
      PROVE  \A g \in Hands : LetsGo(g)
  <2>1. HandMoves(h, pc, hand[h].thread, hand[h].mode, hand[h].req)
    BY <1>h, <1>3, MoveGoes
  <2> QED
    BY <2>1 DEF LetsGo, HandMoves
<1>4. ASSUME NEW m \in {"", "plan", "default"}, hand' = [hand EXCEPT ![h].pc = "start", ![h].mode = m]
      PROVE  \A g \in Hands : LetsGo(g)
  <2>1. HandMoves(h, "start", hand[h].thread, m, hand[h].req)
    BY <1>h, <1>4, MoveChooses
  <2> QED
    BY <2>1 DEF LetsGo, HandMoves, ShotPlaces, ChatPlaces
<1> QED
  BY <1>1, <1>2, <1>3, <1>4

LEMMA RouteShotsStep ==
  ASSUME RouteTypesOK, RouteShots, [RouteNext]_routeVars
  PROVE  RouteShots'
<1>1. CASE armNewThreadPrompt \/ armSteer
  BY <1>1, AskShots, ArmShots
<1>2. CASE cancelPendingNewThreadPrompt \/ Binds \/ stopThread \/ handleTurnOffPlanCallback \/ TurnEnds
           \/ UNCHANGED routeVars
  <2>1. /\ UNCHANGED <<made, used, shared, armed, hand>>
        /\ pending' = pending \/ pending' = NoRequest
    BY <1>2 DEF cancelPendingNewThreadPrompt, Binds, stopThread, handleTurnOffPlanCallback, TurnEnds,
                oneShots, routeVars
  <2>2. \A g \in Hands : LetsGo(g)
    BY <2>1 DEF LetsGo
  <2> QED
    BY <2>1, <2>2, ShotsStay
<1>3. CASE Expires
  <2>1. \A g \in Hands : LetsGo(g)
    BY <1>3 DEF Expires, LetsGo
  <2>2. /\ UNCHANGED <<made, used, shared>>
        /\ \/ pending' = pending
           \/ pending # NoRequest /\ pending'.no = pending.no /\ pending'.stage = pending.stage
    BY <1>3 DEF Expires, RouteTypesOK, ShotTypes, NoRequest
  <2>3. armed'.no = armed.no
    BY <1>3 DEF Expires, RouteTypesOK, ShotTypes
  <2> QED
    BY <2>1, <2>2, <2>3, ShotsStay
<1>4. ASSUME NEW h \in Hands, ReadsPending(h) \/ Titles(h) \/ MakesChat(h) \/ Creates(h) \/ Resumes(h)
      PROVE  RouteShots'
  BY <1>4, ReadShots, TitleShots, MakeShots, CreateShots, ResumeShots
<1>5. ASSUME NEW h \in Hands, SteersInput(h)
      PROVE  RouteShots'
  <2>1. hand[h].pc = "steer" /\ UNCHANGED <<pending, armed, made, shared>>
    BY <1>5 DEF SteersInput
  <2>2. CASE used' = used /\ (HandRests(h) \/ HandGoes(h, "choose"))
    <3>1. "choose" \in RoutePlaces \ ShotPlaces
      BY DEF RoutePlaces, ShotPlaces, ChatPlaces
    <3>2. \A g \in Hands : LetsGo(g)
      BY <2>1, <2>2, <3>1, GoLets
    <3> QED
      BY <2>1, <2>2, <3>2, ShotsStay
  <2>3. CASE hand[h].req # 0 /\ used' = [used EXCEPT ![hand[h].req] = @ + 1] /\ HandGoes(h, "disarm")
    BY <2>1, <2>3, SteerShots
  <2> QED
    BY <1>5, <2>2, <2>3 DEF SteersInput
<1>6. ASSUME NEW h \in Hands,
             \/ Drops(h) \/ Disarms(h) \/ Chooses(h) \/ InputStartsTurn(h) \/ TurnStarted(h)
      PROVE  RouteShots'
  <2>1. /\ UNCHANGED <<made, used, shared>>
        /\ pending' = pending \/ pending' = NoRequest
        /\ armed'.no = armed.no \/ armed'.no = 0
        /\ hand[h].pc = "disarm" => armed'.no = 0
    <3>1. Unarmed.no = 0
      BY DEF Unarmed
    <3> QED
      BY <1>6, <3>1 DEF Drops, Disarms, Chooses, InputStartsTurn, TurnStarted, Disarmed, oneShots
  <2>2. \/ HandRests(h) \/ HandGoes(h, "clear")
        \/ \E m \in {"", "plan", "default"} : hand' = [hand EXCEPT ![h].pc = "start", ![h].mode = m]
    <3>1. hand[h].mode \in {"", "plan", "default"}
      BY HandFields DEF RouteTypesOK, HandTypes
    <3> QED
      BY <1>6, <3>1 DEF Drops, Disarms, Chooses, InputStartsTurn, TurnStarted
  <2>3. "clear" \in RoutePlaces \ ShotPlaces
    BY DEF RoutePlaces, ShotPlaces, ChatPlaces
  <2>4. \A g \in Hands : LetsGo(g)
    BY <2>1, <2>2, <2>3, GoLets
  <2> QED
    BY <2>1, <2>4, ShotsStay
<1>7. ASSUME NEW h \in Hands, resolveRoute(h) \/ (resolveInputCommand /\ h = "loop")
      PROVE  RouteShots'
  <2>1. /\ UNCHANGED <<made, used, shared, pending>>
        /\ armed'.no = armed.no \/ armed'.no = 0
    <3>1. UNCHANGED <<made, used, shared, pending>>
      BY <1>7 DEF resolveRoute, resolveInputCommand
    <3>2. armed' = armed \/ armed' = Cleared
      BY <1>7 DEF resolveRoute, resolveInputCommand
    <3>3. Unarmed.no = 0
      BY DEF Unarmed
    <3> QED
      BY <3>1, <3>2, <3>3 DEF Cleared
  <2>2. hand[h].pc # "disarm" /\ (HandRests(h) \/ Sent(h))
    BY <1>7, RouteMoves
  <2>3. \A g \in Hands : LetsGo(g)
    BY <2>2, GoLets
  <2> QED
    BY <2>1, <2>3, ShotsStay
<1> QED
  BY <1>1, <1>2, <1>3, <1>4, <1>5, <1>6, <1>7 DEF RouteNext, Hands

-----------------------------------------------------------------------------
(* Where inputs go.                                                         *)

RouteIInv == RouteTypesOK /\ RouteShots /\ RouteModes

LEMMA RouteIInvSuffices ==
  ASSUME RouteIInv
  PROVE  InputsAreRouted
<1>1. OneShotsAreUsedOnce
  <2>1. ASSUME NEW r \in RouteRequests, r \notin shared
        PROVE  made[r] + used[r] <= 1
    <3>1. made[r] \in Nat /\ used[r] \in Nat /\ made[r] <= 1 /\ used[r] <= 1
      BY <2>1 DEF RouteIInv, RouteTypesOK, ShotTypes, RouteShots, ShotRight, ChatOnce, SteerOnce
    <3>2. ~(made[r] > 0 /\ used[r] > 0)
      BY DEF RouteIInv, RouteShots, ShotRight, OfChat, OfSteer
    <3> QED
      BY <3>1, <3>2
  <2> QED
    BY <2>1 DEF OneShotsAreUsedOnce, RouteRequests
<1>2. ResetIsHonoured
  BY DEF RouteIInv, RouteModes, ResetIsHonoured
<1>3. PlanCanBeLeft
  BY DEF RouteIInv, RouteModes, PlanCanBeLeft, Leavable, Clears
<1> QED
  BY <1>1, <1>2, <1>3 DEF InputsAreRouted

\* Whatever is retitled, cancelled, asked again or outdated in between, a new chat is
\* made once and an armed steer used once, no ordinary turn begins in Plan Mode after it
\* was left, and Plan Mode can always be left (InputsAreRouted).
THEOREM InputsGoRight == RouteSpec => []InputsAreRouted
<1>1. RouteInit => RouteIInv
  BY RouteInitTypes, RouteInitShots, RouteInitModes DEF RouteIInv
<1>2. RouteIInv /\ [RouteNext]_routeVars => RouteIInv'
  BY RouteTypesStep, RouteShotsStep, RouteModesStep DEF RouteIInv
<1>3. RouteIInv => InputsAreRouted
  BY RouteIInvSuffices
<1> QED
  BY <1>1, <1>2, <1>3, PTL DEF RouteSpec

-----------------------------------------------------------------------------
(* TelegramBot: any updates, albums and lives.                              *)

BotHands == [messages : Seq(UpdateIds), todo : Seq(UpdateIds)]
BotAlbums == [generation : Nat, messages : Seq(UpdateIds)]

BotShape ==
  /\ chat \in Chats /\ arrived \in 0 .. Len(chat) /\ lives \in 1 .. MaxLives
  /\ confirmed \in 1 .. Len(chat) + 1 /\ offset \in 0 .. Len(chat) + 1
  /\ batch \in Seq(UpdateIds)
  /\ groups \in [Albums -> BotAlbums]
  /\ flushes \subseteq Albums \X (1 .. Len(chat))
  /\ handler \in [Handlers -> BotHands]
  /\ photos \subseteq UpdateIds /\ taken \subseteq UpdateIds
  /\ served \in [UpdateIds -> Nat]

\* What was looked at is below the offset, and what is to come is not.
BotOrder ==
  /\ \A i, j \in DOMAIN batch : i < j => batch[i] < batch[j]
  /\ \A i \in DOMAIN batch : offset <= batch[i]
  /\ \A u \in taken : u < offset

\* An album counts its parts, which came in order, and the timer of the last
\* part is to fire.
AlbumRight(g) ==
  /\ groups[g].generation = Len(groups[g].messages)
  /\ \A i \in DOMAIN groups[g].messages :
       /\ i <= groups[g].messages[i]
       /\ chat[groups[g].messages[i]].kind = "album"
       /\ chat[groups[g].messages[i]].group = g
  /\ groups[g].messages # <<>> => <<g, groups[g].generation>> \in flushes

BotAlbumsRight == \A g \in Albums : AlbumRight(g)

Parts(g) == ToSet(groups[g].messages)
Batch(h) == ToSet(handler[h].messages)

\* An update has one place.
BotOwners ==
  /\ taken = over \cup Pending \cup AtHand
  /\ over \cap Pending = {} /\ over \cap AtHand = {} /\ Pending \cap AtHand = {}
  /\ Batch("loop") \cap Batch("timer") = {}
  /\ \A h \in Handlers : ToSet(handler[h].todo) \subseteq Batch(h)

\* The service got only what needs nothing more, and that once.
BotCounts == \A u \in UpdateIds : served[u] = 0 \/ (served[u] = 1 /\ u \in over)

BotFiles ==
  /\ photos \subseteq retained \cup AtHand
  /\ retained \subseteq photos /\ retained \subseteq over

BotIInv == BotShape /\ BotOrder /\ BotAlbumsRight /\ BotOwners /\ BotCounts /\ BotFiles

-----------------------------------------------------------------------------
\* Sequences and what is in them.
LEMMA ElementsOf ==
  ASSUME NEW S, NEW s \in Seq(S)
  PROVE  /\ ToSet(s) \subseteq S
         /\ \A i \in DOMAIN s : s[i] \in ToSet(s)
         /\ \A u \in ToSet(s) : \E i \in DOMAIN s : u = s[i]
BY DEF ToSet

LEMMA ElementsOfFew ==
  ASSUME NEW u
  PROVE  ToSet(<<>>) = {} /\ ToSet(<<u>>) = {u}
<1>1. ToSet(<<>>) = {}
  BY DEF ToSet
<1>2. DOMAIN <<u>> = {1} /\ <<u>>[1] = u
  OBVIOUS
<1> QED BY <1>1, <1>2 DEF ToSet

LEMMA ElementsOfMore ==
  ASSUME NEW S, NEW s \in Seq(S), NEW u \in S
  PROVE  /\ ToSet(Append(s, u)) = ToSet(s) \cup {u}
         /\ Append(s, u) \in Seq(S) /\ Append(s, u) # <<>>
         /\ Len(Append(s, u)) = Len(s) + 1 /\ Len(s) \in Nat
         /\ DOMAIN s = 1 .. Len(s) /\ DOMAIN Append(s, u) = 1 .. Len(s) + 1
         /\ \A i \in DOMAIN s : Append(s, u)[i] = s[i]
         /\ Append(s, u)[Len(s) + 1] = u
<1>1. /\ Append(s, u) \in Seq(S) /\ Append(s, u) # <<>>
      /\ Len(Append(s, u)) = Len(s) + 1 /\ Len(s) \in Nat
      /\ DOMAIN s = 1 .. Len(s) /\ DOMAIN Append(s, u) = 1 .. Len(s) + 1
      /\ \A i \in DOMAIN s : Append(s, u)[i] = s[i]
      /\ Append(s, u)[Len(s) + 1] = u
  OBVIOUS
<1>2. 1 .. Len(s) + 1 = (1 .. Len(s)) \cup {Len(s) + 1}
  BY <1>1
<1> QED BY <1>1, <1>2 DEF ToSet

LEMMA ElementsOfRest ==
  ASSUME NEW S, NEW s \in Seq(S), s # <<>>
  PROVE  /\ Head(s) \in ToSet(s) /\ Head(s) \in S
         /\ Tail(s) \in Seq(S) /\ ToSet(Tail(s)) \subseteq ToSet(s)
         /\ Len(s) \in Nat \ {0} /\ DOMAIN s = 1 .. Len(s) /\ Head(s) = s[1]
         /\ DOMAIN Tail(s) = 1 .. Len(s) - 1
         /\ \A i \in DOMAIN Tail(s) : i + 1 \in DOMAIN s /\ Tail(s)[i] = s[i + 1]
<1>1. /\ Tail(s) \in Seq(S)
      /\ Len(s) \in Nat \ {0} /\ DOMAIN s = 1 .. Len(s) /\ Head(s) = s[1]
      /\ DOMAIN Tail(s) = 1 .. Len(s) - 1
      /\ \A i \in DOMAIN Tail(s) : i + 1 \in DOMAIN s /\ Tail(s)[i] = s[i + 1]
  OBVIOUS
<1> QED BY <1>1 DEF ToSet

LEMMA SortedKeeps ==
  ASSUME NEW S, NEW s \in Seq(S), NEW x \in Sorted(s)
  PROVE  x \in Seq(S) /\ ToSet(x) = ToSet(s)
<1>1. DOMAIN s = 1 .. Len(s) /\ Len(s) \in Nat /\ ToSet(s) \subseteq S
  BY ElementsOf
<1>2. x \in [1 .. Len(s) -> S] /\ ToSet(x) = ToSet(s)
  BY <1>1 DEF Sorted
<1> QED BY <1>1, <1>2

LEMMA ChatFacts ==
  ASSUME chat \in Chats
  PROVE  Len(chat) \in Nat /\ UpdateIds = 1 .. Len(chat) /\ UpdateIds \subseteq Nat
<1>1. chat \in Seq([kind : Kinds, group : STRING, msg : Nat])
  BY BotAssumption
<1> QED BY <1>1 DEF UpdateIds

LEMMA BotInvInit == BotInit => BotIInv
<1> SUFFICES ASSUME BotInit PROVE BotIInv
  OBVIOUS
<1> USE DEF BotInit
<1>1. Len(chat) \in Nat /\ UpdateIds = 1 .. Len(chat)
  BY ChatFacts
<1>2. NoGroup \in BotAlbums /\ NoMessages \in BotHands
  BY DEF NoGroup, NoMessages, BotAlbums, BotHands
<1>3. BotShape
  BY <1>1, <1>2, BotAssumption DEF BotShape
<1>4. \A g \in Albums : groups[g].messages = <<>> /\ groups[g].generation = 0 /\ Parts(g) = {}
  BY ElementsOfFew DEF NoGroup, Parts
<1>5. \A h \in Handlers : Batch(h) = {} /\ ToSet(handler[h].todo) = {}
  BY ElementsOfFew DEF NoMessages, Batch
<1>6. Pending = {} /\ AtHand = {}
  BY <1>4, <1>5 DEF Pending, AtHand, Parts, Batch
<1>7. BotAlbumsRight
  BY <1>4 DEF BotAlbumsRight, AlbumRight
<1>8. BotOwners
  BY <1>5, <1>6 DEF BotOwners, Handlers
<1>9. BotOrder /\ BotCounts /\ BotFiles
  BY DEF BotOrder, BotCounts, BotFiles
<1> QED BY <1>3, <1>7, <1>8, <1>9 DEF BotIInv

-----------------------------------------------------------------------------
\* What stays when something else changes.
LEMMA ChatStays ==
  ASSUME chat' = chat
  PROVE  /\ UpdateIds' = UpdateIds /\ Albums' = Albums
         /\ BotHands' = BotHands /\ BotAlbums' = BotAlbums
BY DEF UpdateIds, Albums, BotHands, BotAlbums

LEMMA AlbumsStay ==
  ASSUME BotAlbumsRight, UNCHANGED <<chat, groups, flushes>>
  PROVE  BotAlbumsRight' /\ Pending' = Pending
BY ChatStays DEF BotAlbumsRight, AlbumRight, Pending

LEMMA BatchesStay ==
  ASSUME UNCHANGED handler
  PROVE  /\ AtHand' = AtHand
         /\ \A h \in Handlers : Batch(h)' = Batch(h)
BY DEF AtHand, Batch

LEMMA PlacesStay ==
  ASSUME BotOwners, UNCHANGED <<handler, taken, over>>, Pending' = Pending
  PROVE  BotOwners'
BY BatchesStay DEF BotOwners, Batch

LEMMA AtHandIsBoth == AtHand = Batch("loop") \cup Batch("timer")
BY DEF AtHand, Batch, Handlers

\* An album in the table.
LEMMA InAnAlbum ==
  ASSUME NEW g \in Albums
  PROVE  Parts(g) \subseteq Pending
BY DEF Parts, Pending

LEMMA BotInvArrives ==
  ASSUME BotIInv, Arrives
  PROVE  BotIInv'
<1> USE DEF BotIInv
<1>1. UNCHANGED <<chat, confirmed, offset, batch, groups, flushes, handler, photos, retained,
                  lives, taken, over, served>> /\ arrived' = arrived + 1 /\ arrived < Len(chat)
  BY DEF Arrives
<1>2. BotShape'
  BY <1>1, ChatStays, ChatFacts DEF BotShape
<1>3. BotAlbumsRight' /\ Pending' = Pending
  BY <1>1, AlbumsStay
<1>4. BotOwners' /\ AtHand' = AtHand
  BY <1>1, <1>3, PlacesStay, BatchesStay
<1>5. BotOrder' /\ BotCounts' /\ BotFiles'
  BY <1>1, <1>4, ChatStays DEF BotOrder, BotCounts, BotFiles
<1> QED BY <1>2, <1>3, <1>4, <1>5

LEMMA BotInvPolls ==
  ASSUME BotIInv, Polls
  PROVE  BotIInv'
<1> USE DEF BotIInv
<1>1. /\ UNCHANGED <<chat, arrived, offset, groups, flushes, handler, photos, retained, lives,
                     taken, over, served>>
      /\ confirmed' = IF offset > confirmed THEN offset ELSE confirmed
      /\ confirmed' <= arrived
      /\ batch' = [i \in 1 .. arrived + 1 - confirmed' |-> confirmed' + i - 1]
  BY DEF Polls
<1>2. /\ Len(chat) \in Nat /\ UpdateIds = 1 .. Len(chat) /\ UpdateIds \subseteq Nat
      /\ arrived \in 0 .. Len(chat) /\ offset \in 0 .. Len(chat) + 1
      /\ confirmed \in 1 .. Len(chat) + 1
  BY ChatFacts DEF BotShape
<1>3. confirmed' \in 1 .. Len(chat) + 1 /\ offset <= confirmed' /\ confirmed' \in Nat
  BY <1>1, <1>2
<1> DEFINE n == arrived + 1 - confirmed'
<1>4. n \in Nat /\ DOMAIN batch' = 1 .. n
  BY <1>1, <1>2, <1>3
<1>5. \A i \in 1 .. n : batch'[i] = confirmed' + i - 1 /\ batch'[i] \in UpdateIds
  BY <1>1, <1>2, <1>3
<1> HIDE DEF n
<1>6. batch' \in Seq(UpdateIds)
  <2>1. batch' = [i \in 1 .. n |-> batch'[i]]
    BY <1>1 DEF n
  <2>2. batch' \in [1 .. n -> UpdateIds]
    BY <2>1, <1>5
  <2> QED BY <2>2, <1>4
<1>7. BotShape'
  BY <1>1, <1>3, <1>6, ChatStays DEF BotShape
<1>8. BotAlbumsRight' /\ Pending' = Pending
  BY <1>1, AlbumsStay
<1>9. BotOwners' /\ AtHand' = AtHand
  BY <1>1, <1>8, PlacesStay, BatchesStay
<1>10. BotOrder'
  <2>1. \A i, j \in DOMAIN batch' : i < j => batch'[i] < batch'[j]
    BY <1>3, <1>4, <1>5
  <2>2. \A i \in DOMAIN batch' : offset <= batch'[i]
    BY <1>2, <1>3, <1>4, <1>5
  <2> QED BY <2>1, <2>2, <1>1 DEF BotOrder
<1>11. BotCounts' /\ BotFiles'
  BY <1>1, <1>9, ChatStays DEF BotCounts, BotFiles
<1> QED BY <1>7, <1>8, <1>9, <1>10, <1>11

\* The next update of the batch is new, and what follows it is too.
LEMMA NextIsNew ==
  ASSUME BotShape, BotOrder, batch # <<>>, NEW u, u = Head(batch),
         batch' = Tail(batch), taken' = taken \cup {u},
         offset' = IF u >= offset THEN u + 1 ELSE offset
  PROVE  /\ u \in UpdateIds /\ u \notin taken /\ offset <= u /\ offset' = u + 1
         /\ offset' \in 0 .. Len(chat) + 1
         /\ batch' \in Seq(UpdateIds) /\ BotOrder'
<1>1. /\ Len(chat) \in Nat /\ UpdateIds = 1 .. Len(chat) /\ UpdateIds \subseteq Nat
      /\ offset \in 0 .. Len(chat) + 1 /\ batch \in Seq(UpdateIds) /\ taken \subseteq UpdateIds
  BY ChatFacts DEF BotShape
<1>2. /\ u \in UpdateIds /\ batch' \in Seq(UpdateIds) /\ Len(batch) \in Nat \ {0}
      /\ DOMAIN batch = 1 .. Len(batch) /\ u = batch[1]
      /\ DOMAIN batch' = 1 .. Len(batch) - 1
      /\ \A i \in DOMAIN batch' : i + 1 \in DOMAIN batch /\ batch'[i] = batch[i + 1]
  BY <1>1, ElementsOfRest
<1>3. offset <= u /\ u \notin taken
  BY <1>1, <1>2 DEF BotOrder
<1>4. offset' = u + 1 /\ offset' \in 0 .. Len(chat) + 1
  BY <1>1, <1>2, <1>3
<1>5. \A i \in DOMAIN batch' : i \in Nat /\ 1 < i + 1 /\ 1 \in DOMAIN batch
  BY <1>2
<1>6. \A i \in DOMAIN batch' : batch'[i] \in Nat /\ u < batch'[i]
  <2> TAKE i \in DOMAIN batch'
  <2>1. i + 1 \in DOMAIN batch /\ 1 \in DOMAIN batch /\ 1 < i + 1 /\ batch'[i] = batch[i + 1]
    BY <1>2, <1>5
  <2>2. batch[i + 1] \in UpdateIds
    BY <2>1, <1>1
  <2>3. batch[1] < batch[i + 1]
    BY <2>1 DEF BotOrder
  <2> QED BY <1>1, <1>2, <2>1, <2>2, <2>3
<1>7. \A i \in DOMAIN batch' : offset' <= batch'[i]
  BY <1>1, <1>2, <1>4, <1>6
<1>8. \A i, j \in DOMAIN batch' : i < j => batch'[i] < batch'[j]
  <2> TAKE i \in DOMAIN batch', j \in DOMAIN batch'
  <2>1. i < j => i + 1 < j + 1
    BY <1>5
  <2> QED BY <2>1, <1>2 DEF BotOrder
<1>9. \A v \in taken' : v < offset'
  BY <1>1, <1>2, <1>3, <1>4 DEF BotOrder
<1> QED BY <1>2, <1>3, <1>4, <1>7, <1>8, <1>9 DEF BotOrder

\* An update that needs nothing: it is over when it was looked at.
LEMMA BotInvDropped ==
  ASSUME BotIInv, NEW u \in UpdateIds, u \notin taken, BotOrder',
         taken' = taken \cup {u}, over' = over \cup {u},
         batch' \in Seq(UpdateIds), offset' \in 0 .. Len(chat) + 1,
         UNCHANGED <<chat, arrived, confirmed, lives, groups, flushes, handler, photos, retained,
                     served>>
  PROVE  BotIInv'
<1> USE DEF BotIInv
<1>1. BotShape'
  BY ChatStays DEF BotShape
<1>2. BotAlbumsRight' /\ Pending' = Pending
  BY AlbumsStay
<1>3. AtHand' = AtHand /\ \A h \in Handlers : Batch(h)' = Batch(h)
  BY BatchesStay
<1>4. BotOwners'
  BY <1>2, <1>3 DEF BotOwners, Batch
<1>5. BotCounts' /\ BotFiles'
  BY <1>3, ChatStays DEF BotCounts, BotFiles
<1> QED BY <1>1, <1>2, <1>4, <1>5

\* A message or a callback that the loop takes into its hands.
LEMMA BotInvTaken ==
  ASSUME BotIInv, NEW u \in UpdateIds, u \notin taken, BotOrder',
         taken' = taken \cup {u}, handler["loop"] = NoMessages, HandlesUpdate(u),
         batch' \in Seq(UpdateIds), offset' \in 0 .. Len(chat) + 1,
         UNCHANGED <<chat, arrived, confirmed, lives, groups, flushes, over, photos, retained,
                     served>>
  PROVE  BotIInv'
<1> USE DEF BotIInv
<1> DEFINE x == [messages |-> <<u>>, todo |-> <<u>>]
<1>1. x \in BotHands /\ ToSet(x.messages) = {u} /\ ToSet(x.todo) = {u}
  BY ElementsOfFew DEF BotHands
<1>2. handler' = [handler EXCEPT !["loop"] = x] /\ handler \in [Handlers -> BotHands]
  BY DEF HandlesUpdate, BotShape
<1> HIDE DEF x
<1>3. /\ handler'["loop"] = x /\ handler'["timer"] = handler["timer"]
      /\ handler' \in [Handlers -> BotHands]
  BY <1>1, <1>2 DEF Handlers
<1>4. Batch("loop") = {}
  <2>1. handler["loop"].messages = <<>>
    BY DEF NoMessages
  <2> QED BY <2>1, ElementsOfFew DEF Batch
<1>5. Batch("loop")' = {u} /\ Batch("timer")' = Batch("timer")
  BY <1>1, <1>3 DEF Batch
<1>6. BotShape'
  BY <1>3, ChatStays DEF BotShape
<1>7. BotAlbumsRight' /\ Pending' = Pending
  BY AlbumsStay
<1>8. AtHand = Batch("timer") /\ AtHand' = AtHand \cup {u}
  <2>1. AtHand' = Batch("loop")' \cup Batch("timer")'
    BY DEF AtHand, Batch, Handlers
  <2> QED BY <1>4, <1>5, <2>1, AtHandIsBoth
<1>9. BotOwners'
  <2>1. \A h \in Handlers : ToSet(handler[h].todo)' \subseteq Batch(h)'
    BY <1>1, <1>3, <1>5 DEF BotOwners, Handlers, Batch
  <2>2. u \notin over /\ u \notin Pending /\ u \notin AtHand
    BY DEF BotOwners
  <2> QED BY <1>5, <1>7, <1>8, <2>1, <2>2 DEF BotOwners
<1>10. BotCounts' /\ BotFiles'
  BY <1>8, ChatStays DEF BotCounts, BotFiles
<1> QED BY <1>6, <1>7, <1>9, <1>10

LEMMA OnePlaceReplaced ==
  ASSUME NEW A, NEW B, NEW f \in [A -> B], NEW a \in A, NEW b \in B, NEW h, h = [f EXCEPT ![a] = b]
  PROVE  h[a] = b /\ h \in [A -> B] /\ \A k \in A : k # a => h[k] = f[k]
OBVIOUS

\* A new part of an album.
LEMMA BotInvGathered ==
  ASSUME BotIInv, NEW u \in UpdateIds, u \notin taken, BotOrder', offset <= u,
         NEW g \in Albums, g = chat[u].group, chat[u].kind = "album",
         taken' = taken \cup {u},
         groups' = [groups EXCEPT ![g] = [generation |-> groups[g].generation + 1,
                                          messages |-> Append(groups[g].messages, u)]],
         flushes' = flushes \cup {<<g, groups[g].generation + 1>>},
         batch' \in Seq(UpdateIds), offset' \in 0 .. Len(chat) + 1,
         UNCHANGED <<chat, arrived, confirmed, lives, handler, over, photos, retained, served>>
  PROVE  BotIInv'
<1> USE DEF BotIInv
<1> DEFINE s == groups[g].messages
           z == Append(s, u)
           y == [generation |-> groups[g].generation + 1, messages |-> z]
<1>1. groups \in [Albums -> BotAlbums] /\ s \in Seq(UpdateIds) /\ groups[g].generation = Len(s)
  BY DEF BotShape, BotAlbums, BotAlbumsRight, AlbumRight
<1>a. /\ groups' = [groups EXCEPT ![g] = y]
      /\ \A i \in DOMAIN s : i <= s[i] /\ chat[s[i]].kind = "album" /\ chat[s[i]].group = g
      /\ ToSet(s) = Parts(g)
  BY DEF BotAlbumsRight, AlbumRight, Parts
<1> HIDE DEF s
<1>2. /\ ToSet(z) = ToSet(s) \cup {u}
      /\ z \in Seq(UpdateIds) /\ z # <<>>
      /\ Len(z) = Len(s) + 1 /\ Len(s) \in Nat
      /\ DOMAIN s = 1 .. Len(s) /\ DOMAIN z = 1 .. Len(s) + 1
      /\ \A i \in DOMAIN s : z[i] = s[i]
      /\ z[Len(s) + 1] = u
  BY <1>1, ElementsOfMore
<1> HIDE DEF z
<1>3. y \in BotAlbums /\ y.generation = Len(s) + 1 /\ y.messages = z
  BY <1>1, <1>2 DEF BotAlbums
<1> HIDE DEF y
<1>4. /\ groups'[g] = y /\ groups' \in [Albums -> BotAlbums]
      /\ \A k \in Albums : k # g => groups'[k] = groups[k]
  <2>1. groups \in [Albums -> BotAlbums]
    BY <1>1
  <2>2. groups' = [groups EXCEPT ![g] = y]
    BY <1>a
  <2>3. y \in BotAlbums
    BY <1>3
  <2> QED BY ONLY <2>1, <2>2, <2>3, g \in Albums, OnePlaceReplaced
<1>5. /\ UpdateIds \subseteq Nat /\ UpdateIds = 1 .. Len(chat) /\ Len(chat) \in Nat
      /\ taken \subseteq UpdateIds /\ offset \in Nat
  BY ChatFacts DEF BotShape
<1>6. Len(s) + 1 <= u
  <2>1. CASE Len(s) = 0
    BY <2>1, <1>5
  <2>2. CASE Len(s) # 0
    <3>1. Len(s) \in DOMAIN s /\ s[Len(s)] \in ToSet(s) /\ s[Len(s)] \in UpdateIds
      BY <2>2, <1>1, <1>2, ElementsOf
    <3>2. s[Len(s)] \in taken
      BY <3>1, <1>a, InAnAlbum DEF BotOwners
    <3>3. s[Len(s)] < offset /\ Len(s) <= s[Len(s)]
      BY <3>1, <3>2, <1>a DEF BotOrder
    <3> QED BY <3>1, <3>3, <1>2, <1>5
  <2> QED BY <2>1, <2>2
<1>7. flushes' \subseteq Albums \X (1 .. Len(chat)) /\ <<g, y.generation>> \in flushes'
  <2>1. Len(s) + 1 \in 1 .. Len(chat)
    BY <1>2, <1>5, <1>6
  <2> QED BY <2>1, <1>1, <1>3 DEF BotShape
<1>8. BotShape'
  BY <1>4, <1>7, ChatStays DEF BotShape
<1>9. BotAlbumsRight'
  <2> SUFFICES ASSUME NEW k \in Albums PROVE AlbumRight(k)'
    BY ChatStays DEF BotAlbumsRight
  <2>1. CASE k = g
    <3>1. \A i \in DOMAIN z : /\ i <= z[i] /\ chat[z[i]].kind = "album"
                              /\ chat[z[i]].group = g
      <4> TAKE i \in DOMAIN z
      <4>1. CASE i = Len(s) + 1
        BY <4>1, <1>2, <1>6
      <4>2. CASE i # Len(s) + 1
        <5>1. i \in DOMAIN s /\ z[i] = s[i]
          BY <4>2, <1>2
        <5> QED BY <5>1, <1>a
      <4> QED BY <4>1, <4>2
    <3>2. groups'[k].messages = z /\ groups'[k].generation = Len(z)
      BY <2>1, <1>2, <1>3, <1>4
    <3>3. <<k, groups'[k].generation>> \in flushes'
      BY <2>1, <1>4, <1>7
    <3> QED BY <2>1, <3>1, <3>2, <3>3 DEF AlbumRight
  <2>2. CASE k # g
    BY <2>2, <1>4 DEF BotAlbumsRight, AlbumRight
  <2> QED BY <2>1, <2>2
<1>10. Pending' = Pending \cup {u}
  <2>1. \A k \in Albums : Parts(k)' = IF k = g THEN Parts(k) \cup {u} ELSE Parts(k)
    <3> TAKE k \in Albums
    <3>1. Parts(k)' = ToSet(groups'[k].messages)
      BY DEF Parts
    <3>2. CASE k = g
      BY <3>1, <3>2, <1>2, <1>3, <1>4, <1>a
    <3>3. CASE k # g
      BY <3>1, <3>3, <1>4 DEF Parts
    <3> QED BY <3>2, <3>3
  <2>2. Pending = UNION {Parts(k) : k \in Albums}
    BY DEF Pending, Parts
  <2>3. Pending' = UNION {Parts(k)' : k \in Albums}
    BY ChatStays DEF Pending, Parts
  <2> QED BY <2>1, <2>2, <2>3
<1>11. AtHand' = AtHand /\ \A h \in Handlers : Batch(h)' = Batch(h)
  BY BatchesStay
<1>12. BotOwners'
  <2>1. u \notin over /\ u \notin Pending /\ u \notin AtHand
    BY DEF BotOwners
  <2> QED BY <2>1, <1>10, <1>11 DEF BotOwners, Batch
<1>13. BotCounts' /\ BotFiles'
  BY <1>11, ChatStays DEF BotCounts, BotFiles
<1> QED BY <1>8, <1>9, <1>12, <1>13

LEMMA BotInvHandles ==
  ASSUME BotIInv, handleUpdate
  PROVE  BotIInv'
<1> DEFINE u == Head(batch)
<1>1. /\ batch # <<>> /\ handler["loop"] = NoMessages /\ batch' = Tail(batch)
      /\ offset' = IF u >= offset THEN u + 1 ELSE offset
      /\ taken' = taken \cup {u}
      /\ UNCHANGED <<chat, arrived, confirmed, lives, photos, retained, served>>
  BY DEF handleUpdate, serverVars
<1>2. \/ over' = over \cup {u} /\ UNCHANGED <<groups, flushes, handler>>
      \/ chat[u].kind = "album" /\ enqueueMediaGroup(u) /\ UNCHANGED handler
      \/ HandlesUpdate(u) /\ UNCHANGED <<groups, flushes, over>>
  BY DEF handleUpdate
<1> HIDE DEF u
<1>3. /\ u \in UpdateIds /\ u \notin taken /\ offset <= u /\ offset' \in 0 .. Len(chat) + 1
      /\ batch' \in Seq(UpdateIds) /\ BotOrder'
  BY <1>1, NextIsNew DEF BotIInv, u
<1>4. CASE over' = over \cup {u} /\ UNCHANGED <<groups, flushes, handler>>
  BY <1>1, <1>3, <1>4, BotInvDropped
<1>5. CASE HandlesUpdate(u) /\ UNCHANGED <<groups, flushes, over>>
  BY <1>1, <1>3, <1>5, BotInvTaken
<1>6. CASE chat[u].kind = "album" /\ enqueueMediaGroup(u) /\ UNCHANGED handler
  <2> DEFINE g == chat[u].group
  <2>1. g \in Albums
    BY <1>3, <1>6 DEF Albums
  <2>2. \/ over' = over \cup {u} /\ UNCHANGED <<groups, flushes>>
        \/ /\ groups' = [groups EXCEPT ![g] = [generation |-> groups[g].generation + 1,
                                               messages |-> Append(groups[g].messages, u)]]
           /\ flushes' = flushes \cup {<<g, groups[g].generation + 1>>}
           /\ UNCHANGED over
    BY <1>6, <2>1 DEF enqueueMediaGroup, BotIInv, BotShape, BotAlbums
  <2> HIDE DEF g
  <2>3. CASE over' = over \cup {u} /\ UNCHANGED <<groups, flushes>>
    BY <1>1, <1>3, <1>6, <2>3, BotInvDropped
  <2>4. CASE ~(over' = over \cup {u} /\ UNCHANGED <<groups, flushes>>)
    <3>1. g = chat[u].group
      BY DEF g
    <3> QED BY <1>1, <1>3, <1>6, <2>1, <2>2, <2>4, <3>1, BotInvGathered
  <2> QED BY <2>3, <2>4
<1> QED BY <1>2, <1>4, <1>5, <1>6

\* A timer that comes before the last one, or after the album was taken.
LEMMA BotInvTooEarly ==
  ASSUME BotIInv, NEW g \in Albums, NEW n, ~Current(g, n),
         flushes' = flushes \ {<<g, n>>},
         UNCHANGED <<serverVars, offset, batch, groups, handler, photos, retained, taken, over,
                     served>>
  PROVE  BotIInv'
<1> USE DEF BotIInv
<1>1. UNCHANGED <<chat, arrived, confirmed, lives>>
  BY DEF serverVars
<1>2. BotShape'
  BY <1>1, ChatStays DEF BotShape
<1>3. BotAlbumsRight'
  <2> SUFFICES ASSUME NEW k \in Albums PROVE AlbumRight(k)'
    BY <1>1, ChatStays DEF BotAlbumsRight
  <2>1. groups[k].messages # <<>> => <<k, groups[k].generation>> # <<g, n>>
    BY DEF Current
  <2> QED BY <2>1, <1>1 DEF BotAlbumsRight, AlbumRight
<1>4. Pending' = Pending
  BY <1>1, ChatStays DEF Pending
<1>5. BotOwners' /\ AtHand' = AtHand
  BY <1>4, PlacesStay, BatchesStay
<1>6. BotOrder' /\ BotCounts' /\ BotFiles'
  BY <1>1, <1>5, ChatStays DEF BotOrder, BotCounts, BotFiles
<1> QED BY <1>2, <1>3, <1>5, <1>6

\* The last timer takes the album.
LEMMA BotInvFlushed ==
  ASSUME BotIInv, NEW g \in Albums, NEW n, handler["timer"] = NoMessages,
         flushes' = flushes \ {<<g, n>>}, groups' = WithoutGroup(g),
         NEW sorted \in Sorted(groups[g].messages),
         handler' = [handler EXCEPT !["timer"] = [messages |-> sorted, todo |-> sorted]],
         UNCHANGED <<serverVars, offset, batch, photos, retained, taken, over, served>>
  PROVE  BotIInv'
<1> USE DEF BotIInv
<1>1. UNCHANGED <<chat, arrived, confirmed, lives>>
  BY DEF serverVars
<1> DEFINE x == [messages |-> sorted, todo |-> sorted]
<1>2. /\ groups \in [Albums -> BotAlbums] /\ handler \in [Handlers -> BotHands]
      /\ groups[g].messages \in Seq(UpdateIds)
  BY DEF BotShape, BotAlbums
<1>3. sorted \in Seq(UpdateIds) /\ ToSet(sorted) = Parts(g)
  BY <1>2, SortedKeeps DEF Parts
<1>4. x \in BotHands /\ x.messages = sorted /\ x.todo = sorted
  BY <1>3 DEF BotHands
<1> HIDE DEF x
<1>5. /\ handler'["timer"] = x /\ handler'["loop"] = handler["loop"]
      /\ handler' \in [Handlers -> BotHands]
  BY <1>2, <1>4 DEF x, Handlers
<1>6. NoGroup \in BotAlbums /\ NoGroup.messages = <<>> /\ NoGroup.generation = 0
  BY DEF NoGroup, BotAlbums
<1>7. /\ groups'[g] = NoGroup /\ groups' \in [Albums -> BotAlbums]
      /\ \A k \in Albums : k # g => groups'[k] = groups[k]
  BY <1>2, <1>6 DEF WithoutGroup
<1>8. BotShape'
  BY <1>1, <1>5, <1>7, ChatStays DEF BotShape
<1>9. BotAlbumsRight'
  <2> SUFFICES ASSUME NEW k \in Albums PROVE AlbumRight(k)'
    BY <1>1, ChatStays DEF BotAlbumsRight
  <2>1. CASE k = g
    BY <2>1, <1>6, <1>7 DEF AlbumRight
  <2>2. CASE k # g
    BY <2>2, <1>1, <1>7 DEF BotAlbumsRight, AlbumRight
  <2> QED BY <2>1, <2>2
<1>10. Pending' = Pending \ Parts(g)
  <2>1. \A k \in Albums : Parts(k)' = IF k = g THEN {} ELSE Parts(k)
    BY <1>6, <1>7, ElementsOfFew DEF Parts
  <2>2. \A k \in Albums : k # g => Parts(k) \cap Parts(g) = {}
    <3> SUFFICES ASSUME NEW k \in Albums, NEW v \in Parts(k), v \in Parts(g) PROVE k = g
      OBVIOUS
    <3>1. PICK i \in DOMAIN groups[k].messages : v = groups[k].messages[i]
      BY DEF Parts, ToSet
    <3>2. PICK j \in DOMAIN groups[g].messages : v = groups[g].messages[j]
      BY DEF Parts, ToSet
    <3>3. chat[v].group = k
      BY <3>1 DEF BotAlbumsRight, AlbumRight
    <3>4. chat[v].group = g
      BY <3>2 DEF BotAlbumsRight, AlbumRight
    <3> QED BY <3>3, <3>4
  <2>3. Pending = UNION {Parts(k) : k \in Albums}
    BY DEF Pending, Parts
  <2>4. Pending' = UNION {Parts(k)' : k \in Albums}
    BY <1>1, ChatStays DEF Pending, Parts
  <2>5. \A v : v \in Pending' <=> v \in Pending /\ v \notin Parts(g)
    BY <2>1, <2>2, <2>3, <2>4
  <2> QED BY <2>5
<1>11. Batch("timer") = {}
  <2>1. handler["timer"].messages = <<>>
    BY DEF NoMessages
  <2> QED BY <2>1, ElementsOfFew DEF Batch
<1>12. Batch("loop")' = Batch("loop") /\ Batch("timer")' = Parts(g)
  BY <1>3, <1>4, <1>5 DEF Batch
<1>13. AtHand = Batch("loop") /\ AtHand' = Batch("loop") \cup Parts(g)
  <2>1. AtHand' = Batch("loop")' \cup Batch("timer")'
    BY DEF AtHand, Batch, Handlers
  <2> QED BY <1>11, <1>12, <2>1, AtHandIsBoth
<1>14. BotOwners'
  <2>1. \A h \in Handlers : ToSet(handler[h].todo)' \subseteq Batch(h)'
    BY <1>3, <1>4, <1>5, <1>12 DEF BotOwners, Handlers, Batch
  <2>2. Parts(g) \subseteq Pending
    BY InAnAlbum
  <2> QED BY <1>10, <1>12, <1>13, <2>1, <2>2 DEF BotOwners
<1>15. BotOrder' /\ BotCounts' /\ BotFiles'
  BY <1>1, <1>13, ChatStays DEF BotOrder, BotCounts, BotFiles
<1> QED BY <1>8, <1>9, <1>14, <1>15

LEMMA BotInvFlush ==
  ASSUME BotIInv, NEW g \in Albums, NEW n, flushMediaGroup(g, n)
  PROVE  BotIInv'
<1>1. CASE Current(g, n)
  <2>1. PICK sorted \in Sorted(groups[g].messages) :
          handler' = [handler EXCEPT !["timer"] = [messages |-> sorted, todo |-> sorted]]
    BY <1>1 DEF flushMediaGroup
  <2>2. /\ handler["timer"] = NoMessages /\ flushes' = flushes \ {<<g, n>>}
        /\ groups' = WithoutGroup(g)
        /\ UNCHANGED <<serverVars, offset, batch, photos, retained, taken, over, served>>
    BY <1>1 DEF flushMediaGroup
  <2> QED BY <2>1, <2>2, BotInvFlushed
<1>2. CASE ~Current(g, n)
  <2>1. /\ flushes' = flushes \ {<<g, n>>}
        /\ UNCHANGED <<serverVars, offset, batch, groups, handler, photos, retained, taken, over,
                       served>>
    BY <1>2 DEF flushMediaGroup
  <2> QED BY <1>2, <2>1, BotInvTooEarly
<1> QED BY <1>1, <1>2

-----------------------------------------------------------------------------
(* handleMessages.                                                          *)

\* What a handler has, and what it has at its end.
LEMMA HandHas ==
  ASSUME BotShape, BotOwners, NEW h \in Handlers
  PROVE  /\ handler[h].messages \in Seq(UpdateIds) /\ handler[h].todo \in Seq(UpdateIds)
         /\ Batch(h) \subseteq UpdateIds /\ Batch(h) \subseteq AtHand
         /\ ToSet(handler[h].todo) \subseteq Batch(h)
<1>1. handler[h] \in BotHands
  BY DEF BotShape
<1>2. handler[h].messages \in Seq(UpdateIds) /\ handler[h].todo \in Seq(UpdateIds)
  BY <1>1 DEF BotHands
<1>3. Batch(h) \subseteq UpdateIds
  BY <1>2, ElementsOf DEF Batch
<1> QED BY <1>2, <1>3, AtHandIsBoth DEF BotOwners, Handlers

LEMMA BotInvEnds ==
  ASSUME BotShape, BotOwners, NEW h \in Handlers, BatchEnds(h),
         UNCHANGED <<chat, groups, taken>>
  PROVE  /\ handler' \in [Handlers -> BotHands]
         /\ AtHand' = AtHand \ Batch(h) /\ over' = over \cup Batch(h)
         /\ BotOwners'
<1>1. /\ handler' = [handler EXCEPT ![h] = NoMessages]
      /\ over' = over \cup Batch(h)
  BY DEF BatchEnds, Batch
<1>2. /\ NoMessages \in BotHands /\ NoMessages.messages = <<>> /\ NoMessages.todo = <<>>
      /\ handler \in [Handlers -> BotHands]
  BY DEF NoMessages, BotHands, BotShape
<1>3. /\ handler' \in [Handlers -> BotHands]
      /\ handler'[h] = NoMessages
      /\ \A k \in Handlers : k # h => handler'[k] = handler[k]
  BY <1>1, <1>2
<1>4. /\ Batch(h)' = {} /\ ToSet(handler[h].todo)' = {}
      /\ \A k \in Handlers : k # h => Batch(k)' = Batch(k)
  BY <1>2, <1>3, ElementsOfFew DEF Batch
<1>5. AtHand' = Batch("loop")' \cup Batch("timer")'
  BY DEF AtHand, Batch, Handlers
<1>6. AtHand' = AtHand \ Batch(h)
  <2>1. CASE h = "loop"
    BY <2>1, <1>4, <1>5, AtHandIsBoth DEF BotOwners, Handlers
  <2>2. CASE h = "timer"
    BY <2>2, <1>4, <1>5, AtHandIsBoth DEF BotOwners, Handlers
  <2> QED BY <2>1, <2>2 DEF Handlers
<1>7. Pending' = Pending
  BY ChatStays DEF Pending
<1>8. \A k \in Handlers : ToSet(handler[k].todo)' \subseteq Batch(k)'
  BY <1>3, <1>4 DEF BotOwners
<1>9. Batch("loop")' \cap Batch("timer")' = {}
  BY <1>4 DEF BotOwners, Handlers
<1>10. Batch(h) \subseteq AtHand
  BY HandHas
<1> QED BY <1>1, <1>3, <1>6, <1>7, <1>8, <1>9, <1>10 DEF BotOwners

LEMMA BotInvDownloads ==
  ASSUME BotIInv, NEW h \in Handlers, Downloads(h)
  PROVE  BotIInv'
<1> USE DEF BotIInv
<1> DEFINE todo == handler[h].todo
           x == [handler[h] EXCEPT !.todo = Tail(todo)]
           u == Head(todo)
<1>1. /\ todo # <<>> /\ handler' = [handler EXCEPT ![h] = x]
      /\ photos' = IF HasPhoto(u) THEN photos \cup {u} ELSE photos
      /\ UNCHANGED <<chat, arrived, confirmed, lives, offset, batch, groups, flushes, retained,
                     taken, over, served>>
  BY DEF Downloads, serverVars
<1>2. handler[h] \in BotHands /\ handler \in [Handlers -> BotHands] /\ todo \in Seq(UpdateIds)
  BY HandHas DEF BotShape
<1> HIDE DEF todo
<1>3. /\ u \in ToSet(todo) /\ Tail(todo) \in Seq(UpdateIds) /\ ToSet(Tail(todo)) \subseteq ToSet(todo)
  BY <1>1, <1>2, ElementsOfRest
<1>4. ToSet(todo) \subseteq Batch(h) /\ Batch(h) \subseteq AtHand /\ Batch(h) \subseteq UpdateIds
  BY HandHas DEF todo
<1>5. x \in BotHands /\ x.messages = handler[h].messages /\ x.todo = Tail(todo)
  BY <1>2, <1>3 DEF BotHands
<1> HIDE DEF x, u
<1>6. /\ handler'[h] = x /\ handler' \in [Handlers -> BotHands]
      /\ \A k \in Handlers : k # h => handler'[k] = handler[k]
  BY <1>1, <1>2, <1>5
<1>7. \A k \in Handlers : /\ Batch(k)' = Batch(k)
                          /\ ToSet(handler[k].todo)' \subseteq ToSet(handler[k].todo)
  BY <1>3, <1>5, <1>6 DEF Batch, todo
<1>8. AtHand' = AtHand
  <2>1. AtHand' = Batch("loop")' \cup Batch("timer")'
    BY DEF AtHand, Batch, Handlers
  <2> QED BY <1>7, <2>1, AtHandIsBoth DEF Handlers
<1>9. BotShape'
  BY <1>1, <1>3, <1>4, <1>6, ChatStays DEF BotShape
<1>10. BotAlbumsRight' /\ Pending' = Pending
  BY <1>1, AlbumsStay
<1>11. BotOwners'
  BY <1>1, <1>7, <1>8, <1>10 DEF BotOwners, Handlers
<1>12. BotOrder' /\ BotCounts'
  BY <1>1, ChatStays DEF BotOrder, BotCounts
<1>13. BotFiles'
  BY <1>1, <1>3, <1>4, <1>8 DEF BotFiles
<1> QED BY <1>9, <1>10, <1>11, <1>12, <1>13

LEMMA BotInvFails ==
  ASSUME BotIInv, NEW h \in Handlers, DownloadFails(h)
  PROVE  BotIInv'
<1> USE DEF BotIInv
<1>1. /\ photos' = photos \ Batch(h) /\ BatchEnds(h)
      /\ UNCHANGED <<chat, arrived, confirmed, lives, offset, batch, groups, flushes, retained,
                     taken, served>>
  BY DEF DownloadFails, Removed, Batch, serverVars
<1>2. /\ handler' \in [Handlers -> BotHands]
      /\ AtHand' = AtHand \ Batch(h) /\ over' = over \cup Batch(h) /\ BotOwners'
      /\ Batch(h) \subseteq AtHand
  BY <1>1, BotInvEnds, HandHas
<1>3. BotShape'
  BY <1>1, <1>2, ChatStays DEF BotShape
<1>4. BotAlbumsRight'
  BY <1>1, AlbumsStay
<1>5. BotOrder' /\ BotCounts'
  BY <1>1, <1>2, ChatStays DEF BotOrder, BotCounts
<1>6. BotFiles'
  BY <1>1, <1>2 DEF BotFiles, BotOwners
<1> QED BY <1>2, <1>3, <1>4, <1>5, <1>6

LEMMA BotInvServes ==
  ASSUME BotIInv, NEW h \in Handlers, Serves(h)
  PROVE  BotIInv'
<1> USE DEF BotIInv
<1>1. /\ BatchEnds(h)
      /\ UNCHANGED <<chat, arrived, confirmed, lives, offset, batch, groups, flushes, taken>>
  BY DEF Serves, serverVars
<1>2. \/ /\ served' = [u \in UpdateIds |-> IF u \in Batch(h) THEN served[u] + 1 ELSE served[u]]
         /\ retained' = retained \cup (Batch(h) \cap photos) /\ UNCHANGED photos
      \/ photos' = photos \ Batch(h) /\ UNCHANGED <<served, retained>>
  BY DEF Serves, Removed, Batch
<1>3. /\ handler' \in [Handlers -> BotHands]
      /\ AtHand' = AtHand \ Batch(h) /\ over' = over \cup Batch(h) /\ BotOwners'
      /\ Batch(h) \subseteq AtHand
  BY <1>1, BotInvEnds, HandHas
<1>4. served \in [UpdateIds -> Nat] /\ photos \subseteq UpdateIds
  BY DEF BotShape
<1>5. served' \in [UpdateIds -> Nat] /\ photos' \subseteq UpdateIds
  BY <1>2, <1>4
<1>6. BotShape'
  BY <1>1, <1>3, <1>5, ChatStays DEF BotShape
<1>7. BotAlbumsRight'
  BY <1>1, AlbumsStay
<1>8. BotCounts'
  <2> SUFFICES ASSUME NEW u \in UpdateIds
               PROVE  served'[u] = 0 \/ (served'[u] = 1 /\ u \in over')
    BY <1>1, ChatStays DEF BotCounts
  <2>1. u \in Batch(h) => served[u] = 0
    BY <1>3 DEF BotCounts, BotOwners
  <2>2. served'[u] = served[u] \/ (u \in Batch(h) /\ served'[u] = served[u] + 1)
    BY <1>2, <1>4
  <2> QED BY <2>1, <2>2, <1>3, <1>4 DEF BotCounts
<1>9. BotOrder'
  BY <1>1, ChatStays DEF BotOrder
<1>10. BotFiles'
  BY <1>2, <1>3 DEF BotFiles, BotOwners
<1> QED BY <1>3, <1>6, <1>7, <1>8, <1>9, <1>10

LEMMA BotInvRetention ==
  ASSUME BotIInv, retentionEnds
  PROVE  BotIInv'
<1> USE DEF BotIInv
<1>1. UNCHANGED <<chat, arrived, confirmed, lives, offset, batch, groups, flushes, handler, taken,
                  over, served>>
  BY DEF retentionEnds, serverVars
<1>2. PICK u \in retained : retained' = retained \ {u} /\ photos' = photos \ {u}
  BY DEF retentionEnds
<1>3. BotShape'
  BY <1>1, <1>2, ChatStays DEF BotShape
<1>4. BotAlbumsRight' /\ Pending' = Pending
  BY <1>1, AlbumsStay
<1>5. BotOwners' /\ AtHand' = AtHand
  BY <1>1, <1>4, PlacesStay, BatchesStay
<1>6. BotOrder' /\ BotCounts'
  BY <1>1, ChatStays DEF BotOrder, BotCounts
<1>7. BotFiles'
  BY <1>1, <1>2, <1>5 DEF BotFiles
<1> QED BY <1>3, <1>4, <1>5, <1>6, <1>7

LEMMA BotInvRestarts ==
  ASSUME BotIInv, Restarts
  PROVE  BotIInv'
<1> USE DEF BotIInv
<1>1. /\ lives' = lives + 1 /\ lives < MaxLives /\ offset' = 0 /\ batch' = <<>>
      /\ groups' = [g \in Albums |-> NoGroup] /\ flushes' = {}
      /\ handler' = [h \in Handlers |-> NoMessages]
      /\ photos' = {} /\ retained' = {} /\ taken' = {} /\ over' = {}
      /\ served' = [u \in UpdateIds |-> 0]
      /\ UNCHANGED <<chat, arrived, confirmed>>
  BY DEF Restarts
<1>2. Len(chat) \in Nat /\ UpdateIds = 1 .. Len(chat) /\ MaxLives \in Nat
  BY ChatFacts, BotAssumption DEF BotShape
<1>3. NoGroup \in BotAlbums /\ NoMessages \in BotHands
  BY DEF NoGroup, NoMessages, BotAlbums, BotHands
<1>4. BotShape'
  BY <1>1, <1>2, <1>3, ChatStays DEF BotShape
<1>5. \A g \in Albums : /\ groups'[g].messages = <<>> /\ groups'[g].generation = 0
                        /\ Parts(g)' = {}
  BY <1>1, ElementsOfFew DEF NoGroup, Parts
<1>6. \A h \in Handlers : Batch(h)' = {} /\ ToSet(handler'[h].todo) = {}
  BY <1>1, ElementsOfFew DEF NoMessages, Batch
<1>7. Pending' = {} /\ AtHand' = {}
  BY <1>1, <1>5, <1>6, ChatStays DEF Pending, AtHand, Parts, Batch
<1>8. BotAlbumsRight'
  BY <1>1, <1>5, ChatStays DEF BotAlbumsRight, AlbumRight
<1>9. BotOwners'
  BY <1>1, <1>6, <1>7 DEF BotOwners, Handlers
<1>10. BotOrder' /\ BotCounts' /\ BotFiles'
  BY <1>1, ChatStays DEF BotOrder, BotCounts, BotFiles
<1> QED BY <1>4, <1>8, <1>9, <1>10

LEMMA BotInvNext == BotIInv /\ [BotNext]_botVars => BotIInv'
<1> SUFFICES ASSUME BotIInv, [BotNext]_botVars PROVE BotIInv'
  OBVIOUS
<1>1. CASE Arrives \/ Polls \/ handleUpdate \/ retentionEnds \/ Restarts
  BY <1>1, BotInvArrives, BotInvPolls, BotInvHandles, BotInvRetention, BotInvRestarts
<1>2. ASSUME NEW g \in Albums, NEW n \in 1 .. Len(chat), flushMediaGroup(g, n) PROVE BotIInv'
  BY <1>2, BotInvFlush
<1>3. ASSUME NEW h \in Handlers, Downloads(h) \/ DownloadFails(h) \/ Serves(h) PROVE BotIInv'
  BY <1>3, BotInvDownloads, BotInvFails, BotInvServes
<1>4. CASE UNCHANGED botVars
  <2>1. UNCHANGED <<chat, arrived, confirmed, offset, batch, groups, flushes, handler, photos,
                    retained, lives, taken, over, served>>
    BY <1>4 DEF botVars
  <2>2. BotAlbumsRight' /\ Pending' = Pending
    BY <2>1, AlbumsStay DEF BotIInv
  <2>3. BotOwners' /\ AtHand' = AtHand
    BY <2>1, <2>2, PlacesStay, BatchesStay DEF BotIInv
  <2> QED BY <2>1, <2>2, <2>3, ChatStays DEF BotIInv, BotShape, BotOrder, BotCounts, BotFiles
<1> QED BY <1>1, <1>2, <1>3, <1>4 DEF BotNext

LEMMA BotInvAlways == BotSpec => []BotIInv
<1>1. BotInit => BotIInv
  BY BotInvInit
<1>2. BotIInv /\ [BotNext]_botVars => BotIInv'
  BY BotInvNext
<1> QED BY <1>1, <1>2, PTL DEF BotSpec

\* The bot's updates, batch, albums, timers, handlers and files keep their
\* types: the offset and the timers' generations stay within the updates of
\* the chat, and a retained file is there.
THEOREM BotTypes == BotSpec => []BotTypeOK
<1>1. BotIInv => BotTypeOK
  <2> SUFFICES ASSUME BotIInv PROVE BotTypeOK
    OBVIOUS
  <2>1. BotShape /\ retained \subseteq photos /\ over \subseteq taken
    BY DEF BotIInv, BotFiles, BotOwners
  <2> QED BY <2>1 DEF BotShape, BotTypeOK, BotAlbums, BotHands
<1> QED BY <1>1, BotInvAlways, PTL

\* Whatever the order of polls, timers and handlers (bot.go): no message
\* reaches the service twice in a life of the bot, none is forgotten, and no
\* photo's file is left without its timer.
THEOREM BotServes == BotSpec => []MessagesAreServed
<1>1. BotIInv => MessagesAreServed
  <2> SUFFICES ASSUME BotIInv PROVE MessagesAreServed
    OBVIOUS
  <2>1. ServedOnce
    BY DEF BotIInv, BotCounts, ServedOnce
  <2>2. NothingIsForgotten
    BY DEF BotIInv, BotOwners, BotAlbumsRight, AlbumRight, NothingIsForgotten
  <2> QED BY <2>1, <2>2 DEF BotIInv, BotFiles, FilesAreRemoved, MessagesAreServed
<1> QED BY <1>1, BotInvAlways, PTL

-----------------------------------------------------------------------------
(* Details: any pages, turns and works.                                     *)

ItemKinds == {"commentary", "plan", "tool", "answer"}

\* A set of numbers has a least one, and one with a bound a greatest.
LEMMA LeastIsThere ==
  ASSUME NEW T, T \subseteq Nat, T # {}
  PROVE  \E k \in T : \A l \in T : k <= l
<1>1. PICK x \in T : \A y \in T : ~(<<y, x>> \in OpToRel(<, Nat))
  BY NatLessThanWellFounded, WFMin
<1>2. \A y \in T : ~(y < x)
  <2> SUFFICES ASSUME NEW y \in T, y < x PROVE FALSE
    OBVIOUS
  <2>1. <<y, x>> \in Nat \X Nat /\ <<y, x>>[1] = y /\ <<y, x>>[2] = x
    OBVIOUS
  <2>2. <<y, x>> \in OpToRel(<, Nat)
    BY <2>1 DEF OpToRel
  <2> QED BY <1>1, <2>2
<1>3. \A y \in T : x <= y
  BY <1>2
<1> QED BY <1>3

LEMMA GreatestIsThere ==
  ASSUME NEW T, NEW b \in Nat, T \subseteq 0 .. b, T # {}
  PROVE  \E k \in T : \A l \in T : l <= k
<1> DEFINE U == {b - k : k \in T}
<1>1. U \subseteq Nat /\ U # {}
  <2>1. \A k \in T : k \in 0 .. b /\ b - k \in Nat
    OBVIOUS
  <2>2. U \subseteq Nat
    BY <2>1
  <2>3. PICK k \in T : TRUE
    OBVIOUS
  <2>4. b - k \in U
    BY <2>3
  <2> QED BY <2>2, <2>4
<1>2. PICK u \in U : \A l \in U : u <= l
  BY <1>1, LeastIsThere
<1>3. PICK k \in T : u = b - k
  BY <1>2
<1>4. ASSUME NEW l \in T PROVE l <= k
  <2>1. u <= b - l
    BY <1>2
  <2> QED BY <2>1, <1>3
<1> QED BY <1>4

-----------------------------------------------------------------------------
(* Pages.                                                                   *)

LEMMA LastPageFacts ==
  ASSUME NEW n \in Nat
  PROVE  /\ LastPage(n) \in Nat
         /\ \A p \in 0 .. LastPage(n) : n # 0 => p * PageSize \in Nat /\ p * PageSize + 1 <= n
<1>1. PageSize \in Nat /\ PageSize > 0
  BY DetailsAssumption
<1>2. CASE n = 0
  BY <1>2 DEF LastPage
<1>3. CASE n # 0
  <2> DEFINE q == (n + PageSize - 1) \div PageSize
             m == (n + PageSize - 1) % PageSize
  <2>1. n + PageSize - 1 \in Nat /\ PageSize <= n + PageSize - 1
    BY <1>1, <1>3
  <2>2. q \in Nat /\ q * PageSize <= n + PageSize - 1 /\ n + PageSize - 1 < q * PageSize + PageSize
    BY <1>1, <2>1
  <2>3. LastPage(n) = q - 1
    BY <1>3 DEF LastPage, detailsPageCount
  <2> HIDE DEF q
  <2>4. q # 0
    BY <1>1, <2>1, <2>2
  <2>5. ASSUME NEW p \in 0 .. q - 1 PROVE p * PageSize \in Nat /\ p * PageSize + 1 <= n
    <3>1. p * PageSize \in Nat /\ (p + 1) * PageSize = p * PageSize + PageSize
      BY <1>1, <2>2
    <3>2. (p + 1) * PageSize <= q * PageSize
      BY <1>1, <2>2, <2>5
    <3>3. p * PageSize + PageSize <= n + PageSize - 1
      BY <3>1, <3>2, <2>2, <1>1
    <3> QED BY <3>1, <3>3, <1>1
  <2> QED BY <2>2, <2>3, <2>4, <2>5
<1> QED BY <1>2, <1>3

LEMMA PageHasSections ==
  ASSUME NEW n \in Nat, n # 0, NEW p \in 0 .. LastPage(n)
  PROVE  OnPage(p, n) # {} /\ OnPage(p, n) \subseteq 1 .. n
<1>1. p * PageSize \in Nat /\ p * PageSize + 1 <= n /\ p \in Nat
  BY LastPageFacts
<1>2. (p + 1) * PageSize = p * PageSize + PageSize /\ PageSize \in Nat \ {0}
  BY DetailsAssumption, <1>1
<1>3. p * PageSize + 1 \in OnPage(p, n)
  BY <1>1, <1>2 DEF OnPage
<1> QED BY <1>3 DEF OnPage

-----------------------------------------------------------------------------
(* Sections.                                                                *)

\* What a turn did.
IsWork(items) == items \in Seq(ItemKinds)

LEMMA PlacesFacts ==
  ASSUME NEW items, IsWork(items), NEW kinds
  PROVE  /\ Len(items) \in Nat /\ DOMAIN items = 1 .. Len(items)
         /\ Places(items, kinds) \subseteq 1 .. Len(items)
         /\ \A S \in SUBSET Places(items, kinds) :
              IsFiniteSet(S) /\ Cardinality(S) \in 0 .. Len(items)
<1>1. Len(items) \in Nat /\ DOMAIN items = 1 .. Len(items)
  BY DEF IsWork
<1>2. Places(items, kinds) \subseteq 1 .. Len(items)
  BY <1>1 DEF Places
<1>3. IsFiniteSet(1 .. Len(items)) /\ Cardinality(1 .. Len(items)) = Len(items)
  <2>1. ASSUME NEW n \in Nat PROVE IsFiniteSet(1 .. n) /\ Cardinality(1 .. n) = n
    <3>1. 1 \in Int /\ n \in Int
      OBVIOUS
    <3>2. /\ IsFiniteSet(1 .. n)
          /\ Cardinality(1 .. n) = IF 1 > n THEN 0 ELSE n - 1 + 1
      BY <3>1, FS_Interval
    <3> QED BY <3>2
  <2> QED BY <1>1, <2>1
<1>4. ASSUME NEW S \in SUBSET Places(items, kinds)
      PROVE  IsFiniteSet(S) /\ Cardinality(S) \in 0 .. Len(items)
  <2>1. S \in SUBSET (1 .. Len(items))
    BY <1>2
  <2>2. IsFiniteSet(S) /\ Cardinality(S) <= Len(items)
    BY <1>3, <2>1, FS_Subset
  <2>3. Cardinality(S) \in Nat
    BY <2>2, FS_CardinalityType
  <2> QED BY <1>1, <2>2, <2>3
<1> QED BY <1>1, <1>2, <1>4

\* The commentaries and plans up to a place of the turn.
Said(items, i) == {j \in Places(items, {"commentary", "plan"}) : j <= i}

LEMMA IndexFacts ==
  ASSUME NEW items, IsWork(items), NEW i
  PROVE  /\ Said(items, i) \subseteq Places(items, {"commentary", "plan"})
         /\ IsFiniteSet(Said(items, i))
         /\ CommentaryIndex(items, i) = Cardinality(Said(items, i))
         /\ CommentaryIndex(items, i) \in 0 .. Len(items)
<1>1. Said(items, i) \in SUBSET Places(items, {"commentary", "plan"})
  BY DEF Said
<1>2. CommentaryIndex(items, i) = Cardinality(Said(items, i))
  BY DEF CommentaryIndex, Said
<1> QED BY <1>1, <1>2, PlacesFacts

LEMMA SectionFacts ==
  ASSUME NEW items, IsWork(items)
  PROVE  /\ detailSections(items) \subseteq Nat
         /\ IsFiniteSet(detailSections(items))
         /\ SectionCount(items) \in Nat
<1> DEFINE b == Len(items) + 3
<1>1. b \in Nat /\ Len(items) \in Nat
  BY PlacesFacts
<1>2. detailCommentaries(items) \subseteq 0 .. b
  <2> DEFINE entries == Cardinality(Places(items, {"plan", "answer"}))
             few == IF entries < 3 THEN entries ELSE 3
  <2>1. entries \in Nat
    BY PlacesFacts
  <2>2. few \in 0 .. 3
    BY <2>1
  <2>3. 1 .. few \subseteq 0 .. b
    BY <1>1, <2>2
  <2>4. \A i : CommentaryIndex(items, i) \in 0 .. b
    BY <1>1, IndexFacts
  <2>5. \/ detailCommentaries(items) = 1 .. few
        \/ detailCommentaries(items) =
              {CommentaryIndex(items, i) : i \in Places(items, {"commentary"})}
    BY DEF detailCommentaries
  <2> HIDE DEF few, b
  <2> QED BY <2>3, <2>4, <2>5
<1>3. detailSections(items) \subseteq 0 .. b
  BY <1>1, <1>2 DEF detailSections
<1>4. IsFiniteSet(0 .. b)
  BY <1>1, FS_Interval
<1> HIDE DEF b
<1>5. IsFiniteSet(detailSections(items))
  BY <1>3, <1>4, FS_Subset
<1>6. 0 .. b \subseteq Nat
  BY <1>1
<1> QED BY <1>3, <1>5, <1>6, FS_CardinalityType DEF SectionCount

\* Every section has a number.
LEMMA SectionIsNumbered ==
  ASSUME NEW items, IsWork(items), NEW c \in detailSections(items)
  PROVE  \E k \in 1 .. SectionCount(items) : Section(items, k) = c
<1> DEFINE S == detailSections(items)
           k == Cardinality(UpTo(items, c))
<1>1. S \subseteq Nat /\ IsFiniteSet(S) /\ SectionCount(items) \in Nat /\ SectionCount(items) = Cardinality(S)
  BY SectionFacts DEF SectionCount
<1>2. \A d : UpTo(items, d) \in SUBSET S
  BY DEF UpTo
<1>3. \A d : IsFiniteSet(UpTo(items, d)) /\ Cardinality(UpTo(items, d)) \in Nat
  BY <1>1, <1>2, FS_Subset, FS_CardinalityType
<1>4. k <= SectionCount(items)
  BY <1>1, <1>2, FS_Subset
<1>5. k # 0
  <2>1. c \in UpTo(items, c)
    BY <1>1 DEF UpTo
  <2> QED BY <2>1, <1>3, FS_EmptySet
<1>6. ASSUME NEW d \in S, NEW e \in S, d < e
      PROVE  Cardinality(UpTo(items, d)) # Cardinality(UpTo(items, e))
  <2>1. d \in Nat /\ e \in Nat
    BY <1>1
  <2>2. e \in UpTo(items, e) /\ e \notin UpTo(items, d)
    BY <1>6, <2>1 DEF UpTo
  <2>3. UpTo(items, d) \in SUBSET UpTo(items, e)
    BY <1>1, <1>6, <2>1 DEF UpTo
  <2> QED BY <1>3, <2>2, <2>3, FS_Subset
<1>7. \A d \in S : Cardinality(UpTo(items, d)) = k => d = c
  <2> SUFFICES ASSUME NEW d \in S, Cardinality(UpTo(items, d)) = k, d # c PROVE FALSE
    OBVIOUS
  <2>1. d < c \/ c < d
    BY <1>1
  <2> QED BY <2>1, <1>6
<1>8. Section(items, k) = c
  BY <1>7 DEF Section
<1>9. k \in 1 .. SectionCount(items)
  BY <1>1, <1>3, <1>4, <1>5
<1> QED BY <1>8, <1>9

\* A turn without a commentary has a section for each of its first three plans,
\* one with commentaries for each of these.
LEMMA IndexHasSection ==
  ASSUME NEW items, IsWork(items), NEW i \in Places(items, {"tool"}),
         ~(Places(items, {"commentary"}) # {} /\ \E j \in Places(items, {"plan"}) : j < i),
         ~(Places(items, {"commentary"}) = {} /\ CommentaryIndex(items, i) > 3)
  PROVE  CommentaryIndex(items, i) \in detailSections(items)
<1> DEFINE c == CommentaryIndex(items, i)
<1>1. c \in Nat /\ c = Cardinality(Said(items, i))
  BY IndexFacts, PlacesFacts
<1>2. CASE c = 0
  <2>1. i \in detailsItemsForCommentaryIndex(items, 0)
    BY <1>2 DEF detailsItemsForCommentaryIndex
  <2> QED BY <1>2, <2>1 DEF detailSections
<1>3. CASE c # 0 /\ Places(items, {"commentary"}) = {}
  <2> DEFINE entries == Cardinality(Places(items, {"plan", "answer"}))
  <2>1. Said(items, i) \in SUBSET Places(items, {"plan", "answer"})
    BY <1>3 DEF Said, Places
  <2>2. c <= entries /\ entries \in Nat
    BY <1>1, <2>1, PlacesFacts, FS_Subset
  <2>3. c <= 3
    BY <1>1, <1>3
  <2>4. c \in 1 .. (IF entries < 3 THEN entries ELSE 3)
    BY <1>1, <1>3, <2>2, <2>3
  <2>5. detailCommentaries(items) = 1 .. (IF entries < 3 THEN entries ELSE 3)
    BY <1>3 DEF detailCommentaries
  <2> QED BY <2>4, <2>5 DEF detailSections
<1>4. CASE c # 0 /\ Places(items, {"commentary"}) # {}
  <2>1. Said(items, i) # {} /\ Said(items, i) \subseteq 0 .. Len(items) /\ Len(items) \in Nat
    <3>1. Said(items, i) # {}
      BY <1>1, <1>4, FS_EmptySet
    <3> QED BY <3>1, IndexFacts, PlacesFacts
  <2>2. PICK j \in Said(items, i) : \A l \in Said(items, i) : l <= j
    BY <2>1, GreatestIsThere
  <2>3. i \in Nat /\ j \in Nat /\ j <= i /\ j \in Places(items, {"commentary", "plan"})
    BY PlacesFacts, <2>1, <2>2 DEF Said
  <2>4. i # j
    BY <2>3 DEF Places
  <2>5. j \in Places(items, {"commentary"})
    <3>1. j \notin Places(items, {"plan"})
      BY <1>4, <2>3, <2>4
    <3> QED BY <2>3, <3>1 DEF Places
  <2>6. Said(items, j) = Said(items, i)
    <3>1. \A l \in Places(items, {"commentary", "plan"}) : l \in Nat
      BY PlacesFacts
    <3>2. \A l \in Places(items, {"commentary", "plan"}) : l <= j => l <= i
      BY <2>3, <3>1
    <3> QED BY <2>2, <3>2 DEF Said
  <2>7. CommentaryIndex(items, j) = c
    BY <2>6, IndexFacts
  <2>8. c \in detailCommentaries(items)
    BY <1>4, <2>5, <2>7 DEF detailCommentaries
  <2> QED BY <2>8 DEF detailSections
<1> QED BY <1>2, <1>3, <1>4

\* So its tools are on the page of that section.
LEMMA ToolsAreShown ==
  ASSUME NEW items, IsWork(items), NEW i \in Places(items, {"tool"})
  PROVE  \/ \E k \in 1 .. SectionCount(items) : i \in ToolsOf(items, k)
         \/ Places(items, {"commentary"}) # {} /\ \E j \in Places(items, {"plan"}) : j < i
         \/ ~(Places(items, {"commentary"}) # {}) /\ CommentaryIndex(items, i) > 3
<1> SUFFICES ASSUME
         ~(Places(items, {"commentary"}) # {} /\ \E j \in Places(items, {"plan"}) : j < i),
         ~(Places(items, {"commentary"}) = {} /\ CommentaryIndex(items, i) > 3)
    PROVE \E k \in 1 .. SectionCount(items) : i \in ToolsOf(items, k)
  OBVIOUS
<1>1. CommentaryIndex(items, i) \in detailSections(items)
  BY IndexHasSection
<1>2. PICK k \in 1 .. SectionCount(items) : Section(items, k) = CommentaryIndex(items, i)
  BY <1>1, SectionIsNumbered
<1>3. i \in ToolsOf(items, k)
  BY <1>2 DEF ToolsOf, detailsItemsForCommentaryIndex
<1> QED BY <1>3

-----------------------------------------------------------------------------
(* Views.                                                                   *)

Views == [page : Nat, tool : BOOLEAN, index : Nat, final : BOOLEAN]

\* What a card of a turn with n sections may show.
Within(view, n) ==
  /\ view \in Views
  /\ view.page <= LastPage(n)
  /\ view.index <= AtLeastOne(n)
  /\ view.tool => view.index # 0

LEMMA ViewFields ==
  ASSUME NEW view \in Views
  PROVE  view.page \in Nat /\ view.index \in Nat /\ view.tool \in BOOLEAN
BY DEF Views

LEMMA FinalIsWithin ==
  ASSUME NEW n \in Nat
  PROVE  Within(Final, n) /\ Within([Final EXCEPT !.final = FALSE], n)
<1>1. LastPage(n) \in Nat /\ AtLeastOne(n) \in Nat
  BY LastPageFacts DEF AtLeastOne
<1> DEFINE x == [Final EXCEPT !.final = FALSE]
<1>2. /\ Final \in Views /\ Final.page = 0 /\ Final.index = 0 /\ Final.tool = FALSE
      /\ x \in Views /\ x.page = 0 /\ x.index = 0 /\ x.tool = FALSE
  BY DEF Final, Views
<1> HIDE DEF x
<1>3. Within(Final, n) /\ Within(x, n)
  BY <1>1, <1>2 DEF Within
<1> QED BY <1>3 DEF x

LEMMA ClampIsWithin ==
  ASSUME NEW v \in Int, NEW low \in Nat, NEW high \in Nat, low <= high
  PROVE  clampInt(v, low, high) \in low .. high
BY DEF clampInt

LEMMA FirstIsWithin ==
  ASSUME NEW items, IsWork(items), NEW p \in Nat
  PROVE  firstCommentaryWithToolsOnPage(items, p) \in 1 .. AtLeastOne(SectionCount(items))
<1> DEFINE n == SectionCount(items)
           shown == OnPage(clampInt(p, 0, LastPage(n)), n)
           some == {k \in shown : ToolsOf(items, k) # {}}
           first(S) == CHOOSE k \in S : \A l \in S : k <= l
<1>1. n \in Nat
  BY SectionFacts
<1> HIDE DEF n
<1>2. firstCommentaryWithToolsOnPage(items, p) =
        IF n = 0 THEN 1 ELSE IF some # {} THEN first(some) ELSE first(shown)
  BY DEF firstCommentaryWithToolsOnPage, n
<1>3. CASE n = 0
  BY <1>2, <1>3 DEF AtLeastOne, n
<1>4. CASE n # 0
  <2>1. clampInt(p, 0, LastPage(n)) \in 0 .. LastPage(n)
    BY <1>1, LastPageFacts, ClampIsWithin
  <2>2. shown # {} /\ shown \subseteq 1 .. n
    BY <1>1, <1>4, <2>1, PageHasSections
  <2>3. some \subseteq 1 .. n /\ 1 .. n \subseteq Nat
    BY <1>1, <2>2
  <2> HIDE DEF shown, some
  <2>4. ASSUME NEW S, S \subseteq 1 .. n, S # {} PROVE first(S) \in S
    <3>1. \E k \in S : \A l \in S : k <= l
      BY <2>3, <2>4, LeastIsThere
    <3> QED BY <3>1
  <2>5. \/ some # {} /\ firstCommentaryWithToolsOnPage(items, p) = first(some)
        \/ firstCommentaryWithToolsOnPage(items, p) = first(shown)
    BY <1>2, <1>4
  <2> HIDE DEF first
  <2>6. firstCommentaryWithToolsOnPage(items, p) \in 1 .. n
    BY <2>2, <2>3, <2>4, <2>5
  <2>7. AtLeastOne(n) = n
    BY <1>4 DEF AtLeastOne
  <2> QED BY <2>6, <2>7 DEF n
<1> QED BY <1>3, <1>4

Turns == {"details_open", "details_back", "details_prev", "details_next", "details_tool_toggle"}

\* Whatever is pressed, the view stays within the pages and sections.
LEMMA TurnedIsWithin ==
  ASSUME NEW items, IsWork(items), NEW view, Within(view, SectionCount(items)),
         NEW key \in Turns
  PROVE  Within(Turned(view, key, items), SectionCount(items))
<1> DEFINE n == SectionCount(items)
           m == AtLeastOne(n)
           v == [view EXCEPT !.final = FALSE]
           prev == IF v.index = 0 THEN 1 ELSE clampInt(v.index - 1, 1, m)
           hidden == [v EXCEPT !.tool = ~v.tool]
           w == Turned(view, key, items)
<1>1. n \in Nat /\ m \in Nat /\ 1 <= m /\ LastPage(n) \in Nat
  BY SectionFacts, LastPageFacts DEF AtLeastOne
<1>2. /\ v \in Views /\ v.page = view.page /\ v.index = view.index /\ v.tool = view.tool
      /\ v.page \in Nat /\ v.index \in Nat /\ v.tool \in BOOLEAN
      /\ v.page <= LastPage(n) /\ v.index <= m /\ (v.tool => v.index # 0)
  BY DEF Within, Views
<1>3. CASE key = "details_open"
  <2>1. w = [Final EXCEPT !.final = FALSE]
    BY <1>3 DEF Turned
  <2> QED BY <2>1, <1>1, FinalIsWithin
<1>4. CASE key = "details_back"
  <2>1. w = Final
    BY <1>4 DEF Turned
  <2> QED BY <2>1, <1>1, FinalIsWithin
<1>5. CASE key = "details_prev" /\ v.tool
  <2>1. w = [v EXCEPT !.index = prev]
    BY <1>5 DEF Turned
  <2>2. v.index - 1 \in Int
    BY <1>2
  <2>a. 1 \in 1 .. m
    BY <1>1
  <2> HIDE DEF v, m
  <2>b. clampInt(v.index - 1, 1, m) \in 1 .. m
    BY <1>1, <2>2, ClampIsWithin
  <2>3. prev \in 1 .. m
    BY <2>a, <2>b
  <2> HIDE DEF w, prev, v, n, m
  <2>4. w \in Views /\ w.page = v.page /\ w.index = prev /\ w.tool = v.tool
    BY <1>1, <1>2, <2>1, <2>3 DEF Views
  <2>5. Within(w, n)
    BY <1>1, <1>2, <2>3, <2>4 DEF Within, m
  <2> QED BY <2>5 DEF w, n
<1>6. CASE key = "details_prev" /\ ~v.tool
  <2> DEFINE p == IF v.page = 0 THEN 0 ELSE v.page - 1
  <2>1. w = [v EXCEPT !.page = p]
    BY <1>6 DEF Turned
  <2>2. p \in Nat /\ p <= LastPage(n)
    BY <1>1, <1>2
  <2> HIDE DEF w, p, v, n, m
  <2>4. w \in Views /\ w.page = p /\ w.index = v.index /\ w.tool = v.tool
    BY <1>1, <1>2, <2>1, <2>2 DEF Views
  <2>5. Within(w, n)
    BY <1>1, <1>2, <2>2, <2>4 DEF Within, m
  <2> QED BY <2>5 DEF w, n
<1>7. CASE key = "details_next" /\ v.tool
  <2> DEFINE x == NextIndex(v.index, n)
  <2>1. w = [v EXCEPT !.index = x]
    BY <1>7 DEF Turned
  <2>2. v.index + 1 \in Int
    BY <1>2
  <2>3. x \in 1 .. m
    BY <1>1, <2>2, ClampIsWithin DEF NextIndex
  <2> HIDE DEF w, x, v, n, m
  <2>4. w \in Views /\ w.page = v.page /\ w.index = x /\ w.tool = v.tool
    BY <1>1, <1>2, <2>1, <2>3 DEF Views
  <2>5. Within(w, n)
    BY <1>1, <1>2, <2>3, <2>4 DEF Within, m
  <2> QED BY <2>5 DEF w, n
<1>8. CASE key = "details_next" /\ ~v.tool
  <2> DEFINE p == clampInt(v.page + 1, 0, LastPage(n))
  <2>1. w = [v EXCEPT !.page = p]
    BY <1>8 DEF Turned
  <2>2. v.page + 1 \in Int
    BY <1>2
  <2> DEFINE last == LastPage(n)
  <2>a. last \in Nat /\ 0 <= last /\ 0 \in Nat
    BY <1>1
  <2> HIDE DEF last, v, n
  <2>3. p \in 0 .. LastPage(n)
    <3>1. clampInt(v.page + 1, 0, last) \in 0 .. last
      BY <2>2, <2>a, ClampIsWithin
    <3> QED BY <3>1 DEF last
  <2> HIDE DEF w, p, v, n, m
  <2>4. w \in Views /\ w.page = p /\ w.index = v.index /\ w.tool = v.tool
    BY <1>1, <1>2, <2>1, <2>3 DEF Views
  <2>5. Within(w, n)
    BY <1>1, <1>2, <2>3, <2>4 DEF Within, m
  <2> QED BY <2>5 DEF w, n
<1>9. CASE key = "details_tool_toggle"
  <2> DEFINE f == firstCommentaryWithToolsOnPage(items, v.page)
  <2>1. w = IF hidden.tool /\ hidden.index = 0 THEN [hidden EXCEPT !.index = f] ELSE hidden
    BY <1>9 DEF Turned
  <2>2. f \in 1 .. m
    BY <1>2, FirstIsWithin
  <2> HIDE DEF v, f
  <2>3. /\ hidden \in Views /\ hidden.page = v.page /\ hidden.index = v.index
        /\ hidden.tool = ~v.tool
    BY <1>2 DEF Views
  <2> HIDE DEF w, hidden, n, m
  <2>4. CASE hidden.tool /\ hidden.index = 0
    <3>1. w \in Views /\ w.page = v.page /\ w.index = f
      BY <1>1, <1>2, <2>1, <2>2, <2>3, <2>4 DEF Views
    <3>2. Within(w, n)
      BY <1>1, <1>2, <2>2, <3>1 DEF Within, m
    <3> QED BY <3>2 DEF w, n
  <2>5. CASE ~(hidden.tool /\ hidden.index = 0)
    <3>1. w = hidden
      BY <2>1, <2>5
    <3>2. Within(w, n)
      BY <1>1, <1>2, <2>3, <2>5, <3>1 DEF Within, m
    <3> QED BY <3>2 DEF w, n
  <2> QED BY <2>4, <2>5
<1> QED BY <1>3, <1>4, <1>5, <1>6, <1>7, <1>8, <1>9 DEF Turns

-----------------------------------------------------------------------------
(* Cards and callbacks.                                                     *)

DetailsTypes ==
  /\ panelMode \in {"per_run", "stable"} /\ card \in Runs /\ begun \in 0 .. MaxRuns
  /\ snapTurn \in 0 .. begun /\ rawTurns \subseteq 1 .. begun
  /\ work \in [Runs -> Works \cup {<<>>}]
  /\ page \in [Runs -> [of : 0 .. MaxRuns, view : Views]]
  /\ keys \in [Runs -> SUBSET Views]

\* The card of a turn that is over shows that turn, and it and its keyboards
\* are within what the turn has.
CardRight(r) ==
  LET n == SectionCount(work[r])
  IN  /\ r <= begun /\ page[r].of = r
      /\ Within(page[r].view, n)
      /\ \A view \in keys[r] : Within(view, n)

CardsRight == \A r \in Runs : Finished(r) => CardRight(r)

\* So is what was pressed.
CallbackRight ==
  callback # NoCallback =>
    /\ callback.run \in Runs /\ Finished(callback.run)
    /\ callback.key \in Turns \cup {"details_tools_file"}
    /\ Within(callback.view, SectionCount(work[callback.run]))

DetailsIInv == DetailsTypes /\ CardsRight /\ CallbackRight

LEMMA WorkIsWork ==
  ASSUME DetailsTypes, NEW r \in Runs
  PROVE  IsWork(work[r]) /\ SectionCount(work[r]) \in Nat
<1>1. work[r] \in Seq(ItemKinds)
  <2>1. work[r] \in Works \cup {<<>>}
    BY DEF DetailsTypes
  <2>2. Works \subseteq Seq(ItemKinds) /\ <<>> \in Seq(ItemKinds)
    BY DetailsAssumption DEF ItemKinds
  <2> QED BY <2>1, <2>2
<1> QED BY <1>1, SectionFacts DEF IsWork

LEMMA DetailsInvInit == DetailsInit => DetailsIInv
<1> SUFFICES ASSUME DetailsInit PROVE DetailsIInv
  OBVIOUS
<1>1. NoPage \in [of : 0 .. MaxRuns, view : Views] /\ NoPage.of = 0
  BY DetailsAssumption DEF NoPage, Views, Final
<1>2. DetailsTypes
  BY <1>1, DetailsAssumption DEF DetailsInit, DetailsTypes, Runs
<1>3. \A r \in Runs : ~Finished(r)
  BY <1>1 DEF DetailsInit, Finished
<1>4. callback = NoCallback
  BY DEF DetailsInit
<1> QED BY <1>2, <1>3, <1>4 DEF DetailsIInv, CardsRight, CallbackRight

LEMMA DetailsInvBegins ==
  ASSUME DetailsIInv, TurnBegins
  PROVE  DetailsIInv'
<1> USE DEF DetailsIInv
<1>1. /\ begun < MaxRuns /\ begun' = begun + 1 /\ snapTurn' = begun'
      /\ UNCHANGED <<panelMode, card, work, rawTurns, page, keys, callback>>
  BY DEF TurnBegins
<1>2. DetailsTypes'
  BY <1>1, DetailsAssumption DEF DetailsTypes
<1>3. begun <= begun' /\ begun \in Nat /\ begun' \in Nat /\ Runs \subseteq Nat
  BY <1>1, DetailsAssumption DEF DetailsTypes, Runs
<1>4. CardsRight'
  BY <1>1, <1>3 DEF CardsRight, CardRight, Finished
<1>5. CallbackRight'
  BY <1>1 DEF CallbackRight, Finished
<1> QED BY <1>2, <1>4, <1>5

LEMMA DetailsInvFinal ==
  ASSUME DetailsIInv, maybeRenderFinalCard
  PROVE  DetailsIInv'
<1> USE DEF DetailsIInv
<1> DEFINE x == [of |-> begun, view |-> Final]
<1>1. /\ begun > 0 /\ ~Finished(begun)
      /\ rawTurns' = 1 .. begun /\ snapTurn' = begun
      /\ page' = [page EXCEPT ![begun] = x]
      /\ keys' = [keys EXCEPT ![begun] = {Final}]
      /\ UNCHANGED <<panelMode, card, begun, callback>>
  BY DEF maybeRenderFinalCard
<1>2. PICK items \in Works : work' = [work EXCEPT ![begun] = items]
  BY DEF maybeRenderFinalCard
<1>3. begun \in Runs /\ begun \in 0 .. MaxRuns /\ Runs \subseteq Nat
  BY <1>1, DetailsAssumption DEF DetailsTypes, Runs
<1>4. Final \in Views
  BY DEF Final, Views
<1>5. x \in [of : 0 .. MaxRuns, view : Views] /\ x.of = begun /\ x.view = Final
  BY <1>3, <1>4
<1> HIDE DEF x
<1>6. /\ work \in [Runs -> Works \cup {<<>>}]
      /\ page \in [Runs -> [of : 0 .. MaxRuns, view : Views]]
      /\ keys \in [Runs -> SUBSET Views]
  BY DEF DetailsTypes
<1>7. /\ work' \in [Runs -> Works \cup {<<>>}]
      /\ page' \in [Runs -> [of : 0 .. MaxRuns, view : Views]]
      /\ keys' \in [Runs -> SUBSET Views]
      /\ page'[begun] = x /\ keys'[begun] = {Final}
      /\ \A r \in Runs : r # begun => page'[r] = page[r] /\ keys'[r] = keys[r] /\ work'[r] = work[r]
  BY <1>1, <1>2, <1>3, <1>4, <1>5, <1>6
<1>8. DetailsTypes'
  BY <1>1, <1>3, <1>7 DEF DetailsTypes
<1>9. SectionCount(work[begun])' \in Nat
  <2>1. work'[begun] = items
    BY <1>2, <1>3, <1>6
  <2>2. IsWork(items)
    BY DetailsAssumption DEF IsWork, ItemKinds
  <2>3. SectionCount(work[begun])' = SectionCount(items)
    BY <2>1, <1>1
  <2> QED BY <2>2, <2>3, SectionFacts
<1>10. CardsRight'
  <2> SUFFICES ASSUME NEW r \in Runs, Finished(r)' PROVE CardRight(r)'
    BY DEF CardsRight
  <2>1. CASE r = begun
    BY <2>1, <1>1, <1>3, <1>5, <1>7, <1>9, FinalIsWithin DEF CardRight
  <2>2. CASE r # begun
    BY <2>2, <1>1, <1>7 DEF CardsRight, CardRight, Finished
  <2> QED BY <2>1, <2>2
<1>11. CallbackRight'
  <2> SUFFICES ASSUME callback # NoCallback PROVE CallbackRight'
    BY <1>1 DEF CallbackRight
  <2>1. callback.run # begun
    BY <1>1 DEF CallbackRight
  <2> QED BY <2>1, <1>1, <1>7 DEF CallbackRight, Finished
<1> QED BY <1>8, <1>10, <1>11

\* Steps that change no card.
LEMMA CardsStay ==
  ASSUME CardsRight, UNCHANGED <<work, begun, page, keys>>
  PROVE  CardsRight'
BY DEF CardsRight, CardRight, Finished

LEMMA DetailsInvRead ==
  ASSUME DetailsIInv, ThreadRead
  PROVE  DetailsIInv'
<1>1. /\ UNCHANGED <<panelMode, card, work, begun, page, keys, callback>>
      /\ (rawTurns' = 1 .. begun /\ snapTurn' = begun) \/ (rawTurns' = {} /\ snapTurn' = 0)
  BY DEF ThreadRead
<1>2. DetailsTypes'
  BY <1>1, DetailsAssumption DEF DetailsIInv, DetailsTypes
<1>3. CardsRight'
  BY <1>1, CardsStay DEF DetailsIInv
<1>4. CallbackRight'
  BY <1>1 DEF DetailsIInv, CallbackRight, Finished
<1> QED BY <1>2, <1>3, <1>4 DEF DetailsIInv

LEMMA DetailsInvPressed ==
  ASSUME DetailsIInv, Pressed
  PROVE  DetailsIInv'
<1>1. /\ detailsPanelForCallback(card)
      /\ UNCHANGED <<panelMode, card, work, begun, snapTurn, rawTurns, page, keys>>
  BY DEF Pressed
<1>a. PICK view \in keys[card] : \E key \in detailsButtons(view) :
        callback' = [run |-> card, key |-> key, view |-> view]
  BY DEF Pressed
<1>2. PICK key \in detailsButtons(view) :
        callback' = [run |-> card, key |-> key, view |-> view]
  BY <1>a
<1>3. card \in Runs /\ Finished(card)
  BY <1>1 DEF DetailsIInv, DetailsTypes, detailsPanelForCallback
<1>4. Within(view, SectionCount(work[card]))
  BY <1>3 DEF DetailsIInv, CardsRight, CardRight
<1>5. key \in Turns \cup {"details_tools_file"}
  BY DEF detailsButtons, Turns
<1>6. callback'.run = card /\ callback'.key = key /\ callback'.view = view
  BY <1>2
<1>7. CallbackRight'
  BY <1>1, <1>3, <1>4, <1>5, <1>6 DEF CallbackRight, Finished
<1>8. DetailsTypes'
  BY <1>1 DEF DetailsIInv, DetailsTypes
<1> QED BY <1>1, <1>7, <1>8, CardsStay DEF DetailsIInv

LEMMA DetailsInvHandles ==
  ASSUME DetailsIInv, handleDetailsCallback
  PROVE  DetailsIInv'
<1> DEFINE r == callback.run
           of == snapshotForPanelTurn(r)
           view == Turned(callback.view, callback.key, work[of])
           x == [of |-> of, view |-> view]
<1>1. /\ callback # NoCallback /\ callback.key # "details_tools_file" /\ callback' = NoCallback
      /\ UNCHANGED <<panelMode, card, work, begun, snapTurn, rawTurns>>
      /\ \/ UNCHANGED <<page, keys>>
         \/ /\ of # 0
            /\ page' = [page EXCEPT ![r] = x]
            /\ keys' = [keys EXCEPT ![r] = {view, page[r].view}]
  BY DEF handleDetailsCallback
<1>2. CallbackRight'
  BY <1>1 DEF CallbackRight
<1>3. CASE UNCHANGED <<page, keys>>
  <2>1. DetailsTypes'
    BY <1>1, <1>3 DEF DetailsIInv, DetailsTypes
  <2> QED BY <1>1, <1>2, <1>3, <2>1, CardsStay DEF DetailsIInv
<1>4. CASE /\ of # 0
           /\ page' = [page EXCEPT ![r] = x]
           /\ keys' = [keys EXCEPT ![r] = {view, page[r].view}]
  <2> DEFINE n == SectionCount(work[r])
  <2>1. /\ r \in Runs /\ Finished(r) /\ callback.key \in Turns
        /\ Within(callback.view, n)
    BY <1>1 DEF DetailsIInv, CallbackRight
  <2>2. of = r
    BY <1>4 DEF snapshotForPanelTurn
  <2>3. Within(view, n)
    BY <2>1, <2>2, WorkIsWork, TurnedIsWithin DEF DetailsIInv
  <2>4. CardRight(r)
    BY <2>1 DEF DetailsIInv, CardsRight
  <2> HIDE DEF r, of, view
  <2>5. /\ page \in [Runs -> [of : 0 .. MaxRuns, view : Views]]
        /\ keys \in [Runs -> SUBSET Views] /\ r \in 0 .. MaxRuns
    BY <2>1, DetailsAssumption DEF DetailsIInv, DetailsTypes, Runs
  <2>6. view \in Views /\ page[r].view \in Views
    BY <2>1, <2>3, <2>5 DEF Within
  <2>7. x \in [of : 0 .. MaxRuns, view : Views] /\ x.of = r /\ x.view = view
    BY <2>2, <2>5, <2>6
  <2> HIDE DEF x
  <2>8. /\ page' \in [Runs -> [of : 0 .. MaxRuns, view : Views]]
        /\ keys' \in [Runs -> SUBSET Views]
        /\ page'[r] = x /\ keys'[r] = {view, page[r].view}
        /\ \A k \in Runs : k # r => page'[k] = page[k] /\ keys'[k] = keys[k]
    BY <1>4, <2>1, <2>5, <2>6, <2>7
  <2>9. DetailsTypes'
    BY <1>1, <2>8 DEF DetailsIInv, DetailsTypes
  <2>10. CardsRight'
    <3> SUFFICES ASSUME NEW k \in Runs, Finished(k)' PROVE CardRight(k)'
      BY DEF CardsRight
    <3>1. CASE k = r
      BY <3>1, <1>1, <2>3, <2>4, <2>7, <2>8 DEF CardRight
    <3>2. CASE k # r
      BY <3>2, <1>1, <2>8 DEF DetailsIInv, CardsRight, CardRight, Finished
    <3> QED BY <3>1, <3>2
  <2> QED BY <1>2, <2>9, <2>10 DEF DetailsIInv
<1> QED BY <1>1, <1>3, <1>4

LEMMA DetailsInvNext == DetailsIInv /\ [DetailsNext]_detailsVars => DetailsIInv'
<1> SUFFICES ASSUME DetailsIInv, [DetailsNext]_detailsVars PROVE DetailsIInv'
  OBVIOUS
<1>1. CASE sendDetailsToolsFile
  <2>1. /\ callback' = NoCallback
        /\ UNCHANGED <<panelMode, card, work, begun, snapTurn, rawTurns, page, keys>>
    BY <1>1 DEF sendDetailsToolsFile
  <2>2. DetailsTypes' /\ CallbackRight'
    BY <2>1 DEF DetailsIInv, DetailsTypes, CallbackRight
  <2> QED BY <2>1, <2>2, CardsStay DEF DetailsIInv
<1>2. CASE UNCHANGED detailsVars
  <2>1. UNCHANGED <<panelMode, card, work, begun, snapTurn, rawTurns, page, keys, callback>>
    BY <1>2 DEF detailsVars
  <2>2. DetailsTypes' /\ CallbackRight'
    BY <2>1 DEF DetailsIInv, DetailsTypes, CallbackRight, Finished
  <2> QED BY <2>1, <2>2, CardsStay DEF DetailsIInv
<1> QED BY <1>1, <1>2, DetailsInvBegins, DetailsInvFinal, DetailsInvRead, DetailsInvPressed,
           DetailsInvHandles DEF DetailsNext

LEMMA DetailsInvAlways == DetailsSpec => []DetailsIInv
<1>1. DetailsInit => DetailsIInv
  BY DetailsInvInit
<1>2. DetailsIInv /\ [DetailsNext]_detailsVars => DetailsIInv'
  BY DetailsInvNext
<1> QED BY <1>1, <1>2, PTL DEF DetailsSpec

\* Snapshots, cards and callbacks keep their types, for any works of any
\* number of turns.
THEOREM DetailsKeepTypes == DetailsSpec => []DetailsTypeOK
<1>1. DetailsIInv => DetailsTypeOK
  <2> SUFFICES ASSUME DetailsIInv PROVE DetailsTypeOK
    OBVIOUS
  <2>1. begun \in 0 .. MaxRuns /\ Runs \subseteq Nat /\ 0 \in 0 .. begun
    BY DetailsAssumption DEF DetailsIInv, DetailsTypes, Runs
  <2>2. ASSUME NEW r \in Runs, Finished(r) PROVE r \in 1 .. begun /\ page[r].of = r
    BY <2>1, <2>2 DEF DetailsIInv, CardsRight, CardRight, Runs
  <2>3. \A r \in Runs : page[r].of \in 0 .. begun
    BY <2>1, <2>2 DEF Finished
  <2>4. callback.run \in 0 .. begun
    <3>1. CASE callback = NoCallback
      BY <2>1, <3>1 DEF NoCallback
    <3>2. CASE callback # NoCallback
      <4>1. callback.run \in Runs /\ Finished(callback.run)
        BY <3>2 DEF DetailsIInv, CallbackRight
      <4>2. callback.run \in 1 .. begun
        BY <4>1, <2>2
      <4> QED BY <4>2, <2>1
    <3> QED BY <3>1, <3>2
  <2> QED BY <2>3, <2>4 DEF DetailsIInv, DetailsTypes, DetailsTypeOK
<1> QED BY <1>1, DetailsInvAlways, PTL

\* Whatever buttons are pressed, late or twice, and whatever snapshot is there
\* by then (handleDetailsCallback): a card shows its own turn, a page of it
\* that has sections if the turn has any, and the tools of every section.
THEOREM DetailsStayOwn == DetailsSpec => []DetailsAreOwn
<1>1. DetailsIInv => DetailsAreOwn
  <2> SUFFICES ASSUME DetailsIInv, NEW r \in Runs, Finished(r)
               PROVE  LET view == page[r].view
                          n == SectionCount(work[r])
                          commented == Places(work[r], {"commentary"}) # {}
                      IN  /\ page[r].of = r
                          /\ view.tool \/ n = 0 \/ OnPage(view.page, n) # {}
                          /\ view.tool => view.index \in 1 .. AtLeastOne(n)
                          /\ \A i \in Places(work[r], {"tool"}) :
                               \/ \E k \in 1 .. n : i \in ToolsOf(work[r], k)
                               \/ commented /\ \E j \in Places(work[r], {"plan"}) : j < i
                               \/ ~commented /\ CommentaryIndex(work[r], i) > 3
    BY DEF DetailsAreOwn
  <2> DEFINE view == page[r].view
             n == SectionCount(work[r])
  <2>1. page[r].of = r /\ Within(view, n)
    BY DEF DetailsIInv, CardsRight, CardRight
  <2>2. IsWork(work[r]) /\ n \in Nat
    BY WorkIsWork DEF DetailsIInv
  <2>3. view.page \in 0 .. LastPage(n) /\ AtLeastOne(n) \in Nat
    BY <2>1, <2>2, LastPageFacts, ViewFields DEF Within, AtLeastOne
  <2>4. n # 0 => OnPage(view.page, n) # {}
    BY <2>2, <2>3, PageHasSections
  <2>5. view.tool => view.index \in 1 .. AtLeastOne(n)
    BY <2>1, <2>3, ViewFields DEF Within
  <2> QED BY <2>1, <2>2, <2>4, <2>5, ToolsAreShown
<1> QED BY <1>1, DetailsInvAlways, PTL
=============================================================================
