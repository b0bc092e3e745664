---------------------------- MODULE ApprovalNotice ----------------------------
(***************************************************************************)
(* Requests of the App Server that need the operator, from the JSON-RPC     *)
(* request (appserver/client.go) over the live event loop, the approvals    *)
(* table and the delivery queue (storage/store.go, daemon/service.go) to    *)
(* the answer that a button or a reply sends back.  A session is one App    *)
(* Server process with its client; the next one reuses the JSON-RPC ids.    *)
(***************************************************************************)
EXTENDS Naturals, Sequences

CONSTANTS
  RawIds,       \* JSON-RPC ids of requests, reused by every session
  MaxAttempts,  \* DeliveryMaxAttempts
  Buffer,       \* size of a subscriber's event channel
  MaxSession,   \* bound: sessions ever made
  MaxRestarts   \* bound: restarts of the daemon

Sessions == 1..MaxSession
Requests == [session : Sessions, raw : RawIds]
Keys == Requests

ASSUME ApprovalAssumption ==
  /\ MaxAttempts \in Nat \ {0} /\ Buffer \in Nat \ {0}
  /\ MaxSession \in Nat \ {0} /\ MaxRestarts \in Nat

VARIABLES
  session,    \* the current session
  connected,  \* s.liveConnected
  phase,      \* phase[r]: how far the App Server is with request r
  ids,        \* serverRequestIDs of the current client
  chan,       \* events on their way to the live event loop
  loop,       \* loop[s]: the event the loop of session s is handling
  row,        \* row[k]: the pending_approvals row of key k
  queue,      \* queue[k]: the delivery_queue row of k's notice
  batch,      \* claimed rows the delivery loop still has to look at
  sending,    \* the row it is sending
  shown,      \* messages the operator may have seen, with what they asked
  sent,       \* sent[k]: sends of k's notice that Telegram confirmed
  bot,        \* the answer the bot is in the middle of
  answers,    \* answers[r]: responses to r, and the requests they were meant for
  restarts,
  born        \* the session the daemon started with

lives == <<restarts, born>>
client   == <<session, connected, ids>>
storage  == <<row, queue>>
delivery == <<batch, sending, sent>>
vars == <<client, phase, chan, loop, storage, delivery, shown, bot, answers, lives>>

Nothing == [session |-> 0, raw |-> 0]
NoEvent == [kind |-> "none", key |-> Nothing, req |-> Nothing]
NoBot   == [key |-> Nothing, req |-> Nothing, on |-> 0, step |-> "idle"]
NoSend  == [key |-> Nothing, step |-> "idle"]

Kinds == {"approval", "user_input"}
Maybe(S) == S \cup {Nothing}
Events == [kind : {"none", "request", "resolved", "notice"}, key : Maybe(Keys),
           req : Maybe(Requests)]

TypeOK ==
  /\ session \in Sessions /\ connected \in BOOLEAN
  /\ phase \in [Requests -> {"new", "waiting", "answered", "over"}]
  /\ ids \subseteq Keys
  /\ chan \in Seq(Events) /\ Len(chan) <= Buffer
  /\ loop \in [Sessions -> Events]
  /\ row \in [Keys -> [status : {"none", "pending", "resolved", "needs_recheck"},
                       req : Maybe(Requests)]]
  /\ queue \in [Keys -> [status : {"none", "pending", "retry", "processing",
                                   "delivered", "dead"},
                         tries : 0..MaxAttempts, req : Maybe(Requests)]]
  /\ batch \subseteq Keys
  /\ sending \in [key : Maybe(Keys), step : {"idle", "send", "complete"}]
  /\ shown \subseteq [key : Keys, req : Requests, kind : Kinds]
  /\ sent \in [Keys -> Nat]
  /\ bot \in [key : Maybe(Keys), req : Maybe(Requests), on : 0..MaxSession,
              step : {"idle", "respond", "resolve"}]
  /\ answers \in [Requests -> [times : Nat, meant : SUBSET Requests]]
  /\ restarts \in 0..MaxRestarts /\ born \in Sessions

Init ==
  /\ session = 1 /\ connected = TRUE
  /\ phase = [r \in Requests |-> "new"]
  /\ ids = {} /\ chan = <<>>
  /\ loop = [s \in Sessions |-> NoEvent]
  /\ row = [k \in Keys |-> [status |-> "none", req |-> Nothing]]
  /\ queue = [k \in Keys |-> [status |-> "none", tries |-> 0, req |-> Nothing]]
  /\ batch = {} /\ sending = NoSend
  /\ shown = {} /\ sent = [k \in Keys |-> 0]
  /\ bot = NoBot
  /\ answers = [r \in Requests |-> [times |-> 0, meant |-> {}]]
  /\ restarts = 0 /\ born = 1

-----------------------------------------------------------------------------
(* The client.                                                              *)

\* serverRequestKey: the id is scoped to the client and its generation.  Mutant: it is
\* the JSON-RPC id alone.
RawKey(s, raw) == [session |-> 1, raw |-> raw]

ServerRequestKey(s, raw) == [session |-> s, raw |-> raw]

\* broadcast never blocks: an event for a full channel is dropped.
Broadcast(kind, r) ==
  chan' = IF Len(chan) < Buffer
          THEN Append(chan, [kind |-> kind, req |-> r,
                             key |-> ServerRequestKey(r.session, r.raw)])
          ELSE chan

\* handlePayload for a request of the App Server.
Ask(raw) ==
  LET r == [session |-> session, raw |-> raw]
  IN /\ connected /\ phase[r] = "new"
     /\ phase' = [phase EXCEPT ![r] = "waiting"]
     /\ ids' = ids \cup {ServerRequestKey(session, raw)}
     /\ Broadcast("request", r)
     /\ UNCHANGED <<session, connected, loop, storage, delivery, shown, bot, answers,
                    lives>>

\* handlePayload for serverRequest/resolved, after an answer or an interrupt.
Settle(r) ==
  /\ connected /\ phase[r] \in {"waiting", "answered"}
  /\ phase' = [phase EXCEPT ![r] = "over"]
  /\ ids' = ids \ {ServerRequestKey(session, r.raw)}
  /\ Broadcast("resolved", r)
  /\ UNCHANGED <<session, connected, loop, storage, delivery, shown, bot, answers,
                 lives>>

\* Mutant of TakeId: the id stays known after the response.
KeepId(k) == ids' = ids

TakeId(k) == ids' = ids \ {k}

\* RespondServerRequest on the captured client.  A write that fails has used the id
\* up as well; a stale or used key is refused.
Respond ==
  /\ bot.step = "respond"
  /\ LET k  == bot.key
         to == [session |-> bot.on, raw |-> k.raw]
     IN IF /\ bot.on = session /\ connected
           /\ k \in ids /\ k = ServerRequestKey(session, k.raw)
        THEN /\ TakeId(k)
             /\ \/ /\ answers' = [answers EXCEPT ![to].times = @ + 1,
                                                 ![to].meant = @ \cup {bot.req}]
                   /\ phase' = [phase EXCEPT ![to] = IF @ = "waiting" THEN "answered"
                                                     ELSE @]
                   /\ bot' = [bot EXCEPT !.step = "resolve"]
                \/ bot' = NoBot /\ UNCHANGED <<answers, phase>>
        ELSE bot' = NoBot /\ UNCHANGED <<ids, answers, phase>>
  /\ UNCHANGED <<session, connected, chan, loop, storage, delivery, shown, lives>>

-----------------------------------------------------------------------------
(* The live event loop: one event at a time, in order.                       *)

\* liveEventLoop checks that it is current only before it handles an event, so that
\* the loop of a replaced session still finishes the one it has.
LoopReceives ==
  /\ chan # <<>> /\ loop[session] = NoEvent
  /\ loop' = [loop EXCEPT ![session] = Head(chan)]
  /\ chan' = Tail(chan)
  /\ UNCHANGED <<client, phase, storage, delivery, shown, bot, answers, lives>>

\* SavePendingApproval.  A question is shown on the card of its thread at once, a
\* permission request gets a notice of its own.
LoopSaves(s, kind) ==
  /\ loop[s].kind = "request"
  /\ row' = [row EXCEPT ![loop[s].key] = [status |-> "pending", req |-> loop[s].req]]
  /\ IF kind = "user_input"
     THEN /\ shown' = shown \cup {[key |-> loop[s].key, req |-> loop[s].req, kind |-> kind]}
          /\ loop' = [loop EXCEPT ![s] = NoEvent]
     ELSE /\ loop' = [loop EXCEPT ![s].kind = "notice"]
          /\ UNCHANGED shown
  /\ UNCHANGED <<client, phase, chan, queue, delivery, bot, answers, lives>>

\* enqueueApprovalNotice: one row per key and chat, a second one is ignored.
LoopEnqueues(s) ==
  /\ loop[s].kind = "notice"
  /\ queue' = [queue EXCEPT ![loop[s].key] =
                 IF @.status = "none"
                 THEN [status |-> "pending", tries |-> 0, req |-> loop[s].req] ELSE @]
  /\ loop' = [loop EXCEPT ![s] = NoEvent]
  /\ UNCHANGED <<client, phase, chan, row, delivery, shown, bot, answers, lives>>

LoopResolves(s) ==
  /\ loop[s].kind = "resolved"
  /\ row' = [row EXCEPT ![loop[s].key].status = IF @ = "none" THEN @ ELSE "resolved"]
  /\ loop' = [loop EXCEPT ![s] = NoEvent]
  /\ UNCHANGED <<client, phase, chan, queue, delivery, shown, bot, answers, lives>>

-----------------------------------------------------------------------------
(* The delivery loop.  Rows are independent: their order in a batch is left  *)
(* open, and any non-empty set of them may be due and fit into a batch.      *)

ClaimDeliveryBatch ==
  /\ batch = {} /\ sending = NoSend
  /\ batch' \in SUBSET {k \in Keys : queue[k].status \in {"pending", "retry"}}
  /\ batch' # {}
  /\ queue' = [k \in Keys |-> IF k \in batch'
                              THEN [queue[k] EXCEPT !.status = "processing"] ELSE queue[k]]
  /\ UNCHANGED <<client, phase, chan, loop, row, sending, sent, shown, bot, answers, lives>>

\* FailDelivery.  Mutants: no attempt is the last one; the attempt is not counted.
FailNeverDies(k) == queue' = [queue EXCEPT ![k].tries = @ + 1, ![k].status = "retry"]
FailUncounted(k) == queue' = [queue EXCEPT ![k].status = "retry"]

FailDelivery(k) ==
  queue' = [queue EXCEPT ![k].tries = @ + 1,
                         ![k].status = IF queue[k].tries + 1 >= MaxAttempts
                                       THEN "dead" ELSE "retry"]

\* processDeliveryBatch looks the approval up; a settled one needs no message.
LookUp(k) ==
  /\ k \in batch /\ sending = NoSend
  /\ batch' = batch \ {k}
  /\ \/ FailDelivery(k) /\ UNCHANGED sending
     \/ /\ row[k].status # "pending"
        /\ queue' = [queue EXCEPT ![k].status = "delivered"]
        /\ UNCHANGED sending
     \/ /\ row[k].status = "pending"
        /\ sending' = [key |-> k, step |-> "send"]
        /\ UNCHANGED queue
  /\ UNCHANGED <<client, phase, chan, loop, row, sent, shown, bot, answers, lives>>

Message(k) == [key |-> k, req |-> queue[k].req, kind |-> "approval"]

\* SendMessage; a failed one may have arrived all the same.
SendFails ==
  /\ sending.step = "send"
  /\ FailDelivery(sending.key)
  /\ shown' \in {shown, shown \cup {Message(sending.key)}}
  /\ sending' = NoSend
  /\ UNCHANGED <<client, phase, chan, loop, row, batch, sent, bot, answers, lives>>

SendArrives ==
  /\ sending.step = "send"
  /\ shown' = shown \cup {Message(sending.key)}
  /\ sent' = [sent EXCEPT ![sending.key] = @ + 1]
  /\ sending' = [sending EXCEPT !.step = "complete"]
  /\ UNCHANGED <<client, phase, chan, loop, storage, batch, bot, answers, lives>>

CompleteDelivery ==
  /\ sending.step = "complete"
  /\ queue' = [queue EXCEPT ![sending.key].status = "delivered"]
  /\ sending' = NoSend
  /\ UNCHANGED <<client, phase, chan, loop, row, batch, sent, shown, bot, answers,
                 lives>>

-----------------------------------------------------------------------------
(* The operator: approve and respondUserInputRequest.  The bot handles one   *)
(* update at a time, and a message may be used at any later time.            *)

Press(m) ==
  /\ bot = NoBot /\ m \in shown /\ connected
  /\ m.kind = "approval" => row[m.key].status = "pending"
  /\ bot' = [key |-> m.key, req |-> m.req, on |-> session, step |-> "respond"]
  /\ UNCHANGED <<client, phase, chan, loop, storage, delivery, shown, answers, lives>>

Resolve ==
  /\ bot.step = "resolve"
  /\ row' = [row EXCEPT ![bot.key].status = "resolved"]
  /\ bot' = NoBot
  /\ UNCHANGED <<client, phase, chan, loop, queue, delivery, shown, answers, lives>>

-----------------------------------------------------------------------------
(* Sessions come and go.                                                     *)

\* The App Server process ends with everything it waited for.
NewSession ==
  /\ session < MaxSession
  /\ session' = session + 1
  /\ ids' = {} /\ chan' = <<>>
  /\ phase' = [r \in Requests |-> IF r.session = session THEN "over" ELSE phase[r]]

MarkAllPendingApprovals ==
  row' = [k \in Keys |-> IF row[k].status = "pending"
                         THEN [row[k] EXCEPT !.status = "needs_recheck"] ELSE row[k]]

\* repairSessions: the swap, and the mark before the new session is connected.
RepairSwaps ==
  /\ connected /\ NewSession
  /\ connected' = FALSE
  /\ UNCHANGED <<loop, storage, delivery, shown, bot, answers, lives>>

RepairMarks ==
  /\ ~connected
  /\ connected' = TRUE
  /\ MarkAllPendingApprovals
  /\ UNCHANGED <<session, ids, phase, chan, loop, queue, delivery, shown, bot, answers,
                 lives>>

\* A release or an archive recycles the session and marks nothing.
Recycle ==
  /\ connected /\ NewSession
  /\ UNCHANGED <<connected, loop, storage, delivery, shown, bot, answers, lives>>

\* The daemon stops at any point and is started again: everything but the store is
\* lost.  Mutant of MarkAtStart: the requests of the previous process are not marked.
KeepAtStart == row' = row
MarkAtStart == MarkAllPendingApprovals

Restart ==
  /\ restarts < MaxRestarts /\ restarts' = restarts + 1
  /\ NewSession /\ connected' = TRUE /\ born' = session'
  /\ loop' = [s \in Sessions |-> NoEvent]
  /\ batch' = {} /\ sending' = NoSend /\ bot' = NoBot
  /\ MarkAtStart
  /\ UNCHANGED <<queue, sent, shown, answers>>

DeliveryStep ==
  \/ ClaimDeliveryBatch \/ SendFails \/ SendArrives \/ CompleteDelivery
  \/ \E k \in Keys : LookUp(k)

LoopStep ==
  \/ LoopReceives
  \/ \E s \in Sessions, kind \in Kinds : LoopSaves(s, kind)
  \/ \E s \in Sessions : LoopEnqueues(s) \/ LoopResolves(s)

BotStep == Respond \/ Resolve \/ \E m \in shown : Press(m)

Environment ==
  \/ RepairSwaps \/ RepairMarks \/ Recycle \/ Restart
  \/ \E raw \in RawIds : Ask(raw)
  \/ \E r \in Requests : Settle(r)

Next == DeliveryStep \/ LoopStep \/ BotStep \/ Environment

Spec == Init /\ [][Next]_vars

\* The delivery loop runs every second, and each of its sends has a deadline.
FairSpec == Spec /\ WF_vars(DeliveryStep)

-----------------------------------------------------------------------------
(* Properties.                                                              *)

\* contract-matrix.md: approval identities are scoped to one App Server connection.
\* A button never answers another request than the one it was shown for, whatever
\* sessions came between; and no request is answered twice, although the answer to a
\* question does not look at the status of its row.
AnswersMeetTheirRequest ==
  \A r \in Requests : answers[r].meant \subseteq {r} /\ answers[r].times <= 1

\* The client, the loops, the store and the bot together keep the promise of Approval:
\* only an asked request is shown, and an answer reaches the request of the message that
\* was used, while it waits and once.
Promise == INSTANCE Approval WITH
  state   <- phase,
  seen    <- {m.req : m \in shown},
  pressed <- IF bot.step = "respond" THEN bot.req ELSE Nothing,
  taken   <- [r \in Requests |-> answers[r].times],
  Nobody  <- Nothing

Approvals == Promise!Spec

\* service.go: requests of a previous process cannot be answered by the new App
\* Server.  After a restart of the daemon no notice of an earlier life is sent, though
\* its row may still be queued.
NoticeIsOfThisLife == sending.step # "idle" => sending.key.session >= born

\* A notice counts as delivered without having been sent only if its request needs
\* no answer any more.
DroppedNoticeIsSettled ==
  \A k \in Keys : queue[k].status = "delivered" /\ sent[k] = 0 => row[k].status # "pending"

\* Of the notices in the queue, those and only those are sent whose request can still be
\* answered; failed sends, restarts and settlements beside the send change nothing.
NoticesAreRight == NoticeIsOfThisLife /\ DroppedNoticeIsSettled

InHand(k) == k \in batch \/ sending.key = k

\* success-metrics.md: retries end.  A queued notice is delivered or dead in the end,
\* or the daemon stopped while it had the row in its hands.
NoticeEnds ==
  \A k \in Keys :
    queue[k].status \in {"pending", "retry"} ~>
      \/ queue[k].status \in {"delivered", "dead"}
      \/ queue[k].status = "processing" /\ ~InHand(k)

\* contract-matrix.md: delivery is durable across restarts of the daemon; and
\* success-metrics.md: it ends in the dead-letter state instead of silent loss.
NoticeSurvivesRestarts ==
  \A k \in Keys :
    queue[k].status \in {"pending", "retry"} ~> queue[k].status \in {"delivered", "dead"}
=============================================================================
