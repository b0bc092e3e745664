------------------------- MODULE TurnNotices_proof -------------------------
(***************************************************************************)
(* Proofs about approval notices (ApprovalNotice), the readings of a thread  *)
(* (TurnWatch) and the composition of the two (MCTurnNotices), for any       *)
(* numbers of sessions, restarts, JSON-RPC ids and attempts and any scripts. *)
(*                                                                           *)
(* ApprovalNotice: a key is a request.  What the channel, the tables, the    *)
(* messages and the bot hold under a key is of the request with that session *)
(* and that id, and of no other.  TurnWatch: what a goroutine holds is as    *)
(* good as what is stored.  An interruption it is about to store was meant,  *)
(* and a live row that it goes by was read while it works.                   *)
(***************************************************************************)
EXTENDS MCTurnNotices, TLAPS

ApprovalRow == [status : {"none", "pending", "resolved", "needs_recheck"}, req : Maybe(Requests)]
QueueType == [status : {"none", "pending", "retry", "processing", "delivered", "dead"},
              tries : 0..MaxAttempts, req : Maybe(Requests)]

\* Whatever carries a key is about the request that the key names, and events are of
\* the session whose loop reads them.
Identities ==
  /\ \A i \in 1..Len(chan) :
       /\ chan[i].kind \in {"request", "resolved"} /\ chan[i].key \in Keys
       /\ chan[i].req = chan[i].key /\ chan[i].key.session = session
  /\ \A s \in Sessions : loop[s].kind # "none" =>
       loop[s].key \in Keys /\ loop[s].req = loop[s].key /\ loop[s].key.session = s
  /\ \A k \in Keys : queue[k].status # "none" => queue[k].req = k
  /\ \A m \in shown : m.req = m.key
  /\ bot.step # "idle" => bot.key \in Keys /\ bot.req = bot.key
  /\ \A k \in ids : k.session = session
  /\ \A r \in Requests : phase[r] \in {"waiting", "answered"} => r.session = session

\* A request that the client still knows has no answer yet.
Answering ==
  /\ \A r \in Requests : answers[r].meant \subseteq {r} /\ answers[r].times <= 1
  /\ \A k \in ids : phase[k] # "new" /\ answers[k].times = 0
  /\ \A r \in Requests : phase[r] = "new" => answers[r].times = 0

\* What may be sent, or may come to be, is of this life of the daemon.
Lives ==
  /\ born <= session
  /\ \A s \in Sessions : loop[s].kind # "none" => s >= born
  /\ \A k \in Keys : row[k].status = "pending" => k.session >= born
  /\ sending.step # "idle" => sending.key.session >= born

\* A request is announced by one event, and has no notice before that is handled.
FirstNotice ==
  /\ \A i \in 1..Len(chan) : chan[i].kind = "request" =>
       /\ queue[chan[i].key].status = "none" /\ phase[chan[i].key] # "new"
       /\ ~(loop[session].kind \in {"request", "notice"} /\ loop[session].key = chan[i].key)
  /\ \A i, j \in 1..Len(chan) :
       chan[i].kind = "request" /\ chan[j].kind = "request" /\ chan[i].key = chan[j].key => i = j
  /\ \A s \in Sessions : loop[s].kind \in {"request", "notice"} =>
       queue[loop[s].key].status = "none" /\ phase[loop[s].key] # "new"
  /\ \A k \in Keys : phase[k] = "new" => queue[k].status = "none"

\* The delivery loop handles rows that it claimed, and each of them once at a time.
Handling ==
  /\ \A k \in Keys : queue[k].status # "dead" => queue[k].tries < MaxAttempts
  /\ \A k \in batch : queue[k].status = "processing"
  /\ sending.step = "idle" => sending = NoSend
  /\ sending.step # "idle" => sending.key \in Keys \ batch /\ queue[sending.key].status = "processing"
  /\ sending.step = "complete" => sent[sending.key] > 0
  /\ DroppedNoticeIsSettled

NoticeInv == TypeOK /\ Identities /\ Answering /\ Lives /\ FirstNotice /\ Handling

-----------------------------------------------------------------------------
LEMMA NoticeConstants ==
  /\ MaxAttempts \in Nat \ {0} /\ Buffer \in Nat \ {0} /\ MaxSession \in Nat \ {0}
  /\ Sessions \subseteq Nat /\ 0 \notin Sessions /\ 1 \in Sessions
BY ApprovalAssumption DEF Sessions

\* A request is the record of its session and its id, and nothing is no request.
LEMMA Records ==
  /\ \A r \in Requests : /\ r.session \in Sessions /\ r.raw \in RawIds
                         /\ r = [session |-> r.session, raw |-> r.raw]
  /\ \A s \in Sessions, raw \in RawIds :
       /\ [session |-> s, raw |-> raw] \in Requests
       /\ [session |-> s, raw |-> raw].session = s /\ [session |-> s, raw |-> raw].raw = raw
  /\ Nothing \notin Requests /\ Keys = Requests
<1>1. Nothing \notin Requests
  BY NoticeConstants DEF Nothing, Requests
<1> QED
  BY <1>1 DEF Requests, Keys

\* serverRequestKey names the request itself.
LEMMA KeyIsRequest ==
  ASSUME NEW r \in Requests
  PROVE  ServerRequestKey(r.session, r.raw) = r
BY Records DEF ServerRequestKey

LEMMA NoticeStarts == Init => NoticeInv
<1> SUFFICES ASSUME Init PROVE NoticeInv
  OBVIOUS
<1>1. NoEvent \in Events /\ NoEvent.kind = "none"
  BY DEF NoEvent, Events, Maybe
<1>2. TypeOK
  <2>1. chan \in Seq(Events) /\ Len(chan) <= Buffer
    BY NoticeConstants DEF Init
  <2>2. [status |-> "none", req |-> Nothing] \in ApprovalRow
    BY DEF ApprovalRow, Maybe
  <2>3. [status |-> "none", tries |-> 0, req |-> Nothing] \in QueueType
    BY NoticeConstants DEF QueueType, Maybe
  <2>4. NoBot \in [key : Maybe(Keys), req : Maybe(Requests), on : 0..MaxSession,
                   step : {"idle", "respond", "resolve"}]
    BY NoticeConstants DEF NoBot, Maybe
  <2>5. NoSend \in [key : Maybe(Keys), step : {"idle", "send", "complete"}]
    BY DEF NoSend, Maybe
  <2>6. [times |-> 0, meant |-> {}] \in [times : Nat, meant : SUBSET Requests]
    OBVIOUS
  <2>7. restarts \in 0..MaxRestarts
    BY ApprovalAssumption DEF Init
  <2>8. row \in [Keys -> ApprovalRow] /\ queue \in [Keys -> QueueType]
    BY <2>2, <2>3 DEF Init
  <2>9. loop \in [Sessions -> Events]
    BY <1>1 DEF Init
  <2>10. answers \in [Requests -> [times : Nat, meant : SUBSET Requests]]
    BY <2>6 DEF Init
  <2> QED
    BY <2>1, <2>4, <2>5, <2>7, <2>8, <2>9, <2>10, NoticeConstants DEF Init, TypeOK, ApprovalRow, QueueType
<1>3. Identities /\ Answering
  BY <1>1 DEF Init, Identities, Answering, NoBot
<1>4. Lives /\ FirstNotice
  BY <1>1 DEF Init, Lives, FirstNotice, NoSend
<1>5. Handling
  BY NoticeConstants DEF Init, Handling, NoSend, DroppedNoticeIsSettled
<1> QED
  BY <1>2, <1>3, <1>4, <1>5 DEF NoticeInv

-----------------------------------------------------------------------------
(* What the operators on channels and tables do, row by row.                *)

LEMMA BroadcastFacts ==
  ASSUME TypeOK, NEW r \in Requests, NEW kind \in {"request", "resolved"}, Broadcast(kind, r)
  PROVE  /\ chan' \in Seq(Events) /\ Len(chan') <= Buffer
         /\ \A i \in 1..Len(chan') :
              \/ i \in 1..Len(chan) /\ chan'[i] = chan[i]
              \/ /\ i = Len(chan) + 1
                 /\ chan'[i].kind = kind /\ chan'[i].req = r /\ chan'[i].key = r
<1> DEFINE e == [kind |-> kind, req |-> r, key |-> r]
<1>1. e \in Events
  BY Records DEF Events, Maybe
<1>2. chan' = IF Len(chan) < Buffer THEN Append(chan, e) ELSE chan
  BY KeyIsRequest DEF Broadcast
<1>3. chan \in Seq(Events) /\ Len(chan) <= Buffer /\ Len(chan) \in Nat
  BY DEF TypeOK
<1>4. e.kind = kind /\ e.req = r /\ e.key = r
  OBVIOUS
<1> HIDE DEF e
<1>5. CASE Len(chan) < Buffer
  <2>1. chan' = Append(chan, e)
    BY <1>2, <1>5
  <2>2. chan' \in Seq(Events) /\ Len(chan') = Len(chan) + 1
    BY <1>1, <1>3, <2>1
  <2>3. \A i \in 1..Len(chan) : chan'[i] = chan[i]
    BY <1>3, <2>1
  <2>4. chan'[Len(chan) + 1] = e
    BY <1>3, <2>1
  <2>5. Len(chan') <= Buffer
    BY <1>3, <1>5, <2>2, NoticeConstants
  <2>6. \A i \in 1..Len(chan') : i \in 1..Len(chan) \/ i = Len(chan) + 1
    BY <1>3, <2>2
  <2> QED
    BY <1>4, <2>2, <2>3, <2>4, <2>5, <2>6
<1>6. CASE ~(Len(chan) < Buffer)
  BY <1>2, <1>3, <1>6
<1> QED
  BY <1>5, <1>6

LEMMA QueueStatus ==
  ASSUME TypeOK, NEW k \in Keys,
         NEW s \in {"none", "pending", "retry", "processing", "delivered", "dead"},
         queue' = [queue EXCEPT ![k].status = s]
  PROVE  /\ queue' \in [Keys -> QueueType]
         /\ \A j \in Keys : j # k => queue'[j] = queue[j]
         /\ queue'[k].status = s /\ queue'[k].tries = queue[k].tries /\ queue'[k].req = queue[k].req
<1>1. queue \in [Keys -> QueueType]
  BY DEF TypeOK, QueueType
<1> DEFINE q == [queue[k] EXCEPT !.status = s]
<1>2. queue' = [queue EXCEPT ![k] = q]
  OBVIOUS
<1>3. q \in QueueType /\ q.status = s /\ q.tries = queue[k].tries /\ q.req = queue[k].req
  BY <1>1 DEF QueueType
<1> HIDE DEF q
<1> QED
  BY <1>1, <1>2, <1>3

LEMMA FailFacts ==
  ASSUME TypeOK, NEW k \in Keys, queue[k].tries < MaxAttempts, FailDelivery(k)
  PROVE  /\ queue' \in [Keys -> QueueType]
         /\ \A j \in Keys : j # k => queue'[j] = queue[j]
         /\ queue'[k].status \in {"dead", "retry"} /\ queue'[k].req = queue[k].req
         /\ queue'[k].status # "dead" => queue'[k].tries < MaxAttempts
<1>1. queue \in [Keys -> QueueType]
  BY DEF TypeOK, QueueType
<1> DEFINE s == IF queue[k].tries + 1 >= MaxAttempts THEN "dead" ELSE "retry"
           t == queue[k].tries + 1
           q == [queue[k] EXCEPT !.tries = t, !.status = s]
<1>2. queue' = [queue EXCEPT ![k] = q]
  BY DEF FailDelivery
<1>3. queue[k].tries \in 0..MaxAttempts /\ queue[k] \in QueueType
  BY <1>1 DEF QueueType
<1>4. t \in 0..MaxAttempts
  BY <1>3, NoticeConstants
<1>5. s \in {"dead", "retry"} /\ (s # "dead" => t < MaxAttempts)
  BY <1>3, NoticeConstants
<1> HIDE DEF s, t
<1>6. PICK x \in QueueType : x = queue[k]
  BY <1>3
<1> DEFINE y == [x EXCEPT !.tries = t, !.status = s]
<1>7. y \in QueueType /\ y.status = s /\ y.tries = t /\ y.req = x.req
  BY <1>4, <1>5, <1>6 DEF QueueType
<1>8. queue' = [queue EXCEPT ![k] = y]
  BY <1>2, <1>6
<1> HIDE DEF y
<1> QED
  BY <1>1, <1>5, <1>6, <1>7, <1>8

LEMMA RowStatus ==
  ASSUME TypeOK, NEW k \in Keys, NEW s \in {"none", "resolved"},
         row' = [row EXCEPT ![k].status = s]
  PROVE  /\ row' \in [Keys -> ApprovalRow]
         /\ \A j \in Keys : row'[j].status = "pending" => row[j].status = "pending"
<1>1. row \in [Keys -> ApprovalRow]
  BY DEF TypeOK, ApprovalRow
<1> DEFINE q == [row[k] EXCEPT !.status = s]
<1>2. row' = [row EXCEPT ![k] = q]
  OBVIOUS
<1>3. q \in ApprovalRow /\ q.status = s
  BY <1>1 DEF ApprovalRow
<1> HIDE DEF q
<1> QED
  BY <1>1, <1>2, <1>3

LEMMA MarkFacts ==
  ASSUME TypeOK, MarkAllPendingApprovals
  PROVE  /\ row' \in [Keys -> ApprovalRow] /\ \A j \in Keys : row'[j].status # "pending"
<1>1. row \in [Keys -> ApprovalRow]
  BY DEF TypeOK, ApprovalRow
<1>2. \A k \in Keys : /\ [row[k] EXCEPT !.status = "needs_recheck"] \in ApprovalRow
                      /\ [row[k] EXCEPT !.status = "needs_recheck"].status = "needs_recheck"
  BY <1>1 DEF ApprovalRow
<1>3. row' = [k \in Keys |-> IF row[k].status = "pending"
                         THEN [row[k] EXCEPT !.status = "needs_recheck"] ELSE row[k]]
  BY DEF MarkAllPendingApprovals
<1>4. \A k \in Keys : row'[k] \in ApprovalRow /\ row'[k].status # "pending"
  BY <1>1, <1>2, <1>3
<1>5. row' = [k \in Keys |-> row'[k]]
  BY <1>3
<1> QED
  BY <1>4, <1>5

\* Rows that leave "pending" disturb nothing.
LEMMA RowsSettle ==
  ASSUME NoticeInv, \A j \in Keys : row'[j].status = "pending" => row[j].status = "pending",
         UNCHANGED <<born, session, loop, sending, queue, batch, sent>>
  PROVE  Lives' /\ Handling'
BY DEF NoticeInv, Lives, Handling, DroppedNoticeIsSettled

-----------------------------------------------------------------------------
(* The client and the bot.                                                  *)

LEMMA AskKeeps ==
  ASSUME NoticeInv, NEW raw \in RawIds, Ask(raw)
  PROVE  NoticeInv'
<1> USE DEF NoticeInv
<1> DEFINE r == [session |-> session, raw |-> raw]
<1>1. /\ phase[r] = "new" /\ phase' = [phase EXCEPT ![r] = "waiting"]
      /\ ids' = ids \cup {r} /\ Broadcast("request", r)
      /\ UNCHANGED <<session, connected, loop, storage, delivery, shown, bot, answers, lives>>
  BY DEF Ask, ServerRequestKey
<1>2. session \in Sessions /\ phase \in [Requests -> {"new", "waiting", "answered", "over"}]
      /\ Len(chan) \in Nat
  BY DEF TypeOK
<1>3. r \in Requests /\ r.session = session /\ r \in Keys
  BY <1>2, Records
<1> HIDE DEF r
<1>4. /\ chan' \in Seq(Events) /\ Len(chan') <= Buffer
      /\ \A i \in 1..Len(chan') :
           \/ i \in 1..Len(chan) /\ chan'[i] = chan[i]
           \/ /\ i = Len(chan) + 1
              /\ chan'[i].kind = "request" /\ chan'[i].req = r /\ chan'[i].key = r
  BY <1>1, <1>3, BroadcastFacts
<1>5. TypeOK'
  BY <1>1, <1>2, <1>3, <1>4 DEF TypeOK, storage, delivery, lives
<1>6. /\ phase'[r] = "waiting" /\ \A k \in Requests : k # r => phase'[k] = phase[k]
  BY <1>1, <1>2, <1>3
<1>7. Identities'
  BY <1>1, <1>3, <1>4, <1>6 DEF Identities, storage
<1>8. Answering'
  <2>1. ids \subseteq Requests
    BY Records DEF TypeOK
  <2> QED
    BY <1>1, <1>3, <1>6, <2>1 DEF Answering
<1>9. Lives' /\ Handling'
  BY <1>1 DEF Lives, Handling, DroppedNoticeIsSettled, storage, delivery, lives
<1>10. FirstNotice'
  <2>1. /\ queue[r].status = "none"
        /\ \A i \in 1..Len(chan) : chan[i].kind = "request" => chan[i].key # r
        /\ \A s \in Sessions : loop[s].kind \in {"request", "notice"} => loop[s].key # r
    BY <1>1, <1>3 DEF FirstNotice
  <2>2. \A i \in 1..Len(chan) : chan[i].key \in Requests
    BY Records DEF Identities
  <2>3. \A s \in Sessions : loop[s].kind # "none" => loop[s].key \in Requests
    BY Records DEF Identities
  <2>4. UNCHANGED <<session, loop, queue>>
    BY <1>1 DEF storage
  <2>5. \A i \in 1..Len(chan') : chan'[i].kind = "request" =>
          /\ queue'[chan'[i].key].status = "none" /\ phase'[chan'[i].key] # "new"
          /\ ~(loop'[session'].kind \in {"request", "notice"} /\ loop'[session'].key = chan'[i].key)
    BY <1>2, <1>4, <1>6, <2>1, <2>2, <2>4 DEF FirstNotice
  <2>6. \A i, j \in 1..Len(chan') :
          chan'[i].kind = "request" /\ chan'[j].kind = "request" /\ chan'[i].key = chan'[j].key => i = j
    BY <1>4, <2>1 DEF FirstNotice
  <2>7. \A s \in Sessions : loop'[s].kind \in {"request", "notice"} =>
          queue'[loop'[s].key].status = "none" /\ phase'[loop'[s].key] # "new"
    BY <1>6, <2>1, <2>3, <2>4 DEF FirstNotice
  <2>8. \A k \in Keys : phase'[k] = "new" => queue'[k].status = "none"
    BY <1>6, <2>4, Records DEF FirstNotice
  <2> QED
    BY <2>5, <2>6, <2>7, <2>8 DEF FirstNotice
<1> QED
  BY <1>5, <1>7, <1>8, <1>9, <1>10

LEMMA SettleKeeps ==
  ASSUME NoticeInv, NEW r \in Requests, Settle(r)
  PROVE  NoticeInv'
<1> USE DEF NoticeInv
<1>1. /\ phase[r] \in {"waiting", "answered"} /\ phase' = [phase EXCEPT ![r] = "over"]
      /\ ids' \subseteq ids /\ Broadcast("resolved", r)
      /\ UNCHANGED <<session, connected, loop, storage, delivery, shown, bot, answers, lives>>
  BY DEF Settle
<1>2. /\ phase \in [Requests -> {"new", "waiting", "answered", "over"}]
      /\ r.session = session /\ r \in Keys
  BY <1>1, Records DEF TypeOK, Identities
<1>3. /\ chan' \in Seq(Events) /\ Len(chan') <= Buffer
      /\ \A i \in 1..Len(chan') :
           \/ i \in 1..Len(chan) /\ chan'[i] = chan[i]
           \/ /\ i = Len(chan) + 1
              /\ chan'[i].kind = "resolved" /\ chan'[i].req = r /\ chan'[i].key = r
  BY <1>1, BroadcastFacts
<1>4. TypeOK'
  BY <1>1, <1>2, <1>3 DEF TypeOK, storage, delivery, lives
<1>5. /\ \A k \in Requests : phase'[k] = "new" => phase[k] = "new"
      /\ \A k \in Requests : phase'[k] \in {"waiting", "answered"} => phase[k] = phase'[k]
      /\ \A k \in Requests : phase[k] # "new" => phase'[k] # "new"
  BY <1>1, <1>2
<1>6. Identities'
  BY <1>1, <1>2, <1>3, <1>5 DEF Identities, storage
<1>7. Answering'
  <2>1. ids \subseteq Requests
    BY Records DEF TypeOK
  <2> QED
    BY <1>1, <1>5, <2>1 DEF Answering
<1>8. Lives' /\ Handling'
  BY <1>1 DEF Lives, Handling, DroppedNoticeIsSettled, storage, delivery, lives
<1>9. FirstNotice'
  <2>1. \A i \in 1..Len(chan') : chan'[i].kind = "request" => i \in 1..Len(chan) /\ chan'[i] = chan[i]
    BY <1>3
  <2>2. \A i \in 1..Len(chan) : chan[i].key \in Requests
    BY Records DEF Identities
  <2>3. \A s \in Sessions : loop[s].kind # "none" => loop[s].key \in Requests
    BY Records DEF Identities
  <2>4. UNCHANGED <<session, loop, queue>>
    BY <1>1 DEF storage
  <2> QED
    BY <1>5, <2>1, <2>2, <2>3, <2>4, Records DEF FirstNotice
<1> QED
  BY <1>4, <1>6, <1>7, <1>8, <1>9

LEMMA RespondKeeps ==
  ASSUME NoticeInv, Respond
  PROVE  NoticeInv'
<1> USE DEF NoticeInv
<1> DEFINE k == bot.key
           to == [session |-> bot.on, raw |-> k.raw]
<1>1. /\ bot.step = "respond"
      /\ UNCHANGED <<session, connected, chan, loop, storage, delivery, shown, lives>>
  BY DEF Respond
<1>2. k \in Requests /\ bot.req = k
  BY <1>1, Records DEF Identities
<1>3. /\ phase \in [Requests -> {"new", "waiting", "answered", "over"}]
      /\ answers \in [Requests -> [times : Nat, meant : SUBSET Requests]]
      /\ ids \subseteq Requests
      /\ bot \in [key : Maybe(Keys), req : Maybe(Requests), on : 0..MaxSession,
                  step : {"idle", "respond", "resolve"}]
  BY Records DEF TypeOK
<1>4. NoBot \in [key : Maybe(Keys), req : Maybe(Requests), on : 0..MaxSession,
                 step : {"idle", "respond", "resolve"}] /\ NoBot.step = "idle"
  BY NoticeConstants DEF NoBot, Maybe
<1>5. CASE /\ bot.on = session /\ k \in ids
           /\ answers' = [answers EXCEPT ![to].times = @ + 1, ![to].meant = @ \cup {bot.req}]
           /\ phase' = [phase EXCEPT ![to] = IF @ = "waiting" THEN "answered" ELSE @]
           /\ bot' = [bot EXCEPT !.step = "resolve"] /\ ids' = ids \ {k}
  <2>1. to = k
    <3>1. k.session = session
      BY <1>5 DEF Identities
    <3> QED
      BY <1>2, <1>5, <3>1, Records
  <2>2. phase' = [phase EXCEPT ![k] = IF @ = "waiting" THEN "answered" ELSE @]
    BY <1>5, <2>1
  <2>3. /\ phase' \in [Requests -> {"new", "waiting", "answered", "over"}]
        /\ \A r \in Requests : r # k => phase'[r] = phase[r]
        /\ \A r \in Requests : phase'[r] = "new" <=> phase[r] = "new"
        /\ \A r \in Requests : phase'[r] \in {"waiting", "answered"} => phase[r] \in {"waiting", "answered"}
    BY <1>2, <1>3, <2>2
  <2>4. PICK a \in [times : Nat, meant : SUBSET Requests] : a = answers[k]
    BY <1>2, <1>3
  <2> DEFINE t == a.times + 1
             m == a.meant \cup {k}
  <2>5. t \in Nat /\ m \in SUBSET Requests
    BY <1>2, <2>4
  <2>6. answers' = [answers EXCEPT ![k] = [a EXCEPT !.times = t, !.meant = m]]
    BY <1>2, <1>5, <2>1, <2>4
  <2>61. t = a.times + 1 /\ m = a.meant \cup {k}
    OBVIOUS
  <2> HIDE DEF t, m
  <2> DEFINE b == [a EXCEPT !.times = t, !.meant = m]
  <2>62. b \in [times : Nat, meant : SUBSET Requests] /\ b.times = t /\ b.meant = m
    BY <2>4, <2>5
  <2>63. answers' = [answers EXCEPT ![k] = b]
    BY <2>6
  <2> HIDE DEF b
  <2>7. /\ answers' \in [Requests -> [times : Nat, meant : SUBSET Requests]]
        /\ answers'[k] = b /\ \A r \in Requests : r # k => answers'[r] = answers[r]
    BY <1>2, <1>3, <2>62, <2>63
  <2>8. a.times = 0 /\ a.meant \subseteq {k} /\ phase[k] # "new"
    BY <1>2, <1>5, <2>4 DEF Answering
  <2>9. /\ bot' \in [key : Maybe(Keys), req : Maybe(Requests), on : 0..MaxSession,
                    step : {"idle", "respond", "resolve"}]
        /\ bot'.key = bot.key /\ bot'.req = bot.req
    BY <1>3, <1>5
  <2>10. TypeOK'
    BY <1>1, <1>5, <2>3, <2>7, <2>9 DEF TypeOK, storage, delivery, lives
  <2>11. Identities'
    BY <1>1, <1>2, <1>5, <2>3, <2>9, Records DEF Identities, storage
  <2>12. Answering'
    <3>1. b.times = 1 /\ b.meant \subseteq {k}
      BY <2>61, <2>62, <2>8
    <3>2. \A r \in Requests : answers'[r].meant \subseteq {r} /\ answers'[r].times <= 1
      BY <2>7, <3>1 DEF Answering
    <3>3. \A j \in ids' : j \in Requests /\ j # k /\ j \in ids
      BY <1>3, <1>5
    <3>4. \A j \in ids' : phase'[j] # "new" /\ answers'[j].times = 0
      BY <2>3, <2>7, <3>3 DEF Answering
    <3>5. \A r \in Requests : phase'[r] = "new" => answers'[r].times = 0
      BY <2>3, <2>7, <2>8 DEF Answering
    <3> QED
      BY <3>2, <3>4, <3>5 DEF Answering
  <2>13. Lives' /\ Handling'
    BY <1>1 DEF Lives, Handling, DroppedNoticeIsSettled, storage, delivery, lives
  <2>14. FirstNotice'
    <3>1. \A i \in 1..Len(chan) : chan[i].key \in Requests
      BY Records DEF Identities
    <3>2. \A s \in Sessions : loop[s].kind # "none" => loop[s].key \in Requests
      BY Records DEF Identities
    <3> QED
      BY <1>1, <2>3, <3>1, <3>2, Records DEF FirstNotice, storage
  <2> QED
    BY <2>10, <2>11, <2>12, <2>13, <2>14
<1>6. CASE bot' = NoBot /\ ids' \subseteq ids /\ UNCHANGED <<answers, phase>>
  <2>1. TypeOK'
    BY <1>1, <1>3, <1>4, <1>6 DEF TypeOK, storage, delivery, lives
  <2>2. Identities' /\ Answering'
    BY <1>1, <1>4, <1>6 DEF Identities, Answering, storage
  <2>3. Lives' /\ Handling' /\ FirstNotice'
    BY <1>1, <1>6 DEF Lives, Handling, FirstNotice, DroppedNoticeIsSettled, storage, delivery, lives
  <2> QED
    BY <2>1, <2>2, <2>3
<1> QED
  BY <1>5, <1>6 DEF Respond, TakeId

LEMMA PressKeeps ==
  ASSUME NoticeInv, NEW m \in shown, Press(m)
  PROVE  NoticeInv'
<1> USE DEF NoticeInv
<1>1. /\ bot' = [key |-> m.key, req |-> m.req, on |-> session, step |-> "respond"]
      /\ UNCHANGED <<client, phase, chan, loop, storage, delivery, shown, answers, lives>>
  BY DEF Press
<1>2. m.key \in Keys /\ m.req \in Requests /\ session \in 0..MaxSession /\ m.req = m.key
  BY DEF TypeOK, Sessions, Identities
<1>3. /\ bot' \in [key : Maybe(Keys), req : Maybe(Requests), on : 0..MaxSession,
                   step : {"idle", "respond", "resolve"}]
      /\ bot'.key = m.key /\ bot'.req = m.req
  BY <1>1, <1>2 DEF Maybe
<1>4. TypeOK'
  BY <1>1, <1>3 DEF TypeOK, client, storage, delivery, lives
<1>5. Identities' /\ Answering'
  BY <1>1, <1>2, <1>3 DEF Identities, Answering, client, storage
<1>6. Lives' /\ Handling' /\ FirstNotice'
  BY <1>1 DEF Lives, Handling, FirstNotice, DroppedNoticeIsSettled, client, storage, delivery, lives
<1> QED
  BY <1>4, <1>5, <1>6

LEMMA ResolveKeeps ==
  ASSUME NoticeInv, Resolve
  PROVE  NoticeInv'
<1> USE DEF NoticeInv
<1>1. /\ bot.step = "resolve" /\ row' = [row EXCEPT ![bot.key].status = "resolved"] /\ bot' = NoBot
      /\ UNCHANGED <<client, phase, chan, loop, queue, delivery, shown, answers, lives>>
  BY DEF Resolve
<1>2. bot.key \in Keys
  BY <1>1 DEF Identities
<1>3. row' \in [Keys -> ApprovalRow] /\ \A j \in Keys : row'[j].status = "pending" => row[j].status = "pending"
  BY <1>1, <1>2, RowStatus
<1>4. NoBot \in [key : Maybe(Keys), req : Maybe(Requests), on : 0..MaxSession,
                 step : {"idle", "respond", "resolve"}] /\ NoBot.step = "idle"
  BY NoticeConstants DEF NoBot, Maybe
<1>5. TypeOK'
  BY <1>1, <1>3, <1>4 DEF TypeOK, ApprovalRow, client, delivery, lives
<1>6. Identities' /\ Answering' /\ FirstNotice'
  BY <1>1, <1>4 DEF Identities, Answering, FirstNotice, client
<1>7. Lives' /\ Handling'
  BY <1>1, <1>3, RowsSettle DEF client, delivery, lives
<1> QED
  BY <1>5, <1>6, <1>7

-----------------------------------------------------------------------------
(* The live event loop.                                                     *)

LEMMA LoopReceivesKeeps ==
  ASSUME NoticeInv, LoopReceives
  PROVE  NoticeInv'
<1> USE DEF NoticeInv
<1>1. /\ chan # <<>> /\ chan' = Tail(chan)
      /\ loop[session] = NoEvent /\ loop' = [loop EXCEPT ![session] = Head(chan)]
      /\ UNCHANGED <<client, phase, storage, delivery, shown, bot, answers, lives>>
  BY DEF LoopReceives
<1>2. chan \in Seq(Events) /\ Len(chan) <= Buffer /\ session \in Sessions /\ loop \in [Sessions -> Events]
  BY DEF TypeOK
<1>3. Len(chan) \in Nat \ {0} /\ 1 \in 1..Len(chan)
  BY <1>1, <1>2
<1>4. PICK e \in Events : e = chan[1] /\ e = Head(chan)
  BY <1>1, <1>2, <1>3
<1>5. /\ chan' \in Seq(Events) /\ Len(chan') = Len(chan) - 1
      /\ \A i \in 1..Len(chan') : chan'[i] = chan[i + 1]
  BY <1>1, <1>2, <1>3
<1>6. \A i \in 1..Len(chan') : i \in Nat /\ i + 1 \in 1..Len(chan) /\ i + 1 # 1
  BY <1>3, <1>5
<1>7. /\ loop' \in [Sessions -> Events] /\ loop'[session] = e
      /\ \A s \in Sessions : s # session => loop'[s] = loop[s]
  BY <1>1, <1>2, <1>4
<1>8. TypeOK'
  <2>1. Len(chan') <= Buffer
    BY <1>2, <1>3, <1>5, NoticeConstants
  <2> QED
    BY <1>1, <1>5, <1>7, <2>1 DEF TypeOK, client, storage, delivery, lives
<1>9. e.kind \in {"request", "resolved"} /\ e.key \in Keys /\ e.req = e.key /\ e.key.session = session
  BY <1>3, <1>4 DEF Identities
<1>10. UNCHANGED <<session, queue, phase, shown, bot, ids, answers, row, sending, born>>
  BY <1>1 DEF client, storage, delivery, lives
<1>11. Identities'
  <2>1. \A i \in 1..Len(chan') :
          /\ chan'[i].kind \in {"request", "resolved"} /\ chan'[i].key \in Keys
          /\ chan'[i].req = chan'[i].key /\ chan'[i].key.session = session'
    BY <1>5, <1>6, <1>10 DEF Identities
  <2>2. \A s \in Sessions : loop'[s].kind # "none" =>
          loop'[s].key \in Keys /\ loop'[s].req = loop'[s].key /\ loop'[s].key.session = s
    BY <1>7, <1>9 DEF Identities
  <2> QED
    BY <1>10, <2>1, <2>2 DEF Identities
<1>12. Answering' /\ Handling'
  BY <1>1 DEF Answering, Handling, DroppedNoticeIsSettled, client, storage, delivery
<1>13. Lives'
  <2>1. \A s \in Sessions : loop'[s].kind # "none" => s >= born'
    BY <1>2, <1>7, <1>10, NoticeConstants DEF Lives, TypeOK
  <2> QED
    BY <1>10, <2>1 DEF Lives
<1>14. FirstNotice'
  <2>1. \A i \in 1..Len(chan) : chan[i].kind = "request" =>
          queue[chan[i].key].status = "none" /\ phase[chan[i].key] # "new"
    BY DEF FirstNotice
  <2>2. \A i \in 1..Len(chan) : i # 1 /\ chan[i].kind = "request" /\ e.kind = "request" => chan[i].key # e.key
    BY <1>3, <1>4 DEF FirstNotice
  <2>3. \A i \in 1..Len(chan') : chan'[i].kind = "request" =>
          /\ queue'[chan'[i].key].status = "none" /\ phase'[chan'[i].key] # "new"
          /\ ~(loop'[session'].kind \in {"request", "notice"} /\ loop'[session'].key = chan'[i].key)
    BY <1>5, <1>6, <1>7, <1>9, <1>10, <2>1, <2>2
  <2>4. \A i, j \in 1..Len(chan') :
          chan'[i].kind = "request" /\ chan'[j].kind = "request" /\ chan'[i].key = chan'[j].key => i = j
    <3> SUFFICES ASSUME NEW i \in 1..Len(chan'), NEW j \in 1..Len(chan'),
                        chan'[i].kind = "request", chan'[j].kind = "request", chan'[i].key = chan'[j].key
                 PROVE  i = j
      OBVIOUS
    <3>1. i + 1 = j + 1
      BY <1>5, <1>6 DEF FirstNotice
    <3> QED
      BY <1>6, <3>1
  <2>5. \A s \in Sessions : loop'[s].kind \in {"request", "notice"} =>
          queue'[loop'[s].key].status = "none" /\ phase'[loop'[s].key] # "new"
    BY <1>3, <1>4, <1>7, <1>9, <1>10, <2>1 DEF FirstNotice
  <2> QED
    BY <1>10, <2>3, <2>4, <2>5 DEF FirstNotice
<1> QED
  BY <1>8, <1>11, <1>12, <1>13, <1>14

LEMMA LoopSavesKeeps ==
  ASSUME NoticeInv, NEW s \in Sessions, NEW kind \in Kinds, LoopSaves(s, kind)
  PROVE  NoticeInv'
<1> USE DEF NoticeInv
<1>1. loop \in [Sessions -> Events] /\ row \in [Keys -> ApprovalRow]
  BY DEF TypeOK, ApprovalRow
<1>2. PICK x \in Events : x = loop[s]
  BY <1>1
<1> DEFINE y == [x EXCEPT !.kind = "notice"]
           q == [status |-> "pending", req |-> x.req]
<1>3. y \in Events /\ y.kind = "notice" /\ y.key = x.key /\ y.req = x.req
  BY <1>2 DEF Events
<1>4. x.kind = "request" /\ x.key \in Keys /\ x.req = x.key /\ x.key.session = s
  BY <1>2 DEF LoopSaves, Identities
<1>5. q \in ApprovalRow /\ q.status = "pending"
  BY <1>4, Records DEF ApprovalRow, Maybe
<1>6. NoEvent \in Events /\ NoEvent.kind = "none"
  BY DEF NoEvent, Events, Maybe
<1>7. /\ row' = [row EXCEPT ![x.key] = q]
      /\ \/ /\ shown' = shown \cup {[key |-> x.key, req |-> x.req, kind |-> kind]}
            /\ loop' = [loop EXCEPT ![s] = NoEvent]
         \/ loop' = [loop EXCEPT ![s] = y] /\ shown' = shown
      /\ UNCHANGED <<client, phase, chan, queue, delivery, bot, answers, lives>>
  <2>1. [loop EXCEPT ![s].kind = "notice"] = [loop EXCEPT ![s] = y]
    BY <1>2
  <2> HIDE DEF y
  <2> QED
    BY <1>2, <2>1 DEF LoopSaves
<1> HIDE DEF y, q
<1>8. /\ row' \in [Keys -> ApprovalRow] /\ \A k \in Keys : row'[k].status = "pending" => row[k].status = "pending" \/ k = x.key
  BY <1>1, <1>4, <1>5, <1>7
<1>9. /\ loop' \in [Sessions -> Events]
      /\ \A t \in Sessions : t # s => loop'[t] = loop[t]
      /\ loop'[s] = NoEvent \/ loop'[s] = y
  BY <1>1, <1>3, <1>6, <1>7
<1>10. /\ shown' \subseteq [key : Keys, req : Requests, kind : Kinds] /\ \A m \in shown' : m.req = m.key
  <2>1. [key |-> x.key, req |-> x.req, kind |-> kind] \in [key : Keys, req : Requests, kind : Kinds]
    BY <1>4, Records
  <2>2. shown \subseteq [key : Keys, req : Requests, kind : Kinds] /\ \A m \in shown : m.req = m.key
    BY DEF TypeOK, Identities
  <2> QED
    BY <1>4, <1>7, <2>1, <2>2
<1>11. UNCHANGED <<session, phase, chan, queue, ids, bot, answers, born, sending, batch, sent>>
  BY <1>7 DEF client, delivery, lives
<1>12. TypeOK'
  BY <1>7, <1>8, <1>9, <1>10 DEF TypeOK, ApprovalRow, client, delivery, lives
<1>13. Identities' /\ Answering'
  <2>1. \A t \in Sessions : loop'[t].kind # "none" =>
          loop'[t].key \in Keys /\ loop'[t].req = loop'[t].key /\ loop'[t].key.session = t
    BY <1>3, <1>4, <1>6, <1>9 DEF Identities
  <2> QED
    BY <1>10, <1>11, <2>1 DEF Identities, Answering
<1>14. s >= born /\ queue[x.key].status = "none" /\ phase[x.key] # "new"
  BY <1>2, <1>4 DEF Lives, FirstNotice
<1>15. Lives'
  <2>1. \A t \in Sessions : loop'[t].kind # "none" => t >= born'
    BY <1>6, <1>9, <1>11, <1>14 DEF Lives
  <2>2. \A k \in Keys : row'[k].status = "pending" => k.session >= born'
    BY <1>4, <1>8, <1>11, <1>14 DEF Lives
  <2> QED
    BY <1>11, <2>1, <2>2 DEF Lives
<1>16. FirstNotice'
  <2>1. \A t \in Sessions : loop'[t].kind \in {"request", "notice"} =>
          loop[t].kind \in {"request", "notice"} /\ loop'[t].key = loop[t].key
    BY <1>2, <1>3, <1>4, <1>6, <1>9
  <2>2. session \in Sessions
    BY DEF TypeOK
  <2> QED
    BY <1>11, <2>1, <2>2 DEF FirstNotice
<1>17. Handling'
  <2>1. DroppedNoticeIsSettled'
    BY <1>8, <1>11, <1>14 DEF DroppedNoticeIsSettled, Handling
  <2> QED
    BY <1>11, <2>1 DEF Handling
<1> QED
  BY <1>12, <1>13, <1>15, <1>16, <1>17

LEMMA LoopEnqueuesKeeps ==
  ASSUME NoticeInv, NEW s \in Sessions, LoopEnqueues(s)
  PROVE  NoticeInv'
<1> USE DEF NoticeInv
<1> DEFINE k == loop[s].key
           q == [status |-> "pending", tries |-> 0, req |-> loop[s].req]
<1>1. /\ loop \in [Sessions -> Events] /\ queue \in [Keys -> QueueType] /\ session \in Sessions
      /\ loop[s].kind = "notice" /\ loop' = [loop EXCEPT ![s] = NoEvent]
  BY DEF TypeOK, QueueType, LoopEnqueues
<1>2. /\ k \in Keys /\ loop[s].req = k /\ k.session = s
      /\ queue[k].status = "none" /\ phase[k] # "new"
  BY <1>1 DEF Identities, FirstNotice
<1>3. q \in QueueType /\ q.status = "pending" /\ q.tries = 0 /\ q.req = k
  BY <1>2, Records, NoticeConstants DEF QueueType, Maybe
<1>4. queue' = [queue EXCEPT ![k] = q]
  BY <1>2 DEF LoopEnqueues
<1>5. UNCHANGED <<client, phase, chan, row, delivery, shown, bot, answers, lives>>
  BY DEF LoopEnqueues
<1> HIDE DEF k, q
<1>6. NoEvent \in Events /\ NoEvent.kind = "none"
  BY DEF NoEvent, Events, Maybe
<1>7. /\ queue' \in [Keys -> QueueType] /\ queue'[k] = q
      /\ \A j \in Keys : j # k => queue'[j] = queue[j]
  BY <1>1, <1>2, <1>3, <1>4
<1>8. /\ loop' \in [Sessions -> Events] /\ loop'[s].kind = "none"
      /\ \A t \in Sessions : t # s => loop'[t] = loop[t]
  BY <1>1, <1>6
<1>9. UNCHANGED <<session, phase, chan, ids, row, shown, bot, answers, born, sending, batch, sent>>
  BY <1>5 DEF client, delivery, lives
<1>10. TypeOK'
  BY <1>5, <1>7, <1>8 DEF TypeOK, QueueType, client, delivery, lives
<1>11. Identities' /\ Answering' /\ Lives'
  <2>1. \A j \in Keys : queue'[j].status # "none" => queue'[j].req = j
    BY <1>3, <1>7 DEF Identities
  <2>2. Identities'
    BY <1>8, <1>9, <2>1 DEF Identities
  <2>3. Answering' /\ Lives'
    BY <1>8, <1>9 DEF Answering, Lives
  <2> QED
    BY <2>2, <2>3
<1>12. FirstNotice'
  <2>1. \A i \in 1..Len(chan) : chan[i].key \in Keys /\ (chan[i].kind = "request" => chan[i].key # k)
    BY <1>1, <1>2 DEF Identities, FirstNotice, k
  <2>2. \A t \in Sessions : loop'[t].kind \in {"request", "notice"} =>
          t # s /\ loop'[t] = loop[t] /\ loop[t].key \in Keys /\ loop[t].key # k
    BY <1>2, <1>8 DEF Identities
  <2>3. \A i \in 1..Len(chan') : chan'[i].kind = "request" =>
          /\ queue'[chan'[i].key].status = "none" /\ phase'[chan'[i].key] # "new"
          /\ ~(loop'[session'].kind \in {"request", "notice"} /\ loop'[session'].key = chan'[i].key)
    BY <1>1, <1>7, <1>9, <2>1, <2>2 DEF FirstNotice
  <2>4. \A t \in Sessions : loop'[t].kind \in {"request", "notice"} =>
          queue'[loop'[t].key].status = "none" /\ phase'[loop'[t].key] # "new"
    BY <1>7, <1>9, <2>2 DEF FirstNotice
  <2>5. \A j \in Keys : phase'[j] = "new" => queue'[j].status = "none"
    BY <1>2, <1>7, <1>9 DEF FirstNotice
  <2> QED
    BY <1>9, <2>3, <2>4, <2>5 DEF FirstNotice
<1>13. Handling'
  <2>1. k \notin batch /\ (sending.step # "idle" => sending.key # k)
    BY <1>2 DEF Handling
  <2>2. batch \subseteq Keys /\ sending \in [key : Maybe(Keys), step : {"idle", "send", "complete"}]
    BY DEF TypeOK
  <2>3. \A j \in Keys : queue'[j].status # "dead" => queue'[j].tries < MaxAttempts
    BY <1>3, <1>7, NoticeConstants DEF Handling
  <2>4. \A j \in batch' : queue'[j].status = "processing"
    BY <1>7, <1>9, <2>1, <2>2 DEF Handling
  <2>5. sending'.step # "idle" =>
          sending'.key \in Keys \ batch' /\ queue'[sending'.key].status = "processing"
    BY <1>7, <1>9, <2>1 DEF Handling
  <2>6. DroppedNoticeIsSettled'
    BY <1>3, <1>7, <1>9 DEF Handling, DroppedNoticeIsSettled
  <2> QED
    BY <1>9, <2>3, <2>4, <2>5, <2>6 DEF Handling
<1> QED
  BY <1>10, <1>11, <1>12, <1>13

LEMMA LoopResolvesKeeps ==
  ASSUME NoticeInv, NEW s \in Sessions, LoopResolves(s)
  PROVE  NoticeInv'
<1> USE DEF NoticeInv
<1> DEFINE k == loop[s].key
           q == IF row[k].status = "none" THEN "none" ELSE "resolved"
<1>1. /\ loop \in [Sessions -> Events] /\ session \in Sessions
      /\ loop[s].kind = "resolved" /\ loop' = [loop EXCEPT ![s] = NoEvent]
      /\ UNCHANGED <<client, phase, chan, queue, delivery, shown, bot, answers, lives>>
  BY DEF TypeOK, LoopResolves
<1>2. k \in Keys
  BY <1>1 DEF Identities
<1>3. row' = [row EXCEPT ![k].status = q] /\ q \in {"none", "resolved"}
  BY DEF LoopResolves
<1> HIDE DEF k, q
<1>4. row' \in [Keys -> ApprovalRow] /\ \A j \in Keys : row'[j].status = "pending" => row[j].status = "pending"
  BY <1>2, <1>3, RowStatus
<1>5. NoEvent \in Events /\ NoEvent.kind = "none"
  BY DEF NoEvent, Events, Maybe
<1>6. /\ loop' \in [Sessions -> Events] /\ loop'[s].kind = "none"
      /\ \A t \in Sessions : t # s => loop'[t] = loop[t]
  BY <1>1, <1>5
<1>7. UNCHANGED <<session, phase, chan, ids, queue, shown, bot, answers, born, sending, batch, sent>>
  BY <1>1 DEF client, delivery, lives
<1>8. TypeOK'
  BY <1>1, <1>4, <1>6 DEF TypeOK, ApprovalRow, client, delivery, lives
<1>9. Identities' /\ Answering' /\ FirstNotice'
  BY <1>1, <1>6, <1>7 DEF Identities, Answering, FirstNotice
<1>10. Lives' /\ Handling'
  BY <1>4, <1>6, <1>7 DEF Lives, Handling, DroppedNoticeIsSettled
<1> QED
  BY <1>8, <1>9, <1>10

-----------------------------------------------------------------------------
(* The delivery loop.                                                       *)

\* Rows of the queue that are there stay there, and keep the request they are about.
LEMMA QueueMoves ==
  ASSUME NoticeInv,
         \A j \in Keys : /\ queue'[j].status = "none" <=> queue[j].status = "none"
                         /\ queue'[j].req = queue[j].req,
         \A m \in shown' : m.req = m.key,
         UNCHANGED <<client, phase, chan, loop, bot, answers>>
  PROVE  Identities' /\ Answering' /\ FirstNotice'
<1> USE DEF NoticeInv
<1>1. UNCHANGED <<session, ids, phase, chan, loop, bot, answers>>
  BY DEF client
<1>2. Identities' /\ Answering'
  BY <1>1 DEF Identities, Answering
<1>3. FirstNotice'
  <2>1. \A i \in 1..Len(chan) : chan[i].key \in Keys
    BY DEF Identities
  <2>2. \A s \in Sessions : loop[s].kind # "none" => loop[s].key \in Keys
    BY DEF Identities
  <2> QED
    BY <1>1, <2>1, <2>2 DEF FirstNotice
<1> QED
  BY <1>2, <1>3

LEMMA ClaimKeeps ==
  ASSUME NoticeInv, ClaimDeliveryBatch
  PROVE  NoticeInv'
<1> USE DEF NoticeInv
<1>1. /\ batch' \subseteq Keys /\ \A k \in batch' : queue[k].status \in {"pending", "retry"}
      /\ queue' = [k \in Keys |-> IF k \in batch'
                              THEN [queue[k] EXCEPT !.status = "processing"] ELSE queue[k]]
      /\ sending = NoSend
      /\ UNCHANGED <<client, phase, chan, loop, row, sending, sent, shown, bot, answers, lives>>
  BY DEF ClaimDeliveryBatch
<1>2. queue \in [Keys -> QueueType]
  BY DEF TypeOK, QueueType
<1>3. \A k \in Keys : /\ [queue[k] EXCEPT !.status = "processing"] \in QueueType
                      /\ [queue[k] EXCEPT !.status = "processing"].status = "processing"
                      /\ [queue[k] EXCEPT !.status = "processing"].tries = queue[k].tries
                      /\ [queue[k] EXCEPT !.status = "processing"].req = queue[k].req
  BY <1>2 DEF QueueType
<1>4. \A k \in Keys : /\ queue'[k] \in QueueType
                      /\ queue'[k].tries = queue[k].tries /\ queue'[k].req = queue[k].req
                      /\ k \in batch' => queue'[k].status = "processing"
                      /\ k \notin batch' => queue'[k].status = queue[k].status
  BY <1>1, <1>2, <1>3
<1>5. queue' \in [Keys -> QueueType]
  <2>1. queue' = [k \in Keys |-> queue'[k]]
    BY <1>1
  <2> QED
    BY <1>4, <2>1
<1>6. TypeOK'
  BY <1>1, <1>5 DEF TypeOK, QueueType, client, lives
<1>7. Identities' /\ Answering' /\ FirstNotice'
  <2>1. \A j \in Keys : /\ queue'[j].status = "none" <=> queue[j].status = "none"
                        /\ queue'[j].req = queue[j].req
    BY <1>1, <1>4
  <2>2. \A m \in shown' : m.req = m.key
    BY <1>1 DEF Identities
  <2> QED
    BY <1>1, <2>1, <2>2, QueueMoves
<1>8. Lives'
  BY <1>1 DEF Lives, client, lives
<1>9. Handling'
  <2>1. sending.step = "idle"
    BY <1>1 DEF NoSend
  <2>2. \A k \in Keys : queue'[k].status # "dead" => queue'[k].tries < MaxAttempts
    BY <1>1, <1>4 DEF Handling
  <2>3. DroppedNoticeIsSettled'
    BY <1>1, <1>4 DEF Handling, DroppedNoticeIsSettled
  <2> QED
    BY <1>1, <1>4, <2>1, <2>2, <2>3 DEF Handling
<1> QED
  BY <1>6, <1>7, <1>8, <1>9

LEMMA LookUpKeeps ==
  ASSUME NoticeInv, NEW k \in Keys, LookUp(k)
  PROVE  NoticeInv'
<1> USE DEF NoticeInv
<1>1. /\ k \in batch /\ sending = NoSend /\ batch' = batch \ {k}
      /\ UNCHANGED <<client, phase, chan, loop, row, sent, shown, bot, answers, lives>>
  BY DEF LookUp
<1>2. queue[k].status = "processing" /\ queue[k].tries < MaxAttempts /\ sending.step = "idle"
  BY <1>1 DEF Handling, NoSend
<1>3. batch \subseteq Keys /\ \A j \in batch : queue[j].status = "processing"
  BY DEF TypeOK, Handling
<1>4. UNCHANGED <<row, sent, shown, session, born>>
  BY <1>1 DEF client, lives
<1>5. \A m \in shown' : m.req = m.key
  BY <1>1 DEF Identities
<1>6. ASSUME queue' \in [Keys -> QueueType],
             \A j \in Keys : j # k => queue'[j] = queue[j],
             queue'[k].req = queue[k].req,
             queue'[k].status \in {"retry", "dead", "delivered"},
             queue'[k].status # "dead" => queue'[k].tries < MaxAttempts,
             queue'[k].status = "delivered" => row[k].status # "pending",
             sending' = sending
      PROVE  NoticeInv'
  <2>1. TypeOK'
    BY <1>1, <1>3, <1>6 DEF TypeOK, QueueType, client, lives
  <2>2. Identities' /\ Answering' /\ FirstNotice'
    <3>1. \A j \in Keys : /\ queue'[j].status = "none" <=> queue[j].status = "none"
                          /\ queue'[j].req = queue[j].req
      BY <1>2, <1>6
    <3> QED
      BY <1>1, <1>5, <3>1, QueueMoves
  <2>3. Lives'
    BY <1>1, <1>6 DEF Lives, client, lives
  <2>4. \A j \in Keys : queue'[j].status # "dead" => queue'[j].tries < MaxAttempts
    BY <1>6 DEF Handling
  <2>5. \A j \in batch' : queue'[j].status = "processing"
    BY <1>1, <1>3, <1>6
  <2>6. DroppedNoticeIsSettled'
    BY <1>4, <1>6 DEF Handling, DroppedNoticeIsSettled
  <2>7. Handling'
    BY <1>1, <1>2, <1>6, <2>4, <2>5, <2>6 DEF Handling
  <2> QED
    BY <2>1, <2>2, <2>3, <2>7
<1>7. CASE FailDelivery(k) /\ UNCHANGED sending
  BY <1>2, <1>6, <1>7, FailFacts
<1>8. CASE /\ row[k].status # "pending"
           /\ queue' = [queue EXCEPT ![k].status = "delivered"]
           /\ UNCHANGED sending
  BY <1>2, <1>6, <1>8, QueueStatus
<1>9. CASE /\ row[k].status = "pending"
           /\ sending' = [key |-> k, step |-> "send"]
           /\ UNCHANGED queue
  <2>1. /\ sending' \in [key : Maybe(Keys), step : {"idle", "send", "complete"}]
        /\ sending'.key = k /\ sending'.step = "send"
    BY <1>9 DEF Maybe
  <2>2. TypeOK'
    BY <1>1, <1>3, <1>9, <2>1 DEF TypeOK, client, lives
  <2>3. Identities' /\ Answering' /\ FirstNotice'
    BY <1>1, <1>5, <1>9, QueueMoves
  <2>4. Lives'
    BY <1>1, <1>4, <1>9, <2>1 DEF Lives
  <2>5. Handling'
    BY <1>1, <1>2, <1>3, <1>4, <1>9, <2>1 DEF Handling, DroppedNoticeIsSettled
  <2> QED
    BY <2>2, <2>3, <2>4, <2>5
<1> QED
  BY <1>7, <1>8, <1>9 DEF LookUp

\* A message asks what its row is about.
LEMMA MessageFacts ==
  ASSUME NoticeInv, sending.step # "idle"
  PROVE  /\ sending.key \in Keys \ batch /\ queue[sending.key].status = "processing"
         /\ queue[sending.key].tries < MaxAttempts
         /\ Message(sending.key) \in [key : Keys, req : Requests, kind : Kinds]
         /\ Message(sending.key).req = Message(sending.key).key
<1>1. sending.key \in Keys \ batch /\ queue[sending.key].status = "processing"
  BY DEF NoticeInv, Handling
<1>2. queue[sending.key].req = sending.key /\ queue[sending.key].tries < MaxAttempts
  BY <1>1 DEF NoticeInv, Identities, Handling
<1> QED
  BY <1>1, <1>2, Records DEF Message, Kinds

LEMMA NoSendIsIdle ==
  NoSend \in [key : Maybe(Keys), step : {"idle", "send", "complete"}] /\ NoSend.step = "idle"
BY DEF NoSend, Maybe

LEMMA SendFailsKeeps ==
  ASSUME NoticeInv, SendFails
  PROVE  NoticeInv'
<1> USE DEF NoticeInv
<1> DEFINE k == sending.key
<1>1. /\ sending.step = "send" /\ FailDelivery(k) /\ sending' = NoSend
      /\ shown' \in {shown, shown \cup {Message(k)}}
      /\ UNCHANGED <<client, phase, chan, loop, row, batch, sent, bot, answers, lives>>
  BY DEF SendFails
<1>2. /\ k \in Keys \ batch /\ queue[k].status = "processing" /\ queue[k].tries < MaxAttempts
      /\ Message(k) \in [key : Keys, req : Requests, kind : Kinds] /\ Message(k).req = Message(k).key
  BY <1>1, MessageFacts
<1> HIDE DEF k
<1>3. /\ queue' \in [Keys -> QueueType]
      /\ \A j \in Keys : j # k => queue'[j] = queue[j]
      /\ queue'[k].status \in {"dead", "retry"} /\ queue'[k].req = queue[k].req
      /\ queue'[k].status # "dead" => queue'[k].tries < MaxAttempts
  BY <1>1, <1>2, FailFacts
<1>4. shown' \subseteq [key : Keys, req : Requests, kind : Kinds] /\ \A m \in shown' : m.req = m.key
  BY <1>1, <1>2 DEF TypeOK, Identities
<1>5. TypeOK'
  BY <1>1, <1>3, <1>4, NoSendIsIdle DEF TypeOK, QueueType, client, lives
<1>6. Identities' /\ Answering' /\ FirstNotice'
  <2>1. \A j \in Keys : /\ queue'[j].status = "none" <=> queue[j].status = "none"
                        /\ queue'[j].req = queue[j].req
    BY <1>2, <1>3
  <2> QED
    BY <1>1, <1>4, <2>1, QueueMoves
<1>7. Lives'
  BY <1>1, NoSendIsIdle DEF Lives, client, lives
<1>8. Handling'
  <2>1. \A j \in Keys : queue'[j].status # "dead" => queue'[j].tries < MaxAttempts
    BY <1>3 DEF Handling
  <2>2. \A j \in batch' : queue'[j].status = "processing"
    <3>1. \A j \in batch : j \in Keys /\ j # k /\ queue[j].status = "processing"
      BY <1>2 DEF Handling, TypeOK
    <3> QED
      BY <1>1, <1>3, <3>1
  <2>3. DroppedNoticeIsSettled'
    BY <1>1, <1>3 DEF Handling, DroppedNoticeIsSettled
  <2> QED
    BY <1>1, <2>1, <2>2, <2>3, NoSendIsIdle DEF Handling
<1> QED
  BY <1>5, <1>6, <1>7, <1>8

LEMMA SendArrivesKeeps ==
  ASSUME NoticeInv, SendArrives
  PROVE  NoticeInv'
<1> USE DEF NoticeInv
<1> DEFINE k == sending.key
<1>1. /\ sending.step = "send" /\ shown' = shown \cup {Message(k)}
      /\ sent' = [sent EXCEPT ![k] = @ + 1]
      /\ sending' = [sending EXCEPT !.step = "complete"]
      /\ UNCHANGED <<client, phase, chan, loop, storage, batch, bot, answers, lives>>
  BY DEF SendArrives
<1>2. /\ k \in Keys \ batch /\ queue[k].status = "processing"
      /\ Message(k) \in [key : Keys, req : Requests, kind : Kinds] /\ Message(k).req = Message(k).key
  BY <1>1, MessageFacts
<1>3. /\ sending' \in [key : Maybe(Keys), step : {"idle", "send", "complete"}]
      /\ sending'.key = sending.key /\ sending'.step = "complete"
  BY <1>1 DEF TypeOK
<1> HIDE DEF k
<1>4. sent' \in [Keys -> Nat] /\ sent'[k] > 0 /\ \A j \in Keys : sent'[j] = 0 => sent[j] = 0
  BY <1>1, <1>2 DEF TypeOK
<1>5. shown' \subseteq [key : Keys, req : Requests, kind : Kinds] /\ \A m \in shown' : m.req = m.key
  BY <1>1, <1>2 DEF TypeOK, Identities
<1>6. TypeOK'
  BY <1>1, <1>3, <1>4, <1>5 DEF TypeOK, client, storage, lives
<1>7. Identities' /\ Answering' /\ FirstNotice'
  BY <1>1, <1>5, QueueMoves DEF storage
<1>8. Lives'
  BY <1>1, <1>3 DEF Lives, client, storage, lives
<1>9. UNCHANGED <<row, queue, batch>>
  BY <1>1 DEF storage
<1>10. Handling'
  <2>1. DroppedNoticeIsSettled'
    BY <1>4, <1>9 DEF Handling, DroppedNoticeIsSettled
  <2> QED
    BY <1>2, <1>3, <1>4, <1>9, <2>1 DEF Handling, k
<1> QED
  BY <1>6, <1>7, <1>8, <1>10

LEMMA CompleteKeeps ==
  ASSUME NoticeInv, CompleteDelivery
  PROVE  NoticeInv'
<1> USE DEF NoticeInv
<1> DEFINE k == sending.key
<1>1. /\ sending.step = "complete" /\ queue' = [queue EXCEPT ![k].status = "delivered"]
      /\ sending' = NoSend
      /\ UNCHANGED <<client, phase, chan, loop, row, batch, sent, shown, bot, answers, lives>>
  BY DEF CompleteDelivery
<1>2. k \in Keys \ batch /\ queue[k].status = "processing" /\ queue[k].tries < MaxAttempts
  BY <1>1, MessageFacts
<1>3. sent[k] > 0 /\ sent[k] \in Nat
  BY <1>1, <1>2 DEF Handling, TypeOK
<1> HIDE DEF k
<1>4. /\ queue' \in [Keys -> QueueType]
      /\ \A j \in Keys : j # k => queue'[j] = queue[j]
      /\ queue'[k].status = "delivered" /\ queue'[k].tries = queue[k].tries /\ queue'[k].req = queue[k].req
  BY <1>1, <1>2, QueueStatus
<1>5. TypeOK'
  BY <1>1, <1>4, NoSendIsIdle DEF TypeOK, QueueType, client, lives
<1>6. Identities' /\ Answering' /\ FirstNotice'
  <2>1. \A j \in Keys : /\ queue'[j].status = "none" <=> queue[j].status = "none"
                        /\ queue'[j].req = queue[j].req
    BY <1>2, <1>4
  <2>2. \A m \in shown' : m.req = m.key
    BY <1>1 DEF Identities
  <2> QED
    BY <1>1, <2>1, <2>2, QueueMoves
<1>7. Lives'
  BY <1>1, NoSendIsIdle DEF Lives, client, lives
<1>8. Handling'
  <2>1. \A j \in Keys : queue'[j].status # "dead" => queue'[j].tries < MaxAttempts
    BY <1>2, <1>4 DEF Handling
  <2>2. \A j \in batch' : queue'[j].status = "processing"
    BY <1>1, <1>2, <1>4 DEF Handling, TypeOK
  <2>3. DroppedNoticeIsSettled'
    BY <1>1, <1>3, <1>4 DEF Handling, DroppedNoticeIsSettled
  <2> QED
    BY <1>1, <2>1, <2>2, <2>3, NoSendIsIdle DEF Handling
<1> QED
  BY <1>5, <1>6, <1>7, <1>8

-----------------------------------------------------------------------------
(* Sessions come and go.                                                    *)

\* A new session waits for nothing, and has no event on its way.
LEMMA NewSessionFacts ==
  ASSUME NoticeInv, NewSession
  PROVE  /\ session' \in Sessions /\ session' = session + 1
         /\ ids' = {} /\ chan' \in Seq(Events) /\ Len(chan') = 0
         /\ phase' \in [Requests -> {"new", "waiting", "answered", "over"}]
         /\ \A r \in Requests : /\ phase'[r] \notin {"waiting", "answered"}
                                /\ phase'[r] = "new" => phase[r] = "new"
                                /\ phase[r] # "new" => phase'[r] # "new"
<1> USE DEF NoticeInv
<1>1. /\ session < MaxSession /\ session' = session + 1 /\ ids' = {} /\ chan' = <<>>
      /\ phase' = [r \in Requests |-> IF r.session = session THEN "over" ELSE phase[r]]
  BY DEF NewSession
<1>2. /\ session \in Sessions /\ phase \in [Requests -> {"new", "waiting", "answered", "over"}]
      /\ \A r \in Requests : phase[r] \in {"waiting", "answered"} => r.session = session
  BY DEF TypeOK, Identities
<1>3. session' \in Sessions
  BY <1>1, <1>2, NoticeConstants DEF Sessions
<1> QED
  BY <1>1, <1>2, <1>3

LEMMA NewSessionKeeps ==
  ASSUME NoticeInv, NewSession, UNCHANGED <<queue, shown, answers>>,
         \A s \in Sessions : loop'[s] = loop[s] \/ loop'[s].kind = "none",
         bot' = bot \/ bot'.step = "idle"
  PROVE  Identities' /\ Answering' /\ FirstNotice'
<1> USE DEF NoticeInv
<1>1. /\ ids' = {} /\ Len(chan') = 0 /\ 1..Len(chan') = {}
      /\ \A r \in Requests : /\ phase'[r] \notin {"waiting", "answered"}
                             /\ phase'[r] = "new" => phase[r] = "new"
                             /\ phase[r] # "new" => phase'[r] # "new"
  BY NewSessionFacts
<1>2. Identities'
  BY <1>1 DEF Identities
<1>3. Answering'
  BY <1>1 DEF Answering
<1>4. FirstNotice'
  <2>1. \A s \in Sessions : loop[s].kind # "none" => loop[s].key \in Requests
    BY Records DEF Identities
  <2>2. \A s \in Sessions : loop'[s].kind \in {"request", "notice"} =>
          queue'[loop'[s].key].status = "none" /\ phase'[loop'[s].key] # "new"
    BY <1>1, <2>1 DEF FirstNotice
  <2>3. \A k \in Keys : phase'[k] = "new" => queue'[k].status = "none"
    BY <1>1, Records DEF FirstNotice
  <2> QED
    BY <1>1, <2>2, <2>3 DEF FirstNotice
<1> QED
  BY <1>2, <1>3, <1>4

\* A swap under a running daemon, repaired or recycled.
LEMMA SwapKeeps ==
  ASSUME NoticeInv, NewSession, connected' \in BOOLEAN,
         UNCHANGED <<loop, storage, delivery, shown, bot, answers, lives>>
  PROVE  NoticeInv'
<1> USE DEF NoticeInv
<1>1. /\ session' \in Sessions /\ session' = session + 1
      /\ ids' = {} /\ chan' \in Seq(Events) /\ Len(chan') = 0
      /\ phase' \in [Requests -> {"new", "waiting", "answered", "over"}]
  BY NewSessionFacts
<1>2. Len(chan') <= Buffer
  BY <1>1, NoticeConstants
<1>3. TypeOK'
  BY <1>1, <1>2 DEF TypeOK, storage, delivery, lives
<1>4. Identities' /\ Answering' /\ FirstNotice'
  BY NewSessionKeeps DEF storage
<1>5. Lives'
  <2>1. born \in Nat /\ session \in Nat
    BY NoticeConstants DEF TypeOK
  <2>2. born' <= session'
    BY <1>1, <2>1 DEF Lives, lives
  <2> QED
    BY <2>2 DEF Lives, storage, delivery, lives
<1>6. Handling'
  BY DEF Handling, DroppedNoticeIsSettled, storage, delivery
<1> QED
  BY <1>3, <1>4, <1>5, <1>6

LEMMA MarksKeeps ==
  ASSUME NoticeInv, RepairMarks
  PROVE  NoticeInv'
<1> USE DEF NoticeInv
<1>1. /\ connected' = TRUE /\ MarkAllPendingApprovals
      /\ UNCHANGED <<session, ids, phase, chan, loop, queue, delivery, shown, bot, answers, lives>>
  BY DEF RepairMarks
<1>2. row' \in [Keys -> ApprovalRow] /\ \A j \in Keys : row'[j].status # "pending"
  BY <1>1, MarkFacts
<1>3. TypeOK'
  BY <1>1, <1>2 DEF TypeOK, ApprovalRow, delivery, lives
<1>4. Identities' /\ Answering' /\ FirstNotice'
  BY <1>1 DEF Identities, Answering, FirstNotice
<1>5. Lives' /\ Handling'
  BY <1>1, <1>2, RowsSettle DEF delivery, lives
<1> QED
  BY <1>3, <1>4, <1>5

LEMMA RestartKeeps ==
  ASSUME NoticeInv, Restart
  PROVE  NoticeInv'
<1> USE DEF NoticeInv
<1>1. /\ restarts < MaxRestarts /\ restarts' = restarts + 1
      /\ NewSession /\ connected' = TRUE /\ born' = session'
      /\ loop' = [s \in Sessions |-> NoEvent]
      /\ batch' = {} /\ sending' = NoSend /\ bot' = NoBot
      /\ MarkAllPendingApprovals
      /\ UNCHANGED <<queue, sent, shown, answers>>
  BY DEF Restart, MarkAtStart
<1>2. row' \in [Keys -> ApprovalRow] /\ \A j \in Keys : row'[j].status # "pending"
  BY <1>1, MarkFacts
<1>3. /\ session' \in Sessions /\ session' = session + 1
      /\ ids' = {} /\ chan' \in Seq(Events) /\ Len(chan') = 0
      /\ phase' \in [Requests -> {"new", "waiting", "answered", "over"}]
  BY <1>1, NewSessionFacts
<1>4. Len(chan') <= Buffer /\ session' \in Nat
  BY <1>3, NoticeConstants
<1>5. NoEvent \in Events /\ NoEvent.kind = "none"
  BY DEF NoEvent, Events, Maybe
<1>6. NoBot \in [key : Maybe(Keys), req : Maybe(Requests), on : 0..MaxSession,
                 step : {"idle", "respond", "resolve"}] /\ NoBot.step = "idle"
  BY NoticeConstants DEF NoBot, Maybe
<1>7. loop' \in [Sessions -> Events] /\ \A s \in Sessions : loop'[s].kind = "none"
  BY <1>1, <1>5
<1>8. restarts' \in 0..MaxRestarts
  BY <1>1, ApprovalAssumption DEF TypeOK
<1>9. TypeOK'
  BY <1>1, <1>2, <1>3, <1>4, <1>6, <1>7, <1>8, NoSendIsIdle DEF TypeOK, ApprovalRow
<1>10. Identities' /\ Answering' /\ FirstNotice'
  BY <1>1, <1>6, <1>7, NewSessionKeeps
<1>11. Lives'
  BY <1>1, <1>2, <1>4, <1>7, NoSendIsIdle DEF Lives
<1>12. Handling'
  <2>1. DroppedNoticeIsSettled'
    BY <1>2 DEF DroppedNoticeIsSettled
  <2> QED
    BY <1>1, <2>1, NoSendIsIdle DEF Handling
<1> QED
  BY <1>9, <1>10, <1>11, <1>12

-----------------------------------------------------------------------------
LEMMA NoticeKeeps ==
  ASSUME NoticeInv, [Next]_vars
  PROVE  NoticeInv'
<1>1. CASE DeliveryStep
  BY <1>1, ClaimKeeps, SendFailsKeeps, SendArrivesKeeps, CompleteKeeps, LookUpKeeps DEF DeliveryStep
<1>2. CASE LoopStep
  BY <1>2, LoopReceivesKeeps, LoopSavesKeeps, LoopEnqueuesKeeps, LoopResolvesKeeps DEF LoopStep
<1>3. CASE BotStep
  BY <1>3, RespondKeeps, ResolveKeeps, PressKeeps DEF BotStep
<1>4. CASE Environment
  <2>1. CASE RepairSwaps
    BY <2>1, SwapKeeps DEF RepairSwaps
  <2>2. CASE Recycle
    <3>1. connected' \in BOOLEAN
      BY <2>2 DEF Recycle, NoticeInv, TypeOK
    <3> QED
      BY <2>2, <3>1, SwapKeeps DEF Recycle
  <2>3. CASE RepairMarks
    BY <2>3, MarksKeeps
  <2>4. CASE Restart
    BY <2>4, RestartKeeps
  <2>5. CASE \E raw \in RawIds : Ask(raw)
    BY <2>5, AskKeeps
  <2>6. CASE \E r \in Requests : Settle(r)
    BY <2>6, SettleKeeps
  <2> QED
    BY <1>4, <2>1, <2>2, <2>3, <2>4, <2>5, <2>6 DEF Environment
<1>5. CASE UNCHANGED vars
  <2>1. TypeOK'
    BY <1>5 DEF NoticeInv, TypeOK, vars, client, storage, delivery, lives
  <2>2. Identities' /\ Answering' /\ Lives'
    BY <1>5 DEF NoticeInv, Identities, Answering, Lives, vars, client, storage, delivery, lives
  <2>3. FirstNotice' /\ Handling'
    BY <1>5 DEF NoticeInv, FirstNotice, Handling, DroppedNoticeIsSettled, vars, client, storage, delivery, lives
  <2> QED
    BY <2>1, <2>2, <2>3 DEF NoticeInv
<1> QED
  BY <1>1, <1>2, <1>3, <1>4, <1>5 DEF Next

LEMMA NoticeInvHolds == Spec => []NoticeInv
BY NoticeStarts, NoticeKeeps, PTL DEF Spec

\* Every variable keeps its type: the client, the channel, both tables of the store
\* and what the operator has seen.
THEOREM ApprovalTypes == Spec => []TypeOK
<1>1. NoticeInv => TypeOK
  BY DEF NoticeInv
<1> QED
  BY <1>1, NoticeInvHolds, PTL

\* approve, respondUserInputRequest: an answer reaches the request that its message
\* was shown for, whatever sessions, repairs and restarts came between, and the App
\* Server gets one at most, however often buttons and replies are used.
THEOREM ApprovalMeetsItsRequest == Spec => []AnswersMeetTheirRequest
<1>1. NoticeInv => AnswersMeetTheirRequest
  BY DEF NoticeInv, Answering, AnswersMeetTheirRequest
<1> QED
  BY <1>1, NoticeInvHolds, PTL

\* processDeliveryBatch, CompleteDelivery: after a restart no notice of an earlier life of
\* the daemon is sent, although its row may still be in the queue; and a row that is
\* completed without a message belongs to a request that needs no answer.
THEOREM ApprovalNoticesAreRight == Spec => []NoticesAreRight
<1>1. NoticeInv => NoticeIsOfThisLife
  BY DEF NoticeInv, Lives, NoticeIsOfThisLife
<1>2. NoticeInv => DroppedNoticeIsSettled
  BY DEF NoticeInv, Handling
<1> QED
  BY <1>1, <1>2, NoticeInvHolds, PTL DEF NoticesAreRight

-----------------------------------------------------------------------------
(* What the operator and the App Server may rely on (Approval).             *)

\* The ids that the client knows are of requests that wait; what is shown was asked, and
\* what the bot answers was shown.
Waits ==
  /\ \A k \in ids : phase[k] = "waiting"
  /\ \A m \in shown : phase[m.req] # "new"
  /\ bot.step = "respond" => \E m \in shown : m.req = bot.req

LEMMA WaitsStart == Init => Waits
BY DEF Init, Waits, NoBot

\* A step that asks nothing new, goes back to no new request, shows only what was asked
\* and lets the bot use only what is shown.
LEMMA WaitsKept ==
  ASSUME NoticeInv, Waits, ids' \subseteq ids, \A k \in ids' : phase'[k] = phase[k],
         \A r \in Requests : phase[r] # "new" => phase'[r] # "new",
         shown \subseteq shown',
         \A m \in shown' : m \in shown \/ (m.req \in Requests /\ phase[m.req] # "new"),
         bot' = bot \/ bot'.step # "respond" \/ \E m \in shown : m.req = bot'.req
  PROVE  Waits'
<1>1. \A m \in shown : m.req \in Requests
  BY DEF NoticeInv, TypeOK
<1> QED
  BY <1>1 DEF Waits

\* A notice is shown only for a request that was asked.
LEMMA ShownWasAsked ==
  ASSUME NoticeInv
  PROVE  /\ \A s \in Sessions : loop[s].kind = "request" =>
              loop[s].req \in Requests /\ phase[loop[s].req] # "new"
         /\ sending.step # "idle" =>
              /\ sending.key \in Requests /\ phase[sending.key] # "new"
              /\ Message(sending.key).req = sending.key
<1>1. ASSUME NEW s \in Sessions, loop[s].kind = "request"
      PROVE  loop[s].req \in Requests /\ phase[loop[s].req] # "new"
  BY <1>1, Records DEF NoticeInv, Identities, FirstNotice
<1>2. ASSUME sending.step # "idle"
      PROVE  /\ sending.key \in Requests /\ phase[sending.key] # "new"
             /\ Message(sending.key).req = sending.key
  <2>1. sending.key \in Keys /\ queue[sending.key].status = "processing"
    BY <1>2, MessageFacts
  <2>2. phase[sending.key] # "new" /\ queue[sending.key].req = sending.key
    BY <2>1 DEF NoticeInv, FirstNotice, Identities
  <2> QED
    BY <2>1, <2>2, Records DEF Message
<1> QED
  BY <1>1, <1>2

\* The only answer that RespondServerRequest writes: to the request of the message, which
\* waits for it.
LEMMA RespondFacts ==
  ASSUME NoticeInv, Waits, Respond
  PROVE  /\ bot.step = "respond" /\ bot.req \in Requests /\ UNCHANGED <<shown, session>>
         /\ \/ /\ phase[bot.req] = "waiting" /\ phase' = [phase EXCEPT ![bot.req] = "answered"]
               /\ ids' = ids \ {bot.req} /\ bot'.step = "resolve"
               /\ answers' = [answers EXCEPT ![bot.req].times = @ + 1,
                                             ![bot.req].meant = @ \cup {bot.req}]
            \/ bot' = NoBot /\ ids' \subseteq ids /\ UNCHANGED <<answers, phase>>
<1> DEFINE k == bot.key
           to == [session |-> bot.on, raw |-> k.raw]
<1>1. /\ bot.step = "respond" /\ k \in Requests /\ bot.req = k
      /\ UNCHANGED <<shown, session>>
  BY Records DEF Respond, NoticeInv, Identities
<1>2. CASE bot.on = session /\ connected /\ k \in ids /\ k = ServerRequestKey(session, k.raw)
  <2>1. to = k /\ phase[k] = "waiting"
    BY <1>2 DEF ServerRequestKey, Waits
  <2>2. /\ ids' = ids \ {k}
        /\ \/ /\ answers' = [answers EXCEPT ![to].times = @ + 1, ![to].meant = @ \cup {bot.req}]
              /\ phase' = [phase EXCEPT ![to] = IF @ = "waiting" THEN "answered" ELSE @]
              /\ bot' = [bot EXCEPT !.step = "resolve"]
           \/ bot' = NoBot /\ UNCHANGED <<answers, phase>>
    BY <1>2 DEF Respond, TakeId
  <2>3. CASE bot' = NoBot /\ UNCHANGED <<answers, phase>>
    BY <1>1, <2>2, <2>3
  <2>4. CASE /\ answers' = [answers EXCEPT ![to].times = @ + 1, ![to].meant = @ \cup {bot.req}]
             /\ phase' = [phase EXCEPT ![to] = IF @ = "waiting" THEN "answered" ELSE @]
             /\ bot' = [bot EXCEPT !.step = "resolve"]
    <3>1. bot'.step = "resolve"
      BY <2>4 DEF NoticeInv, TypeOK
    <3>2. answers' = [answers EXCEPT ![k].times = @ + 1, ![k].meant = @ \cup {k}]
      BY <1>1, <2>1, <2>4
    <3>3. phase' = [phase EXCEPT ![k] = "answered"]
      BY <2>1, <2>4 DEF NoticeInv, TypeOK
    <3> HIDE DEF k, to
    <3> QED
      BY <1>1, <2>1, <2>2, <3>1, <3>2, <3>3
  <2> QED
    BY <2>2, <2>3, <2>4
<1>3. CASE ~(bot.on = session /\ connected /\ k \in ids /\ k = ServerRequestKey(session, k.raw))
  BY <1>1, <1>3 DEF Respond
<1> QED
  BY <1>2, <1>3

LEMMA WaitsNext ==
  ASSUME NoticeInv, Waits, [Next]_vars
  PROVE  Waits'
<1>0. /\ phase \in [Requests -> {"new", "waiting", "answered", "over"}]
      /\ ids \subseteq Requests /\ session \in Sessions
      /\ NoBot.step = "idle"
  BY Records DEF NoticeInv, TypeOK, NoBot
<1>1. ASSUME NEW raw \in RawIds, Ask(raw) PROVE Waits'
  <2> DEFINE r == [session |-> session, raw |-> raw]
  <2>1. /\ phase[r] = "new" /\ phase' = [phase EXCEPT ![r] = "waiting"]
        /\ ids' = ids \cup {r} /\ UNCHANGED <<shown, bot>>
    BY <1>1 DEF Ask, ServerRequestKey
  <2>2. r \in Requests
    BY <1>0, Records
  <2> HIDE DEF r
  <2>3. phase'[r] = "waiting" /\ \A q \in Requests : q # r => phase'[q] = phase[q]
    BY <1>0, <2>1, <2>2
  <2>4. \A m \in shown : m.req \in Requests
    BY DEF NoticeInv, TypeOK
  <2> QED
    BY <1>0, <2>1, <2>3, <2>4 DEF Waits
<1>2. ASSUME NEW r \in Requests, Settle(r) PROVE Waits'
  <2>1. /\ phase[r] \in {"waiting", "answered"} /\ phase' = [phase EXCEPT ![r] = "over"]
        /\ ids' = ids \ {ServerRequestKey(session, r.raw)} /\ UNCHANGED <<shown, bot>>
    BY <1>2 DEF Settle
  <2>2. ServerRequestKey(session, r.raw) = r
    BY <2>1, KeyIsRequest DEF NoticeInv, Identities
  <2> QED
    BY <1>0, <2>1, <2>2, WaitsKept
<1>3. CASE Respond
  BY <1>0, <1>3, RespondFacts, WaitsKept
<1>4. CASE Resolve \/ \E m \in shown : Press(m)
  <2>1. UNCHANGED <<phase, ids, shown>>
    BY <1>4 DEF Resolve, Press, client
  <2>2. bot'.step # "respond" \/ \E m \in shown : m.req = bot'.req
    BY <1>0, <1>4 DEF Resolve, Press
  <2> QED
    BY <2>1, <2>2, WaitsKept DEF Waits
<1>5. CASE LoopStep
  <2>1. UNCHANGED <<phase, ids, bot>>
    BY <1>5 DEF LoopStep, LoopReceives, LoopSaves, LoopEnqueues, LoopResolves, client
  <2>2. /\ shown \subseteq shown'
        /\ \A m \in shown' : m \in shown \/ (m.req \in Requests /\ phase[m.req] # "new")
    <3>1. ASSUME NEW s \in Sessions, NEW kind \in Kinds, LoopSaves(s, kind)
          PROVE  /\ shown \subseteq shown'
                 /\ \A m \in shown' : m \in shown \/ (m.req \in Requests /\ phase[m.req] # "new")
      <4>1. loop[s].req \in Requests /\ phase[loop[s].req] # "new"
        BY <3>1, ShownWasAsked DEF LoopSaves
      <4>2. \/ shown' = shown \cup {[key |-> loop[s].key, req |-> loop[s].req, kind |-> kind]}
            \/ shown' = shown
        BY <3>1 DEF LoopSaves
      <4> QED
        BY <4>1, <4>2
    <3> QED
      BY <1>5, <3>1 DEF LoopStep, LoopReceives, LoopEnqueues, LoopResolves
  <2> QED
    BY <2>1, <2>2, WaitsKept DEF Waits
<1>6. CASE DeliveryStep
  <2>1. UNCHANGED <<phase, ids, bot>>
    BY <1>6 DEF DeliveryStep, ClaimDeliveryBatch, SendFails, SendArrives, CompleteDelivery, LookUp, client
  <2>2. shown' = shown \/ (sending.step = "send" /\ shown' = shown \cup {Message(sending.key)})
    BY <1>6 DEF DeliveryStep, ClaimDeliveryBatch, SendFails, SendArrives, CompleteDelivery, LookUp
  <2>3. /\ shown \subseteq shown'
        /\ \A m \in shown' : m \in shown \/ (m.req \in Requests /\ phase[m.req] # "new")
    BY <2>2, ShownWasAsked
  <2> QED
    BY <2>1, <2>3, WaitsKept DEF Waits
<1>7. CASE RepairSwaps \/ Recycle \/ Restart
  <2>1. NewSession /\ shown' = shown /\ bot' \in {bot, NoBot}
    BY <1>7 DEF RepairSwaps, Recycle, Restart
  <2>2. ids' = {} /\ \A r \in Requests : phase[r] # "new" => phase'[r] # "new"
    BY <2>1, NewSessionFacts
  <2> QED
    BY <1>0, <2>1, <2>2, WaitsKept
<1>8. CASE RepairMarks \/ UNCHANGED vars
  <2>1. UNCHANGED <<phase, ids, bot, shown>>
    BY <1>8 DEF RepairMarks, vars, client
  <2> QED
    BY <2>1 DEF Waits
<1> QED
  BY <1>1, <1>2, <1>3, <1>4, <1>5, <1>6, <1>7, <1>8 DEF Next, BotStep, Environment

\* The state that Approval speaks of.
Seen == {m.req : m \in shown}
Pressed == IF bot.step = "respond" THEN bot.req ELSE Nothing
Taken == [r \in Requests |-> answers[r].times]

LEMMA PromiseVars == UNCHANGED <<phase, Seen, Pressed, Taken>> => UNCHANGED Promise!vars
BY DEF Promise!vars, Seen, Pressed, Taken

LEMMA PromiseStarts == Init => Promise!Init
BY DEF Init, NoBot, Promise!Init

LEMMA PromiseStutters ==
  ASSUME UNCHANGED <<phase, shown, bot, answers>>
  PROVE  UNCHANGED <<phase, Seen, Pressed, Taken>>
BY DEF Seen, Pressed, Taken

\* Each step of Approval, on the state of this module.
LEMMA AskIsPromised ==
  ASSUME NEW r \in Requests, phase[r] = "new", phase' = [phase EXCEPT ![r] = "waiting"],
         UNCHANGED <<Seen, Pressed, Taken>>
  PROVE  Promise!Next
<1>1. Promise!Ask(r)
  BY DEF Promise!Ask, Seen, Pressed, Taken
<1> QED
  BY <1>1 DEF Promise!Next

LEMMA ShowIsPromised ==
  ASSUME NEW r \in Requests, phase[r] # "new", Seen' = Seen \cup {r},
         UNCHANGED <<phase, Pressed, Taken>>
  PROVE  Promise!Next
<1>1. Promise!Show(r)
  BY DEF Promise!Show, Seen, Pressed, Taken
<1> QED
  BY <1>1 DEF Promise!Next

LEMMA PressIsPromised ==
  ASSUME NEW r \in Requests, Pressed = Nothing, r \in Seen, Pressed' = r,
         UNCHANGED <<phase, Seen, Taken>>
  PROVE  Promise!Next
<1>1. Promise!Press(r)
  BY DEF Promise!Press, Seen, Pressed, Taken
<1> QED
  BY <1>1 DEF Promise!Next

LEMMA AnswerIsPromised ==
  ASSUME NEW r \in Requests, Pressed = r, phase[r] = "waiting",
         phase' = [phase EXCEPT ![r] = "answered"],
         Taken' = [Taken EXCEPT ![r] = @ + 1], Pressed' = Nothing, UNCHANGED Seen
  PROVE  Promise!Next
<1>1. Promise!Answer(r)
  BY DEF Promise!Answer, Seen, Pressed, Taken
<1> QED
  BY <1>1 DEF Promise!Next

LEMMA GiveUpIsPromised ==
  ASSUME Pressed # Nothing, Pressed' = Nothing, UNCHANGED <<phase, Seen, Taken>>
  PROVE  Promise!Next
<1>1. Promise!GiveUp
  BY DEF Promise!GiveUp, Seen, Pressed, Taken
<1> QED
  BY <1>1 DEF Promise!Next

LEMMA OverIsPromised ==
  ASSUME NEW S \in SUBSET Requests,
         phase' = [r \in Requests |-> IF r \in S THEN "over" ELSE phase[r]],
         Pressed' \in {Pressed, Nothing}, UNCHANGED <<Seen, Taken>>
  PROVE  Promise!Next
<1>1. Promise!Over(S)
  BY DEF Promise!Over, Seen, Pressed, Taken
<1> QED
  BY <1>1 DEF Promise!Next

\* Every step is one of Approval, or nothing that it speaks of changes.
LEMMA PromiseNext ==
  ASSUME NoticeInv, Waits, [Next]_vars
  PROVE  Promise!Next \/ UNCHANGED <<phase, Seen, Pressed, Taken>>
<1>0. /\ phase \in [Requests -> {"new", "waiting", "answered", "over"}]
      /\ answers \in [Requests -> [times : Nat, meant : SUBSET Requests]]
      /\ NoBot.step = "idle" /\ session \in Sessions
  BY DEF NoticeInv, TypeOK, NoBot
<1>1. ASSUME NEW raw \in RawIds, Ask(raw)
      PROVE  Promise!Next
  <2> DEFINE r == [session |-> session, raw |-> raw]
  <2>1. /\ phase[r] = "new" /\ phase' = [phase EXCEPT ![r] = "waiting"]
        /\ UNCHANGED <<shown, bot, answers>>
    BY <1>1 DEF Ask
  <2>2. r \in Requests
    BY <1>0, Records
  <2> HIDE DEF r
  <2>3. UNCHANGED <<Seen, Pressed, Taken>>
    BY <2>1 DEF Seen, Pressed, Taken
  <2> QED
    BY <2>1, <2>2, <2>3, AskIsPromised
<1>2. ASSUME NEW r \in Requests, Settle(r)
      PROVE  Promise!Next
  <2>1. phase' = [phase EXCEPT ![r] = "over"] /\ UNCHANGED <<shown, bot, answers>>
    BY <1>2 DEF Settle
  <2>2. phase' = [q \in Requests |-> IF q \in {r} THEN "over" ELSE phase[q]]
    BY <1>0, <2>1
  <2>3. UNCHANGED <<Seen, Pressed, Taken>>
    BY <2>1 DEF Seen, Pressed, Taken
  <2>4. {r} \in SUBSET Requests
    OBVIOUS
  <2> QED
    BY <2>2, <2>3, <2>4, OverIsPromised
<1>3. ASSUME RepairSwaps \/ Recycle \/ Restart
      PROVE  Promise!Next
  <2> DEFINE S == {r \in Requests : r.session = session}
  <2>1. NewSession /\ UNCHANGED <<shown, answers>> /\ bot' \in {bot, NoBot}
    BY <1>3 DEF RepairSwaps, Recycle, Restart
  <2>2. phase' = [r \in Requests |-> IF r \in S THEN "over" ELSE phase[r]]
    BY <2>1 DEF NewSession
  <2>3. Pressed' \in {Pressed, Nothing} /\ UNCHANGED <<Seen, Taken>>
    BY <1>0, <2>1 DEF Seen, Pressed, Taken
  <2>4. S \in SUBSET Requests
    OBVIOUS
  <2> HIDE DEF S
  <2> QED
    BY <2>2, <2>3, <2>4, OverIsPromised
<1>4. ASSUME Respond
      PROVE  Promise!Next
  <2>1. Pressed = bot.req /\ bot.req \in Requests /\ Pressed # Nothing /\ UNCHANGED Seen
    BY <1>4, RespondFacts, Records DEF Pressed, Seen
  <2>2. bot'.step \in {"resolve", "idle"}
    BY <1>0, <1>4, RespondFacts
  <2>3. Pressed' = Nothing
    BY <2>2 DEF Pressed
  <2>4. CASE bot' = NoBot /\ UNCHANGED <<answers, phase>>
    <3>1. UNCHANGED Taken
      BY <2>4 DEF Taken
    <3> QED
      BY <2>1, <2>3, <2>4, <3>1, GiveUpIsPromised
  <2>5. CASE /\ phase[bot.req] = "waiting" /\ phase' = [phase EXCEPT ![bot.req] = "answered"]
             /\ answers' = [answers EXCEPT ![bot.req].times = @ + 1,
                                           ![bot.req].meant = @ \cup {bot.req}]
    <3> DEFINE r == bot.req
    <3>1. \A q \in Requests : answers'[q].times = IF q = r THEN answers[q].times + 1 ELSE answers[q].times
      BY <1>0, <2>1, <2>5
    <3>2. Taken' = [Taken EXCEPT ![r] = @ + 1]
      BY <2>1, <3>1 DEF Taken
    <3> QED
      BY <2>1, <2>3, <2>5, <3>2, AnswerIsPromised
  <2> QED
    BY <1>4, <2>4, <2>5, RespondFacts
<1>5. ASSUME NEW m \in shown, Press(m)
      PROVE  Promise!Next
  <2>1. bot = NoBot /\ bot'.step = "respond" /\ bot'.req = m.req /\ UNCHANGED <<phase, shown, answers>>
    BY <1>5 DEF Press
  <2>2. m.req \in Requests /\ m.req \in Seen
    BY DEF NoticeInv, TypeOK, Seen
  <2>3. Pressed = Nothing /\ Pressed' = m.req /\ UNCHANGED <<Seen, Taken>>
    BY <1>0, <2>1 DEF Pressed, Seen, Taken
  <2> QED
    BY <2>1, <2>2, <2>3, PressIsPromised
<1>6. ASSUME NEW s \in Sessions, NEW kind \in Kinds, LoopSaves(s, kind)
      PROVE  Promise!Next \/ UNCHANGED <<phase, Seen, Pressed, Taken>>
  <2> DEFINE m == [key |-> loop[s].key, req |-> loop[s].req, kind |-> kind]
  <2>1. UNCHANGED <<phase, bot, answers>> /\ (shown' = shown \/ shown' = shown \cup {m})
    BY <1>6 DEF LoopSaves
  <2>2. loop[s].req \in Requests /\ phase[loop[s].req] # "new"
    BY <1>6, ShownWasAsked DEF LoopSaves
  <2>3. m.req = loop[s].req
    OBVIOUS
  <2> HIDE DEF m
  <2>4. UNCHANGED <<Pressed, Taken>>
    BY <2>1 DEF Pressed, Taken
  <2>5. CASE shown' = shown
    BY <2>1, <2>5, PromiseStutters
  <2>6. CASE shown' = shown \cup {m}
    <3>1. Seen' = Seen \cup {loop[s].req}
      BY <2>3, <2>6 DEF Seen
    <3> QED
      BY <2>1, <2>2, <2>4, <3>1, ShowIsPromised
  <2> QED
    BY <2>1, <2>5, <2>6
<1>7. ASSUME DeliveryStep
      PROVE  Promise!Next \/ UNCHANGED <<phase, Seen, Pressed, Taken>>
  <2> DEFINE m == Message(sending.key)
  <2>1. UNCHANGED <<phase, bot, answers>>
    BY <1>7 DEF DeliveryStep, ClaimDeliveryBatch, SendFails, SendArrives, CompleteDelivery, LookUp
  <2>2. shown' = shown \/ (sending.step = "send" /\ shown' = shown \cup {m})
    BY <1>7 DEF DeliveryStep, ClaimDeliveryBatch, SendFails, SendArrives, CompleteDelivery, LookUp
  <2>3. sending.step = "send" => sending.key \in Requests /\ phase[sending.key] # "new" /\ m.req = sending.key
    BY ShownWasAsked
  <2> HIDE DEF m
  <2>4. UNCHANGED <<Pressed, Taken>>
    BY <2>1 DEF Pressed, Taken
  <2>5. CASE shown' = shown
    BY <2>1, <2>5, PromiseStutters
  <2>6. CASE sending.step = "send" /\ shown' = shown \cup {m}
    <3>1. Seen' = Seen \cup {sending.key}
      BY <2>3, <2>6 DEF Seen
    <3> QED
      BY <2>1, <2>3, <2>4, <2>6, <3>1, ShowIsPromised
  <2> QED
    BY <2>2, <2>5, <2>6
<1>8. ASSUME \/ LoopReceives \/ \E s \in Sessions : LoopEnqueues(s) \/ LoopResolves(s)
             \/ RepairMarks \/ UNCHANGED vars
      PROVE  UNCHANGED <<phase, Seen, Pressed, Taken>>
  <2>1. UNCHANGED <<phase, shown, bot, answers>>
    BY <1>8 DEF LoopReceives, LoopEnqueues, LoopResolves, RepairMarks, vars
  <2> QED
    BY <2>1, PromiseStutters
<1>9. ASSUME Resolve
      PROVE  UNCHANGED <<phase, Seen, Pressed, Taken>>
  <2>1. UNCHANGED <<phase, shown, answers>> /\ bot.step = "resolve" /\ bot' = NoBot
    BY <1>9 DEF Resolve
  <2> QED
    BY <1>0, <2>1 DEF Seen, Pressed, Taken
<1> QED
  BY <1>1, <1>2, <1>3, <1>4, <1>5, <1>6, <1>7, <1>8, <1>9 DEF Next, LoopStep, BotStep, Environment

\* The client, the event loops, the tables, the delivery loop and the bot together keep
\* the promise of Approval: whatever sessions come and go, an answer reaches the very
\* request of the message that was used, while it waits, and once.
THEOREM ApprovalsArePromised == Spec => Approvals
<1>1. NoticeInv /\ Waits /\ [Next]_vars => Waits'
  BY WaitsNext
<1>2. NoticeInv /\ Waits /\ [Next]_vars => [Promise!Next]_Promise!vars
  BY PromiseNext, PromiseVars
<1> QED
  BY <1>1, <1>2, NoticeStarts, NoticeKeeps, WaitsStart, PromiseStarts, PTL DEF Spec, Approvals, Promise!Spec

-----------------------------------------------------------------------------
(* The readings of a thread.                                                *)

PCs == {"rests", "reads", "gate", "keep", "store", "load", "merge", "decide", "mark",
        "steer", "start", "origin", "seed"}
TurnIds == Turns \cup {0}
SnapType == [turn : TurnIds, phase : Phases, tool : Nat, live : BOOLEAN, ver : Nat]
ThreadRow == [active : TurnIds, live : BOOLEAN, ver : Nat]
WorkType == [pc : PCs, rep : Nat, snap : SnapType, row : ThreadRow, turn : Nat]

\* What a goroutine holds was reported by now; it names a turn where it needs one.
WorkIsOf(w) ==
  /\ worker[w].rep \in 1 .. at /\ worker[w].snap.ver <= at /\ worker[w].row.ver <= at
  /\ worker[w].pc = "reads" => w = "input"
  /\ worker[w].pc \in {"load", "merge"} => w = "live"
  /\ worker[w].pc \in {"decide", "mark"} => w = "stop"
  /\ worker[w].pc \in {"steer", "start", "origin", "seed"} => w = "input"
  /\ w = "live" /\ worker[w].pc # "rests" => heard > 0
  /\ w = "input" /\ worker[w].pc # "rests" => worker[w].turn \in TurnIds
  /\ worker[w].pc \in {"mark", "origin", "seed"} => worker[w].turn \in Turns

Types ==
  /\ script \in Scripts /\ at \in 1 .. LastReport /\ heard \in 0 .. at
  /\ snap \in SnapType /\ snap.ver <= at
  /\ threadRow \in ThreadRow /\ threadRow.ver <= at
  /\ grace \in [Turns -> {"none", "waiting", "over"}]
  /\ explicit \subseteq Turns /\ origin \subseteq Nat \ {0} /\ hot \in TurnIds
  /\ worker \in [Workers -> WorkType]
  /\ \A w \in Workers : WorkIsOf(w)

\* An interruption, wherever it is held, was asked for, had its grace, or passed before
\* its turn was marked.
Meant(s) == s.phase = "stopped" => s.turn = 0 \/ s.turn \in explicit \cup graced \cup early
AllMeant ==
  /\ Meant(snap) /\ \A w \in Workers : Meant(worker[w].snap)
  /\ \A t \in Turns : grace[t] = "over" => t \in graced

\* The row that an input goes by without a turn to steer is live for a reason.
BusyForAReason ==
  LET w == worker["input"]
  IN  /\ w.pc = "store" /\ w.row.live => Running(w.rep)
      /\ w.pc = "keep" => CountsAsBusy(w.rep)
      /\ w.pc = "steer" /\ w.row.live => w.row.active # 0 \/ CountsAsBusy(w.rep)

WatchInv == Types /\ AllMeant /\ BusyForAReason /\ ~turnedAway

-----------------------------------------------------------------------------
LEMMA ReportTypes ==
  ASSUME script \in Scripts
  PROVE  /\ LastReport \in Nat \ {0} /\ Turns \subseteq Nat \ {0}
         /\ \A i \in 1 .. LastReport :
              /\ Report(i).turn \in Turns /\ Report(i).phase \in Phases /\ Report(i).tool \in Nat
<1>1. /\ script.reports # <<>>
      /\ script.reports \in Seq([turn : Nat \ {0}, phase : Phases, tool : Nat,
                                 by : {"codex", "stop", "input"}])
  BY WatchAssumption
<1>2. LastReport \in Nat \ {0}
  BY <1>1 DEF LastReport
<1>3. ASSUME NEW i \in 1 .. LastReport
      PROVE  Report(i) \in [turn : Nat \ {0}, phase : Phases, tool : Nat, by : {"codex", "stop", "input"}]
  <2> DEFINE R == [turn : Nat \ {0}, phase : Phases, tool : Nat, by : {"codex", "stop", "input"}]
             r == script.reports
  <2>1. r \in Seq(R) /\ i \in 1 .. Len(r)
    BY <1>1 DEF LastReport
  <2>2. r[i] \in R
    <3> HIDE DEF r, R
    <3> QED
      BY <2>1
  <2> QED
    BY <2>2 DEF Report
<1>4. \A i \in 1 .. LastReport : Report(i).turn \in Turns
  BY DEF Turns
<1> QED
  BY <1>2, <1>3, <1>4 DEF Turns

LEMMA ZeroIsNoTurn == ASSUME script \in Scripts PROVE 0 \notin Turns /\ TurnIds \subseteq Nat
BY ReportTypes DEF TurnIds

LEMMA EmptyTypes == NoSnap \in SnapType /\ NoRow \in ThreadRow /\ AtRest \in WorkType
<1>1. NoSnap \in SnapType /\ NoRow \in ThreadRow
  BY DEF NoSnap, SnapType, NoRow, ThreadRow, TurnIds, Phases
<1> QED
  BY <1>1 DEF AtRest, WorkType, PCs

LEMMA RestIsOf ==
  ASSUME Types, NEW w \in Workers, NEW t \in Nat, worker[w] = [AtRest EXCEPT !.turn = t]
  PROVE  WorkIsOf(w) /\ Meant(worker[w].snap)
<1>1. LastReport \in Nat \ {0} /\ at \in Nat \ {0}
  BY ReportTypes DEF Types
<1>2. worker[w].pc = "rests" /\ worker[w].rep = 1 /\ worker[w].snap = NoSnap /\ worker[w].row = NoRow
  BY DEF AtRest
<1> QED
  BY <1>1, <1>2 DEF WorkIsOf, Meant, NoSnap, NoRow

LEMMA WatchStarts == WatchInit => WatchInv
<1> SUFFICES ASSUME WatchInit PROVE WatchInv
  OBVIOUS
<1> USE DEF WatchInit
<1>1. LastReport \in Nat \ {0} /\ Turns \subseteq Nat \ {0}
  BY ReportTypes
<1>2. origin \subseteq Nat \ {0}
  BY WatchAssumption
<1>3. Types
  <2>1. at \in 1 .. LastReport /\ heard \in 0 .. at
    BY <1>1
  <2>2. \A w \in Workers : WorkIsOf(w)
    BY DEF WorkIsOf, AtRest, NoSnap, NoRow
  <2>3. snap.ver <= at /\ threadRow.ver <= at
    BY DEF NoSnap, NoRow
  <2> QED
    BY <1>2, <2>1, <2>2, <2>3, EmptyTypes DEF Types, TurnIds
<1>4. AllMeant
  BY DEF AllMeant, Meant, NoSnap, AtRest
<1>5. BusyForAReason
  BY DEF BusyForAReason, AtRest, Workers
<1> QED
  BY <1>3, <1>4, <1>5 DEF WatchInv

-----------------------------------------------------------------------------
(* What a step leaves as it is.                                              *)

LEMMA TurnsStay == ASSUME script' = script PROVE Turns' = Turns /\ LastReport' = LastReport /\ TurnIds' = TurnIds
BY DEF Turns, LastReport, Report, TurnIds

LEMMA WorkStays ==
  ASSUME Types, script' = script, at' \in at .. LastReport, heard' \in heard .. at',
         NEW v \in Workers, worker'[v] = worker[v]
  PROVE  WorkIsOf(v)'
<1>1. /\ at \in Nat /\ at' \in Nat /\ heard \in Nat /\ heard' \in Nat /\ WorkIsOf(v)
      /\ worker[v].rep \in Nat /\ worker[v].snap.ver \in Nat /\ worker[v].row.ver \in Nat
  BY ReportTypes DEF Types, WorkType, SnapType, ThreadRow
<1> QED
  BY <1>1, TurnsStay DEF WorkIsOf

LEMMA MeantStays ==
  ASSUME explicit \subseteq explicit', graced \subseteq graced', early \subseteq early',
         NEW s, Meant(s)
  PROVE  s.phase = "stopped" => s.turn = 0 \/ s.turn \in explicit' \cup graced' \cup early'
BY DEF Meant

LEMMA BusyStays ==
  ASSUME Types, script' = script, at' \in at .. LastReport, origin \subseteq origin', NEW i \in Nat,
         CountsAsBusy(i)
  PROVE  CountsAsBusy(i)'
<1>1. at \in Nat /\ at' \in Nat
  BY ReportTypes DEF Types
<1>2. i .. at \subseteq i .. at'
  BY <1>1
<1>3. CASE \E k \in i .. at : Running(k)
  BY <1>2, <1>3 DEF CountsAsBusy, Running, Report
<1>4. CASE ~\E k \in i .. at : Running(k)
  BY <1>4 DEF CountsAsBusy, Report
<1> QED
  BY <1>3, <1>4

LEMMA ReasonStays ==
  ASSUME Types, BusyForAReason, script' = script, at' \in at .. LastReport, origin \subseteq origin',
         worker'["input"] = worker["input"]
  PROVE  BusyForAReason'
<1> DEFINE i == worker["input"].rep
<1>1. i \in Nat
  BY DEF Types, WorkType, Workers
<1>2. CountsAsBusy(i) => \A k \in Nat : k = i => CountsAsBusy(k)'
  BY <1>1, BusyStays
<1>3. Running(i) => \A k \in Nat : k = i => Running(k)'
  BY DEF Running, Report
<1>4. worker'["input"].rep = i
  OBVIOUS
<1>5. CountsAsBusy(i) => CountsAsBusy(worker["input"].rep)'
  BY <1>1, <1>2, <1>4 DEF CountsAsBusy, Running, Report
<1>6. Running(i) => Running(worker["input"].rep)'
  BY <1>1, <1>3, <1>4 DEF Running, Report
<1> QED
  BY <1>5, <1>6 DEF BusyForAReason

\* Enough for a step of goroutine w, or of nobody.
LEMMA StepKeeps ==
  ASSUME WatchInv, NEW w \in Workers, worker' \in [Workers -> WorkType],
         \A v \in Workers \ {w} : worker'[v] = worker[v],
         WorkIsOf(w)', Meant(worker[w].snap)', w = "input" => BusyForAReason',
         script' = script, at' \in at .. LastReport, heard' \in heard .. at',
         snap' \in SnapType, snap'.ver <= at', Meant(snap)',
         threadRow' \in ThreadRow, threadRow'.ver <= at',
         grace' \in [Turns -> {"none", "waiting", "over"}],
         \A t \in Turns : grace'[t] = "over" => t \in graced',
         explicit' \subseteq Turns, explicit \subseteq explicit', graced \subseteq graced',
         early \subseteq early', origin' \subseteq Nat \ {0}, origin \subseteq origin',
         hot' \in TurnIds, ~turnedAway'
  PROVE  WatchInv'
<1>1. Types /\ AllMeant /\ BusyForAReason
  BY DEF WatchInv
<1>2. at \in Nat /\ heard \in Nat /\ LastReport \in Nat /\ at \in 1 .. LastReport
  BY <1>1, ReportTypes DEF Types
<1>3. at' \in 1 .. LastReport /\ heard' \in 0 .. at'
  BY <1>2
<1>4. Turns' = Turns /\ LastReport' = LastReport /\ TurnIds' = TurnIds
  BY TurnsStay
<1>5. SnapType' = SnapType /\ ThreadRow' = ThreadRow /\ WorkType' = WorkType
  BY <1>4 DEF SnapType, ThreadRow, WorkType
<1>6. ASSUME NEW v \in Workers PROVE WorkIsOf(v)' /\ Meant(worker[v].snap)'
  <2>1. CASE v = w
    BY <2>1
  <2>2. CASE v # w
    <3>1. worker'[v] = worker[v] /\ Meant(worker[v].snap)
      BY <1>1, <2>2 DEF AllMeant
    <3> QED
      BY <1>1, <3>1, WorkStays DEF Meant
  <2> QED
    BY <2>1, <2>2
<1>7. Types'
  BY <1>1, <1>3, <1>4, <1>5, <1>6 DEF Types
<1>8. AllMeant'
  BY <1>4, <1>6 DEF AllMeant
<1>9. BusyForAReason'
  <2>1. CASE w # "input"
    BY <1>1, <2>1, ReasonStays DEF Workers
  <2> QED
    BY <2>1
<1> QED
  BY <1>7, <1>8, <1>9 DEF WatchInv

\* What a step needs to know of the state it starts from.
LEMMA Known ==
  ASSUME WatchInv
  PROVE  /\ Types /\ AllMeant /\ BusyForAReason /\ ~turnedAway
         /\ at \in Nat \ {0} /\ heard \in Nat /\ LastReport \in Nat \ {0} /\ at <= LastReport /\ heard <= at
         /\ Turns \subseteq Nat \ {0} /\ Turns \subseteq TurnIds /\ TurnIds \subseteq Nat
         /\ \A i \in 1 .. at :
               Report(i).turn \in Turns /\ Report(i).phase \in Phases /\ Report(i).tool \in Nat
         /\ snap \in SnapType /\ threadRow \in ThreadRow /\ snap.ver <= at /\ threadRow.ver <= at
<1>1. Types
  BY DEF WatchInv
<1>2. LastReport \in Nat \ {0} /\ at \in 1 .. LastReport /\ heard \in 0 .. at
  BY <1>1, ReportTypes DEF Types
<1>3. 1 .. at \subseteq 1 .. LastReport
  BY <1>2
<1> QED
  BY <1>1, <1>2, <1>3, ReportTypes, ZeroIsNoTurn DEF WatchInv, Types, TurnIds

LEMMA KnownOf ==
  ASSUME WatchInv, NEW w \in Workers
  PROVE  /\ worker[w] \in WorkType /\ WorkIsOf(w) /\ Meant(worker[w].snap)
         /\ worker[w].snap \in SnapType /\ worker[w].row \in ThreadRow /\ worker[w].turn \in Nat
         /\ worker[w].rep \in 1 .. at /\ worker[w].rep \in Nat
BY Known DEF Types, AllMeant, WorkType, WorkIsOf

\* A step of nobody.
LEMMA NobodyKeeps ==
  ASSUME WatchInv, worker' = worker,
         script' = script, at' \in at .. LastReport, heard' \in heard .. at',
         snap' = snap, threadRow' \in ThreadRow, threadRow'.ver <= at',
         grace' \in [Turns -> {"none", "waiting", "over"}],
         \A t \in Turns : grace'[t] = "over" => t \in graced',
         explicit' = explicit, graced \subseteq graced', early' = early, origin' = origin,
         hot' \in TurnIds, ~turnedAway'
  PROVE  WatchInv'
<1>1. Types /\ BusyForAReason /\ snap \in SnapType /\ snap.ver <= at /\ at' >= at
  BY Known
<1>2. "poll" \in Workers /\ "poll" # "input"
  BY DEF Workers
<1>3. WorkIsOf("poll")'
  BY <1>1, <1>2, WorkStays
<1>4. Meant(worker["poll"].snap)' /\ Meant(snap)'
  BY <1>2, Known, KnownOf DEF Meant, AllMeant
<1>5. snap.ver \in Nat /\ at \in Nat /\ at' \in Nat
  BY <1>1, Known DEF SnapType
<1>6. snap'.ver <= at'
  BY <1>1, <1>5
<1>7. explicit' \subseteq Turns /\ origin' \subseteq Nat \ {0} /\ worker' \in [Workers -> WorkType]
  BY <1>1 DEF Types
<1> QED
  BY <1>1, <1>2, <1>3, <1>4, <1>6, <1>7, StepKeeps

LEMMA SurroundingsKeep ==
  ASSUME WatchInv, ThreadProceeds \/ LosesEvents \/ GraceEnds \/ syncThreads \/ HotPollStops
  PROVE  WatchInv'
<1> USE Known
<1>1. /\ hot \in TurnIds /\ grace \in [Turns -> {"none", "waiting", "over"}] /\ 0 \in TurnIds
      /\ \A t \in Turns : grace[t] = "over" => t \in graced
      /\ threadRow.ver \in Nat /\ threadRow.active \in TurnIds
  BY DEF Types, AllMeant, TurnIds, ThreadRow
<1>2. CASE ThreadProceeds
  <2>1. at' \in at .. LastReport /\ at' = at + 1
    BY <1>2 DEF ThreadProceeds, ComesNext
  <2> QED
    BY <1>1, <1>2, <2>1, NobodyKeeps DEF ThreadProceeds, stores
<1>3. CASE LosesEvents
  BY <1>1, <1>3, NobodyKeeps DEF LosesEvents, stores
<1>4. CASE GraceEnds
  <2>1. PICK t \in Turns : grace' = [grace EXCEPT ![t] = "over"] /\ graced' = graced \cup {t}
    BY <1>4 DEF GraceEnds
  <2>2. /\ grace' \in [Turns -> {"none", "waiting", "over"}]
        /\ \A u \in Turns : grace'[u] = "over" => u \in graced'
    BY <1>1, <2>1
  <2> QED
    BY <1>1, <1>4, <2>1, <2>2, NobodyKeeps DEF GraceEnds
<1>5. CASE syncThreads
  <2>1. threadRow' = [threadRow EXCEPT !.live = Running(at), !.ver = at]
    BY <1>5 DEF syncThreads
  <2>2. threadRow' \in ThreadRow /\ threadRow'.ver <= at
    <3>1. \E b \in BOOLEAN : Running(at) = b
      BY DEF Running
    <3>2. PICK b \in BOOLEAN : threadRow' = [threadRow EXCEPT !.live = b, !.ver = at]
      BY <2>1, <3>1
    <3>3. threadRow \in ThreadRow /\ at \in Nat
      OBVIOUS
    <3>4. threadRow' \in ThreadRow
      BY <3>2, <3>3 DEF ThreadRow
    <3>5. threadRow'.ver = at
      BY <3>2, <3>3 DEF ThreadRow
    <3> QED
      BY <3>3, <3>4, <3>5
  <2> QED
    BY <1>1, <1>5, <2>2, NobodyKeeps DEF syncThreads
<1>6. CASE HotPollStops
  BY <1>1, <1>6, NobodyKeeps DEF HotPollStops, stores
<1> QED
  BY <1>2, <1>3, <1>4, <1>5, <1>6

-----------------------------------------------------------------------------
(* Reading, the gate and storing.                                            *)

\* Goroutine w goes on with what is in new.
LEMMA OneGoesOn ==
  ASSUME Types, NEW w \in Workers, NEW new \in WorkType, worker' = [worker EXCEPT ![w] = new]
  PROVE  /\ worker' \in [Workers -> WorkType] /\ worker'[w] = new
         /\ \A v \in Workers \ {w} : worker'[v] = worker[v]
BY DEF Types

LEMMA ReadsKeeps == ASSUME WatchInv, NEW w \in Workers, ReadsThread(w) PROVE WatchInv'
<1> USE Known, KnownOf
<1> DEFINE base == IF w = "poll" THEN threadRow ELSE NoRow
           new == [worker[w] EXCEPT !.pc = "gate", !.rep = at, !.row = base]
<1>1. worker' = [worker EXCEPT ![w] = new]
  BY DEF ReadsThread
<1>2. base \in ThreadRow /\ base.ver \in Nat /\ base.ver <= at
  BY EmptyTypes DEF NoRow, ThreadRow
<1> HIDE DEF base
<1>3. /\ new \in WorkType /\ new.pc = "gate" /\ new.rep = at /\ new.row = base
      /\ new.snap = worker[w].snap /\ new.turn = worker[w].turn
  BY <1>2 DEF WorkType, PCs
<1>4. worker' = [worker EXCEPT ![w] = new]
  BY <1>1
<1> HIDE DEF new
<1>5. /\ worker' \in [Workers -> WorkType] /\ worker'[w] = new
      /\ \A v \in Workers \ {w} : worker'[v] = worker[v]
  BY <1>3, <1>4, OneGoesOn
<1>6. /\ UNCHANGED <<script, at, snap, threadRow, grace, explicit, origin, hot, graced, early, turnedAway>>
      /\ heard' = IF w = "live" THEN heard + 1 ELSE heard
      /\ w = "live" => heard < at
      /\ w = "input" => worker[w].turn \in TurnIds
  BY DEF ReadsThread, stores, WorkBegins, WorkIsOf, TurnIds
<1>7. WorkIsOf(w)'
  <2>1. worker[w].snap.ver \in Nat /\ worker[w].snap.ver <= at
    BY DEF SnapType, WorkIsOf
  <2>2. at \in 1 .. at /\ at' = at /\ TurnIds' = TurnIds
    BY <1>6, TurnsStay
  <2>3. w = "live" => heard' > 0
    BY <1>6
  <2> QED
    BY <1>2, <1>3, <1>5, <1>6, <2>1, <2>2, <2>3 DEF WorkIsOf
<1>8. Meant(worker[w].snap)' /\ Meant(snap)'
  BY <1>3, <1>5, <1>6 DEF Meant, AllMeant
<1>9. w = "input" => BusyForAReason'
  BY <1>3, <1>5 DEF BusyForAReason
<1>10. heard' \in heard .. at' /\ at' \in at .. LastReport
  BY <1>6
<1> QED
  BY <1>5, <1>6, <1>7, <1>8, <1>9, <1>10, StepKeeps DEF Types, AllMeant

\* What the gate makes of report i.
LEMMA CompactIsSnap ==
  ASSUME WatchInv, NEW i \in 1 .. at
  PROVE  /\ Compact(i, snap) \in SnapType /\ Compact(i, snap).ver = i
         /\ Compact(i, snap).phase = Report(i).phase /\ Compact(i, snap).turn = Report(i).turn
<1>1. /\ Report(i).turn \in TurnIds /\ Report(i).phase \in Phases /\ Report(i).tool \in Nat
      /\ snap.tool \in Nat /\ i \in Nat
  BY Known DEF SnapType
<1>2. \E b \in BOOLEAN : PreservesTool(Report(i), snap) = b
  BY DEF PreservesTool
<1>3. PICK b \in BOOLEAN :
        Compact(i, snap) = [turn |-> Report(i).turn, phase |-> Report(i).phase, ver |-> i, live |-> b,
                            tool |-> IF b THEN snap.tool ELSE Report(i).tool]
  BY <1>2 DEF Compact
<1> QED
  BY <1>1, <1>3 DEF SnapType

LEMMA MergedIsRow ==
  ASSUME WatchInv, NEW i \in 1 .. at, NEW base \in ThreadRow
  PROVE  /\ MergedRow(i, base) \in ThreadRow /\ MergedRow(i, base).ver = i
         /\ MergedRow(i, base).live => Running(i)
<1>1. Report(i).turn \in TurnIds /\ i \in Nat /\ base.active \in TurnIds
  BY Known DEF ThreadRow
<1>2. \E b \in BOOLEAN : Running(i) = b
  BY DEF Running
<1>3. PICK b \in BOOLEAN :
        /\ MergedRow(i, base) = [active |-> IF b THEN Report(i).turn ELSE base.active, live |-> b, ver |-> i]
        /\ b = Running(i)
  BY <1>2 DEF MergedRow
<1> QED
  BY <1>1, <1>3 DEF ThreadRow

LEMMA GateKeeps == ASSUME WatchInv, NEW w \in Workers, Gate(w) PROVE WatchInv'
<1> USE Known, KnownOf
<1> DEFINE i == worker[w].rep
           r == Report(i)
           fallback == IF w = "poll" THEN worker[w].row ELSE threadRow
           rep == IF w = "input" THEN i ELSE 1
           held == [worker[w] EXCEPT !.pc = "keep", !.rep = rep, !.snap = snap, !.row = threadRow]
           passed == [worker[w] EXCEPT !.pc = "store", !.rep = rep, !.snap = Compact(i, snap),
                                       !.row = MergedRow(i, fallback)]
<1>1. /\ i \in 1 .. at /\ i \in Nat /\ rep \in 1 .. at /\ rep \in Nat /\ i <= at
      /\ r.turn \in Turns /\ fallback \in ThreadRow
      /\ Compact(i, snap) \in SnapType /\ Compact(i, snap).ver = i
      /\ Compact(i, snap).phase = r.phase /\ Compact(i, snap).turn = r.turn
      /\ MergedRow(i, fallback) \in ThreadRow /\ MergedRow(i, fallback).ver = i
      /\ MergedRow(i, fallback).live => Running(i)
  BY CompactIsSnap, MergedIsRow
<1>2. /\ UNCHANGED <<script, at, heard, snap, threadRow, explicit, origin, hot, graced, turnedAway>>
      /\ worker[w].pc = "gate"
  BY DEF Gate
<1>3. /\ at' \in at .. LastReport /\ heard' \in heard .. at' /\ TurnIds' = TurnIds
      /\ snap \in SnapType /\ Meant(snap) /\ explicit \subseteq Turns /\ origin \subseteq Nat \ {0}
      /\ hot \in TurnIds /\ \A t \in Turns : grace[t] = "over" => t \in graced
      /\ grace \in [Turns -> {"none", "waiting", "over"}]
  BY <1>2, TurnsStay DEF AllMeant, Types
<1>4. /\ w = "live" => heard > 0
      /\ w = "input" => worker[w].turn \in TurnIds
  BY <1>2 DEF WorkIsOf
<1>5. \/ /\ HeldBack(r)
         /\ grace' = [grace EXCEPT ![r.turn] = "waiting"]
         /\ worker' = [worker EXCEPT ![w] = held]
         /\ UNCHANGED early
      \/ /\ ~HeldBack(r)
         /\ grace' = IF Settled(r) THEN [grace EXCEPT ![r.turn] = "none"] ELSE grace
         /\ worker' = [worker EXCEPT ![w] = passed]
         /\ early' = IF r.phase = "stopped" /\ r.turn \notin origin THEN early \cup {r.turn} ELSE early
  BY DEF Gate
<1>6. /\ grace' \in [Turns -> {"none", "waiting", "over"}]
      /\ \A t \in Turns : grace'[t] = "over" => t \in graced
  BY <1>1, <1>3, <1>5
<1>7. CASE worker' = [worker EXCEPT ![w] = held] /\ HeldBack(r) /\ UNCHANGED early
  <2> HIDE DEF i, rep
  <2>1. /\ held \in WorkType /\ held.pc = "keep" /\ held.rep = rep /\ held.snap = snap
        /\ held.row = threadRow /\ held.turn = worker[w].turn
    BY <1>1, <1>3 DEF WorkType, PCs
  <2> HIDE DEF held
  <2>2. /\ worker' \in [Workers -> WorkType] /\ worker'[w] = held
        /\ \A v \in Workers \ {w} : worker'[v] = worker[v]
    BY <1>7, <2>1, OneGoesOn
  <2>3. WorkIsOf(w)'
    BY <1>1, <1>2, <1>3, <1>4, <2>1, <2>2 DEF WorkIsOf
  <2>4. Meant(worker[w].snap)' /\ Meant(snap)'
    BY <1>2, <1>3, <1>7, <2>1, <2>2 DEF Meant
  <2>5. w = "input" => BusyForAReason'
    <3> SUFFICES ASSUME w = "input" PROVE BusyForAReason'
      OBVIOUS
    <3>1. worker'[w].rep = i
      BY <2>1, <2>2 DEF rep
    <3>2. r.phase = "stopped" /\ r.turn \in origin'
      BY <1>2, <1>7 DEF HeldBack
    <3>3. CountsAsBusy(worker[w].rep)'
      BY <1>2, <3>1, <3>2 DEF CountsAsBusy, Report
    <3> QED
      BY <2>1, <2>2, <3>3 DEF BusyForAReason
  <2> QED
    BY <1>2, <1>3, <1>6, <1>7, <2>2, <2>3, <2>4, <2>5, StepKeeps
<1>8. CASE /\ worker' = [worker EXCEPT ![w] = passed] /\ ~HeldBack(r)
           /\ early' = IF r.phase = "stopped" /\ r.turn \notin origin THEN early \cup {r.turn} ELSE early
  <2> HIDE DEF i, rep, fallback
  <2>1. /\ passed \in WorkType /\ passed.pc = "store" /\ passed.rep = rep
        /\ passed.snap = Compact(i, snap)
        /\ passed.row = MergedRow(i, fallback) /\ passed.turn = worker[w].turn
    BY <1>1 DEF WorkType, PCs
  <2> HIDE DEF passed
  <2>2. /\ worker' \in [Workers -> WorkType] /\ worker'[w] = passed
        /\ \A v \in Workers \ {w} : worker'[v] = worker[v]
    BY <1>8, <2>1, OneGoesOn
  <2>3. WorkIsOf(w)'
    BY <1>1, <1>2, <1>3, <1>4, <2>1, <2>2 DEF WorkIsOf
  <2>4. early \subseteq early'
    BY <1>8
  <2>5. Meant(snap)'
    BY <1>2, <1>3, <2>4 DEF Meant
  <2>6. Meant(worker[w].snap)'
    <3> SUFFICES ASSUME r.phase = "stopped" PROVE r.turn \in explicit \cup graced \cup early'
      BY <1>1, <1>2, <2>1, <2>2 DEF Meant
    <3>1. r.turn \in explicit \/ r.turn \notin origin \/ grace[r.turn] = "over"
      BY <1>8 DEF HeldBack, LoadedDefer
    <3> QED
      BY <1>1, <1>3, <1>8, <3>1
  <2>7. w = "input" => BusyForAReason'
    <3> SUFFICES ASSUME w = "input" PROVE BusyForAReason'
      OBVIOUS
    <3>1. worker'[w].rep = i
      BY <2>1, <2>2 DEF rep
    <3>2. worker'[w].row.live => Running(worker[w].rep)'
      BY <1>1, <1>2, <2>1, <2>2, <3>1 DEF Running, Report
    <3> QED
      BY <2>1, <2>2, <3>2 DEF BusyForAReason
  <2> QED
    BY <1>2, <1>3, <1>6, <2>2, <2>3, <2>4, <2>5, <2>6, <2>7, StepKeeps
<1> QED
  BY <1>5, <1>7, <1>8

\* What every step that leaves the shared state alone has of StepKeeps.
LEMMA Unmoved ==
  ASSUME WatchInv, UNCHANGED <<script, explicit, graced, early, grace, origin, turnedAway>>
  PROVE  /\ explicit' \subseteq Turns /\ explicit \subseteq explicit' /\ graced \subseteq graced'
         /\ early \subseteq early' /\ origin' \subseteq Nat \ {0} /\ origin \subseteq origin'
         /\ grace' \in [Turns -> {"none", "waiting", "over"}]
         /\ \A t \in Turns : grace'[t] = "over" => t \in graced'
         /\ ~turnedAway' /\ TurnIds' = TurnIds /\ Turns' = Turns
BY Known, TurnsStay DEF Types, AllMeant

LEMMA RestRecord ==
  ASSUME NEW t \in Nat
  PROVE  LET new == [AtRest EXCEPT !.turn = t]
         IN  /\ new \in WorkType /\ new.pc = "rests" /\ new.rep = 1 /\ new.snap = NoSnap
             /\ new.row = NoRow /\ new.turn = t
BY EmptyTypes DEF AtRest, WorkType

\* A goroutine that rests is in order.
LEMMA RestKeeps ==
  ASSUME WatchInv, NEW w \in Workers, NEW t \in Nat, WorkerRests(w, t), at' \in at .. LastReport
  PROVE  /\ worker' \in [Workers -> WorkType] /\ \A v \in Workers \ {w} : worker'[v] = worker[v]
         /\ WorkIsOf(w)' /\ Meant(worker[w].snap)' /\ (w = "input" => BusyForAReason')
<1> DEFINE new == [AtRest EXCEPT !.turn = t]
<1>1. /\ new \in WorkType /\ new.pc = "rests" /\ new.rep = 1 /\ new.snap = NoSnap
      /\ new.row = NoRow /\ new.turn = t
  BY RestRecord
<1>2. worker' = [worker EXCEPT ![w] = new]
  BY DEF WorkerRests
<1> HIDE DEF new
<1>3. /\ worker' \in [Workers -> WorkType] /\ worker'[w] = new
      /\ \A v \in Workers \ {w} : worker'[v] = worker[v]
  BY <1>1, <1>2, Known, OneGoesOn
<1>4. at' \in Nat \ {0}
  BY Known
<1>5. WorkIsOf(w)' /\ Meant(worker[w].snap)'
  BY <1>1, <1>3, <1>4 DEF WorkIsOf, Meant, NoSnap, NoRow
<1>6. w = "input" => BusyForAReason'
  BY <1>1, <1>3 DEF BusyForAReason
<1> QED
  BY <1>3, <1>5, <1>6

LEMMA StoresKeeps == ASSUME WatchInv, NEW w \in Workers, Stores(w) PROVE WatchInv'
<1> USE Known, KnownOf
<1> DEFINE pc == Follows(w)
           on == [worker[w] EXCEPT !.pc = pc, !.snap = NoSnap]
<1>1. /\ worker[w].pc \in {"keep", "store"}
      /\ snap' = worker[w].snap /\ hot' = HotAfter(w, snap')
      /\ threadRow' = IF worker[w].pc = "keep" THEN threadRow ELSE worker[w].row
      /\ worker' = [worker EXCEPT ![w] = IF pc = "rests" THEN AtRest ELSE on]
      /\ UNCHANGED <<script, at, heard, grace, explicit, origin, graced, early, turnedAway>>
  BY DEF Stores, GoesOn
<1>2. /\ pc \in {"load", "decide", "steer", "seed", "rests"}
      /\ pc = "load" => w = "live"
      /\ pc = "decide" => w = "stop"
      /\ pc \in {"steer", "seed"} => w = "input"
      /\ pc = "seed" => worker[w].turn # 0
  BY DEF Follows
<1>3. /\ at' \in at .. LastReport /\ heard' \in heard .. at'
      /\ snap' \in SnapType /\ snap'.ver <= at' /\ threadRow' \in ThreadRow /\ threadRow'.ver <= at'
  BY <1>1 DEF WorkIsOf
<1>4. hot' \in TurnIds
  BY <1>1 DEF HotAfter, TurnIds, Types
<1>5. Meant(snap)'
  BY <1>1 DEF Meant
<1>6. /\ explicit' \subseteq Turns /\ explicit \subseteq explicit' /\ graced \subseteq graced'
      /\ early \subseteq early' /\ origin' \subseteq Nat \ {0} /\ origin \subseteq origin'
      /\ grace' \in [Turns -> {"none", "waiting", "over"}]
      /\ \A t \in Turns : grace'[t] = "over" => t \in graced'
      /\ ~turnedAway' /\ TurnIds' = TurnIds /\ Turns' = Turns
  BY <1>1, Unmoved
<1> HIDE DEF pc
<1>7. CASE pc = "rests"
  <2>1. AtRest = [AtRest EXCEPT !.turn = 0]
    BY DEF AtRest
  <2>2. WorkerRests(w, 0)
    BY <1>1, <1>7, <2>1 DEF WorkerRests
  <2>3. /\ worker' \in [Workers -> WorkType] /\ \A v \in Workers \ {w} : worker'[v] = worker[v]
        /\ WorkIsOf(w)' /\ Meant(worker[w].snap)' /\ (w = "input" => BusyForAReason')
    BY <1>3, <2>2, RestKeeps
  <2> QED
    BY <1>1, <1>3, <1>4, <1>5, <1>6, <2>3, StepKeeps
<1>8. CASE pc # "rests"
  <2>1. /\ on \in WorkType /\ on.pc = pc /\ on.rep = worker[w].rep /\ on.snap = NoSnap
        /\ on.row = worker[w].row /\ on.turn = worker[w].turn
    BY <1>2, EmptyTypes DEF WorkType, PCs
  <2> HIDE DEF on
  <2>2. /\ worker' \in [Workers -> WorkType] /\ worker'[w] = on
        /\ \A v \in Workers \ {w} : worker'[v] = worker[v]
    BY <1>1, <1>8, <2>1, OneGoesOn
  <2>3. Meant(worker[w].snap)'
    BY <2>1, <2>2 DEF Meant, NoSnap
  <2>4. WorkIsOf(w)'
    <3>1. /\ w = "input" => worker[w].turn \in TurnIds
          /\ pc = "seed" => worker[w].turn \in Turns
          /\ w = "live" => heard > 0
      BY <1>1, <1>2 DEF WorkIsOf, TurnIds
    <3>2. on.rep \in 1 .. at' /\ on.row.ver <= at' /\ on.snap.ver <= at'
      BY <1>1, <2>1 DEF WorkIsOf, NoSnap
    <3> QED
      BY <1>1, <1>2, <1>6, <2>1, <2>2, <3>1, <3>2 DEF WorkIsOf
  <2>5. w = "input" => BusyForAReason'
    <3> SUFFICES ASSUME w = "input" PROVE BusyForAReason'
      OBVIOUS
    <3>1. CASE worker[w].row.live
      <4> DEFINE k == worker[w].rep
      <4>1. CountsAsBusy(k)
        <5>1. CASE worker[w].pc = "keep"
          BY <5>1 DEF BusyForAReason
        <5>2. CASE worker[w].pc = "store"
          <6>1. Running(k) /\ k \in k .. at
            BY <3>1, <5>2 DEF BusyForAReason
          <6> QED
            BY <6>1 DEF CountsAsBusy
        <5> QED
          BY <1>1, <5>1, <5>2
      <4>2. worker'[w].rep = k
        BY <2>1, <2>2
      <4>3. CountsAsBusy(worker[w].rep)'
        BY <1>1, <4>1, <4>2 DEF CountsAsBusy, Running, Report
      <4> QED
        BY <1>2, <2>1, <2>2, <4>3 DEF BusyForAReason
    <3>2. CASE ~worker[w].row.live
      BY <1>2, <2>1, <2>2, <3>2 DEF BusyForAReason
    <3> QED
      BY <3>1, <3>2
  <2> QED
    BY <1>1, <1>3, <1>4, <1>5, <1>6, <2>2, <2>3, <2>4, <2>5, StepKeeps
<1> QED
  BY <1>7, <1>8

LEMMA LoadsKeeps == ASSUME WatchInv, LoadsForTool PROVE WatchInv'
<1>0. "live" \in Workers
  BY DEF Workers
<1> USE Known, KnownOf, <1>0
<1> DEFINE new == [worker["live"] EXCEPT !.pc = "merge", !.snap = snap]
<1>1. /\ worker["live"].pc = "load" /\ worker' = [worker EXCEPT !["live"] = new]
      /\ UNCHANGED <<script, at, heard, snap, threadRow, grace, explicit, origin, hot, graced,
                      early, turnedAway>>
  BY DEF LoadsForTool, stores
<1>2. /\ new \in WorkType /\ new.pc = "merge" /\ new.rep = worker["live"].rep /\ new.snap = snap
      /\ new.row = worker["live"].row /\ new.turn = worker["live"].turn
  BY DEF WorkType, PCs
<1> HIDE DEF new
<1>3. /\ worker' \in [Workers -> WorkType] /\ worker'["live"] = new
      /\ \A v \in Workers \ {"live"} : worker'[v] = worker[v]
  BY <1>1, <1>2, OneGoesOn
<1>4. WorkIsOf("live")'
  BY <1>1, <1>2, <1>3 DEF WorkIsOf
<1>5. Meant(worker["live"].snap)' /\ Meant(snap)'
  BY <1>1, <1>2, <1>3 DEF Meant, AllMeant
<1>6. at' \in at .. LastReport /\ heard' \in heard .. at' /\ hot' \in TurnIds
  BY <1>1 DEF Types
<1> QED
  BY <1>1, <1>3, <1>4, <1>5, <1>6, Unmoved, StepKeeps

LEMMA MergesKeeps == ASSUME WatchInv, MergesTool PROVE WatchInv'
<1>0. "live" \in Workers
  BY DEF Workers
<1> USE Known, KnownOf, <1>0
<1> DEFINE old == worker["live"].snap
           on == ~ToolOver(Event.tool)
<1>1. /\ worker["live"].pc = "merge"
      /\ \/ /\ snap' = [old EXCEPT !.turn = Event.turn, !.phase = "running", !.tool = Event.tool, !.live = on]
            /\ threadRow' = [threadRow EXCEPT !.active = Event.turn, !.live = TRUE]
         \/ UNCHANGED <<snap, threadRow>>
      /\ WorkerRests("live", 0)
      /\ UNCHANGED <<script, at, heard, grace, explicit, origin, hot, graced, early, turnedAway>>
  <2>1. AtRest = [AtRest EXCEPT !.turn = 0]
    BY DEF AtRest
  <2> QED
    BY <2>1 DEF MergesTool, GoesOn, WorkerRests
<1>2. Event.turn \in TurnIds /\ Event.tool \in Nat
  <2>1. heard \in 1 .. at
    BY <1>1 DEF WorkIsOf
  <2> QED
    BY <2>1 DEF Event
<1>3. snap' \in SnapType /\ snap'.ver <= at /\ Meant(snap)'
  <2>1. CASE snap' = [old EXCEPT !.turn = Event.turn, !.phase = "running", !.tool = Event.tool, !.live = on]
    <3>1. \E b \in BOOLEAN : on = b
      BY DEF ToolOver
    <3>2. PICK b \in BOOLEAN :
            snap' = [old EXCEPT !.turn = Event.turn, !.phase = "running", !.tool = Event.tool, !.live = b]
      BY <2>1, <3>1
    <3>3. old \in SnapType /\ old.ver <= at
      BY DEF WorkIsOf
    <3> HIDE DEF old
    <3>4. snap' \in SnapType /\ snap'.phase = "running" /\ snap'.ver = old.ver
      BY <1>2, <3>2, <3>3 DEF SnapType, Phases
    <3> QED
      BY <3>3, <3>4 DEF Meant
  <2>2. CASE snap' = snap
    BY <1>1, <2>2 DEF Meant, AllMeant
  <2> QED
    BY <1>1, <2>1, <2>2
<1>4. threadRow' \in ThreadRow /\ threadRow'.ver <= at
  <2>1. CASE threadRow' = [threadRow EXCEPT !.active = Event.turn, !.live = TRUE]
    <3>1. threadRow \in ThreadRow
      OBVIOUS
    <3>2. threadRow' \in ThreadRow /\ threadRow'.ver = threadRow.ver
      BY <1>2, <2>1, <3>1 DEF ThreadRow
    <3> QED
      BY <3>2
  <2> QED
    BY <1>1, <2>1
<1>5. at' \in at .. LastReport /\ heard' \in heard .. at' /\ hot' \in TurnIds
  BY <1>1 DEF Types
<1>6. /\ worker' \in [Workers -> WorkType] /\ \A v \in Workers \ {"live"} : worker'[v] = worker[v]
      /\ WorkIsOf("live")' /\ Meant(worker["live"].snap)'
  BY <1>1, <1>5, RestKeeps
<1> QED
  BY <1>1, <1>3, <1>4, <1>5, <1>6, Unmoved, StepKeeps

-----------------------------------------------------------------------------
(* /stop and input.                                                          *)

\* A goroutine other than those that read goes on at pc with turn t.
LEMMA GoesKeeps ==
  ASSUME WatchInv, NEW w \in {"stop", "input"}, NEW pc \in PCs \ {"load", "merge", "steer", "store", "keep"},
         NEW t \in TurnIds,
         worker' = [worker EXCEPT ![w].pc = pc, ![w].turn = t], script' = script,
         at' \in at .. LastReport, pc \in {"decide", "mark"} => w = "stop",
         pc \in {"reads", "start", "origin", "seed"} => w = "input",
         pc \in {"mark", "origin", "seed"} => t \in Turns,
         explicit' = explicit, graced' = graced, early' = early
  PROVE  /\ worker' \in [Workers -> WorkType] /\ \A v \in Workers \ {w} : worker'[v] = worker[v]
         /\ WorkIsOf(w)' /\ Meant(worker[w].snap)' /\ (w = "input" => BusyForAReason')
<1> DEFINE new == [worker[w] EXCEPT !.pc = pc, !.turn = t]
<1>0. w \in Workers
  BY DEF Workers
<1>1. t \in Nat /\ TurnIds' = TurnIds /\ Turns' = Turns
  BY Known, TurnsStay
<1>2. /\ worker[w] \in WorkType /\ WorkIsOf(w) /\ Meant(worker[w].snap)
      /\ worker[w].snap.ver \in Nat /\ worker[w].row.ver \in Nat /\ worker[w].rep \in Nat
  BY <1>0, KnownOf DEF SnapType, ThreadRow
<1>3. /\ new \in WorkType /\ new.pc = pc /\ new.rep = worker[w].rep /\ new.snap = worker[w].snap
      /\ new.row = worker[w].row /\ new.turn = t
  BY <1>1, <1>2 DEF WorkType
<1>4. worker' = [worker EXCEPT ![w] = new]
  OBVIOUS
<1> HIDE DEF new
<1>5. /\ worker' \in [Workers -> WorkType] /\ worker'[w] = new
      /\ \A v \in Workers \ {w} : worker'[v] = worker[v]
  BY <1>0, <1>3, <1>4, Known, OneGoesOn
<1>6. at \in Nat /\ at' \in Nat /\ at <= at'
  BY Known
<1>7. WorkIsOf(w)'
  BY <1>1, <1>2, <1>3, <1>5, <1>6 DEF WorkIsOf
<1>8. Meant(worker[w].snap)'
  BY <1>2, <1>3, <1>5 DEF Meant
<1>9. w = "input" => BusyForAReason'
  BY <1>3, <1>5 DEF BusyForAReason
<1> QED
  BY <1>5, <1>7, <1>8, <1>9

\* Enough for a step that leaves the stores alone.
LEMMA StoresStay ==
  ASSUME WatchInv, NEW w \in Workers, script' = script, at' \in at .. LastReport, heard' = heard,
         snap' = snap, threadRow' = threadRow, grace' = grace, hot' = hot, graced' = graced,
         early' = early, explicit \subseteq explicit', explicit' \subseteq Turns,
         origin \subseteq origin', origin' \subseteq Nat \ {0}, ~turnedAway',
         worker' \in [Workers -> WorkType], \A v \in Workers \ {w} : worker'[v] = worker[v],
         WorkIsOf(w)', Meant(worker[w].snap)', w = "input" => BusyForAReason'
  PROVE  WatchInv'
<1>1. /\ at \in Nat /\ at' \in Nat /\ at <= at' /\ heard \in Nat /\ heard <= at
      /\ snap \in SnapType /\ snap.ver <= at /\ threadRow \in ThreadRow /\ threadRow.ver <= at
      /\ hot \in TurnIds /\ grace \in [Turns -> {"none", "waiting", "over"}]
      /\ (\A t \in Turns : grace[t] = "over" => t \in graced) /\ Meant(snap)
  BY Known DEF Types, AllMeant
<1>2. snap.ver \in Nat /\ threadRow.ver \in Nat
  BY <1>1 DEF SnapType, ThreadRow
<1>3. snap'.ver <= at' /\ threadRow'.ver <= at' /\ heard' \in heard .. at'
  BY <1>1, <1>2
<1>4. Meant(snap)'
  BY <1>1 DEF Meant
<1> QED
  BY <1>1, <1>3, <1>4, StepKeeps

LEMMA StopsKeep == ASSUME WatchInv, Interrupts \/ markTelegramOriginExplicitInterrupt PROVE WatchInv'
<1>0. "stop" \in Workers /\ "stop" \in {"stop", "input"} /\ 1 \in Nat
  BY DEF Workers
<1> USE Known, KnownOf, <1>0
<1>1. CASE Interrupts
  <2> DEFINE t == worker["stop"].row.active
  <2>1. UNCHANGED <<script, heard, snap, threadRow, grace, explicit, origin, hot, graced, early, turnedAway>>
    BY <1>1 DEF Interrupts, stores
  <2>2. t \in TurnIds
    BY DEF ThreadRow
  <2>3. CASE /\ t # 0 /\ ComesNext("stop") /\ at' = at + 1
             /\ worker' = [worker EXCEPT !["stop"].pc = "mark", !["stop"].turn = t]
    <3>1. /\ at' \in at .. LastReport /\ t \in Turns
          /\ "mark" \in PCs \ {"load", "merge", "steer", "store", "keep"}
      BY <2>2, <2>3 DEF ComesNext, TurnIds, PCs
    <3>2. PICK u \in TurnIds : u = t
      BY <2>2
    <3> HIDE DEF t
    <3>3. worker' = [worker EXCEPT !["stop"].pc = "mark", !["stop"].turn = u]
      BY <2>3, <3>2
    <3>4. /\ worker' \in [Workers -> WorkType] /\ \A v \in Workers \ {"stop"} : worker'[v] = worker[v]
          /\ WorkIsOf("stop")' /\ Meant(worker["stop"].snap)'
      <4>1. u \in Turns
        BY <3>1, <3>2
      <4> QED
        BY <2>1, <3>1, <3>3, <4>1, GoesKeeps
    <3> QED
      BY <2>1, <3>1, <3>4, StoresStay DEF Types
  <2>4. CASE UNCHANGED at /\ WorkerRests("stop", 1)
    <3>1. at' \in at .. LastReport
      BY <2>4
    <3>2. /\ worker' \in [Workers -> WorkType] /\ \A v \in Workers \ {"stop"} : worker'[v] = worker[v]
          /\ WorkIsOf("stop")' /\ Meant(worker["stop"].snap)'
      BY <2>4, <3>1, RestKeeps
    <3> QED
      BY <2>1, <3>1, <3>2, StoresStay DEF Types
  <2> QED
    BY <1>1, <2>3, <2>4 DEF Interrupts
<1>2. CASE markTelegramOriginExplicitInterrupt
  <2>1. /\ worker["stop"].pc = "mark" /\ explicit' = explicit \cup {worker["stop"].turn}
        /\ WorkerRests("stop", 1)
        /\ UNCHANGED <<script, at, heard, snap, threadRow, grace, origin, hot, graced, early, turnedAway>>
    BY <1>2 DEF markTelegramOriginExplicitInterrupt
  <2>2. worker["stop"].turn \in Turns /\ at' \in at .. LastReport
    BY <2>1 DEF WorkIsOf
  <2>3. explicit' \subseteq Turns /\ explicit \subseteq explicit'
    BY <2>1, <2>2 DEF Types
  <2>4. /\ worker' \in [Workers -> WorkType] /\ \A v \in Workers \ {"stop"} : worker'[v] = worker[v]
        /\ WorkIsOf("stop")' /\ Meant(worker["stop"].snap)'
    BY <2>1, <2>2, RestKeeps
  <2> QED
    BY <2>1, <2>2, <2>3, <2>4, StoresStay DEF Types
<1> QED
  BY <1>1, <1>2

LEMMA InputsKeep == ASSUME WatchInv, SteersTurn \/ StartsTurn \/ MarksOrigin PROVE WatchInv'
<1>0. /\ "input" \in Workers /\ "input" \in {"stop", "input"} /\ 1 \in Nat /\ 0 \in TurnIds
      /\ {"start", "origin", "reads"} \subseteq PCs \ {"load", "merge", "steer", "store", "keep"}
  BY DEF Workers, PCs, TurnIds
<1> USE Known, KnownOf, <1>0
<1>1. explicit \subseteq Turns /\ origin \subseteq Nat \ {0}
  BY DEF Types
<1>2. UNCHANGED <<script, heard, snap, threadRow, grace, explicit, hot, graced, early>>
  BY DEF SteersTurn, StartsTurn, MarksOrigin, InputVars
\* What is left once the goroutine is in order.
<1>3. ASSUME at' \in at .. LastReport, origin \subseteq origin', origin' \subseteq Nat \ {0}, ~turnedAway',
             worker' \in [Workers -> WorkType], \A v \in Workers \ {"input"} : worker'[v] = worker[v],
             WorkIsOf("input")', Meant(worker["input"].snap)', BusyForAReason'
      PROVE  WatchInv'
  BY <1>1, <1>2, <1>3, StoresStay
<1>4. ASSUME at' \in at .. LastReport, origin \subseteq origin', origin' \subseteq Nat \ {0}, ~turnedAway',
             NEW pc \in {"start", "origin", "reads"}, NEW t \in TurnIds, pc = "origin" => t \in Turns,
             InputGoes(pc, t)
      PROVE  WatchInv'
  <2>1. worker' = [worker EXCEPT !["input"].pc = pc, !["input"].turn = t]
    BY <1>4 DEF InputGoes
  <2>2. /\ worker' \in [Workers -> WorkType] /\ \A v \in Workers \ {"input"} : worker'[v] = worker[v]
        /\ WorkIsOf("input")' /\ Meant(worker["input"].snap)' /\ BusyForAReason'
    BY <1>2, <1>4, <2>1, GoesKeeps
  <2> QED
    BY <1>3, <1>4, <2>2
<1>5. ASSUME at' \in at .. LastReport, UNCHANGED origin, ~turnedAway', WorkerRests("input", 1)
      PROVE  WatchInv'
  <2>1. /\ worker' \in [Workers -> WorkType] /\ \A v \in Workers \ {"input"} : worker'[v] = worker[v]
        /\ WorkIsOf("input")' /\ Meant(worker["input"].snap)' /\ BusyForAReason'
    BY <1>5, RestKeeps
  <2> QED
    BY <1>1, <1>3, <1>5, <2>1
<1>6. CASE SteersTurn
  <2> DEFINE t == worker["input"].row.active
             now == Report(at)
             k == worker["input"].rep
  <2>1. UNCHANGED <<at, origin>> /\ at' \in at .. LastReport /\ worker["input"].pc = "steer"
    BY <1>6 DEF SteersTurn
  <2>2. at \in 1 .. at /\ now.turn \in Turns /\ t \in TurnIds
    BY DEF ThreadRow
  <2>3. CASE Running(at) /\ now.turn = t /\ InputGoes("origin", t) /\ UNCHANGED turnedAway
    BY <1>1, <1>4, <2>1, <2>2, <2>3
  <2>4. CASE /\ worker' = [worker EXCEPT !["input"].row = [@ EXCEPT !.active = now.turn, !.live = TRUE]]
             /\ UNCHANGED turnedAway
    <3> DEFINE base == [worker["input"].row EXCEPT !.active = now.turn, !.live = TRUE]
               new == [worker["input"] EXCEPT !.row = base]
    <3>1. base \in ThreadRow /\ base.active = now.turn /\ base.ver = worker["input"].row.ver
      <4>1. worker["input"].row \in ThreadRow /\ now.turn \in TurnIds
        BY <2>2
      <4> QED
        BY <4>1 DEF ThreadRow
    <3> HIDE DEF base
    <3>2. /\ new \in WorkType /\ new.pc = "steer" /\ new.rep = k /\ new.snap = worker["input"].snap
          /\ new.row = base /\ new.turn = worker["input"].turn
      BY <2>1, <3>1 DEF WorkType
    <3>3. worker' = [worker EXCEPT !["input"] = new]
      BY <2>4 DEF base
    <3> HIDE DEF new
    <3>4. /\ worker' \in [Workers -> WorkType] /\ worker'["input"] = new
          /\ \A v \in Workers \ {"input"} : worker'[v] = worker[v]
      BY <3>2, <3>3, OneGoesOn
    <3>5. WorkIsOf("input")'
      BY <1>2, <2>1, <3>1, <3>2, <3>4, TurnsStay DEF WorkIsOf
    <3>6. Meant(worker["input"].snap)'
      BY <1>2, <3>2, <3>4 DEF Meant
    <3>7. now.turn # 0
      BY <2>2
    <3>8. BusyForAReason'
      BY <3>1, <3>2, <3>4, <3>7 DEF BusyForAReason
    <3> QED
      BY <1>1, <1>3, <2>1, <2>4, <3>4, <3>5, <3>6, <3>8
  <2>5. CASE InputGoes("start", 0) /\ UNCHANGED turnedAway
    BY <1>1, <1>4, <2>1, <2>5
  <2>6. CASE WorkerRests("input", 1) /\ UNCHANGED turnedAway
    BY <1>5, <2>1, <2>6
  <2>7. CASE /\ t = 0 /\ worker["input"].row.live
             /\ turnedAway' = (turnedAway \/ ~CountsAsBusy(k))
             /\ WorkerRests("input", 1)
    <3>1. CountsAsBusy(k)
      BY <2>1, <2>7 DEF BusyForAReason
    <3>2. ~turnedAway'
      BY <2>7, <3>1
    <3> QED
      BY <1>5, <2>1, <2>7, <3>2
  <2> QED
    BY <1>6, <2>3, <2>4, <2>5, <2>6, <2>7 DEF SteersTurn
<1>7. CASE StartsTurn
  <2>1. UNCHANGED <<origin, turnedAway>>
    BY <1>7 DEF StartsTurn
  <2>2. CASE ComesNext("input") /\ at' = at + 1 /\ InputGoes("origin", Report(at + 1).turn)
    <3>1. at' \in at .. LastReport /\ at + 1 \in 1 .. LastReport
      BY <2>2 DEF ComesNext
    <3>2. Report(at + 1).turn \in Turns /\ Report(at + 1).turn \in TurnIds
      BY <3>1, ReportTypes DEF Types
    <3>3. PICK u \in TurnIds : u = Report(at + 1).turn
      BY <3>2
    <3> QED
      BY <1>1, <1>4, <2>1, <2>2, <3>1, <3>2, <3>3
  <2>3. CASE UNCHANGED at /\ WorkerRests("input", 1)
    BY <1>5, <2>1, <2>3
  <2> QED
    BY <1>7, <2>2, <2>3 DEF StartsTurn
<1>8. CASE MarksOrigin
  <2>1. /\ worker["input"].pc = "origin" /\ origin' = origin \cup {worker["input"].turn}
        /\ InputGoes("reads", worker["input"].turn) /\ UNCHANGED <<at, turnedAway>>
    BY <1>8 DEF MarksOrigin
  <2>2. worker["input"].turn \in Turns
    BY <2>1 DEF WorkIsOf
  <2>3. PICK u \in TurnIds : u = worker["input"].turn
    BY <2>2
  <2>4. origin \subseteq origin' /\ origin' \subseteq Nat \ {0}
    BY <1>1, <2>1, <2>2
  <2> QED
    BY <1>4, <2>1, <2>3, <2>4
<1> QED
  BY <1>6, <1>7, <1>8

LEMMA SeedsKeeps == ASSUME WatchInv, Seeds PROVE WatchInv'
<1>0. "input" \in Workers
  BY DEF Workers
<1> USE Known, KnownOf, <1>0
<1> DEFINE base == worker["input"].row
<1>1. PICK t \in Turns : t = worker["input"].turn
  BY DEF Seeds, WorkIsOf
<1>2. /\ \/ UNCHANGED <<snap, threadRow>>
         \/ /\ snap' = [NoSnap EXCEPT !.turn = t, !.phase = "running", !.ver = base.ver]
            /\ threadRow' = [base EXCEPT !.active = t, !.live = TRUE]
      /\ hot' \in {t, 0} /\ WorkerRests("input", t)
      /\ UNCHANGED <<script, at, heard, grace, explicit, origin, graced, early, turnedAway>>
  BY <1>1 DEF Seeds
<1>3. base \in ThreadRow /\ base.ver <= at /\ base.ver \in Nat /\ t \in TurnIds /\ t \in Nat
  BY DEF WorkIsOf, ThreadRow
<1> HIDE DEF base
<1>4. snap' \in SnapType /\ snap'.ver <= at /\ Meant(snap)'
  <2>1. CASE snap' = [NoSnap EXCEPT !.turn = t, !.phase = "running", !.ver = base.ver]
    <3>1. snap' \in SnapType /\ snap'.phase = "running" /\ snap'.ver = base.ver
      BY <1>3, <2>1 DEF NoSnap, SnapType, Phases
    <3> QED
      BY <1>3, <3>1 DEF Meant
  <2>2. CASE snap' = snap
    BY <1>2, <2>2 DEF Meant, AllMeant
  <2> QED
    BY <1>2, <2>1, <2>2
<1>5. threadRow' \in ThreadRow /\ threadRow'.ver <= at
  <2>1. CASE threadRow' = [base EXCEPT !.active = t, !.live = TRUE]
    <3>1. threadRow' \in ThreadRow /\ threadRow'.ver = base.ver
      BY <1>3, <2>1 DEF ThreadRow
    <3> QED
      BY <1>3, <3>1
  <2> QED
    BY <1>2, <2>1
<1>6. at' \in at .. LastReport /\ heard' \in heard .. at' /\ hot' \in TurnIds /\ at' = at
  BY <1>2, <1>3 DEF TurnIds
<1>7. /\ worker' \in [Workers -> WorkType] /\ \A v \in Workers \ {"input"} : worker'[v] = worker[v]
      /\ WorkIsOf("input")' /\ Meant(worker["input"].snap)' /\ BusyForAReason'
  BY <1>2, <1>3, <1>6, RestKeeps
<1> QED
  BY <1>2, <1>4, <1>5, <1>6, <1>7, Unmoved, StepKeeps

LEMMA WatchKeeps == WatchInv /\ [WatchNext]_watchVars => WatchInv'
<1> SUFFICES ASSUME WatchInv, [WatchNext]_watchVars PROVE WatchInv'
  OBVIOUS
<1>1. CASE WatchNext
  BY <1>1, SurroundingsKeep, ReadsKeeps, GateKeeps, StoresKeeps, LoadsKeeps, MergesKeeps, StopsKeep,
     InputsKeep, SeedsKeeps DEF WatchNext, WorkerWorks
<1>2. CASE UNCHANGED watchVars
  BY <1>2, Known, NobodyKeeps DEF watchVars, stores, Types, AllMeant
<1> QED
  BY <1>1, <1>2

-----------------------------------------------------------------------------
(* Theorems                                                                  *)

\* The inductive invariant holds of every reachable state.
LEMMA WatchInvHolds == WatchSpec => []WatchInv
BY WatchStarts, WatchKeeps, PTL DEF WatchSpec

\* Type correctness, for any script: what is stored names turns and readings that the
\* App Server has reported by now.
THEOREM WatchTypes == WatchSpec => []WatchTypeOK
<1>1. WatchInv => WatchTypeOK
  BY DEF WatchInv, Types, WatchTypeOK, SnapType, ThreadRow, TurnIds
<1> QED
  BY <1>1, WatchInvHolds, PTL

\* However the poll, the live loop, the hot poll, /stop and inputs interleave, no
\* interruption of a turn of Telegram is stored that was neither asked for nor past its
\* grace, and no input is refused because of a stale row
\* (applyTelegramOriginTerminalGate, sendInputToThreadTurnInputs).
THEOREM TurnsReadRight == WatchSpec => []TurnsAreReadRight
<1>1. WatchInv => TurnsAreReadRight
  <2>1. WatchInv => StopIsMeant
    BY DEF WatchInv, Types, AllMeant, Meant, StopIsMeant
  <2>2. WatchInv => RefusedOnlyWhenBusy
    BY DEF WatchInv, RefusedOnlyWhenBusy
  <2> QED
    BY <2>1, <2>2 DEF TurnsAreReadRight
<1> QED
  BY <1>1, WatchInvHolds, PTL

-----------------------------------------------------------------------------
(* Both parts together (MCTurnNotices).                                     *)

\* A behaviour of the composition is one of each part.
LEMMA BothAreParts == BothSpec => Spec /\ WatchSpec
<1>1. BothInit => Init /\ WatchInit
  BY DEF BothInit
<1>2. [BothNext]_<<part, vars, watchVars>> => [Next]_vars /\ [WatchNext]_watchVars
  BY DEF BothNext
<1> QED
  BY <1>1, <1>2, PTL DEF BothSpec, Spec, WatchSpec

\* Whichever part runs, approval notices and the readings of a thread keep to their types.
THEOREM BothTypes == BothSpec => []BothTypeOK
<1>1. TypeOK /\ WatchTypeOK => BothTypeOK
  BY DEF BothTypeOK
<1> QED
  BY <1>1, BothAreParts, ApprovalTypes, WatchTypes, PTL

\* The operator is told right of both: of an approval request, by a message that is
\* answered once and to that very request; of a turn, by readings that rest on no wrong
\* idea of whether it goes on.
THEOREM BothTellRight ==
  BothSpec => Approvals /\ [](AnswersMeetTheirRequest /\ NoticesAreRight /\ TurnsAreReadRight)
BY BothAreParts, ApprovalsArePromised, ApprovalMeetsItsRequest,
   ApprovalNoticesAreRight, TurnsReadRight, PTL
=============================================================================
