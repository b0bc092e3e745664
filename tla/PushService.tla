----------------------------- MODULE PushService -----------------------------
(***************************************************************************)
(* The push service of the daemon (internal/daemon/push_service.go): every *)
(* standalone notification, of the scheduler or of an HTTP producer, is     *)
(* sent through publishPush under pushMu and identified by an idempotency   *)
(* key, whose receipt is written to SQLite before the message is sent.      *)
(***************************************************************************)
EXTENDS Naturals

CONSTANTS
  Keys,     \* idempotency keys, digested together with the target
  Callers   \* goroutines that publish: HTTP handlers, automation, observers

CONSTANT Nobody   \* pushMu is free
ASSUME NobodyAssumption ==
  Nobody \notin [by : Callers, key : Keys, step : {"send", "receipt"}]

VARIABLES
  receipts,  \* keys with a push.delivered row, attempted or delivered
  pushing,   \* the holder of pushMu, its key and what it does next
  sent       \* sent[k]: messages Telegram got for key k (kept for properties)

pushVars == <<receipts, pushing, sent>>

Pushes == [by : Callers, key : Keys, step : {"send", "receipt"}]

PushTypeOK ==
  /\ receipts \subseteq Keys
  /\ pushing \in Pushes \cup {Nobody}
  /\ sent \in [Keys -> Nat]

PushInit ==
  /\ receipts = {}
  /\ pushing = Nobody
  /\ sent = [k \in Keys |-> 0]

\* Mutant of Claim: the attempt is not persisted.
ClaimInMemory(c, k) ==
  /\ pushing = Nobody /\ k \notin receipts
  /\ pushing' = [by |-> c, key |-> k, step |-> "send"]
  /\ UNCHANGED <<receipts, sent>>

\* publishPush up to the persisted attempt.  A key that has a row is answered as
\* a duplicate; that, and a row that cannot be read or written, changes nothing.
Claim(c, k) ==
  /\ pushing = Nobody /\ k \notin receipts
  /\ receipts' = receipts \cup {k}
  /\ pushing' = [by |-> c, key |-> k, step |-> "send"]
  /\ UNCHANGED sent

\* SendRenderedMessages reached Telegram.
Deliver ==
  /\ pushing # Nobody /\ pushing.step = "send"
  /\ sent' = [sent EXCEPT ![pushing.key] = @ + 1]
  /\ pushing' = [pushing EXCEPT !.step = "receipt"]
  /\ UNCHANGED receipts

WriteReceipt ==
  /\ pushing # Nobody /\ pushing.step = "receipt"
  /\ receipts' = receipts \cup {pushing.key}
  /\ pushing' = Nobody
  /\ UNCHANGED sent

\* publishPush gives up before the receipt: the send failed, its answer was lost,
\* the receipt could not be written, or the daemon stopped.
Abandon ==
  /\ pushing # Nobody
  /\ pushing' = Nobody
  /\ UNCHANGED <<receipts, sent>>

PushNext ==
  \/ \E c \in Callers, k \in Keys : Claim(c, k)
  \/ Deliver \/ WriteReceipt \/ Abandon

PushSpec == PushInit /\ [][PushNext]_pushVars

\* ADR-023: a push is at-most-once.  No key is ever sent twice, whoever publishes
\* it again, after failures, ambiguous timeouts and restarts of the daemon.
OncePerKey == \A k \in Keys : sent[k] <= 1

\* Why: a key that was sent has its row, and the key being sent is new.
SentWasClaimed ==
  /\ \A k \in Keys : sent[k] > 0 => k \in receipts
  /\ pushing # Nobody => pushing.key \in receipts
  /\ pushing # Nobody /\ pushing.step = "send" => sent[pushing.key] = 0
=============================================================================
