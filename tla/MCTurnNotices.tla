--------------------------- MODULE MCTurnNotices ---------------------------
(***************************************************************************)
(* Two parts that tell the operator of a turn and share no state, checked   *)
(* in one run: approval notices, and the readings of a thread.  A behaviour *)
(* is of one of them only, which Init chooses; the other stays in one of    *)
(* its initial states, so that the state spaces add.                        *)
(***************************************************************************)
EXTENDS ApprovalNotice, TurnWatch

CONSTANT zero

VARIABLE part

Says(t, p, k, b) == [turn |-> t, phase |-> p, tool |-> k, by |-> b]
Script(r, o, w) == [reports |-> r, origin |-> o, workers |-> w, bound |-> "input" \in w]

MCScripts ==
    { \* The operator stops the turn.
      Script(<<Says(1, "running", 1, "codex"), Says(1, "stopped", 1, "stop")>>,
             {1}, {"poll", "live", "stop"}),
      \* An interrupted status that the turn recovers from.
      Script(<<Says(1, "running", 1, "codex"), Says(1, "stopped", 1, "codex"),
               Says(1, "done", 2, "codex")>>, {1}, {"poll", "live"}),
      \* Input that starts a turn, which is then interrupted from elsewhere.
      Script(<<Says(1, "done", 1, "codex"), Says(2, "running", 1, "input"),
               Says(2, "stopped", 1, "codex")>>, {}, {"poll", "hot", "input"}),
      \* Input that steers while the turn ends and the next begins.
      Script(<<Says(1, "running", 1, "codex"), Says(1, "done", 1, "codex"),
               Says(2, "running", 1, "codex")>>, {}, {"poll", "input"}),
      \* Input while an interruption of an earlier turn of Telegram is held back.
      Script(<<Says(1, "running", 1, "codex"), Says(1, "stopped", 1, "codex"),
               Says(2, "running", 1, "input")>>, {1}, {"poll", "input"}),
      \* Tool events of a turn that is over.
      Script(<<Says(1, "running", 1, "codex"), Says(1, "running", 3, "codex"),
               Says(2, "running", 1, "codex"), Says(2, "stopped", 1, "codex")>>,
             {1}, {"poll", "live"}) }

BothInit ==
    /\ part \in {"notice", "watch"}
    /\ Init
    /\ WatchInit /\ (part = "watch" \/ script = CHOOSE s \in Scripts : TRUE)

BothNext ==
    /\ UNCHANGED part
    /\ \/ part = "notice" /\ Next /\ UNCHANGED watchVars
       \/ part = "watch" /\ WatchNext /\ UNCHANGED vars

\* The fairness of ApprovalNotice and of TurnWatch, each in its part.
BothFairness ==
    /\ WF_vars(part = "notice" /\ DeliveryStep)
    /\ \A w \in Workers : WF_watchVars(part = "watch" /\ WorkerWorks(w))
    /\ WF_watchVars(part = "watch" /\ (LoadsForTool \/ MergesTool))
    /\ WF_watchVars(part = "watch" /\ (Interrupts \/ markTelegramOriginExplicitInterrupt))
    /\ WF_watchVars(part = "watch" /\ (SteersTurn \/ StartsTurn \/ MarksOrigin \/ Seeds))
    /\ WF_watchVars(part = "watch" /\ GraceEnds) /\ WF_watchVars(part = "watch" /\ syncThreads)

BothSpec == BothInit /\ [][BothNext]_<<part, vars, watchVars>> /\ BothFairness

-----------------------------------------------------------------------------
\* Both parts keep to their types.
BothTypeOK == TypeOK /\ WatchTypeOK

\* What TurnWatch promises in the end (Settles), in the behaviours that are of it.
TurnSettles == part = "watch" => Settles
=============================================================================
