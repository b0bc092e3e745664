------------------------------ MODULE Details ------------------------------
(***************************************************************************)
(* The pages behind the "details" button of a result card                   *)
(* (internal/daemon/details.go, internal/appserver/normalize.go).           *)
(*                                                                          *)
(* A result card is edited in place into pages of what its turn said and    *)
(* ran.  Its buttons carry the panel, the turn and the page that they were  *)
(* made for; a callback reads the panel, then the snapshot of the thread,   *)
(* which may be of a later turn by then, may hold the card's turn only in   *)
(* the payload of the last thread/read, or nothing of it at all.            *)
(***************************************************************************)
EXTENDS Naturals, Sequences, FiniteSets

CONSTANTS
    PageSize,       \* detailsPageSize: sections on a page
    MaxRuns,        \* bound: turns of the thread
    Works           \* bound: what a turn says and runs, in order

ASSUME DetailsAssumption ==
    /\ PageSize \in Nat \ {0} /\ MaxRuns \in Nat
    /\ Works \subseteq Seq({"commentary", "plan", "tool", "answer"})

VARIABLES
    panelMode,      \* telegram.panel_mode
    card,           \* bound: the turn whose card is pressed in this run
    work,           \* the App Server: what each turn did, once it ended
    begun,          \* the App Server: turns begun
    snapTurn,       \* the turn that the stored snapshot is of
    rawTurns,       \* the turns in the payload stored with it
    page,           \* what the result card of a turn shows, and of which turn
    keys,           \* the keyboards that the card has or had before
    callback        \* the callback at work, its panel already read

detailsVars == <<panelMode, card, work, begun, snapTurn, rawTurns, page, keys, callback>>

Runs == 1 .. MaxRuns
Final == [page |-> 0, tool |-> FALSE, index |-> 0, final |-> TRUE]
NoPage == [of |-> 0, view |-> Final]
NoCallback == [run |-> 0, key |-> "", view |-> Final]

DetailsInit ==
    /\ panelMode \in {"per_run", "stable"} /\ card \in Runs
    /\ work = [r \in Runs |-> <<>>] /\ begun = 0
    /\ snapTurn = 0 /\ rawTurns = {}
    /\ page = [r \in Runs |-> NoPage] /\ keys = [r \in Runs |-> {}]
    /\ callback = NoCallback

-----------------------------------------------------------------------------
(* The sections of a turn, each named by its commentary index.              *)

Places(items, kinds) == {i \in DOMAIN items : items[i] \in kinds}

\* collectDetailItemsFromItems: plans count as commentaries do.
CommentaryIndex(items, i) == Cardinality({j \in Places(items, {"commentary", "plan"}) : j <= i})

detailsItemsForCommentaryIndex(items, n) ==
    {i \in Places(items, {"tool"}) : CommentaryIndex(items, i) = n}

\* Without a commentary the last three plans and answers stand in.
detailCommentaries(items) ==
    LET said == Places(items, {"commentary"})
        entries == Cardinality(Places(items, {"plan", "answer"}))
    IN  IF said # {} THEN {CommentaryIndex(items, i) : i \in said}
        ELSE 1 .. (IF entries < 3 THEN entries ELSE 3)

\* The sections come in the order of their indices.
detailSections(items) ==
    detailCommentaries(items)
        \cup (IF detailsItemsForCommentaryIndex(items, 0) # {} THEN {0} ELSE {})

SectionCount(items) == Cardinality(detailSections(items))

UpTo(items, c) == {d \in detailSections(items) : d <= c}

Section(items, k) == CHOOSE c \in detailSections(items) : Cardinality(UpTo(items, c)) = k

detailsPageCount(n) == (n + PageSize - 1) \div PageSize

clampInt(v, low, high) == IF v < low THEN low ELSE IF v > high THEN high ELSE v

LastPage(n) == IF n = 0 THEN 0 ELSE detailsPageCount(n) - 1
AtLeastOne(n) == IF n = 0 THEN 1 ELSE n

OnPage(p, n) == {k \in 1 .. n : k > p * PageSize /\ k <= (p + 1) * PageSize}

ToolsOf(items, k) == detailsItemsForCommentaryIndex(items, Section(items, k))

firstCommentaryWithToolsOnPage(items, p) ==
    LET n == SectionCount(items)
        shown == OnPage(clampInt(p, 0, LastPage(n)), n)
        some == {k \in shown : ToolsOf(items, k) # {}}
        first(S) == CHOOSE k \in S : \A l \in S : k <= l
    IN  IF n = 0 THEN 1 ELSE IF some # {} THEN first(some) ELSE first(shown)

NextIndex(i, n) == clampInt(i + 1, 1, AtLeastOne(n))

\* handleDetailsCallback: the view after a key, and the final clamps.
Turned(view, key, items) ==
    LET n == SectionCount(items)
        v == [view EXCEPT !.final = FALSE]
        prev == IF v.index = 0 THEN 1 ELSE clampInt(v.index - 1, 1, AtLeastOne(n))
        hidden == [v EXCEPT !.tool = ~v.tool]
    IN  CASE key = "details_open" -> [Final EXCEPT !.final = FALSE]
          [] key = "details_back" -> Final
          [] key = "details_prev" /\ v.tool -> [v EXCEPT !.index = prev]
          [] key = "details_prev" /\ ~v.tool -> [v EXCEPT !.page = IF @ = 0 THEN 0 ELSE @ - 1]
          [] key = "details_next" /\ v.tool -> [v EXCEPT !.index = NextIndex(@, n)]
          [] key = "details_next" /\ ~v.tool -> [v EXCEPT !.page = clampInt(@ + 1, 0, LastPage(n))]
          [] key = "details_tool_toggle" ->
                IF hidden.tool /\ hidden.index = 0
                THEN [hidden EXCEPT !.index = firstCommentaryWithToolsOnPage(items, v.page)]
                ELSE hidden

\* detailsButtons, and the button of the result card.
detailsButtons(view) ==
    IF view.final THEN {"details_open"}
    ELSE {"details_prev", "details_back", "details_next", "details_tool_toggle"}
             \cup (IF view.tool THEN {"details_tools_file"} ELSE {})

-----------------------------------------------------------------------------
Finished(r) == page[r].of # 0

TurnBegins ==
    /\ begun < MaxRuns /\ (begun > 0 => Finished(begun))
    /\ begun' = begun + 1 /\ snapTurn' = begun'
    /\ UNCHANGED <<panelMode, card, work, rawTurns, page, keys, callback>>

\* A reading finds the turn over, and its result card is sent.
maybeRenderFinalCard ==
    /\ begun > 0 /\ ~Finished(begun)
    /\ \E items \in Works : work' = [work EXCEPT ![begun] = items]
    /\ rawTurns' = 1 .. begun /\ snapTurn' = begun
    /\ page' = [page EXCEPT ![begun] = [of |-> begun, view |-> Final]]
    /\ keys' = [keys EXCEPT ![begun] = {Final}]
    /\ UNCHANGED <<panelMode, card, begun, callback>>

\* thread/read with its turns, or without them when that failed.
ThreadRead ==
    /\ begun > 0 /\ Finished(begun)
    /\ \/ rawTurns' = 1 .. begun /\ snapTurn' = begun
       \/ rawTurns' = {} /\ snapTurn' = 0
    /\ UNCHANGED <<panelMode, card, work, begun, page, keys, callback>>

\* The panel must be there still, and be of the turn that the button names.
detailsPanelForCallback(r) == Finished(r) /\ (panelMode = "stable" => begun = r)

\* A press of a button that the card has, or had when it was pressed.
Pressed ==
    /\ callback = NoCallback
    /\ detailsPanelForCallback(card)
    /\ \E view \in keys[card] : \E key \in detailsButtons(view) :
          callback' = [run |-> card, key |-> key, view |-> view]
    /\ UNCHANGED <<panelMode, card, work, begun, snapTurn, rawTurns, page, keys>>

\* Mutant of snapshotForPanelTurn: a turn that is not found is shown as the latest.
LatestInstead(r) == IF r \in rawTurns THEN r ELSE snapTurn

snapshotForPanelTurn(r) == IF snapTurn = r \/ r \in rawTurns THEN r ELSE 0

\* handleDetailsCallback and editPanelCard: the card is edited, unless its turn
\* is not found or Telegram refuses.
handleDetailsCallback ==
    LET r == callback.run
        of == snapshotForPanelTurn(r)
        view == Turned(callback.view, callback.key, work[of])
    IN  /\ callback # NoCallback /\ callback.key # "details_tools_file"
        /\ callback' = NoCallback
        /\ \/ UNCHANGED <<page, keys>>
           \/ /\ of # 0
              /\ page' = [page EXCEPT ![r] = [of |-> of, view |-> view]]
              /\ keys' = [keys EXCEPT ![r] = {view, page[r].view}]
        /\ UNCHANGED <<panelMode, card, work, begun, snapTurn, rawTurns>>

\* sendDetailsToolsFile changes nothing.
sendDetailsToolsFile ==
    /\ callback.key = "details_tools_file"
    /\ callback' = NoCallback
    /\ UNCHANGED <<panelMode, card, work, begun, snapTurn, rawTurns, page, keys>>

DetailsNext ==
    \/ TurnBegins \/ maybeRenderFinalCard \/ ThreadRead
    \/ Pressed \/ handleDetailsCallback \/ sendDetailsToolsFile

DetailsSpec == DetailsInit /\ [][DetailsNext]_detailsVars

DetailsTypeOK ==
    /\ panelMode \in {"per_run", "stable"} /\ begun \in 0 .. MaxRuns
    /\ snapTurn \in 0 .. begun /\ rawTurns \subseteq 1 .. begun
    /\ \A r \in Runs : work[r] \in Works \cup {<<>>} /\ page[r].of \in 0 .. begun
    /\ callback.run \in 0 .. begun

-----------------------------------------------------------------------------
(* What a card shows is of its own turn, and there is something to see: the
   page has sections of the turn, whatever was pressed, twice or late, if the
   turn has any.  Every tool is on the page of some section (ADR-021), except
   where a plan takes an index that no section has: after a commentary, or
   beyond the three plans that stand in for commentaries.                   *)
DetailsAreOwn ==
    \A r \in Runs : Finished(r) =>
        LET view == page[r].view
            n == SectionCount(work[r])
            commented == Places(work[r], {"commentary"}) # {}
        IN  /\ page[r].of = r
            /\ view.tool \/ n = 0 \/ OnPage(view.page, n) # {}
            /\ view.tool => view.index \in 1 .. AtLeastOne(n)
            /\ \A i \in Places(work[r], {"tool"}) :
                   \/ \E k \in 1 .. n : i \in ToolsOf(work[r], k)
                   \/ commented /\ \E j \in Places(work[r], {"plan"}) : j < i
                   \/ ~commented /\ CommentaryIndex(work[r], i) > 3
=============================================================================
