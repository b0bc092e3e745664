----------------------------- MODULE TaskStore -----------------------------
(***************************************************************************)
(* The files of the scheduled tasks (internal/automation/store.go), which   *)
(* the daemon and the tool servers of the sessions (mcp.go) change: one     *)
(* directory per task with one file, a lock file around each call, a file   *)
(* replaced by rename.  A caller may die anywhere or stay away for longer   *)
(* than the 30 seconds after which a waiter removes the lock file.          *)
(***************************************************************************)
EXTENDS Naturals, FiniteSets

CONSTANTS
    Callers,        \* processes that use the store
    Names,          \* ids: the slug of a name, and the ids with a suffix
    MaxCalls,       \* bound: calls made, each of which is one edit
    MaxTries,       \* the attempts to take the lock, 50 in the code
    MaxFailures     \* bound: callers that died or stayed away

NoCaller == "nobody"

ASSUME StoreAssumption ==
    /\ NoCaller \notin Callers
    /\ MaxCalls \in Nat \ {0} /\ MaxTries \in Nat \ {0} /\ MaxFailures \in Nat

VARIABLES
    lock,           \* the lock file: the caller that made it, and its age
    dir,            \* dir[n]: whether there is a directory and a file in it
    doc,            \* doc[n]: the edits that the file holds, and its origin
    call,           \* call[c]: where the caller is
    calls, failures,
    acked,          \* history: acked[n], the edits of n that were acknowledged
    broken          \* history: a waiter removed a lock file

storeVars == <<lock, dir, doc, call, calls, failures, acked, broken>>

Edits == 1 .. MaxCalls
NoName == "none"
NoDoc == [edits |-> {}, origin |-> FALSE]
Unlocked == [by |-> NoCaller, stale |-> FALSE]
NoCall == [mode |-> "none", at |-> "idle", tries |-> 0, name |-> NoName, edit |-> 0, doc |-> NoDoc]

StoreInit ==
    /\ lock = Unlocked
    /\ dir = [n \in Names |-> "none"] /\ doc = [n \in Names |-> NoDoc]
    /\ call = [c \in Callers |-> NoCall]
    /\ calls = 0 /\ failures = 0
    /\ acked = [n \in Names |-> {}] /\ broken = FALSE

Goto(c, at) == call' = [call EXCEPT ![c].at = at]
CallEnds(c) == call' = [call EXCEPT ![c] = NoCall]

-----------------------------------------------------------------------------
(* acquireFileLock and its unlock.                                          *)

\* Apply, or SetOriginIfMissing ("origin"); a list or a view reads only.
Calls(c) ==
    /\ call[c] = NoCall /\ calls < MaxCalls /\ ~broken      \* bound
    /\ calls' = calls + 1
    /\ \E mode \in {"list", "create", "update", "delete", "origin"}, n \in Names :
          /\ mode \in {"list", "create"} => n = CHOOSE m \in Names : TRUE
          /\ call' = [call EXCEPT ![c] =
                [NoCall EXCEPT !.mode = mode, !.at = "opens", !.name = n, !.edit = calls']]
    /\ UNCHANGED <<lock, dir, doc, failures, acked, broken>>

\* Mutant of Exclusive: the lock file is opened without O_EXCL.
Overwrites == TRUE

Exclusive == lock = Unlocked

\* O_EXCL: the file is made when there is none.
Locks(c) ==
    /\ call[c].at = "opens" /\ Exclusive
    /\ lock' = [by |-> c, stale |-> FALSE]
    /\ Goto(c, "reads")
    /\ UNCHANGED <<dir, doc, calls, failures, acked, broken>>

Held == lock # Unlocked

\* Mutant of LastTry: one attempt more than the loop has.
OneTryMore(c) == call[c].tries = MaxTries

LastTry(c) == call[c].tries + 1 = MaxTries

\* There is one: look at its age, and sleep or remove it.
Waits(c) ==
    /\ call[c].at = "opens" /\ Held
    /\ IF lock.stale THEN Goto(c, "breaks")
       ELSE IF LastTry(c) THEN CallEnds(c)
       ELSE call' = [call EXCEPT ![c].tries = @ + 1]
    /\ UNCHANGED <<lock, dir, doc, calls, failures, acked, broken>>

\* Whichever file is there by now.
Breaks(c) ==
    /\ call[c].at = "breaks"
    /\ lock' = Unlocked /\ broken' = TRUE
    /\ IF LastTry(c) THEN CallEnds(c)
       ELSE call' = [call EXCEPT ![c].at = "opens", ![c].tries = @ + 1]
    /\ UNCHANGED <<dir, doc, calls, failures, acked>>

\* The deferred unlock of a call that succeeds or fails; it does not look
\* whose file it removes.
Unlocks(c) ==
    /\ call[c].at = "unlocks"
    /\ lock' = Unlocked
    /\ CallEnds(c)
    /\ UNCHANGED <<dir, doc, calls, failures, acked, broken>>

-----------------------------------------------------------------------------
(* The calls, under the lock.                                               *)

\* A list and a view only read; another call is refused for its arguments, or
\* its files fail.
Refused(c) ==
    /\ call[c].at = "reads"
    /\ Goto(c, "unlocks")
    /\ UNCHANGED <<lock, dir, doc, calls, failures, acked, broken>>

\* Directories without a file are passed over.
Listed == {n \in Names : dir[n] = "file"}

\* availableID: an id that has no directory yet, then the directory.
FreeName(n) == dir[n] = "none"

MakesTask(c) ==
    /\ call[c].at = "reads" /\ call[c].mode = "create"
    /\ \E n \in Names :
          /\ FreeName(n)
          /\ FreeName(call[c].name) => n = call[c].name
          /\ dir' = [dir EXCEPT ![n] = "empty"]
          /\ call' = [call EXCEPT ![c].at = "writes", ![c].name = n,
                                  ![c].doc = [NoDoc EXCEPT !.edits = {call[c].edit}]]
    /\ UNCHANGED <<lock, doc, calls, failures, acked, broken>>

Edited(d, c) == IF call[c].mode = "origin" THEN [d EXCEPT !.origin = TRUE]
                ELSE [d EXCEPT !.edits = @ \cup {call[c].edit}]

\* update and SetOriginIfMissing; an origin that is there stays.
ReadsTask(c) ==
    /\ call[c].at = "reads" /\ call[c].mode \in {"update", "origin"}
    /\ LET n == call[c].name IN
       IF dir[n] = "file" /\ ~(call[c].mode = "origin" /\ doc[n].origin)
       THEN call' = [call EXCEPT ![c].at = "writes", ![c].doc = Edited(doc[n], c)]
       ELSE Goto(c, "unlocks")
    /\ UNCHANGED <<lock, dir, doc, calls, failures, acked, broken>>

Acknowledges(c, n) == acked' = [acked EXCEPT ![n] =
    IF call[c].mode = "create" THEN {call[c].edit}
    ELSE IF call[c].mode = "update" THEN @ \cup {call[c].edit} ELSE @]

\* A temporary file, renamed.  Its directory may be gone; a create that fails
\* removes the directory it made.
writeDocument(c) ==
    LET n == call[c].name IN
    /\ call[c].at = "writes"
    /\ \/ /\ dir[n] # "none"
          /\ dir' = [dir EXCEPT ![n] = "file"] /\ doc' = [doc EXCEPT ![n] = call[c].doc]
          /\ Acknowledges(c, n)
       \/ /\ IF call[c].mode = "create" /\ dir[n] = "empty"
             THEN dir' = [dir EXCEPT ![n] = "none"] ELSE UNCHANGED dir
          /\ UNCHANGED <<doc, acked>>
    /\ Goto(c, "unlocks")
    /\ UNCHANGED <<lock, calls, failures, broken>>

\* RemoveAll: the file, then the directory.
Deletes(c) ==
    LET n == call[c].name IN
    /\ call[c].mode = "delete"
    /\ \/ /\ call[c].at = "reads" /\ dir[n] = "file"
          /\ dir' = [dir EXCEPT ![n] = "empty"] /\ doc' = [doc EXCEPT ![n] = NoDoc]
          /\ acked' = [acked EXCEPT ![n] = {}]
          /\ Goto(c, "removes")
       \/ /\ call[c].at = "removes"
          /\ dir' = [dir EXCEPT ![n] = IF @ = "empty" THEN "none" ELSE @]
          /\ Goto(c, "unlocks") /\ UNCHANGED <<doc, acked>>
    /\ UNCHANGED <<lock, calls, failures, broken>>

-----------------------------------------------------------------------------
(* Time and death.                                                          *)

\* The lock file gets old: its caller died or is very slow.
Ages ==
    /\ Held /\ ~lock.stale /\ failures < MaxFailures
    /\ failures' = failures + 1
    /\ lock' = [lock EXCEPT !.stale = TRUE]
    /\ UNCHANGED <<dir, doc, call, calls, acked, broken>>

Dies(c) ==
    /\ call[c] # NoCall /\ failures < MaxFailures
    /\ failures' = failures + 1
    /\ CallEnds(c)
    /\ UNCHANGED <<lock, dir, doc, calls, acked, broken>>

StoreNext ==
    \/ \E c \in Callers : \/ Calls(c) \/ Locks(c) \/ Waits(c) \/ Breaks(c) \/ Unlocks(c)
                          \/ Refused(c) \/ MakesTask(c) \/ ReadsTask(c) \/ writeDocument(c)
                          \/ Deletes(c) \/ Dies(c)
    \/ Ages

StoreSpec == StoreInit /\ [][StoreNext]_storeVars

Docs == [edits : SUBSET Edits, origin : BOOLEAN]

StoreTypeOK ==
    /\ lock \in [by : Callers \cup {NoCaller}, stale : BOOLEAN]
    /\ dir \in [Names -> {"none", "empty", "file"}] /\ doc \in [Names -> Docs]
    /\ call \in [Callers -> [mode : {"none", "list", "create", "update", "delete", "origin"},
            at : {"idle", "opens", "breaks", "reads", "writes", "removes", "unlocks"},
            tries : 0 .. MaxTries - 1, name : Names \cup {NoName}, edit : 0 .. MaxCalls, doc : Docs]]
    /\ calls \in 0 .. MaxCalls /\ failures \in 0 .. MaxFailures
    /\ acked \in [Names -> SUBSET Edits] /\ broken \in BOOLEAN

-----------------------------------------------------------------------------
(* What the store promises while no waiter removed a lock file: two callers  *)
(* are never at the files, and no acknowledged edit is undone by another     *)
(* caller's older copy.  A lock file that a waiter removed may be another's: *)
(* two waiters that saw the same old file, and a caller that came back, each *)
(* remove a new one, so nothing is promised after that.                      *)

AtFiles == {c \in Callers : call[c].at \in {"reads", "writes", "removes", "unlocks"}}

OneAtFiles == Cardinality(AtFiles) <= 1

NoEditIsLost ==
    /\ \A n \in Names : acked[n] \subseteq doc[n].edits
    /\ Listed = {n \in Names : doc[n].edits # {}}

\* With the lock file in force the store is sequential and keeps every edit.
TasksAreKept == broken \/ (OneAtFiles /\ NoEditIsLost)
=============================================================================
