----------------------------- MODULE RpcClient -----------------------------
(***************************************************************************)
(* The JSON-RPC client of the App Server (appserver/client.go): requests of *)
(* many goroutines over one pipe, a reader that hands each response to its  *)
(* caller, timeouts, Close, and Start of the next process.  The generation  *)
(* counts both starts and closes, so processes have odd generations.  A     *)
(* request is known by its id, which is never used again.                   *)
(***************************************************************************)
EXTENDS Naturals, FiniteSets

CONSTANTS
  Users,         \* goroutines that use the client
  Boot,          \* the caller of initialize, inside Start
  MaxGeneration, \* bound: the last process started
  MaxID          \* bound: nextID from which users ask nothing new

Callers == Users \cup {Boot}
Generations == 0..(MaxGeneration + 1)
Ids == 1..(MaxID + MaxGeneration + Cardinality(Users) + 1)

ASSUME RpcAssumption ==
  /\ MaxGeneration \in Nat \ {0} /\ MaxID \in Nat \ {0}
  /\ IsFiniteSet(Users) /\ Boot \notin Users

VARIABLES
  started, generation, nextID,
  stage,    \* what the holder of startMu does, "free" when nobody holds it
  drain,    \* calls that closeRunning has detached, still to fail
  pending,  \* the ids in c.pending
  told,     \* told[i]: the response in the channel of call i
  closes,   \* closes[i]: how often that channel was closed
  step,     \* step[c]: where caller c is in requestForGeneration
  id,       \* id[c]: its request
  pin,      \* pin[c]: the generation it insists on, or 0
  to,       \* to[c]: the generation whose stdin it has captured
  fate,     \* fate[i]: what became of request i for its caller
  proc,     \* proc[g]: the process of generation g
  inbox,    \* inbox[g]: requests process g has not answered
  out,      \* out[g]: responses in its stdout
  served,   \* the requests a process has acted on
  reading,  \* reading[g]: where readStdout of generation g is
  from,     \* from[g]: the generation whose stdout it reads
  holds     \* holds[g]: the response it has in hand

session == <<started, generation, stage, drain>>
table   == <<nextID, pending>>
channel == <<told, closes>>
calls   == <<step, id, pin, to, fate>>
server  == <<proc, inbox, out, served>>
reader  == <<reading, from, holds>>
vars    == <<session, table, channel, calls, server, reader>>

TypeOK ==
  /\ started \in BOOLEAN /\ generation \in Generations /\ nextID \in 0..Cardinality(Ids)
  /\ stage \in {"free", "initialize", "drain"}
  /\ drain \subseteq Ids /\ pending \subseteq Ids
  /\ told \in [Ids -> {"none", "result", "error"}]
  /\ closes \in [Ids -> Nat]
  /\ step \in [Callers -> {"idle", "ask", "write", "wait"}]
  /\ id \in [Callers -> Ids \cup {0}]
  /\ pin \in [Callers -> Generations] /\ to \in [Callers -> Generations]
  /\ fate \in [Ids -> {"unused", "open", "result", "error"}]
  /\ proc \in [Generations -> {"none", "up", "closing", "dead"}]
  /\ inbox \in [Generations -> SUBSET Ids]
  /\ out \in [Generations -> SUBSET Ids]
  /\ served \subseteq Ids
  /\ reading \in [Generations -> {"none", "begin", "scan", "hold", "gone"}]
  /\ from \in [Generations -> Generations]
  /\ holds \in [Generations -> Ids \cup {0}]

Init ==
  /\ started = FALSE /\ generation = 0 /\ nextID = 0
  /\ stage = "free" /\ drain = {} /\ pending = {}
  /\ told = [i \in Ids |-> "none"] /\ closes = [i \in Ids |-> 0]
  /\ step = [c \in Callers |-> "idle"] /\ id = [c \in Callers |-> 0]
  /\ pin = [c \in Callers |-> 0] /\ to = [c \in Callers |-> 0]
  /\ fate = [i \in Ids |-> "unused"]
  /\ proc = [g \in Generations |-> "none"]
  /\ inbox = [g \in Generations |-> {}]
  /\ out = [g \in Generations |-> {}]
  /\ served = {}
  /\ reading = [g \in Generations |-> "none"]
  /\ from = [g \in Generations |-> 0]
  /\ holds = [g \in Generations |-> 0]

\* isStartedGeneration
Current(g) == started /\ generation = g

-----------------------------------------------------------------------------
(* requestForGeneration.                                                    *)

\* A user asks whatever session there is, or pins the one it has found, as the
\* credential watchdog does; the session may change before it gets to c.mu.
UserCalls(u) ==
  /\ step[u] = "idle" /\ nextID < MaxID
  /\ step' = [step EXCEPT ![u] = "ask"]
  /\ pin' = [pin EXCEPT ![u] = 0] \/ pin' = [pin EXCEPT ![u] = generation]
  /\ UNCHANGED <<session, table, channel, id, to, fate, server, reader>>

\* Mutant of MayAsk: only a client that is down refuses the call.
AnySession(c) == started

MayAsk(c) == started /\ pin[c] \in {0, generation}

\* Mutant of FreshID: the counter is read before it is increased.
OldID == nextID

FreshID == nextID + 1

\* Under c.mu: the pin, the next id, its entry and the pipe belong together.
Ask(c) ==
  /\ step[c] = "ask"
  /\ IF MayAsk(c)
     THEN /\ nextID' = FreshID
          /\ pending' = pending \cup {FreshID}
          /\ id' = [id EXCEPT ![c] = FreshID]
          /\ to' = [to EXCEPT ![c] = generation]
          /\ fate' = [fate EXCEPT ![FreshID] = "open"]
          /\ step' = [step EXCEPT ![c] = "write"]
          /\ UNCHANGED pin
     ELSE /\ step' = [step EXCEPT ![c] = "idle"]
          /\ pin' = [pin EXCEPT ![c] = 0]
          /\ UNCHANGED <<table, id, to, fate>>
  /\ UNCHANGED <<session, channel, server, reader>>

Leaves(c, end) ==
  /\ step' = [step EXCEPT ![c] = "idle"]
  /\ fate' = [fate EXCEPT ![id[c]] = end]
  /\ pin' = [pin EXCEPT ![c] = 0] /\ to' = [to EXCEPT ![c] = 0]

\* A write fails on a closed pipe; the entry stays in the table.
Write(c) ==
  /\ step[c] = "write"
  /\ IF proc[to[c]] = "up"
     THEN /\ inbox' = [inbox EXCEPT ![to[c]] = @ \cup {id[c]}]
          /\ step' = [step EXCEPT ![c] = "wait"]
          /\ UNCHANGED <<fate, pin, to>>
     ELSE Leaves(c, "error") /\ UNCHANGED inbox
  /\ UNCHANGED <<session, table, channel, id, proc, out, served, reader>>

\* A closed channel without a response reads as an empty result.
Receive(c) ==
  /\ step[c] = "wait"
  /\ told[id[c]] # "none" \/ closes[id[c]] > 0
  /\ Leaves(c, IF told[id[c]] = "error" THEN "error" ELSE "result")
  /\ told' = [told EXCEPT ![id[c]] = "none"]
  /\ UNCHANGED <<session, table, closes, id, server, reader>>

\* Mutant of GivesUp: initialize is sent without a limit.
UsersGiveUp(c) == step[c] = "wait" /\ c # Boot

\* The timer, or the caller's context: at any time, even with a response waiting.
GivesUp(c) == step[c] = "wait"

Timeout(c) ==
  /\ GivesUp(c)
  /\ pending' = pending \ {id[c]}
  /\ Leaves(c, "error")
  /\ told' = [told EXCEPT ![id[c]] = "none"]
  /\ UNCHANGED <<session, nextID, closes, id, server, reader>>

-----------------------------------------------------------------------------
(* Start and Close, which exclude each other by startMu.                    *)

Start ==
  /\ stage = "free" /\ ~started /\ generation < MaxGeneration
  /\ started' = TRUE /\ generation' = generation + 1
  /\ stage' = "initialize"
  /\ proc' = [proc EXCEPT ![generation'] = "up"]
  /\ reading' = [reading EXCEPT ![generation'] = "begin"]
  /\ step' = [step EXCEPT ![Boot] = "ask"]
  /\ UNCHANGED <<drain, table, channel, id, pin, to, fate, inbox, out, served, from, holds>>

Detach == drain' = pending /\ pending' = {}

\* closeRunning up to the unlock, and the pipe it closes then.
Detaches ==
  /\ Detach
  /\ started' = FALSE /\ generation' = generation + 1
  /\ proc' = [proc EXCEPT ![generation] = IF @ = "up" THEN "closing" ELSE @]
  /\ stage' = "drain"

\* After initialize, and the notification that is written then.
Initialized ==
  /\ stage = "initialize" /\ step[Boot] = "idle"
  /\ IF fate[id[Boot]] = "result" /\ proc[generation] = "up"
     THEN stage' = "free" /\ UNCHANGED <<started, generation, drain, pending, proc>>
     ELSE Detaches
  /\ UNCHANGED <<nextID, channel, calls, inbox, out, served, reader>>

Close ==
  /\ stage = "free" /\ started /\ generation < MaxGeneration
  /\ Detaches
  /\ UNCHANGED <<nextID, channel, calls, inbox, out, served, reader>>

\* Mutant of Fail: the channel is closed without a response.
JustClose(i) == told[i]

\* The channel has room for one response; the send gives up when it is taken.
Fail(i) == IF told[i] = "none" /\ fate[i] = "open" THEN "error" ELSE told[i]

Drains ==
  /\ stage = "drain"
  /\ \E i \in drain : /\ told' = [told EXCEPT ![i] = Fail(i)]
                      /\ closes' = [closes EXCEPT ![i] = @ + 1]
                      /\ drain' = drain \ {i}
  /\ UNCHANGED <<started, generation, stage, table, calls, server, reader>>

\* What is left in the pipes of a killed process reaches nobody.
Kills ==
  /\ stage = "drain" /\ drain = {}
  /\ stage' = "free"
  /\ proc' = [proc EXCEPT ![generation - 1] = "dead"]
  /\ inbox' = [inbox EXCEPT ![generation - 1] = {}]
  /\ out' = [out EXCEPT ![generation - 1] = {}]
  /\ UNCHANGED <<started, generation, drain, table, channel, calls, served, reader>>

-----------------------------------------------------------------------------
(* The App Server.                                                          *)

\* A response with an error is left out: its caller learns what a timeout tells it.
Serve(g, i) ==
  /\ proc[g] \in {"up", "closing"} /\ i \in inbox[g]
  /\ inbox' = [inbox EXCEPT ![g] = @ \ {i}]
  /\ out' = [out EXCEPT ![g] = @ \cup {i}]
  /\ served' = served \cup {i}
  /\ UNCHANGED <<session, table, channel, calls, proc, reader>>

ProcessDies(g) ==
  /\ proc[g] = "up"
  /\ proc' = [proc EXCEPT ![g] = "dead"]
  /\ inbox' = [inbox EXCEPT ![g] = {}]
  /\ UNCHANGED <<session, table, channel, calls, out, served, reader>>

-----------------------------------------------------------------------------
(* readStdout and handlePayload.                                            *)

\* The goroutine looks at c.stdout when it first runs, which may be late.
ReaderBegins(g) ==
  /\ reading[g] = "begin"
  /\ reading' = [reading EXCEPT ![g] = IF started THEN "scan" ELSE "gone"]
  /\ from' = [from EXCEPT ![g] = IF started THEN generation ELSE 0]
  /\ UNCHANGED <<session, table, channel, calls, server, holds>>

\* Mutant of Taken: the entry is looked up but not deleted.
LookedUp(i) == pending

Taken(i) == pending \ {i}

\* A line that finds its generation over ends the reader and is lost.
ReaderTakes(g) ==
  /\ reading[g] = "scan"
  /\ \E i \in out[from[g]] :
       /\ out' = [out EXCEPT ![from[g]] = @ \ {i}]
       /\ IF ~Current(g)
          THEN reading' = [reading EXCEPT ![g] = "gone"] /\ UNCHANGED <<pending, holds>>
          ELSE /\ pending' = Taken(i)
               /\ IF i \in pending
                  THEN /\ reading' = [reading EXCEPT ![g] = "hold"]
                       /\ holds' = [holds EXCEPT ![g] = i]
                  ELSE UNCHANGED <<reading, holds>>
  /\ UNCHANGED <<session, nextID, channel, calls, proc, inbox, served, from>>

\* A response for a caller that has given up stays in a channel nobody reads.
Heard(i) == IF fate[i] = "open" THEN "result" ELSE told[i]

ReaderDelivers(g) ==
  /\ reading[g] = "hold"
  /\ told' = [told EXCEPT ![holds[g]] = Heard(holds[g])]
  /\ closes' = [closes EXCEPT ![holds[g]] = @ + 1]
  /\ reading' = [reading EXCEPT ![g] = "scan"]
  /\ holds' = [holds EXCEPT ![g] = 0]
  /\ UNCHANGED <<session, table, calls, server, from>>

\* End of the stream; transport_closed starts the repair that WriterSession models.
ReaderEnds(g) ==
  /\ reading[g] = "scan"
  /\ proc[from[g]] = "dead" /\ out[from[g]] = {}
  /\ reading' = [reading EXCEPT ![g] = "gone"]
  /\ UNCHANGED <<session, table, channel, calls, server, from, holds>>

-----------------------------------------------------------------------------
SessionStep == Start \/ Initialized \/ Close \/ Drains \/ Kills
CallStep(c) == Ask(c) \/ Write(c) \/ Receive(c) \/ Timeout(c)
ServerStep(g) == ProcessDies(g) \/ \E i \in inbox[g] : Serve(g, i)
ReaderStep(g) == ReaderBegins(g) \/ ReaderTakes(g) \/ ReaderDelivers(g) \/ ReaderEnds(g)

Next ==
  \/ SessionStep
  \/ \E u \in Users : UserCalls(u)
  \/ \E c \in Callers : CallStep(c)
  \/ \E g \in Generations : ServerStep(g) \/ ReaderStep(g)

Spec == Init /\ [][Next]_vars

\* Code that runs goes on and timers fire.  The App Server, the reader and the users
\* owe nothing.
Fairness ==
  /\ WF_vars(Initialized \/ Drains \/ Kills)
  /\ \A c \in Callers : WF_vars(CallStep(c))

FairSpec == Spec /\ Fairness

-----------------------------------------------------------------------------
(* Properties.                                                              *)

\* A caller that waits can still be told: its channel is in the table, with the closer
\* or with a reader, or has been closed, whatever timeouts and new sessions do to the
\* table meanwhile.
WaiterIsReachable ==
  \A c \in Callers : step[c] = "wait" =>
    \/ id[c] \in pending \cup drain
    \/ closes[id[c]] > 0
    \/ \E g \in Generations : reading[g] = "hold" /\ holds[g] = id[c]

\* Entries that failed writes leave in the table do not outlive their session.
NoEntryOutlivesSession == ~started => pending = {}

\* No reply channel is closed twice, which would end the daemon: the reader and
\* closeRunning never own the same one.
ChannelClosedOnce == \A i \in Ids : closes[i] <= 1

\* The table holds who waits, and no more than the session: nobody is forgotten, nobody
\* is told twice, and nothing leaks into the next session.
TableIsRight == WaiterIsReachable /\ NoEntryOutlivesSession /\ ChannelClosedOnce

\* A request that insists on a session, as a login does, goes to the process of that
\* session or nowhere, also when sessions change between its caller's check and c.mu.
PinnedStaysInItsSession ==
  [][\A c \in Callers, g \in Generations :
       pin[c] # 0 /\ step[c] = "write" /\ id[c] \in inbox'[g] \ inbox[g] => g = pin[c]]_vars

\* Start and Close give startMu back, whatever the App Server does.
StartMuIsReleased == stage # "free" ~> stage = "free"

\* Every request is a call of RpcCall: it ends, once, and a result has been earned.
Call == INSTANCE RpcCall WITH outcome <- fate, performed <- served

Calls == Call!Spec
=============================================================================
