--------------------------- MODULE RpcClient_proof ---------------------------
(***************************************************************************)
(* Proofs about RpcClient, for any users, generations and number of         *)
(* requests.  The argument is one of ownership: at any time a request whose *)
(* caller waits is in the table, with the closer, with one reader, or its   *)
(* channel has been closed, and it moves from one to the next under c.mu.   *)
(***************************************************************************)
EXTENDS RpcClient, FiniteSetTheorems, TLAPS

UnderWay(c) == step[c] \in {"write", "wait"}
Asking == {c \in Callers : step[c] = "ask"}

\* What the holder of startMu knows of the session.
SessionShape ==
  /\ stage = "initialize" => started /\ generation <= MaxGeneration
  /\ stage = "drain" => ~started
  /\ stage # "drain" => drain = {}
  /\ ~started => pending = {}
  /\ \A g \in Generations : g > generation => reading[g] = "none"

\* The ids of the model suffice: Boot asks once in a generation.
IdsSuffice == nextID + Cardinality(Asking) <= MaxID + Cardinality(Users) + generation

\* A request belongs to one caller, and has been asked of the session it is pinned to.
CallShape ==
  /\ \A c \in Callers : UnderWay(c) =>
       /\ id[c] \in Ids /\ id[c] <= nextID /\ fate[id[c]] = "open"
       /\ pin[c] = 0 \/ to[c] = pin[c]
  /\ \A c, d \in Callers : UnderWay(c) /\ UnderWay(d) /\ id[c] = id[d] => c = d
  /\ \A i \in Ids : i > nextID => fate[i] = "unused"

\* The table, the closer and the readers never own the same channel, and own no
\* channel that was closed.
Owners ==
  /\ pending \cap drain = {}
  /\ \A i \in pending \cup drain : i <= nextID /\ closes[i] = 0
  /\ \A g \in Generations : reading[g] = "hold" =>
       /\ holds[g] \in Ids /\ holds[g] <= nextID
       /\ holds[g] \notin pending \cup drain /\ closes[holds[g]] = 0
  /\ \A g, h \in Generations :
       reading[g] = "hold" /\ reading[h] = "hold" /\ holds[g] = holds[h] => g = h
  /\ \A i \in Ids : closes[i] <= 1 /\ (closes[i] > 0 => i <= nextID)

Reachable ==
  \A c \in Callers : UnderWay(c) =>
    \/ id[c] \in pending \cup drain
    \/ closes[id[c]] > 0
    \/ \E g \in Generations : reading[g] = "hold" /\ holds[g] = id[c]

\* A closed channel of an open call has its response, and a result was served.
Earned ==
  /\ \A i \in Ids : fate[i] = "open" /\ closes[i] > 0 => told[i] # "none"
  /\ \A i \in Ids : told[i] = "result" => i \in served
  /\ \A g \in Generations : out[g] \subseteq served
  /\ \A g \in Generations : \A i \in inbox[g] : fate[i] # "unused"
  /\ \A g \in Generations : reading[g] = "hold" => holds[g] \in served

IInv == TypeOK /\ SessionShape /\ IdsSuffice /\ CallShape /\ Owners /\ Reachable /\ Earned

-----------------------------------------------------------------------------
\* The constants: how many ids there are, and that callers can be counted.
LEMMA Constants ==
  /\ IsFiniteSet(Callers) /\ Cardinality(Callers) = Cardinality(Users) + 1
  /\ Cardinality(Users) \in Nat
  /\ Ids = 1 .. (MaxID + MaxGeneration + Cardinality(Users) + 1)
  /\ Cardinality(Ids) = MaxID + MaxGeneration + Cardinality(Users) + 1
  /\ MaxGeneration \in Nat \ {0} /\ MaxID \in Nat \ {0}
<1>1. IsFiniteSet(Users) /\ Boot \notin Users /\ MaxGeneration \in Nat \ {0} /\ MaxID \in Nat \ {0}
  BY RpcAssumption
<1>2. Cardinality(Users) \in Nat
  BY <1>1, FS_CardinalityType
<1>3. IsFiniteSet(Callers) /\ Cardinality(Callers) = Cardinality(Users) + 1
  BY <1>1, FS_AddElement DEF Callers
<1>4. MaxID + MaxGeneration + Cardinality(Users) + 1 \in Nat
  BY <1>1, <1>2
<1>5. Cardinality(1 .. (MaxID + MaxGeneration + Cardinality(Users) + 1))
        = MaxID + MaxGeneration + Cardinality(Users) + 1
  BY <1>1, <1>2, <1>4, FS_Interval
<1> QED
  BY <1>1, <1>2, <1>3, <1>5 DEF Ids

LEMMA IdsAreNumbers == Ids \subseteq Nat /\ 0 \notin Ids
BY Constants

LEMMA AskingIsFinite ==
  ASSUME TypeOK
  PROVE  IsFiniteSet(Asking) /\ Cardinality(Asking) \in Nat
                             /\ Cardinality(Asking) <= Cardinality(Users) + 1
<1>1. Asking \subseteq Callers
  BY DEF Asking
<1> QED
  BY <1>1, Constants, FS_Subset, FS_CardinalityType

LEMMA ZeroIsAGeneration == 0 \in Generations /\ Generations \subseteq Nat
BY Constants DEF Generations

\* A caller that asks finds a fresh id.
LEMMA FreshIsAnId ==
  ASSUME TypeOK, IdsSuffice, NEW c \in Callers, step[c] = "ask"
  PROVE  FreshID \in Ids
<1>1. c \in Asking
  BY DEF Asking
<1>2. Cardinality(Asking) # 0
  BY <1>1, AskingIsFinite, FS_EmptySet
<1>3. nextID \in Nat /\ generation \in Nat /\ generation <= MaxGeneration + 1
  BY Constants DEF TypeOK, Generations
<1> QED
  BY <1>2, <1>3, Constants, AskingIsFinite DEF IdsSuffice, FreshID

\* Callers that begin or cease to ask: what becomes of their number.
LEMMA AskingChanges ==
  ASSUME TypeOK, NEW c \in Callers, NEW s \in {"idle", "ask", "write", "wait"},
         step' = [step EXCEPT ![c] = s]
  PROVE  /\ s # "ask" /\ step[c] = "ask" => Cardinality(Asking') = Cardinality(Asking) - 1
         /\ s # "ask" /\ step[c] # "ask" => Cardinality(Asking') = Cardinality(Asking)
         /\ Cardinality(Asking') <= Cardinality(Asking) + 1
         /\ Cardinality(Asking') <= Cardinality(Users) + 1
         /\ Cardinality(Asking') \in Nat
<1>1. step \in [Callers -> {"idle", "ask", "write", "wait"}]
  BY DEF TypeOK
<1>2. s # "ask" => Asking' = Asking \ {c}
  BY <1>1 DEF Asking
<1>3. s = "ask" => Asking' = Asking \cup {c}
  BY <1>1 DEF Asking
<1>4. step[c] = "ask" <=> c \in Asking
  BY DEF Asking
<1>5. Asking' \subseteq Callers
  BY DEF Asking
<1>6. /\ IsFiniteSet(Asking') /\ Cardinality(Asking') \in Nat
      /\ Cardinality(Asking') <= Cardinality(Users) + 1
  BY <1>5, Constants, FS_Subset, FS_CardinalityType
<1>7. Cardinality(Asking \ {c}) = IF c \in Asking THEN Cardinality(Asking) - 1 ELSE Cardinality(Asking)
  BY AskingIsFinite, FS_RemoveElement
<1>8. Cardinality(Asking \cup {c}) = IF c \in Asking THEN Cardinality(Asking) ELSE Cardinality(Asking) + 1
  BY AskingIsFinite, FS_AddElement
<1>9. Cardinality(Asking) \in Nat
  BY AskingIsFinite
<1>10. CASE s = "ask"
  <2>1. Asking' = Asking \cup {c}
    BY <1>3, <1>10
  <2>2. Cardinality(Asking') = IF c \in Asking THEN Cardinality(Asking) ELSE Cardinality(Asking) + 1
    BY <2>1, <1>8
  <2>3. Cardinality(Asking') <= Cardinality(Asking) + 1
    BY <2>2, <1>9
  <2> QED
    BY <2>3, <1>6, <1>10
<1>11. CASE s # "ask"
  <2>1. Asking' = Asking \ {c}
    BY <1>2, <1>11
  <2>2. Cardinality(Asking') = IF c \in Asking THEN Cardinality(Asking) - 1 ELSE Cardinality(Asking)
    BY <2>1, <1>7
  <2>3. Cardinality(Asking') <= Cardinality(Asking) + 1
    BY <2>2, <1>9
  <2> QED
    BY <2>2, <2>3, <1>4, <1>6, <1>11
<1> QED
  BY <1>10, <1>11

LEMMA InitIInv == Init => IInv
<1> SUFFICES ASSUME Init PROVE IInv
  OBVIOUS
<1>1. TypeOK
  <2>1. nextID \in 0 .. Cardinality(Ids)
    BY Constants DEF Init
  <2>2. /\ told \in [Ids -> {"none", "result", "error"}] /\ closes \in [Ids -> Nat]
        /\ fate \in [Ids -> {"unused", "open", "result", "error"}]
    BY DEF Init
  <2>3. /\ step \in [Callers -> {"idle", "ask", "write", "wait"}] /\ id \in [Callers -> Ids \cup {0}]
        /\ pin \in [Callers -> Generations] /\ to \in [Callers -> Generations]
    BY ZeroIsAGeneration DEF Init
  <2>4. /\ proc \in [Generations -> {"none", "up", "closing", "dead"}]
        /\ inbox \in [Generations -> SUBSET Ids] /\ out \in [Generations -> SUBSET Ids]
    BY DEF Init
  <2>5. /\ reading \in [Generations -> {"none", "begin", "scan", "hold", "gone"}]
        /\ from \in [Generations -> Generations] /\ holds \in [Generations -> Ids \cup {0}]
    BY ZeroIsAGeneration DEF Init
  <2> QED
    BY <2>1, <2>2, <2>3, <2>4, <2>5, ZeroIsAGeneration DEF Init, TypeOK
<1>2. Cardinality(Asking) = 0
  <2>1. Asking = {}
    BY DEF Init, Asking
  <2> QED
    BY <2>1, FS_EmptySet
<1>3. IdsSuffice
  BY <1>2, Constants DEF Init, IdsSuffice
<1>4. SessionShape /\ CallShape /\ Reachable
  BY Constants DEF Init, SessionShape, CallShape, Reachable, UnderWay
<1>5. Owners /\ Earned
  BY Constants DEF Init, Owners, Earned
<1> QED
  BY <1>1, <1>3, <1>4, <1>5 DEF IInv

-----------------------------------------------------------------------------
(* The steps of callers.                                                    *)

LEMMA UserCallsKeeps ==
  ASSUME IInv, NEW u \in Users, UserCalls(u)
  PROVE  IInv'
<1> USE DEF IInv
<1>1. u \in Callers /\ step \in [Callers -> {"idle", "ask", "write", "wait"}] /\ pin \in [Callers -> Generations]
  BY DEF Callers, TypeOK
<1>2. step' = [step EXCEPT ![u] = "ask"]
  BY DEF UserCalls
<1>3. TypeOK'
  <2>1. step' \in [Callers -> {"idle", "ask", "write", "wait"}]
    BY <1>1, <1>2
  <2>2. generation \in Generations
    BY DEF TypeOK
  <2>3. pin' \in [Callers -> Generations]
    BY <1>1, <2>2, ZeroIsAGeneration DEF UserCalls
  <2> QED
    BY <2>1, <2>3 DEF UserCalls, TypeOK, session, table, channel, server, reader
<1>4. IdsSuffice'
  <2>1. Cardinality(Asking') <= Cardinality(Users) + 1 /\ Cardinality(Asking') \in Nat
    BY <1>1, <1>2, AskingChanges
  <2>2. nextID' = nextID /\ generation' = generation /\ nextID < MaxID
    BY DEF UserCalls, session, table
  <2>3. nextID \in Nat /\ generation \in Nat
    BY Constants DEF TypeOK, Generations
  <2> QED
    BY <2>1, <2>2, <2>3, Constants DEF IdsSuffice
<1>5. \A c \in Callers : UnderWay(c)' => c # u /\ UnderWay(c) /\ pin'[c] = pin[c]
  BY <1>1, <1>2 DEF UserCalls, UnderWay
<1>6. SessionShape' /\ Owners' /\ Earned'
  BY DEF UserCalls, SessionShape, Owners, Earned, session, table, channel, server, reader
<1>7. CallShape'
  BY <1>5 DEF UserCalls, CallShape, table
<1>8. Reachable'
  BY <1>5 DEF UserCalls, Reachable, session, table, channel, reader
<1> QED
  BY <1>3, <1>4, <1>6, <1>7, <1>8

LEMMA AskKeeps ==
  ASSUME IInv, NEW c \in Callers, Ask(c)
  PROVE  IInv'
<1> USE DEF IInv
<1>1. /\ step \in [Callers -> {"idle", "ask", "write", "wait"}] /\ pin \in [Callers -> Generations]
      /\ id \in [Callers -> Ids \cup {0}] /\ to \in [Callers -> Generations]
      /\ fate \in [Ids -> {"unused", "open", "result", "error"}]
      /\ nextID \in Nat /\ generation \in Generations /\ pending \subseteq Ids /\ drain \subseteq Ids
  BY DEF TypeOK
<1>2. step[c] = "ask" /\ UNCHANGED <<session, channel, server, reader>>
  BY DEF Ask
<1>3. FreshID \in Ids /\ FreshID = nextID + 1
  BY <1>2, FreshIsAnId DEF FreshID
<1>4. Cardinality(Asking') = Cardinality(Asking) - 1 /\ nextID' \in {nextID, nextID + 1}
  <2>1. step' = [step EXCEPT ![c] = "write"] \/ step' = [step EXCEPT ![c] = "idle"]
    BY DEF Ask
  <2> QED
    BY <1>2, <1>3, <2>1, AskingChanges DEF Ask, table
<1>5. IdsSuffice'
  <2>1. generation' = generation /\ generation \in Nat
    BY <1>1, <1>2 DEF session, Generations
  <2> QED
    BY <1>1, <1>4, <2>1, Constants, AskingIsFinite DEF IdsSuffice
<1>6. CASE ~MayAsk(c)
  <2>1. /\ step' = [step EXCEPT ![c] = "idle"] /\ pin' = [pin EXCEPT ![c] = 0]
        /\ UNCHANGED <<table, id, to, fate>>
    BY <1>6 DEF Ask
  <2>2. \A d \in Callers : UnderWay(d)' => d # c /\ UnderWay(d) /\ pin'[d] = pin[d]
    BY <1>1, <2>1 DEF UnderWay
  <2>3. TypeOK'
    BY <1>1, <1>2, <2>1, ZeroIsAGeneration DEF TypeOK, session, table, channel, server, reader
  <2>4. SessionShape' /\ Owners' /\ Earned'
    BY <1>2, <2>1 DEF SessionShape, Owners, Earned, session, table, channel, server, reader
  <2>5. CallShape'
    BY <2>1, <2>2 DEF CallShape, table
  <2>6. Reachable'
    BY <1>2, <2>1, <2>2 DEF Reachable, session, table, channel, reader
  <2> QED
    BY <1>5, <2>3, <2>4, <2>5, <2>6
<1>7. CASE MayAsk(c)
  <2> DEFINE n == FreshID
  <2>1. /\ step' = [step EXCEPT ![c] = "write"] /\ pin' = pin
        /\ nextID' = n /\ pending' = pending \cup {n}
        /\ id' = [id EXCEPT ![c] = n] /\ to' = [to EXCEPT ![c] = generation]
        /\ fate' = [fate EXCEPT ![n] = "open"]
    BY <1>7 DEF Ask
  <2>2. started /\ (pin[c] = 0 \/ pin[c] = generation)
    BY <1>7 DEF MayAsk
  <2>3. n \in Ids /\ n > nextID /\ n = nextID + 1 /\ n \in Nat
    BY <1>1, <1>3
  <2> HIDE DEF n
  <2>4. n \notin pending /\ n \notin drain /\ closes[n] = 0
    <3>1. closes[n] \in Nat
      BY <2>3 DEF TypeOK
    <3> QED
      BY <1>1, <2>3, <3>1, IdsAreNumbers DEF Owners
  <2>5. \A d \in Callers : UnderWay(d)' =>
          \/ d = c /\ id'[d] = n
          \/ d # c /\ UnderWay(d) /\ id'[d] = id[d] /\ id[d] <= nextID /\ id[d] \in Ids /\ id[d] # n
    BY <1>1, <2>1, <2>3, IdsAreNumbers DEF UnderWay, CallShape
  <2>6. TypeOK'
    <3>1. nextID' \in 0 .. Cardinality(Ids)
      BY <2>1, <2>3, Constants
    <3> QED
      BY <1>1, <1>2, <2>1, <2>3, <3>1 DEF TypeOK, session, channel, server, reader
  <2>7. SessionShape'
    BY <1>2, <2>1, <2>2 DEF SessionShape, session, reader
  <2>8. CallShape'
    <3>1. \A d \in Callers : UnderWay(d)' =>
            /\ id'[d] \in Ids /\ id'[d] <= nextID' /\ fate'[id'[d]] = "open"
            /\ pin'[d] = 0 \/ to'[d] = pin'[d]
      <4> SUFFICES ASSUME NEW d \in Callers, UnderWay(d)'
                   PROVE  /\ id'[d] \in Ids /\ id'[d] <= nextID' /\ fate'[id'[d]] = "open"
                          /\ pin'[d] = 0 \/ to'[d] = pin'[d]
        OBVIOUS
      <4>1. CASE d = c
        <5>1. id'[c] = n /\ to'[c] = generation /\ pin'[c] = pin[c]
          BY <1>1, <2>1
        <5>2. fate'[n] = "open" /\ n <= nextID'
          BY <1>1, <2>1, <2>3
        <5> QED
          BY <4>1, <5>1, <5>2, <2>2, <2>3
      <4>2. CASE d # c
        <5>1. UnderWay(d) /\ id'[d] = id[d] /\ id[d] <= nextID /\ id[d] \in Ids /\ id[d] # n
          BY <4>2, <2>5
        <5>2. fate[id[d]] = "open" /\ (pin[d] = 0 \/ to[d] = pin[d])
          BY <5>1 DEF CallShape
        <5>3. fate'[id[d]] = fate[id[d]] /\ to'[d] = to[d]
          BY <4>2, <5>1, <1>1, <2>1
        <5>4. id[d] <= nextID'
          <6>1. id[d] \in Nat /\ nextID' = nextID + 1 /\ nextID \in Nat
            BY <5>1, <1>1, <2>1, <2>3, IdsAreNumbers
          <6> QED
            BY <5>1, <6>1
        <5> QED
          BY <5>1, <5>2, <5>3, <5>4, <2>1
      <4> QED
        BY <4>1, <4>2
    <3>2. \A d, e \in Callers : UnderWay(d)' /\ UnderWay(e)' /\ id'[d] = id'[e] => d = e
      BY <2>5 DEF CallShape
    <3>3. \A i \in Ids : i > nextID' => fate'[i] = "unused"
      BY <1>1, <2>1, <2>3, IdsAreNumbers DEF CallShape
    <3> QED
      BY <3>1, <3>2, <3>3 DEF CallShape
  <2>9. Owners'
    <3>1. /\ drain' = drain /\ closes' = closes /\ reading' = reading /\ holds' = holds
      BY <1>2 DEF session, channel, reader
    <3>2. \A i \in Ids : i <= nextID => i <= nextID' /\ i # n
      BY <1>1, <2>1, <2>3, IdsAreNumbers
    <3>3. pending' \cap drain' = {}
      BY <2>1, <2>4, <3>1 DEF Owners
    <3>4. \A i \in pending' \cup drain' : i <= nextID' /\ closes'[i] = 0
      BY <1>1, <2>1, <2>3, <2>4, <3>1, <3>2 DEF Owners
    <3>5. \A g \in Generations : reading'[g] = "hold" =>
            /\ holds'[g] \in Ids /\ holds'[g] <= nextID'
            /\ holds'[g] \notin pending' \cup drain' /\ closes'[holds'[g]] = 0
      BY <2>1, <3>1, <3>2 DEF Owners
    <3>6. \A i \in Ids : closes'[i] <= 1 /\ (closes'[i] > 0 => i <= nextID')
      BY <3>1, <3>2 DEF Owners
    <3>7. \A g, h \in Generations :
            reading'[g] = "hold" /\ reading'[h] = "hold" /\ holds'[g] = holds'[h] => g = h
      BY <3>1 DEF Owners
    <3> QED
      BY <3>3, <3>4, <3>5, <3>6, <3>7 DEF Owners
  <2>10. Reachable'
    BY <1>2, <2>1, <2>5 DEF Reachable, session, channel, reader
  <2>11. Earned'
    <3>1. UNCHANGED <<told, closes, served, out, inbox, reading, holds>>
      BY <1>2 DEF channel, server, reader
    <3>2. \A i \in Ids : fate'[i] = fate[i] \/ i = n
      BY <1>1, <2>1, <2>3
    <3>3. fate'[n] = "open"
      BY <1>1, <2>1, <2>3
    <3>4. \A g \in Generations : inbox[g] \subseteq Ids
      BY DEF TypeOK
    <3> QED
      BY <2>4, <3>1, <3>2, <3>3, <3>4 DEF Earned
  <2> QED
    BY <1>5, <2>6, <2>7, <2>8, <2>9, <2>10, <2>11
<1> QED
  BY <1>6, <1>7

LEMMA LeavesFacts ==
  ASSUME IInv, NEW c \in Callers, UnderWay(c), NEW end \in {"result", "error"}, Leaves(c, end)
  PROVE  /\ step' = [step EXCEPT ![c] = "idle"] /\ fate' = [fate EXCEPT ![id[c]] = end]
         /\ step' \in [Callers -> {"idle", "ask", "write", "wait"}]
         /\ pin' \in [Callers -> Generations] /\ to' \in [Callers -> Generations]
         /\ fate' \in [Ids -> {"unused", "open", "result", "error"}]
         /\ id[c] \in Ids /\ fate'[id[c]] = end /\ id[c] <= nextID
         /\ \A i \in Ids : i # id[c] => fate'[i] = fate[i]
         /\ \A d \in Callers : UnderWay(d)' => /\ d # c /\ UnderWay(d) /\ id[d] # id[c]
                                                /\ pin'[d] = pin[d] /\ to'[d] = to[d]
<1> USE DEF IInv
<1>1. /\ step \in [Callers -> {"idle", "ask", "write", "wait"}] /\ pin \in [Callers -> Generations]
      /\ to \in [Callers -> Generations] /\ fate \in [Ids -> {"unused", "open", "result", "error"}]
  BY DEF TypeOK
<1>2. id[c] \in Ids /\ id[c] <= nextID
  BY DEF CallShape
<1>3. /\ step' = [step EXCEPT ![c] = "idle"] /\ fate' = [fate EXCEPT ![id[c]] = end]
      /\ pin' = [pin EXCEPT ![c] = 0] /\ to' = [to EXCEPT ![c] = 0]
  BY DEF Leaves
<1>4. \A d \in Callers : UnderWay(d)' => /\ d # c /\ UnderWay(d)
                                         /\ pin'[d] = pin[d] /\ to'[d] = to[d]
  BY <1>1, <1>3 DEF UnderWay
<1>5. \A d \in Callers : UnderWay(d) /\ d # c => id[d] # id[c]
  BY DEF CallShape
<1> QED
  BY <1>1, <1>2, <1>3, <1>4, <1>5, ZeroIsAGeneration

\* A caller that leaves disturbs neither the other callers nor what was served.
LEMMA LeavingKeepsCalls ==
  ASSUME IInv, NEW c \in Callers, UnderWay(c), NEW end \in {"result", "error"}, Leaves(c, end),
         UNCHANGED <<nextID, generation, id>>
  PROVE  /\ CallShape' /\ IdsSuffice'
         /\ \A i \in Ids : fate'[i] = "open" => fate[i] = "open" /\ i # id[c]
         /\ \A i \in Ids : fate[i] # "unused" => fate'[i] # "unused"
<1> USE DEF IInv
<1>1. /\ step' = [step EXCEPT ![c] = "idle"] /\ id[c] \in Ids /\ fate'[id[c]] = end /\ id[c] <= nextID
      /\ \A i \in Ids : i # id[c] => fate'[i] = fate[i]
      /\ \A d \in Callers : UnderWay(d)' => /\ d # c /\ UnderWay(d) /\ id[d] # id[c]
                                             /\ pin'[d] = pin[d] /\ to'[d] = to[d]
  BY LeavesFacts
<1>2. CallShape'
  <2>1. \A i \in Ids : i > nextID => i # id[c]
    BY <1>1, IdsAreNumbers DEF TypeOK
  <2> QED
    BY <1>1, <2>1 DEF CallShape
<1>3. IdsSuffice'
  <2>1. Cardinality(Asking') = Cardinality(Asking)
    BY <1>1, AskingChanges DEF UnderWay
  <2> QED
    BY <2>1 DEF IdsSuffice
<1> QED
  BY <1>1, <1>2, <1>3

LEMMA WriteKeeps ==
  ASSUME IInv, NEW c \in Callers, Write(c)
  PROVE  IInv'
<1> USE DEF IInv
<1>1. UnderWay(c) /\ UNCHANGED <<session, table, channel, id, proc, out, served, reader>>
  BY DEF Write, UnderWay
<1>2. /\ step \in [Callers -> {"idle", "ask", "write", "wait"}] /\ to \in [Callers -> Generations]
      /\ inbox \in [Generations -> SUBSET Ids]
  BY DEF TypeOK
<1>3. id[c] \in Ids /\ fate[id[c]] = "open"
  BY <1>1 DEF CallShape
<1>4. SessionShape' /\ Owners'
  BY <1>1 DEF SessionShape, Owners, session, table, channel, reader
<1>5. CASE proc[to[c]] = "up"
  <2>1. /\ inbox' = [inbox EXCEPT ![to[c]] = @ \cup {id[c]}] /\ step' = [step EXCEPT ![c] = "wait"]
        /\ UNCHANGED <<fate, pin, to>>
    BY <1>5 DEF Write
  <2>2. TypeOK'
    BY <1>1, <1>2, <1>3, <2>1 DEF TypeOK, session, table, channel, reader
  <2>3. \A d \in Callers : UnderWay(d)' <=> UnderWay(d)
    BY <1>1, <1>2, <2>1 DEF UnderWay
  <2>4. IdsSuffice'
    <3>1. step[c] = "write"
      BY DEF Write
    <3>2. Cardinality(Asking') = Cardinality(Asking)
      BY <2>1, <3>1, AskingChanges
    <3> QED
      BY <1>1, <3>2 DEF IdsSuffice, session, table
  <2>5. CallShape' /\ Reachable'
    BY <1>1, <2>1, <2>3 DEF CallShape, Reachable, session, table, channel, reader
  <2>6. Earned'
    <3>1. \A g \in Generations : inbox'[g] \subseteq inbox[g] \cup {id[c]}
      BY <1>2, <2>1
    <3> QED
      BY <1>1, <1>3, <2>1, <3>1 DEF Earned, channel, reader
  <2> QED
    BY <1>4, <2>2, <2>4, <2>5, <2>6
<1>6. CASE proc[to[c]] # "up"
  <2>1. Leaves(c, "error") /\ inbox' = inbox
    BY <1>6 DEF Write
  <2>2. TypeOK'
    BY <1>1, <2>1, LeavesFacts DEF TypeOK, session, table, channel, reader
  <2>3. UNCHANGED <<nextID, generation, id>>
    BY <1>1 DEF session, table
  <2>4. /\ CallShape' /\ IdsSuffice'
        /\ \A i \in Ids : fate'[i] = "open" => fate[i] = "open"
        /\ \A i \in Ids : fate[i] # "unused" => fate'[i] # "unused"
    BY <1>1, <2>1, <2>3, LeavingKeepsCalls
  <2>5. Reachable'
    <3>1. \A d \in Callers : UnderWay(d)' => UnderWay(d)
      BY <1>1, <2>1, LeavesFacts
    <3> QED
      BY <1>1, <3>1 DEF Reachable, session, table, channel, reader
  <2>6. Earned'
    BY <1>1, <1>2, <2>1, <2>4 DEF Earned, channel, reader
  <2> QED
    BY <1>4, <2>2, <2>4, <2>5, <2>6
<1> QED
  BY <1>5, <1>6

LEMMA ReceiveKeeps ==
  ASSUME IInv, NEW c \in Callers, Receive(c)
  PROVE  IInv'
<1> USE DEF IInv
<1>1. UnderWay(c) /\ UNCHANGED <<session, table, closes, id, server, reader>>
  BY DEF Receive, UnderWay
<1> DEFINE end == IF told[id[c]] = "error" THEN "error" ELSE "result"
<1>2. Leaves(c, end) /\ told' = [told EXCEPT ![id[c]] = "none"]
  BY DEF Receive
<1>3. end \in {"result", "error"}
  OBVIOUS
<1> HIDE DEF end
<1>4. told \in [Ids -> {"none", "result", "error"}] /\ \A g \in Generations : inbox[g] \subseteq Ids
  BY DEF TypeOK
<1>5. /\ step' \in [Callers -> {"idle", "ask", "write", "wait"}]
      /\ pin' \in [Callers -> Generations] /\ to' \in [Callers -> Generations]
      /\ fate' \in [Ids -> {"unused", "open", "result", "error"}] /\ id[c] \in Ids
      /\ \A d \in Callers : UnderWay(d)' => UnderWay(d) /\ id[d] # id[c]
  BY <1>1, <1>2, <1>3, LeavesFacts
<1>6. TypeOK'
  BY <1>1, <1>2, <1>4, <1>5 DEF TypeOK, session, table, server, reader
<1>7. UNCHANGED <<nextID, generation, id>>
  BY <1>1 DEF session, table
<1>8. /\ CallShape' /\ IdsSuffice'
      /\ \A i \in Ids : fate'[i] = "open" => fate[i] = "open" /\ i # id[c]
      /\ \A i \in Ids : fate[i] # "unused" => fate'[i] # "unused"
  BY <1>1, <1>2, <1>3, <1>7, LeavingKeepsCalls
<1>9. SessionShape' /\ Owners'
  BY <1>1 DEF SessionShape, Owners, session, table, reader
<1>10. Reachable'
  BY <1>1, <1>5 DEF Reachable, session, table, reader
<1>11. Earned'
  <2>1. \A i \in Ids : told'[i] = IF i = id[c] THEN "none" ELSE told[i]
    BY <1>2, <1>4
  <2> QED
    BY <1>1, <1>4, <1>8, <2>1 DEF Earned, server, reader
<1> QED
  BY <1>6, <1>8, <1>9, <1>10, <1>11

LEMMA TimeoutKeeps ==
  ASSUME IInv, NEW c \in Callers, Timeout(c)
  PROVE  IInv'
<1> USE DEF IInv
<1>1. UnderWay(c) /\ UNCHANGED <<session, nextID, closes, id, server, reader>>
  BY DEF Timeout, GivesUp, UnderWay
<1>2. /\ Leaves(c, "error") /\ told' = [told EXCEPT ![id[c]] = "none"]
      /\ pending' = pending \ {id[c]}
  BY DEF Timeout
<1>4. /\ told \in [Ids -> {"none", "result", "error"}] /\ \A g \in Generations : inbox[g] \subseteq Ids
      /\ pending \subseteq Ids
  BY DEF TypeOK
<1>5. /\ step' \in [Callers -> {"idle", "ask", "write", "wait"}]
      /\ pin' \in [Callers -> Generations] /\ to' \in [Callers -> Generations]
      /\ fate' \in [Ids -> {"unused", "open", "result", "error"}] /\ id[c] \in Ids
      /\ \A d \in Callers : UnderWay(d)' => UnderWay(d) /\ id[d] # id[c]
  BY <1>1, <1>2, LeavesFacts
<1>6. TypeOK'
  BY <1>1, <1>2, <1>4, <1>5 DEF TypeOK, session, server, reader
<1>7. UNCHANGED <<nextID, generation, id>>
  BY <1>1 DEF session
<1>8. /\ CallShape' /\ IdsSuffice'
      /\ \A i \in Ids : fate'[i] = "open" => fate[i] = "open" /\ i # id[c]
      /\ \A i \in Ids : fate[i] # "unused" => fate'[i] # "unused"
  BY <1>1, <1>2, <1>7, LeavingKeepsCalls
<1>9. SessionShape' /\ Owners'
  BY <1>1, <1>2 DEF SessionShape, Owners, session, reader
<1>10. Reachable'
  BY <1>1, <1>2, <1>5 DEF Reachable, session, reader
<1>11. Earned'
  <2>1. \A i \in Ids : told'[i] = IF i = id[c] THEN "none" ELSE told[i]
    BY <1>2, <1>4
  <2> QED
    BY <1>1, <1>4, <1>8, <2>1 DEF Earned, server, reader
<1> QED
  BY <1>6, <1>8, <1>9, <1>10, <1>11

-----------------------------------------------------------------------------
(* The steps of the holder of startMu.                                      *)

LEMMA StartKeeps ==
  ASSUME IInv, Start
  PROVE  IInv'
<1> USE DEF IInv
<1>1. /\ stage = "free" /\ ~started /\ generation < MaxGeneration
      /\ started' = TRUE /\ generation' = generation + 1 /\ stage' = "initialize"
      /\ proc' = [proc EXCEPT ![generation'] = "up"]
      /\ reading' = [reading EXCEPT ![generation'] = "begin"]
      /\ step' = [step EXCEPT ![Boot] = "ask"]
      /\ UNCHANGED <<drain, table, channel, id, pin, to, fate, inbox, out, served, from, holds>>
  BY DEF Start
<1>2. /\ step \in [Callers -> {"idle", "ask", "write", "wait"}]
      /\ proc \in [Generations -> {"none", "up", "closing", "dead"}]
      /\ reading \in [Generations -> {"none", "begin", "scan", "hold", "gone"}]
      /\ generation \in Nat /\ nextID \in Nat
  BY ZeroIsAGeneration DEF TypeOK
<1>3. Boot \in Callers
  BY DEF Callers
<1>4. generation' \in Generations /\ generation' <= MaxGeneration
  BY <1>1, <1>2, Constants DEF Generations
<1>5. TypeOK'
  BY <1>1, <1>2, <1>3, <1>4 DEF TypeOK, table, channel
<1>6. SessionShape'
  <2>1. \A g \in Generations : g > generation' => g > generation /\ reading'[g] = reading[g]
    BY <1>1, <1>2, <1>4, ZeroIsAGeneration
  <2> QED
    BY <1>1, <1>4, <2>1 DEF SessionShape, table
<1>7. IdsSuffice'
  <2>1. Cardinality(Asking') <= Cardinality(Asking) + 1 /\ Cardinality(Asking') \in Nat
    BY <1>1, <1>3, AskingChanges
  <2> QED
    BY <1>1, <1>2, <2>1, AskingIsFinite, Constants DEF IdsSuffice, table
<1>8. \A c \in Callers : UnderWay(c)' => UnderWay(c)
  BY <1>1, <1>2, <1>3 DEF UnderWay
<1>9. \A g \in Generations : reading'[g] = "hold" <=> reading[g] = "hold"
  <2>1. generation' > generation
    BY <1>1, <1>2
  <2>2. reading[generation'] = "none"
    BY <1>4, <2>1 DEF SessionShape
  <2> QED
    BY <1>1, <1>2, <1>4, <2>2
<1>10. CallShape' /\ Reachable'
  BY <1>1, <1>8, <1>9 DEF CallShape, Reachable, table, channel
<1>11. Owners' /\ Earned'
  BY <1>1, <1>9 DEF Owners, Earned, table, channel
<1> QED
  BY <1>5, <1>6, <1>7, <1>10, <1>11

\* What closeRunning takes out of the table goes to the closer.
LEMMA DetachesKeeps ==
  ASSUME IInv, Detaches, started, generation <= MaxGeneration, stage # "drain",
         UNCHANGED <<nextID, channel, calls, inbox, out, served, reader>>
  PROVE  IInv'
<1> USE DEF IInv
<1>1. /\ drain' = pending /\ pending' = {} /\ started' = FALSE
      /\ generation' = generation + 1 /\ stage' = "drain"
      /\ proc' = [proc EXCEPT ![generation] = IF @ = "up" THEN "closing" ELSE @]
  BY DEF Detaches, Detach
<1>2. generation \in Generations /\ generation \in Nat /\ nextID \in Nat /\ drain = {}
  BY ZeroIsAGeneration DEF TypeOK, SessionShape
<1>3. generation' \in Generations
  BY <1>1, <1>2, Constants DEF Generations
<1>4. proc' \in [Generations -> {"none", "up", "closing", "dead"}]
  BY <1>1 DEF TypeOK
<1>5. TypeOK'
  BY <1>1, <1>3, <1>4 DEF TypeOK, channel, calls, reader
<1>6. SessionShape'
  <2>1. \A g \in Generations : g > generation' => g > generation
    BY <1>1, <1>2, ZeroIsAGeneration
  <2> QED
    BY <1>1, <2>1 DEF SessionShape, reader
<1>7. IdsSuffice'
  <2>1. Cardinality(Asking') = Cardinality(Asking)
    BY DEF Asking, calls
  <2> QED
    BY <1>1, <1>2, <2>1, AskingIsFinite, Constants DEF IdsSuffice
<1>8. CallShape' /\ Reachable' /\ Owners' /\ Earned'
  BY <1>1, <1>2 DEF CallShape, Reachable, Owners, Earned, UnderWay, channel, calls, reader
<1> QED
  BY <1>5, <1>6, <1>7, <1>8

LEMMA InitializedKeeps ==
  ASSUME IInv, Initialized
  PROVE  IInv'
<1> USE DEF IInv
<1>1. /\ stage = "initialize" /\ started /\ generation <= MaxGeneration
      /\ UNCHANGED <<nextID, channel, calls, inbox, out, served, reader>>
  BY DEF Initialized, SessionShape
<1>2. CASE fate[id[Boot]] = "result" /\ proc[generation] = "up"
  <2>1. stage' = "free" /\ UNCHANGED <<started, generation, drain, pending, proc>>
    BY <1>2 DEF Initialized
  <2>2. TypeOK' /\ SessionShape'
    BY <1>1, <2>1 DEF TypeOK, SessionShape, channel, calls, reader
  <2>3. Cardinality(Asking') = Cardinality(Asking)
    BY <1>1 DEF Asking, calls
  <2>4. IdsSuffice'
    BY <1>1, <2>1, <2>3 DEF IdsSuffice
  <2>5. CallShape' /\ Reachable' /\ Owners' /\ Earned'
    BY <1>1, <2>1 DEF CallShape, Reachable, Owners, Earned, UnderWay, channel, calls, reader
  <2> QED
    BY <2>2, <2>4, <2>5
<1>3. CASE ~(fate[id[Boot]] = "result" /\ proc[generation] = "up")
  <2>1. Detaches
    BY <1>3 DEF Initialized
  <2> QED
    BY <1>1, <2>1, DetachesKeeps
<1> QED
  BY <1>2, <1>3

LEMMA CloseKeeps ==
  ASSUME IInv, Close
  PROVE  IInv'
<1>1. generation <= MaxGeneration
  BY Constants, ZeroIsAGeneration DEF Close, IInv, TypeOK
<1> QED
  BY <1>1, DetachesKeeps DEF Close

LEMMA DrainsKeeps ==
  ASSUME IInv, Drains
  PROVE  IInv'
<1> USE DEF IInv
<1>1. PICK i \in drain : /\ told' = [told EXCEPT ![i] = Fail(i)]
                         /\ closes' = [closes EXCEPT ![i] = @ + 1]
                         /\ drain' = drain \ {i}
  BY DEF Drains
<1>2. stage = "drain" /\ UNCHANGED <<started, generation, stage, table, calls, server, reader>>
  BY DEF Drains
<1>3. /\ i \in Ids /\ told \in [Ids -> {"none", "result", "error"}] /\ closes \in [Ids -> Nat]
      /\ pending \subseteq Ids /\ drain \subseteq Ids
  BY DEF TypeOK
<1>4. Fail(i) \in {"none", "result", "error"} /\ (Fail(i) = "result" => told[i] = "result")
      /\ (fate[i] = "open" => Fail(i) # "none")
  BY <1>3 DEF Fail
<1>5. /\ \A j \in Ids : j # i => told'[j] = told[j] /\ closes'[j] = closes[j]
      /\ told'[i] = Fail(i) /\ closes'[i] = 1
  <2>1. closes[i] = 0
    BY DEF Owners
  <2> QED
    BY <1>1, <1>3, <2>1
<1>6. TypeOK'
  BY <1>1, <1>2, <1>3, <1>4 DEF TypeOK, table, calls, server, reader
<1>7. SessionShape'
  BY <1>1, <1>2 DEF SessionShape, table, reader
<1>8. IdsSuffice'
  <2>1. Cardinality(Asking') = Cardinality(Asking)
    BY <1>2 DEF Asking, calls
  <2> QED
    BY <1>2, <2>1 DEF IdsSuffice, table
<1>9. CallShape'
  BY <1>2 DEF CallShape, UnderWay, table, calls
<1>10. Reachable'
  <2>1. \A c \in Callers : UnderWay(c)' => UnderWay(c) /\ id'[c] = id[c] /\ id[c] \in Ids
    BY <1>2 DEF CallShape, UnderWay, calls
  <2> QED
    BY <1>1, <1>2, <1>5, <2>1 DEF Reachable, table, reader
<1>11. Owners'
  <2>1. i <= nextID /\ i \notin pending
    BY DEF Owners
  <2>2. \A g \in Generations : reading[g] = "hold" => holds[g] # i
    BY DEF Owners
  <2> QED
    BY <1>1, <1>2, <1>3, <1>5, <2>1, <2>2 DEF Owners, table, reader
<1>12. Earned'
  BY <1>2, <1>4, <1>5 DEF Earned, calls, server, reader
<1> QED
  BY <1>6, <1>7, <1>8, <1>9, <1>10, <1>11, <1>12

LEMMA KillsKeeps ==
  ASSUME IInv, Kills
  PROVE  IInv'
<1> USE DEF IInv
<1>1. /\ stage = "drain" /\ drain = {} /\ stage' = "free"
      /\ proc' = [proc EXCEPT ![generation - 1] = "dead"]
      /\ inbox' = [inbox EXCEPT ![generation - 1] = {}]
      /\ out' = [out EXCEPT ![generation - 1] = {}]
      /\ UNCHANGED <<started, generation, drain, table, channel, calls, served, reader>>
  BY DEF Kills
<1>2. /\ proc \in [Generations -> {"none", "up", "closing", "dead"}]
      /\ inbox \in [Generations -> SUBSET Ids] /\ out \in [Generations -> SUBSET Ids]
  BY DEF TypeOK
<1>3. \A g \in Generations : inbox'[g] \subseteq inbox[g] /\ out'[g] \subseteq out[g]
  BY <1>1, <1>2
<1>4. TypeOK' /\ SessionShape'
  BY <1>1, <1>2 DEF TypeOK, SessionShape, table, channel, calls, reader
<1>5. Cardinality(Asking') = Cardinality(Asking)
  BY <1>1 DEF Asking, calls
<1>6. IdsSuffice'
  BY <1>1, <1>5 DEF IdsSuffice, table
<1>7. CallShape' /\ Reachable' /\ Owners'
  BY <1>1 DEF CallShape, Reachable, Owners, UnderWay, table, channel, calls, reader
<1>8. Earned'
  BY <1>1, <1>3 DEF Earned, channel, calls, reader
<1> QED
  BY <1>4, <1>6, <1>7, <1>8

-----------------------------------------------------------------------------
(* The steps of the App Server and of the readers.                          *)

LEMMA ServeKeeps ==
  ASSUME IInv, NEW g \in Generations, NEW i \in inbox[g], Serve(g, i)
  PROVE  IInv'
<1> USE DEF IInv
<1>1. /\ inbox' = [inbox EXCEPT ![g] = @ \ {i}] /\ out' = [out EXCEPT ![g] = @ \cup {i}]
      /\ served' = served \cup {i}
      /\ UNCHANGED <<session, table, channel, calls, proc, reader>>
  BY DEF Serve
<1>2. /\ inbox \in [Generations -> SUBSET Ids] /\ out \in [Generations -> SUBSET Ids]
      /\ served \subseteq Ids /\ i \in Ids
  BY DEF TypeOK
<1>3. \A h \in Generations : inbox'[h] \subseteq inbox[h] /\ out'[h] \subseteq out[h] \cup {i}
  BY <1>1, <1>2
<1>4. TypeOK' /\ SessionShape'
  BY <1>1, <1>2 DEF TypeOK, SessionShape, session, table, channel, calls, reader
<1>5. Cardinality(Asking') = Cardinality(Asking)
  BY <1>1 DEF Asking, calls
<1>6. IdsSuffice'
  BY <1>1, <1>5 DEF IdsSuffice, session, table
<1>7. CallShape' /\ Reachable' /\ Owners'
  BY <1>1 DEF CallShape, Reachable, Owners, UnderWay, session, table, channel, calls, reader
<1>8. Earned'
  BY <1>1, <1>3 DEF Earned, channel, calls, reader
<1> QED
  BY <1>4, <1>6, <1>7, <1>8

LEMMA ProcessDiesKeeps ==
  ASSUME IInv, NEW g \in Generations, ProcessDies(g)
  PROVE  IInv'
<1> USE DEF IInv
<1>1. /\ proc' = [proc EXCEPT ![g] = "dead"] /\ inbox' = [inbox EXCEPT ![g] = {}]
      /\ UNCHANGED <<session, table, channel, calls, out, served, reader>>
  BY DEF ProcessDies
<1>2. /\ inbox \in [Generations -> SUBSET Ids]
      /\ proc \in [Generations -> {"none", "up", "closing", "dead"}]
  BY DEF TypeOK
<1>3. \A h \in Generations : inbox'[h] \subseteq inbox[h]
  BY <1>1, <1>2
<1>4. TypeOK' /\ SessionShape'
  BY <1>1, <1>2 DEF TypeOK, SessionShape, session, table, channel, calls, reader
<1>5. Cardinality(Asking') = Cardinality(Asking)
  BY <1>1 DEF Asking, calls
<1>6. IdsSuffice'
  BY <1>1, <1>5 DEF IdsSuffice, session, table
<1>7. CallShape' /\ Reachable' /\ Owners'
  BY <1>1 DEF CallShape, Reachable, Owners, UnderWay, session, table, channel, calls, reader
<1>8. Earned'
  BY <1>1, <1>3 DEF Earned, channel, calls, reader
<1> QED
  BY <1>4, <1>6, <1>7, <1>8

\* A reader that begins or ends holds nothing.
LEMMA ReaderChangesKeeps ==
  ASSUME IInv, NEW g \in Generations, reading[g] # "hold", reading[g] # "none",
         NEW s \in {"begin", "scan", "gone"}, reading' = [reading EXCEPT ![g] = s],
         from' \in [Generations -> Generations], holds' = holds,
         out' \in [Generations -> SUBSET Ids], \A h \in Generations : out'[h] \subseteq out[h],
         UNCHANGED <<session, table, channel, calls, proc, inbox, served>>
  PROVE  IInv'
<1> USE DEF IInv
<1>1. reading \in [Generations -> {"none", "begin", "scan", "hold", "gone"}]
  BY DEF TypeOK
<1>2. \A h \in Generations : reading'[h] = "hold" <=> reading[h] = "hold"
  BY <1>1
<1>3. TypeOK'
  BY <1>1 DEF TypeOK, session, table, channel, calls
<1>4. SessionShape'
  <2>1. \A h \in Generations : reading[h] = "none" => reading'[h] = "none"
    BY <1>1
  <2> QED
    BY <2>1 DEF SessionShape, session, table
<1>5. Cardinality(Asking') = Cardinality(Asking)
  BY DEF Asking, calls
<1>6. IdsSuffice'
  BY <1>5 DEF IdsSuffice, session, table
<1>7. CallShape' /\ Reachable' /\ Owners'
  BY <1>2 DEF CallShape, Reachable, Owners, UnderWay, session, table, channel, calls
<1>8. Earned'
  BY <1>2 DEF Earned, channel, calls
<1> QED
  BY <1>3, <1>4, <1>6, <1>7, <1>8

LEMMA ReaderBeginsKeeps ==
  ASSUME IInv, NEW g \in Generations, ReaderBegins(g)
  PROVE  IInv'
<1> DEFINE s == IF started THEN "scan" ELSE "gone"
<1>1. /\ reading[g] = "begin" /\ reading' = [reading EXCEPT ![g] = s] /\ s \in {"begin", "scan", "gone"}
      /\ UNCHANGED <<session, table, channel, calls, server, holds>>
  BY DEF ReaderBegins
<1>2. from' \in [Generations -> Generations]
  BY ZeroIsAGeneration DEF ReaderBegins, IInv, TypeOK
<1>3. out' = out /\ out' \in [Generations -> SUBSET Ids] /\ UNCHANGED <<proc, inbox, served>>
  BY <1>1 DEF server, IInv, TypeOK
<1> QED
  BY <1>1, <1>2, <1>3, ReaderChangesKeeps

LEMMA ReaderEndsKeeps ==
  ASSUME IInv, NEW g \in Generations, ReaderEnds(g)
  PROVE  IInv'
<1>1. /\ reading[g] = "scan" /\ reading' = [reading EXCEPT ![g] = "gone"]
      /\ UNCHANGED <<session, table, channel, calls, server, from, holds>>
  BY DEF ReaderEnds
<1>2. from' \in [Generations -> Generations]
  BY <1>1 DEF IInv, TypeOK
<1>3. out' = out /\ out' \in [Generations -> SUBSET Ids] /\ UNCHANGED <<proc, inbox, served>>
  BY <1>1 DEF server, IInv, TypeOK
<1> QED
  BY <1>1, <1>2, <1>3, ReaderChangesKeeps

LEMMA ReaderTakesKeeps ==
  ASSUME IInv, NEW g \in Generations, ReaderTakes(g)
  PROVE  IInv'
<1> USE DEF IInv
<1>1. /\ reading[g] = "scan"
      /\ UNCHANGED <<session, nextID, channel, calls, proc, inbox, served, from>>
  BY DEF ReaderTakes
<1>2. PICK i \in out[from[g]] :
        /\ out' = [out EXCEPT ![from[g]] = @ \ {i}]
        /\ IF ~Current(g)
           THEN reading' = [reading EXCEPT ![g] = "gone"] /\ UNCHANGED <<pending, holds>>
           ELSE /\ pending' = pending \ {i}
                /\ IF i \in pending
                   THEN /\ reading' = [reading EXCEPT ![g] = "hold"]
                        /\ holds' = [holds EXCEPT ![g] = i]
                   ELSE UNCHANGED <<reading, holds>>
  BY DEF ReaderTakes, Taken
<1>3. /\ out \in [Generations -> SUBSET Ids] /\ from \in [Generations -> Generations]
      /\ reading \in [Generations -> {"none", "begin", "scan", "hold", "gone"}]
      /\ holds \in [Generations -> Ids \cup {0}]
  BY DEF TypeOK
<1>4. /\ i \in Ids /\ i \in served
      /\ out' \in [Generations -> SUBSET Ids] /\ \A h \in Generations : out'[h] \subseteq out[h]
  BY <1>2, <1>3 DEF Earned
<1>5. CASE ~Current(g)
  <2>1. reading' = [reading EXCEPT ![g] = "gone"] /\ UNCHANGED <<pending, holds>>
    BY <1>2, <1>5
  <2> QED
    BY <1>1, <1>3, <1>4, <2>1, ReaderChangesKeeps DEF table
<1>6. CASE Current(g) /\ i \notin pending
  <2>1. reading' = [reading EXCEPT ![g] = "scan"] /\ UNCHANGED <<pending, holds>>
    BY <1>1, <1>2, <1>3, <1>6
  <2> QED
    BY <1>1, <1>3, <1>4, <2>1, ReaderChangesKeeps DEF table
<1>7. CASE Current(g) /\ i \in pending
  <2>1. /\ pending' = pending \ {i} /\ reading' = [reading EXCEPT ![g] = "hold"]
        /\ holds' = [holds EXCEPT ![g] = i]
    BY <1>2, <1>7
  <2>2. \A h \in Generations : reading'[h] = "hold" =>
          \/ h = g /\ holds'[h] = i
          \/ h # g /\ reading[h] = "hold" /\ holds'[h] = holds[h] /\ holds[h] # i
    <3>1. \A h \in Generations : reading[h] = "hold" => holds[h] # i
      BY <1>7 DEF Owners
    <3> QED
      BY <1>3, <2>1, <3>1
  <2>3. reading'[g] = "hold" /\ holds'[g] = i
    BY <1>3, <2>1
  <2>4. \A h \in Generations : reading[h] = "hold" => reading'[h] = "hold" /\ holds'[h] = holds[h]
    BY <1>1, <1>3, <2>1
  <2>5. TypeOK'
    BY <1>1, <1>3, <1>4, <2>1 DEF TypeOK, session, channel, calls
  <2>6. SessionShape'
    <3>1. \A h \in Generations : reading[h] = "none" => reading'[h] = "none"
      BY <1>1, <1>3, <2>1
    <3> QED
      BY <1>1, <2>1, <3>1 DEF SessionShape, session
  <2>7. Cardinality(Asking') = Cardinality(Asking)
    BY <1>1 DEF Asking, calls
  <2>8. IdsSuffice'
    BY <1>1, <2>7 DEF IdsSuffice, session
  <2>9. CallShape'
    BY <1>1 DEF CallShape, UnderWay, calls
  <2>10. Reachable'
    BY <1>1, <2>1, <2>3, <2>4 DEF Reachable, UnderWay, session, channel, calls
  <2>11. Owners'
    <3>1. i <= nextID /\ closes[i] = 0 /\ i \notin drain
      BY <1>7 DEF Owners
    <3> QED
      BY <1>1, <1>4, <2>1, <2>2, <3>1 DEF Owners, session, channel
  <2>12. Earned'
    BY <1>1, <1>4, <2>2 DEF Earned, channel, calls
  <2> QED
    BY <2>5, <2>6, <2>8, <2>9, <2>10, <2>11, <2>12
<1> QED
  BY <1>5, <1>6, <1>7

LEMMA ReaderDeliversKeeps ==
  ASSUME IInv, NEW g \in Generations, ReaderDelivers(g)
  PROVE  IInv'
<1> USE DEF IInv
<1> DEFINE i == holds[g]
<1>1. /\ reading[g] = "hold"
      /\ told' = [told EXCEPT ![i] = Heard(i)] /\ closes' = [closes EXCEPT ![i] = @ + 1]
      /\ reading' = [reading EXCEPT ![g] = "scan"] /\ holds' = [holds EXCEPT ![g] = 0]
      /\ UNCHANGED <<session, table, calls, server, from>>
  BY DEF ReaderDelivers
<1>2. /\ i \in Ids /\ i <= nextID /\ i \notin pending \cup drain /\ closes[i] = 0 /\ i \in served
  BY <1>1 DEF Owners, Earned
<1> HIDE DEF i
<1>3. /\ told \in [Ids -> {"none", "result", "error"}] /\ closes \in [Ids -> Nat]
      /\ reading \in [Generations -> {"none", "begin", "scan", "hold", "gone"}]
      /\ holds \in [Generations -> Ids \cup {0}]
  BY DEF TypeOK
<1>4. Heard(i) \in {"none", "result", "error"} /\ (fate[i] = "open" => Heard(i) # "none")
  BY <1>2, <1>3 DEF Heard
<1>5. /\ \A j \in Ids : j # i => told'[j] = told[j] /\ closes'[j] = closes[j]
      /\ told'[i] = Heard(i) /\ closes'[i] = 1
  BY <1>1, <1>2, <1>3
<1>6. \A h \in Generations : reading'[h] = "hold" => reading[h] = "hold" /\ holds'[h] = holds[h] /\ h # g
  BY <1>1, <1>3
<1>7. \A h \in Generations : reading[h] = "hold" /\ h # g => reading'[h] = "hold" /\ holds'[h] = holds[h]
  BY <1>1, <1>3
<1>8. TypeOK'
  BY <1>1, <1>2, <1>3, <1>4 DEF TypeOK, session, table, calls, server
<1>9. SessionShape'
  <2>1. \A h \in Generations : reading[h] = "none" => reading'[h] = "none"
    BY <1>1, <1>3
  <2> QED
    BY <1>1, <2>1 DEF SessionShape, session, table
<1>10. Cardinality(Asking') = Cardinality(Asking)
  BY <1>1 DEF Asking, calls
<1>11. IdsSuffice'
  BY <1>1, <1>10 DEF IdsSuffice, session, table
<1>12. CallShape'
  BY <1>1 DEF CallShape, UnderWay, table, calls
<1>13. Reachable'
  <2> SUFFICES ASSUME NEW c \in Callers, UnderWay(c)'
               PROVE  \/ id'[c] \in pending' \cup drain'
                      \/ closes'[id'[c]] > 0
                      \/ \E h \in Generations : reading'[h] = "hold" /\ holds'[h] = id'[c]
    BY DEF Reachable
  <2>1. UnderWay(c) /\ id'[c] = id[c] /\ id[c] \in Ids /\ pending' = pending /\ drain' = drain
    BY <1>1 DEF UnderWay, CallShape, calls, session, table
  <2>2. CASE id[c] = i
    BY <1>5, <2>1, <2>2
  <2>3. CASE id[c] # i
    <3>1. closes'[id[c]] = closes[id[c]]
      BY <1>5, <2>1, <2>3
    <3>2. \A h \in Generations : reading[h] = "hold" /\ holds[h] = id[c] => h # g
      BY <2>3 DEF i
    <3> QED
      BY <1>7, <2>1, <3>1, <3>2 DEF Reachable
  <2> QED
    BY <2>2, <2>3
<1>14. Owners'
  <2>1. \A h \in Generations : reading'[h] = "hold" => holds[h] # i
    BY <1>1, <1>6 DEF Owners, i
  <2> QED
    BY <1>1, <1>2, <1>3, <1>5, <1>6, <2>1 DEF Owners, session, table
<1>15. Earned'
  BY <1>1, <1>2, <1>4, <1>5, <1>6 DEF Earned, calls, server
<1> QED
  BY <1>8, <1>9, <1>11, <1>12, <1>13, <1>14, <1>15

-----------------------------------------------------------------------------
LEMMA NextKeeps == IInv /\ [Next]_vars => IInv'
<1> SUFFICES ASSUME IInv, [Next]_vars PROVE IInv'
  OBVIOUS
<1>1. CASE UNCHANGED vars
  <2>1. Cardinality(Asking') = Cardinality(Asking)
    BY <1>1 DEF Asking, vars, calls
  <2>2. IdsSuffice'
    BY <1>1, <2>1 DEF IInv, IdsSuffice, vars, session, table
  <2>3. TypeOK'
    BY <1>1 DEF IInv, TypeOK, vars, session, table, channel, calls, server, reader
  <2>4. SessionShape' /\ CallShape' /\ Owners' /\ Reachable' /\ Earned'
    BY <1>1 DEF IInv, SessionShape, CallShape, Owners, Reachable, Earned, UnderWay,
                vars, session, table, channel, calls, server, reader
  <2> QED
    BY <2>2, <2>3, <2>4 DEF IInv
<1>2. ASSUME NEW u \in Users, UserCalls(u) PROVE IInv'
  BY <1>2, UserCallsKeeps
<1>3. ASSUME NEW c \in Callers, CallStep(c) PROVE IInv'
  BY <1>3, AskKeeps, WriteKeeps, ReceiveKeeps, TimeoutKeeps DEF CallStep
<1>4. CASE SessionStep
  BY <1>4, StartKeeps, InitializedKeeps, CloseKeeps, DrainsKeeps, KillsKeeps DEF SessionStep
<1>5. ASSUME NEW g \in Generations, ServerStep(g) PROVE IInv'
  BY <1>5, ServeKeeps, ProcessDiesKeeps DEF ServerStep
<1>6. ASSUME NEW g \in Generations, ReaderStep(g) PROVE IInv'
  BY <1>6, ReaderBeginsKeeps, ReaderTakesKeeps, ReaderDeliversKeeps, ReaderEndsKeeps DEF ReaderStep
<1> QED
  BY <1>1, <1>2, <1>3, <1>4, <1>5, <1>6 DEF Next

LEMMA IInvHolds == Spec => []IInv
BY InitIInv, NextKeeps, PTL DEF Spec

\* The types of the client, its callers, the processes and the readers, among them
\* that the ids of the model suffice for every request that can be made.
THEOREM RpcTypes == Spec => []TypeOK
<1>1. IInv => TypeOK
  BY DEF IInv
<1> QED
  BY <1>1, IInvHolds, PTL

\* A waiting caller can be told, no reply channel is closed by both the reader
\* (handlePayload) and closeRunning, and no entry of the table survives its session.
THEOREM RpcTable == Spec => []TableIsRight
<1>1. IInv => WaiterIsReachable /\ NoEntryOutlivesSession
  BY DEF IInv, Reachable, UnderWay, SessionShape, WaiterIsReachable, NoEntryOutlivesSession
<1>2. IInv => ChannelClosedOnce
  BY DEF IInv, Owners, ChannelClosedOnce
<1> QED
  BY <1>1, <1>2, IInvHolds, PTL DEF TableIsRight

\* A request pinned to a session is written to the process of that session or to none.
THEOREM RpcPinned == Spec => PinnedStaysInItsSession
<1> DEFINE Stays ==
      \A c \in Callers, g \in Generations :
        pin[c] # 0 /\ step[c] = "write" /\ id[c] \in inbox'[g] \ inbox[g] => g = pin[c]
<1>1. ASSUME IInv, [Next]_vars, NEW c \in Callers, NEW g \in Generations,
             pin[c] # 0, step[c] = "write", id[c] \in inbox'[g] \ inbox[g]
      PROVE  g = pin[c]
  <2> USE DEF IInv
  <2>1. inbox \in [Generations -> SUBSET Ids] /\ to \in [Callers -> Generations]
    BY <1>1 DEF TypeOK
  <2>2. ASSUME NEW d \in Callers, Write(d) PROVE g = pin[c]
    <3>1. UnderWay(c) /\ UnderWay(d)
      BY <1>1, <2>2 DEF Write, UnderWay
    <3>2. id[c] = id[d] /\ g = to[d]
      <4>1. inbox' = inbox \/ inbox' = [inbox EXCEPT ![to[d]] = @ \cup {id[d]}]
        BY <2>2 DEF Write
      <4> QED
        BY <1>1, <2>1, <4>1
    <3> QED
      BY <1>1, <3>1, <3>2 DEF CallShape
  <2>3. \A h \in Generations : \A i \in inbox[h] : Serve(h, i) => inbox'[g] \subseteq inbox[g]
    BY <2>1 DEF Serve
  <2>4. \A h \in Generations : ProcessDies(h) => inbox'[g] \subseteq inbox[g]
    BY <2>1 DEF ProcessDies
  <2>5. Kills => inbox'[g] \subseteq inbox[g]
    BY <2>1 DEF Kills
  <2>6. Start \/ Initialized \/ Close \/ Drains => inbox' = inbox
    BY DEF Start, Initialized, Close, Drains, server
  <2>7. \A h \in Generations : ReaderStep(h) => inbox' = inbox
    BY DEF ReaderStep, ReaderBegins, ReaderTakes, ReaderDelivers, ReaderEnds, server
  <2>8. \A d \in Callers : Ask(d) \/ Receive(d) \/ Timeout(d) => inbox' = inbox
    BY DEF Ask, Receive, Timeout, server
  <2>9. \A u \in Users : UserCalls(u) => inbox' = inbox
    BY DEF UserCalls, server
  <2>10. UNCHANGED vars => inbox' = inbox
    BY DEF vars, server
  <2> QED
    BY <1>1, <2>2, <2>3, <2>4, <2>5, <2>6, <2>7, <2>8, <2>9, <2>10
       DEF Next, SessionStep, CallStep, ServerStep
<1>2. IInv /\ [Next]_vars => [Stays]_vars
  BY <1>1
<1> QED
  BY <1>2, IInvHolds, PTL DEF Spec, PinnedStaysInItsSession

-----------------------------------------------------------------------------
(* The client implements RpcCall.                                           *)

LEMMA LeavingFinishes ==
  ASSUME IInv, NEW c \in Callers, UnderWay(c), NEW end \in {"result", "error"},
         Leaves(c, end), served' = served, end = "result" => id[c] \in served
  PROVE  Call!Finish(id[c]) /\ id[c] \in Ids
<1>1. id[c] \in Ids /\ fate[id[c]] = "open"
  BY DEF IInv, CallShape
<1>2. fate' = [fate EXCEPT ![id[c]] = end]
  BY DEF Leaves
<1> QED
  BY <1>1, <1>2 DEF Call!Finish

\* Every step of the client asks, performs or finishes one call, or none.
THEOREM RpcImplementsCall == Spec => Call!Init /\ [][Call!Next]_(Call!vars)
<1>1. Init => Call!Init
  BY DEF Init, Call!Init
<1>2. IInv /\ [Next]_vars => [Call!Next]_(Call!vars)
  <2> SUFFICES ASSUME IInv, [Next]_vars, ~UNCHANGED <<fate, served>>
               PROVE  Call!Next
    BY DEF Call!vars
  <2>1. ASSUME NEW c \in Callers, Ask(c) PROVE Call!Next
    <3>1. /\ FreshID \in Ids /\ FreshID > nextID
      BY <2>1, FreshIsAnId DEF IInv, Ask, FreshID, TypeOK
    <3>2. fate[FreshID] = "unused"
      BY <3>1 DEF IInv, CallShape
    <3>3. fate' = [fate EXCEPT ![FreshID] = "open"] /\ served' = served
      BY <2>1 DEF Ask, server
    <3>4. Call!Ask(FreshID)
      BY <3>2, <3>3 DEF Call!Ask
    <3> QED
      BY <3>1, <3>4 DEF Call!Next
  <2>2. ASSUME NEW c \in Callers, Write(c) PROVE Call!Next
    <3>1. UnderWay(c) /\ Leaves(c, "error") /\ served' = served
      BY <2>2 DEF Write, UnderWay
    <3> QED
      BY <3>1, LeavingFinishes DEF Call!Next
  <2>3. ASSUME NEW c \in Callers, Receive(c) PROVE Call!Next
    <3> DEFINE end == IF told[id[c]] = "error" THEN "error" ELSE "result"
    <3>1. UnderWay(c) /\ Leaves(c, end) /\ served' = served
      BY <2>3 DEF Receive, UnderWay, server
    <3>2. end = "result" => id[c] \in served
      <4>1. id[c] \in Ids /\ fate[id[c]] = "open"
        BY <3>1 DEF IInv, CallShape
      <4>2. told[id[c]] \in {"none", "result", "error"}
        BY <4>1 DEF IInv, TypeOK
      <4>3. told[id[c]] # "none"
        BY <2>3, <4>1 DEF Receive, IInv, Earned
      <4> QED
        BY <4>1, <4>2, <4>3 DEF IInv, Earned
    <3> QED
      BY <3>1, <3>2, LeavingFinishes DEF Call!Next
  <2>4. ASSUME NEW c \in Callers, Timeout(c) PROVE Call!Next
    <3>1. UnderWay(c) /\ Leaves(c, "error") /\ served' = served
      BY <2>4 DEF Timeout, GivesUp, UnderWay, server
    <3> QED
      BY <3>1, LeavingFinishes DEF Call!Next
  <2>5. ASSUME NEW g \in Generations, NEW i \in inbox[g], Serve(g, i) PROVE Call!Next
    <3>1. i \in Ids /\ fate[i] # "unused" /\ served' = served \cup {i} /\ fate' = fate
      BY <2>5 DEF Serve, calls, IInv, TypeOK, Earned
    <3>2. i \notin served
      BY <3>1
    <3>3. Call!Perform(i)
      BY <3>1, <3>2 DEF Call!Perform
    <3> QED
      BY <3>1, <3>3 DEF Call!Next
  <2>6. \A g \in Generations : ~ProcessDies(g)
    BY DEF ProcessDies, calls
  <2>7. ~SessionStep
    BY DEF SessionStep, Start, Initialized, Close, Drains, Kills, calls, server
  <2>8. \A g \in Generations : ~ReaderStep(g)
    BY DEF ReaderStep, ReaderBegins, ReaderTakes, ReaderDelivers, ReaderEnds, calls, server
  <2>9. \A u \in Users : ~UserCalls(u)
    BY DEF UserCalls, server
  <2>10. ~UNCHANGED vars
    BY DEF vars, calls, server
  <2> QED
    BY <2>1, <2>2, <2>3, <2>4, <2>5, <2>6, <2>7, <2>8, <2>9, <2>10
       DEF Next, CallStep, ServerStep
<1> QED
  BY <1>1, <1>2, IInvHolds, PTL DEF Spec
=============================================================================
