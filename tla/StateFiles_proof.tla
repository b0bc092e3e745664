-------------------------- MODULE StateFiles_proof --------------------------
(***************************************************************************)
(* Proofs about the parts that live in files: the tokens of the login       *)
(* (Credentials), the task store of the automation server (TaskStore), the  *)
(* macOS service (LaunchAgent) and the managed runtime (RuntimeBundle).     *)
(* They share no state; each part has a specification, an inductive         *)
(* invariant and theorems of its own.                                       *)
(***************************************************************************)
EXTENDS Credentials, TaskStore, LaunchAgent, RuntimeBundle, FiniteSetTheorems, TLAPS

-----------------------------------------------------------------------------
(* Credentials: any tokens, any number of sessions and rewrites of the source.*)

\* A refusal of the session at hand is on the books of the client until that session
\* takes another token; an earlier session is never talked to again.
CredRefusalStands ==
  \A g \in SessionNos : refused[g] # NoToken =>
    /\ g <= sessionNo
    /\ g = sessionNo => authGeneration = g /\ authToken = refused[g] /\ authRejected = refused[g]

\* Who is about to refuse has marked the token that it refuses; authMu keeps it marked.
CredRefusalMarked ==
  job.kind = "refresh" /\ job.token = NoToken => authRejected = authToken /\ authStatus # "loaded"

\* A login has a token to offer.
CredLoginOffers == job.kind \in {"login", "await"} => job.token # NoToken

CredIInv == CredTypeOK /\ CredentialsAreSound /\ CredRefusalStands /\ CredRefusalMarked /\ CredLoginOffers

CredJobs == [kind : {"free", "login", "await", "refresh"}, gen : SessionNos,
         for : {"boot", "watchdog", "turn"}, token : Maybe]
CredTurns == [step : {"idle", "sync", "start"}, gen : SessionNos]

LEMMA CredGenerations ==
  /\ SessionNos \subseteq Nat /\ 0 \in SessionNos
  /\ \A g \in SessionNos : g < MaxSessions => g + 1 \in SessionNos
BY CredentialAssumption DEF SessionNos

LEMMA CredNobody ==
  /\ NoHolder \in CredJobs /\ NoHolder.kind = "free" /\ NoHolder.token = NoToken
  /\ NoTurn \in CredTurns /\ NoTurn.step = "idle" /\ NoToken \in Maybe
BY CredGenerations DEF NoHolder, NoTurn, CredJobs, CredTurns, Maybe

LEMMA CredInitIInv == CredInit => CredIInv
<1> SUFFICES ASSUME CredInit PROVE CredIInv
  OBVIOUS
<1>1. CredTypeOK
  <2>1. changes \in 0..MaxChanges
    BY CredentialAssumption DEF CredInit
  <2>2. job \in CredJobs /\ turn \in CredTurns /\ {authToken, authRejected} \subseteq Maybe
    BY CredNobody DEF CredInit
  <2>3. /\ accepted \in [SessionNos -> SUBSET Tokens] /\ refused \in [SessionNos -> Maybe]
        /\ sessionNo \in SessionNos /\ authGeneration \in SessionNos
    BY CredGenerations, CredNobody DEF CredInit
  <2> QED
    BY <2>1, <2>2, <2>3 DEF CredInit, CredTypeOK, CredJobs, CredTurns
<1>2. CredentialsAreSound /\ CredRefusalStands /\ CredRefusalMarked /\ CredLoginOffers
  BY CredNobody, CredGenerations DEF CredInit, CredentialsAreSound, LoadedTokenIsHeld, RefusedIsNotOffered,
     RefusalIsReported, CredRefusalStands, CredRefusalMarked, CredLoginOffers
<1> QED
  BY <1>1, <1>2 DEF CredIInv

\* Steps that leave the books alone and take no token away from a process.
LEMMA CredBooksStay ==
  ASSUME CredIInv, CredTypeOK', UNCHANGED <<authVars, refused>>,
         sessionNo' = sessionNo \/ (sessionNo \in Nat /\ sessionNo' = sessionNo + 1),
         \A g \in SessionNos : accepted[g] \subseteq accepted'[g],
         \/ job' = job
         \/ job'.gen = job.gen /\ job'.token = job.token /\ job.kind = "login" /\ job'.kind = "await"
         \/ job'.kind = "free"
  PROVE  CredIInv'
<1> USE DEF CredIInv, authVars
<1>1. LoadedTokenIsHeld'
  BY DEF CredentialsAreSound, LoadedTokenIsHeld, CredTypeOK
<1>2. RefusedIsNotOffered'
  BY DEF CredentialsAreSound, RefusedIsNotOffered
<1>3. RefusalIsReported'
  BY DEF CredentialsAreSound, RefusalIsReported
<1>4. CredRefusalStands'
  <2>1. CASE sessionNo' = sessionNo
    BY <2>1 DEF CredRefusalStands
  <2>2. CASE sessionNo \in Nat /\ sessionNo' = sessionNo + 1
    BY <2>2, CredGenerations DEF CredRefusalStands
  <2> QED
    BY <2>1, <2>2
<1>5. CredRefusalMarked' /\ CredLoginOffers'
  BY DEF CredRefusalMarked, CredLoginOffers
<1> QED
  BY <1>1, <1>2, <1>3, <1>4, <1>5 DEF CredentialsAreSound

LEMMA CredSessionKeeps ==
  ASSUME CredIInv,
          SessionStarts \/ SessionCloses \/ SourceChanges
            \/ TurnCaptures \/ TurnStarts \/ ProcessAsks
  PROVE  CredIInv'
<1>1. /\ UNCHANGED <<authVars, refused, accepted, job, logins>>
      /\ sessionNo' = sessionNo \/ (sessionNo \in Nat /\ sessionNo' = sessionNo + 1)
  BY CredGenerations DEF SessionStarts, SessionCloses, SourceChanges, TurnCaptures, TurnStarts, ProcessAsks,
     holderVars, CredIInv, CredTypeOK
<1>2. CredTypeOK'
  <2> USE DEF CredIInv, CredTypeOK, authVars, holderVars
  <2>1. CASE SessionStarts
    BY <2>1, CredGenerations DEF SessionStarts
  <2>2. CASE SessionCloses
    BY <2>2 DEF SessionCloses
  <2>3. CASE SourceChanges
    <3>1. changes' \in 0..MaxChanges
      BY <2>3, CredentialAssumption DEF SourceChanges
    <3> QED
      BY <2>3, <3>1 DEF SourceChanges
  <2>4. CASE TurnCaptures
    BY <2>4 DEF TurnCaptures
  <2>5. CASE TurnStarts
    BY <2>5, CredNobody DEF TurnStarts, CredTurns
  <2>6. CASE ProcessAsks
    BY <2>6 DEF ProcessAsks
  <2> QED
    BY <2>1, <2>2, <2>3, <2>4, <2>5, <2>6
<1> QED
  BY <1>1, <1>2, CredBooksStay

LEMMA CredTakesKeeps ==
  ASSUME CredIInv, ProcessTakes
  PROVE  CredIInv'
<1>1. /\ UNCHANGED <<open, sessionNo, booting, source, changes, authVars, job, turn, refused, asked>>
      /\ logins' \subseteq logins
  BY DEF ProcessTakes
<1>2. PICK l \in logins : accepted' = [accepted EXCEPT ![l.gen] = @ \cup {l.token}]
  BY DEF ProcessTakes
<1>3. /\ l.gen \in SessionNos /\ l.token \in Tokens /\ accepted \in [SessionNos -> SUBSET Tokens]
      /\ logins \subseteq [gen : SessionNos, token : Tokens]
  BY DEF CredIInv, CredTypeOK
<1>4. accepted' \in [SessionNos -> SUBSET Tokens] /\ \A g \in SessionNos : accepted[g] \subseteq accepted'[g]
  BY <1>2, <1>3
<1>5. CredTypeOK'
  BY <1>1, <1>3, <1>4 DEF CredIInv, CredTypeOK, authVars
<1> QED
  BY <1>1, <1>4, <1>5, CredBooksStay

\* A sync says "loaded" of what is on the books of its session and not refused, and
\* offers what is neither.
LEMMA CredSyncKeeps ==
  ASSUME CredIInv, NEW who \in {"boot", "watchdog", "turn"}, NEW g \in SessionNos, Sync(who, g)
  PROVE  CredIInv'
<1> USE DEF CredIInv
<1>1. /\ job = NoHolder
      /\ UNCHANGED <<open, sessionNo, source, changes, authToken, authRejected, authGeneration, holderVars>>
  BY DEF Sync
<1>2. UNCHANGED <<accepted, refused, logins, asked>>
  BY <1>1 DEF holderVars
<1>3. /\ source \in Maybe /\ refused \in [SessionNos -> Maybe] /\ turn \in CredTurns /\ booting \in BOOLEAN
      /\ authStatus \in {"waiting", "loaded", "rejected", "unreadable", "failed"}
  BY DEF CredTypeOK, CredTurns
<1>4. CASE /\ Started(g) /\ source # NoToken /\ ~Blocked(g)
           /\ job' = [kind |-> "login", gen |-> g, for |-> who, token |-> source]
           /\ UNCHANGED <<booting, turn, authStatus>>
  <2>1. job' \in CredJobs /\ job'.kind = "login" /\ job'.gen = g /\ job'.token = source
    BY <1>3, <1>4 DEF CredJobs
  <2>2. CredTypeOK'
    BY <1>1, <1>2, <1>4, <2>1 DEF CredTypeOK, CredJobs
  <2>3. source # refused[g]
    BY <1>4 DEF CredRefusalStands, Started, Blocked
  <2>4. CredentialsAreSound' /\ CredRefusalStands' /\ CredRefusalMarked' /\ CredLoginOffers'
    BY <1>1, <1>2, <1>4, <2>1, <2>3 DEF CredentialsAreSound, LoadedTokenIsHeld, RefusedIsNotOffered,
       RefusalIsReported, CredRefusalStands, CredRefusalMarked, CredLoginOffers
  <2> QED
    BY <2>2, <2>4
<1>5. CASE /\ \/ ~Started(g) \/ source = NoToken \/ Blocked(g)
              \/ source = authToken /\ authGeneration = g
           /\ \E ok \in BOOLEAN : SyncReturns(who, ok)
           /\ authStatus' = IF ~Started(g) THEN authStatus
                            ELSE IF source = NoToken THEN "unreadable"
                            ELSE IF Blocked(g) THEN "rejected" ELSE "loaded"
           /\ UNCHANGED job
  <2>1. booting' \in BOOLEAN /\ turn' \in CredTurns
    <3>1. PICK ok \in BOOLEAN : SyncReturns(who, ok)
      BY <1>5
    <3>2. [turn EXCEPT !.step = "start"] \in CredTurns
      BY <1>3 DEF CredTurns
    <3> QED
      BY <1>3, <3>1, <3>2, CredNobody DEF SyncReturns
  <2>2. authStatus' \in {"waiting", "loaded", "rejected", "unreadable", "failed"}
    BY <1>3, <1>5
  <2>3. CredTypeOK'
    BY <1>1, <1>2, <1>5, <2>1, <2>2 DEF CredTypeOK, CredTurns
  <2>4. authStatus' = "loaded" =>
          \/ authStatus = "loaded"
          \/ g = sessionNo /\ authGeneration = g /\ authRejected # authToken
    BY <1>5 DEF Started, Blocked
  <2>5. RefusalIsReported'
    BY <1>1, <1>2, <2>4 DEF CredentialsAreSound, RefusalIsReported, CredRefusalStands
  <2>6. /\ LoadedTokenIsHeld' /\ RefusedIsNotOffered'
         /\ CredRefusalStands' /\ CredRefusalMarked' /\ CredLoginOffers'
    BY <1>1, <1>2, <1>5, CredNobody DEF CredentialsAreSound, LoadedTokenIsHeld, RefusedIsNotOffered,
       CredRefusalStands, CredRefusalMarked, CredLoginOffers
  <2> QED
    BY <2>3, <2>5, <2>6 DEF CredentialsAreSound
<1> QED
  <2> DEFINE readable == Started(g) /\ source # NoToken
             known    == source = authToken /\ authGeneration = g
  <2>1. CASE readable /\ ~Blocked(g) /\ ~known
    BY <1>4, <2>1 DEF Sync
  <2>2. CASE ~(readable /\ ~Blocked(g) /\ ~known)
    <3>1. SyncReturns(who, readable /\ ~Blocked(g))
      BY <2>2 DEF Sync
    <3>2. \E ok \in BOOLEAN : SyncReturns(who, ok)
      BY <3>1
    <3> QED
      BY <1>5, <2>2, <3>2 DEF Sync
  <2> QED
    BY <2>1, <2>2

LEMMA CredSyncsKeep ==
  ASSUME CredIInv, BootSyncs \/ WatchdogTicks \/ TurnSyncs
  PROVE  CredIInv'
<1>1. sessionNo \in SessionNos /\ turn.gen \in SessionNos
  BY DEF CredIInv, CredTypeOK
<1> QED
  BY <1>1, CredSyncKeeps DEF BootSyncs, WatchdogTicks, TurnSyncs

LEMMA CredAsksKeeps ==
  ASSUME CredIInv, LoginAsks
  PROVE  CredIInv'
<1>1. /\ job.kind = "login" /\ job' = [job EXCEPT !.kind = "await"]
      /\ logins' = IF Started(job.gen) THEN logins \cup {[gen |-> job.gen, token |-> job.token]} ELSE logins
      /\ UNCHANGED <<open, sessionNo, booting, source, changes, authVars, turn, accepted, refused, asked>>
  BY DEF LoginAsks, LoginGoesTo
<1>2. job \in CredJobs
  BY DEF CredIInv, CredTypeOK, CredJobs
<1>3. job' \in CredJobs /\ job'.kind = "await" /\ job'.gen = job.gen /\ job'.token = job.token
  BY <1>1, <1>2 DEF CredJobs
<1>4. [gen |-> job.gen, token |-> job.token] \in [gen : SessionNos, token : Tokens]
  BY <1>1, <1>2 DEF CredJobs, Maybe, CredIInv, CredLoginOffers
<1>5. CredTypeOK'
  BY <1>1, <1>3, <1>4 DEF CredIInv, CredTypeOK, CredJobs, authVars
<1> QED
  BY <1>1, <1>3, <1>5, CredBooksStay

\* Books: a token that the process has, of the session at hand.
LEMMA CredBooksKeep ==
  ASSUME CredIInv, NEW token \in Tokens, Started(sessionNo), Books(sessionNo, token),
         CredTypeOK', UNCHANGED sessionNo, job'.kind = "free",
         \A g \in SessionNos : accepted[g] \subseteq accepted'[g], token \in accepted'[sessionNo]
  PROVE  CredIInv'
<1> USE DEF CredIInv, Books
<1>1. sessionNo \in SessionNos /\ sessionNo \in Nat /\ refused \in [SessionNos -> Maybe]
  BY CredGenerations DEF CredTypeOK
<1>2. /\ authToken' = token /\ authRejected' = NoToken /\ authGeneration' = sessionNo
      /\ refused'[sessionNo] = NoToken
      /\ \A g \in SessionNos : g # sessionNo => refused'[g] = refused[g]
  BY <1>1
<1>3. LoadedTokenIsHeld'
  BY <1>2 DEF LoadedTokenIsHeld
<1>4. RefusedIsNotOffered' /\ CredRefusalMarked' /\ CredLoginOffers'
  BY DEF RefusedIsNotOffered, CredRefusalMarked, CredLoginOffers
<1>5. RefusalIsReported'
  BY <1>2 DEF RefusalIsReported
<1>6. CredRefusalStands'
  BY <1>1, <1>2 DEF CredRefusalStands
<1> QED
  BY <1>3, <1>4, <1>5, <1>6 DEF CredentialsAreSound

LEMMA CredEndsKeeps ==
  ASSUME CredIInv, LoginEnds
  PROVE  CredIInv'
<1>1. /\ job.kind = "await" /\ job' = NoHolder
      /\ UNCHANGED <<open, sessionNo, source, changes, accepted, logins, asked>>
  BY DEF LoginEnds
<1>2. PICK got \in BOOLEAN : /\ got => job.token \in accepted[job.gen]
                             /\ Commit(got) /\ SyncReturns(job.for, got /\ Started(job.gen))
  BY DEF LoginEnds
<1>3. /\ job \in CredJobs /\ turn \in CredTurns /\ booting \in BOOLEAN /\ refused \in [SessionNos -> Maybe]
      /\ sessionNo \in SessionNos
  BY DEF CredIInv, CredTypeOK, CredJobs, CredTurns
<1>4. job.gen \in SessionNos /\ job.token \in Tokens
  BY <1>1, <1>3 DEF CredJobs, Maybe, CredIInv, CredLoginOffers
<1>5. booting' \in BOOLEAN /\ turn' \in CredTurns
  <2>1. [turn EXCEPT !.step = "start"] \in CredTurns
    BY <1>3 DEF CredTurns
  <2> QED
    BY <1>2, <1>3, <2>1, CredNobody DEF SyncReturns
<1>6. CASE got /\ Started(job.gen)
  <2>1. Books(job.gen, job.token) /\ job.gen = sessionNo
    BY <1>2, <1>6 DEF Commit, Started
  <2>2. refused' \in [SessionNos -> Maybe]
    BY <1>3, <2>1, CredNobody DEF Books
  <2>3. CredTypeOK'
    BY <1>1, <1>4, <1>5, <2>1, <2>2, CredNobody DEF CredIInv, CredTypeOK, Books, CredJobs, CredTurns, Maybe
  <2> QED
    BY <1>1, <1>2, <1>4, <1>6, <2>1, <2>3, CredNobody, CredBooksKeep
<1>7. CASE ~(got /\ Started(job.gen))
  <2>1. /\ UNCHANGED <<authToken, authRejected, authGeneration, refused>>
        /\ authStatus' \in {authStatus, "failed"}
    BY <1>2, <1>7 DEF Commit, NotLoaded
  <2>2. CredTypeOK'
    BY <1>1, <1>5, <2>1, CredNobody DEF CredIInv, CredTypeOK, CredJobs, CredTurns
  <2>3. CredentialsAreSound' /\ CredRefusalStands' /\ CredRefusalMarked' /\ CredLoginOffers'
    BY <1>1, <2>1, CredNobody DEF CredIInv, CredentialsAreSound, LoadedTokenIsHeld, RefusedIsNotOffered,
       RefusalIsReported, CredRefusalStands, CredRefusalMarked, CredLoginOffers
  <2> QED
    BY <2>2, <2>3 DEF CredIInv
<1> QED
  BY <1>6, <1>7

LEMMA CredReadsKeeps ==
  ASSUME CredIInv, NEW g \in SessionNos, RefreshReads(g)
  PROVE  CredIInv'
<1> USE DEF CredIInv
<1>1. /\ job = NoHolder /\ asked' \subseteq asked
      /\ UNCHANGED <<open, sessionNo, booting, source, changes, authToken, authGeneration,
                     turn, accepted, refused, logins>>
  BY DEF RefreshReads
<1>2. /\ source \in Maybe /\ authToken \in Maybe /\ authRejected \in Maybe
      /\ authStatus \in {"waiting", "loaded", "rejected", "unreadable", "failed"}
  BY DEF CredTypeOK
<1>3. CASE UNCHANGED <<job, authRejected, authStatus>>
  <2>1. CredTypeOK'
    BY <1>1, <1>3 DEF CredTypeOK
  <2> QED
    BY <1>1, <1>3, <2>1, CredBooksStay DEF authVars
<1>4. CASE /\ Started(g) /\ Unusable
           /\ job' = [kind |-> "refresh", gen |-> g, for |-> "watchdog", token |-> NoToken]
           /\ authRejected' = authToken /\ authStatus' \in {"unreadable", "rejected"}
  <2>1. job' \in CredJobs /\ job'.kind = "refresh" /\ job'.token = NoToken
    BY <1>4, CredNobody DEF CredJobs
  <2>2. CredTypeOK'
    BY <1>1, <1>2, <1>4, <2>1 DEF CredTypeOK, CredJobs
  <2>3. CredentialsAreSound' /\ CredRefusalStands' /\ CredRefusalMarked' /\ CredLoginOffers'
    BY <1>1, <1>4, <2>1 DEF CredentialsAreSound, LoadedTokenIsHeld, RefusedIsNotOffered,
       RefusalIsReported, CredRefusalStands, CredRefusalMarked, CredLoginOffers
  <2> QED
    BY <2>2, <2>3
<1>5. CASE /\ Started(g) /\ ~Unusable
           /\ job' = [kind |-> "refresh", gen |-> g, for |-> "watchdog", token |-> source]
           /\ UNCHANGED <<authRejected, authStatus>>
  <2>1. job' \in CredJobs /\ job'.kind = "refresh" /\ job'.token = source /\ job'.gen = g
    BY <1>2, <1>5 DEF CredJobs
  <2>2. CredTypeOK'
    BY <1>1, <1>5, <2>1 DEF CredTypeOK, CredJobs
  <2>3. source # NoToken /\ source # refused[g]
    BY <1>5 DEF Unusable, Started, CredRefusalStands
  <2>4. CredentialsAreSound' /\ CredRefusalStands' /\ CredRefusalMarked' /\ CredLoginOffers'
    BY <1>1, <1>5, <2>1, <2>3 DEF CredentialsAreSound, LoadedTokenIsHeld, RefusedIsNotOffered,
       RefusalIsReported, CredRefusalStands, CredRefusalMarked, CredLoginOffers
  <2> QED
    BY <2>2, <2>4
<1> QED
  BY <1>3, <1>4, <1>5 DEF RefreshReads

LEMMA CredAnswersKeeps ==
  ASSUME CredIInv, RefreshAnswers
  PROVE  CredIInv'
<1> DEFINE g == job.gen
<1>1. /\ job.kind = "refresh" /\ job' = NoHolder
      /\ UNCHANGED <<open, sessionNo, booting, source, changes, turn, logins, asked>>
  BY DEF RefreshAnswers
<1>2. /\ job \in CredJobs /\ refused \in [SessionNos -> Maybe] /\ g \in SessionNos
      /\ accepted \in [SessionNos -> SUBSET Tokens] /\ authToken \in Maybe
  BY DEF CredIInv, CredTypeOK, CredJobs
<1>3. CASE /\ Started(g) /\ job.token # NoToken
           /\ Books(g, job.token)
           /\ accepted' = [accepted EXCEPT ![g] = @ \cup {job.token}]
  <2>1. job.token \in Tokens /\ g = sessionNo
    BY <1>2, <1>3 DEF CredJobs, Maybe, Started
  <2>2. refused' \in [SessionNos -> Maybe]
    BY <1>2, <1>3, CredNobody DEF Books
  <2>3. /\ accepted' \in [SessionNos -> SUBSET Tokens] /\ job.token \in accepted'[g]
        /\ \A h \in SessionNos : accepted[h] \subseteq accepted'[h]
    BY <1>2, <1>3, <2>1
  <2>4. CredTypeOK'
    BY <1>1, <1>2, <1>3, <2>1, <2>2, <2>3, CredNobody DEF CredIInv, CredTypeOK, Books, CredJobs, Maybe
  <2> QED
    BY <1>1, <1>3, <2>1, <2>3, <2>4, CredNobody, CredBooksKeep
<1>4. CASE /\ Started(g) /\ job.token = NoToken
           /\ refused' = IF authGeneration = g THEN [refused EXCEPT ![g] = authToken] ELSE refused
           /\ UNCHANGED <<authVars, accepted>>
  <2>1. refused' \in [SessionNos -> Maybe]
    BY <1>2, <1>4
  <2>2. CredTypeOK'
    BY <1>1, <1>4, <2>1, CredNobody DEF CredIInv, CredTypeOK, CredJobs, authVars
  <2>3. authRejected = authToken /\ authStatus # "loaded"
    BY <1>1, <1>4 DEF CredIInv, CredRefusalMarked
  <2>4. g = sessionNo /\ g \in Nat
    BY <1>2, <1>4, CredGenerations DEF Started
  <2>5. \A h \in SessionNos :
          refused'[h] = refused[h] \/ (h = g /\ authGeneration = g /\ refused'[h] = authToken)
    BY <1>2, <1>4
  <2>6. CredRefusalStands'
    BY <1>1, <1>4, <2>3, <2>4, <2>5 DEF CredIInv, CredRefusalStands, authVars
  <2>7. CredentialsAreSound' /\ CredRefusalMarked' /\ CredLoginOffers'
    BY <1>1, <1>4, <2>3, <2>5, CredNobody DEF CredIInv, CredentialsAreSound, LoadedTokenIsHeld,
       RefusedIsNotOffered, RefusalIsReported, CredRefusalMarked, CredLoginOffers, authVars
  <2> QED
    BY <2>2, <2>6, <2>7 DEF CredIInv
<1>5. CASE UNCHANGED <<authVars, accepted, refused>>
  <2>1. CredTypeOK'
    BY <1>1, <1>5, CredNobody DEF CredIInv, CredTypeOK, CredJobs, authVars
  <2> QED
    BY <1>1, <1>5, <2>1, CredNobody, CredBooksStay
<1> QED
  BY <1>3, <1>4, <1>5 DEF RefreshAnswers

LEMMA CredNextKeeps ==
  ASSUME CredIInv, [CredNext]_credVars
  PROVE  CredIInv'
<1>1. CASE CredNext
  BY <1>1, CredSessionKeeps, CredTakesKeeps, CredSyncsKeep, CredAsksKeeps, CredEndsKeeps,
      CredReadsKeeps, CredAnswersKeeps DEF CredNext
<1>2. CASE UNCHANGED credVars
  <2>1. CredTypeOK'
    BY <1>2 DEF CredIInv, CredTypeOK, credVars, authVars, holderVars
  <2> QED
    BY <1>2, <2>1, CredBooksStay DEF credVars, holderVars
<1> QED
  BY <1>1, <1>2

LEMMA CredIInvHolds == CredSpec => []CredIInv
BY CredInitIInv, CredNextKeeps, PTL DEF CredSpec

\* The books of the client, the holder of authMu and the sets of tokens keep their types.
THEOREM CredTypes == CredSpec => []CredTypeOK
<1>1. CredIInv => CredTypeOK
  BY DEF CredIInv
<1> QED
  BY <1>1, CredIInvHolds, PTL

\* syncCredentials, refreshCredentials: a token that counts as loaded is in the process
\* it is booked on, and one over which a refresh was refused is neither offered to that
\* process again nor called loaded, however sessions end while a login is under way.
THEOREM CredBooksAreSound == CredSpec => []CredentialsAreSound
<1>1. CredIInv => CredentialsAreSound
  BY DEF CredIInv
<1> QED
  BY <1>1, CredIInvHolds, PTL

-----------------------------------------------------------------------------
(* TaskStore: any callers, names, attempts and failures.  Everything is up to*)
(* the first lock file that a waiter removes.                              *)

StoreModes == {"none", "list", "create", "update", "delete", "origin"}
StorePlaces == {"idle", "opens", "breaks", "reads", "writes", "removes", "unlocks"}
StoreFiles == {"reads", "writes", "removes", "unlocks"}
StoreCallType == [mode : StoreModes, at : StorePlaces, tries : 0 .. MaxTries - 1, name : Names \cup {NoName},
             edit : 0 .. MaxCalls, doc : Docs]

\* A call that has begun is about a task and is an edit, and only some calls write one.
StoreSensible(x) ==
  /\ x.at # "idle" => x.name \in Names /\ x.edit \in Edits
  /\ x.at = "writes" => x.mode \in {"create", "update", "origin"}

\* What a call is about to write is what the file holds now, and its own edit.
StoreFresh(x) ==
  x.at = "writes" =>
    /\ x.mode = "create" => x.doc.edits = {x.edit}
    /\ x.mode = "update" => x.doc.edits = doc[x.name].edits \cup {x.edit}
    /\ x.mode = "origin" => x.doc.edits = doc[x.name].edits /\ x.doc.edits # {}

\* Whoever is at the files has made the lock file that is there.
StoreGuarded == \A c \in Callers : call[c].at \in StoreFiles => lock.by = c

StoreFilesMatch == \A n \in Names : /\ acked[n] \subseteq doc[n].edits
                                    /\ dir[n] = "file" <=> doc[n].edits # {}

StoreIInv == /\ StoreTypeOK
             /\ \A c \in Callers : StoreSensible(call[c])
             /\ broken \/ (StoreGuarded /\ StoreFilesMatch /\ \A c \in Callers : StoreFresh(call[c]))

LEMMA StoreTypesSplit ==
  StoreTypeOK <=>
    /\ lock \in [by : Callers \cup {NoCaller}, stale : BOOLEAN]
    /\ dir \in [Names -> {"none", "empty", "file"}] /\ doc \in [Names -> Docs]
    /\ call \in [Callers -> StoreCallType]
    /\ calls \in 0 .. MaxCalls /\ failures \in 0 .. MaxFailures
    /\ acked \in [Names -> SUBSET Edits] /\ broken \in BOOLEAN
BY DEF StoreTypeOK, StoreCallType, StoreModes, StorePlaces

LEMMA StoreNothing ==
  /\ NoDoc \in Docs /\ NoDoc.edits = {}
  /\ NoCall \in StoreCallType /\ NoCall.at = "idle"
  /\ 0 \in 0 .. MaxTries - 1 /\ 0 \in 0 .. MaxCalls /\ 0 \in 0 .. MaxFailures
  /\ Unlocked \in [by : Callers \cup {NoCaller}, stale : BOOLEAN] /\ Unlocked.by = NoCaller
<1>1. NoDoc \in Docs /\ NoDoc.edits = {}
  BY DEF NoDoc, Docs
<1>2. 0 \in 0 .. MaxTries - 1 /\ 0 \in 0 .. MaxCalls /\ 0 \in 0 .. MaxFailures
  BY StoreAssumption
<1>3. NoCall \in StoreCallType /\ NoCall.at = "idle"
  BY <1>1, <1>2 DEF NoCall, StoreCallType, StoreModes, StorePlaces
<1> QED
  BY <1>1, <1>2, <1>3 DEF Unlocked

LEMMA StoreInitIInv == StoreInit => StoreIInv
<1> SUFFICES ASSUME StoreInit PROVE StoreIInv
  OBVIOUS
<1>1. StoreTypeOK
  <2>1. doc \in [Names -> Docs] /\ call \in [Callers -> StoreCallType]
    BY StoreNothing DEF StoreInit
  <2> QED
    BY <2>1, StoreNothing, StoreTypesSplit DEF StoreInit
<1>2. \A c \in Callers : StoreSensible(call[c]) /\ StoreFresh(call[c])
  BY StoreNothing DEF StoreInit, StoreSensible, StoreFresh
<1>3. StoreGuarded /\ StoreFilesMatch
  BY StoreNothing DEF StoreInit, StoreGuarded, StoreFilesMatch, StoreFiles
<1> QED
  BY <1>1, <1>2, <1>3 DEF StoreIInv

\* One caller's place is another; the rest of its call, and the other calls, stay.
LEMMA StoreGoing ==
  ASSUME call \in [Callers -> StoreCallType], NEW c \in Callers, NEW at \in StorePlaces, Goto(c, at)
  PROVE  /\ call' \in [Callers -> StoreCallType]
         /\ \A d \in Callers : d # c => call'[d] = call[d]
         /\ call'[c].at = at /\ call'[c].mode = call[c].mode /\ call'[c].name = call[c].name
         /\ call'[c].edit = call[c].edit /\ call'[c].doc = call[c].doc
<1>1. PICK x \in StoreCallType : x = call[c]
  OBVIOUS
<1> DEFINE y == [x EXCEPT !.at = at]
<1>2. /\ y \in StoreCallType /\ y.at = at /\ y.mode = x.mode /\ y.name = x.name /\ y.edit = x.edit
      /\ y.doc = x.doc
  BY <1>1 DEF StoreCallType
<1>3. call' = [call EXCEPT ![c] = y]
  BY <1>1 DEF Goto
<1> HIDE DEF y
<1> QED
  BY <1>1, <1>2, <1>3

LEMMA StoreEnding ==
  ASSUME call \in [Callers -> StoreCallType], NEW c \in Callers, CallEnds(c)
  PROVE  /\ call' \in [Callers -> StoreCallType]
         /\ \A d \in Callers : d # c => call'[d] = call[d]
         /\ call'[c].at = "idle"
BY StoreNothing DEF CallEnds

\* A step of one caller that leaves every task file as it is.
LEMMA StoreQuietKeeps ==
  ASSUME StoreIInv, StoreTypeOK', NEW c \in Callers,
         \A d \in Callers : d # c => call'[d] = call[d],
         UNCHANGED <<doc, acked>>, \A n \in Names : dir'[n] = "file" <=> dir[n] = "file",
         broken => broken',
         ~broken' => \A d \in Callers : d # c /\ call[d].at \in StoreFiles => lock'.by = d,
         ~broken' => (call'[c].at \in StoreFiles => lock'.by = c),
         StoreSensible(call'[c]), ~broken' => StoreFresh(call'[c])
  PROVE  StoreIInv'
<1> USE DEF StoreIInv
<1>1. \A d \in Callers : StoreSensible(call[d])'
  BY DEF StoreSensible
<1>2. ASSUME ~broken' PROVE StoreGuarded'
  BY <1>2 DEF StoreGuarded
<1>3. ASSUME ~broken' PROVE StoreFilesMatch'
  BY <1>3 DEF StoreFilesMatch
<1>4. ASSUME ~broken' PROVE \A d \in Callers : StoreFresh(call[d])'
  BY <1>4 DEF StoreFresh
<1> QED
  BY <1>1, <1>2, <1>3, <1>4

-----------------------------------------------------------------------------
(* The lock.                                                                *)

LEMMA StoreCallsKeeps ==
  ASSUME StoreIInv, NEW c \in Callers, Calls(c)
  PROVE  StoreIInv'
<1>1. /\ calls < MaxCalls /\ calls' = calls + 1
      /\ UNCHANGED <<lock, dir, doc, failures, acked, broken>>
  BY DEF Calls
<1>2. PICK mode \in StoreModes, n \in Names :
        call' = [call EXCEPT ![c] =
          [NoCall EXCEPT !.mode = mode, !.at = "opens", !.name = n, !.edit = calls']]
  <2>1. PICK mode \in {"list", "create", "update", "delete", "origin"}, n \in Names :
          call' = [call EXCEPT ![c] =
            [NoCall EXCEPT !.mode = mode, !.at = "opens", !.name = n, !.edit = calls']]
    BY Zenon DEF Calls
  <2>2. mode \in StoreModes
    BY DEF StoreModes
  <2> QED
    BY <2>1, <2>2
<1>3. /\ call \in [Callers -> StoreCallType] /\ calls \in 0 .. MaxCalls
      /\ StoreTypeOK
  BY StoreTypesSplit DEF StoreIInv
<1>4. calls' \in 0 .. MaxCalls /\ calls' \in Edits
  BY <1>1, <1>3, StoreAssumption DEF Edits
<1> DEFINE y == [NoCall EXCEPT !.mode = mode, !.at = "opens", !.name = n, !.edit = calls']
<1>5. y \in StoreCallType /\ y.at = "opens" /\ y.name = n /\ y.edit \in Edits
  BY <1>4, StoreNothing DEF StoreCallType, StorePlaces, StoreModes, NoCall
<1> HIDE DEF y
<1>6. /\ call' \in [Callers -> StoreCallType] /\ call'[c] = y
      /\ \A d \in Callers : d # c => call'[d] = call[d]
  BY <1>2, <1>3, <1>5 DEF y
<1>7. StoreTypeOK'
  BY <1>1, <1>3, <1>4, <1>6, StoreTypesSplit DEF StoreTypeOK, StoreCallType, StoreModes, StorePlaces
<1>8. StoreSensible(call'[c]) /\ call'[c].at \notin StoreFiles /\ StoreFresh(call'[c])
  BY <1>5, <1>6 DEF StoreSensible, StoreFiles, StoreFresh
<1> QED
  BY <1>1, <1>6, <1>7, <1>8, StoreQuietKeeps DEF StoreIInv, StoreGuarded

\* The end of a call, or of its caller: nobody else is concerned unless the lock goes.
LEMMA StoreEndingKeeps ==
  ASSUME StoreIInv, NEW c \in Callers, CallEnds(c), UNCHANGED <<dir, doc, calls, acked>>,
         lock' \in [by : Callers \cup {NoCaller}, stale : BOOLEAN], failures' \in 0 .. MaxFailures,
         broken' \in BOOLEAN, broken => broken',
         lock' = lock \/ broken' \/ (lock' = Unlocked /\ call[c].at \in StoreFiles)
  PROVE  StoreIInv'
<1>1. StoreTypeOK /\ call \in [Callers -> StoreCallType]
  BY StoreTypesSplit DEF StoreIInv
<1>2. /\ call' \in [Callers -> StoreCallType] /\ call'[c].at = "idle"
      /\ \A d \in Callers : d # c => call'[d] = call[d]
  BY <1>1, StoreEnding
<1>3. StoreTypeOK'
  BY <1>1, <1>2 DEF StoreTypeOK, StoreCallType, StoreModes, StorePlaces
<1>4. StoreSensible(call'[c]) /\ call'[c].at \notin StoreFiles /\ StoreFresh(call'[c])
  BY <1>2 DEF StoreSensible, StoreFiles, StoreFresh
<1>5. ~broken' => \A d \in Callers : d # c /\ call[d].at \in StoreFiles => lock'.by = d
  BY DEF StoreIInv, StoreGuarded
<1> QED
  BY <1>2, <1>3, <1>4, <1>5, StoreQuietKeeps

LEMMA StoreLocksKeeps ==
  ASSUME StoreIInv, NEW c \in Callers, Locks(c)
  PROVE  StoreIInv'
<1>1. /\ call[c].at = "opens" /\ lock = Unlocked /\ lock' = [by |-> c, stale |-> FALSE]
      /\ Goto(c, "reads") /\ UNCHANGED <<dir, doc, calls, failures, acked, broken>>
  BY DEF Locks, Exclusive
<1>2. StoreTypeOK /\ call \in [Callers -> StoreCallType]
  BY StoreTypesSplit DEF StoreIInv
<1>3. /\ call' \in [Callers -> StoreCallType] /\ call'[c].at = "reads"
      /\ call'[c].name = call[c].name /\ call'[c].edit = call[c].edit
      /\ \A d \in Callers : d # c => call'[d] = call[d]
  BY <1>1, <1>2, StoreGoing DEF StorePlaces
<1>4. StoreTypeOK'
  BY <1>1, <1>2, <1>3 DEF StoreTypeOK, StoreCallType, StoreModes, StorePlaces
<1>5. StoreSensible(call'[c]) /\ StoreFresh(call'[c]) /\ lock'.by = c
  BY <1>1, <1>3 DEF StoreIInv, StoreSensible, StoreFresh
<1>6. ~broken => \A d \in Callers : call[d].at \notin StoreFiles
  BY <1>1, StoreNothing, StoreAssumption DEF StoreIInv, StoreGuarded
<1> QED
  BY <1>1, <1>3, <1>4, <1>5, <1>6, StoreQuietKeeps

\* An attempt more, while there is one left.
LEMMA StoreTrying ==
  ASSUME call \in [Callers -> StoreCallType], NEW c \in Callers, ~LastTry(c), NEW at \in StorePlaces,
         call' = [call EXCEPT ![c].at = at, ![c].tries = @ + 1]
  PROVE  /\ call' \in [Callers -> StoreCallType] /\ call'[c].at = at
         /\ call'[c].name = call[c].name /\ call'[c].edit = call[c].edit
         /\ \A d \in Callers : d # c => call'[d] = call[d]
<1>1. PICK x \in StoreCallType : x = call[c]
  OBVIOUS
<1> DEFINE t == x.tries + 1
<1>2. x.tries \in 0 .. MaxTries - 1 /\ x.tries + 1 # MaxTries
  BY <1>1 DEF StoreCallType, LastTry
<1>3. t \in 0 .. MaxTries - 1
  BY <1>2, StoreAssumption
<1>4. call' = [call EXCEPT ![c] = [x EXCEPT !.at = at, !.tries = t]]
  BY <1>1
<1> HIDE DEF t
<1> DEFINE y == [x EXCEPT !.at = at, !.tries = t]
<1>5. y \in StoreCallType /\ y.at = at /\ y.name = x.name /\ y.edit = x.edit
  BY <1>3 DEF StoreCallType
<1> HIDE DEF y
<1> QED
  BY <1>1, <1>4, <1>5 DEF y

LEMMA StoreWaitsKeeps ==
  ASSUME StoreIInv, NEW c \in Callers, Waits(c)
  PROVE  StoreIInv'
<1>1. /\ call[c].at = "opens" /\ UNCHANGED <<lock, dir, doc, calls, failures, acked, broken>>
  BY DEF Waits
<1>2. StoreTypeOK /\ call \in [Callers -> StoreCallType]
  BY StoreTypesSplit DEF StoreIInv
<1>3. CASE CallEnds(c)
  BY <1>1, <1>2, <1>3, StoreEndingKeeps DEF StoreTypeOK
<1>4. CASE \/ Goto(c, "breaks")
           \/ ~LastTry(c) /\ call' = [call EXCEPT ![c].tries = @ + 1]
  <2>1. /\ call' \in [Callers -> StoreCallType] /\ call'[c].at \in {"opens", "breaks"}
        /\ call'[c].name = call[c].name /\ call'[c].edit = call[c].edit
        /\ \A d \in Callers : d # c => call'[d] = call[d]
    <3>1. CASE Goto(c, "breaks")
      BY <1>2, <3>1, StoreGoing DEF StorePlaces
    <3>2. CASE ~LastTry(c) /\ call' = [call EXCEPT ![c].tries = @ + 1]
      <4>1. PICK x \in StoreCallType : x = call[c]
        BY <1>2
      <4>2. [x EXCEPT !.at = "opens", !.tries = @ + 1] = [x EXCEPT !.tries = @ + 1]
        BY <1>1, <4>1 DEF StoreCallType
      <4>3. call' = [call EXCEPT ![c].at = "opens", ![c].tries = @ + 1]
        BY <3>2, <4>1, <4>2
      <4> QED
        BY <1>2, <3>2, <4>3, StoreTrying DEF StorePlaces
    <3> QED
      BY <1>4, <3>1, <3>2
  <2>2. StoreTypeOK'
    BY <1>1, <1>2, <2>1 DEF StoreTypeOK, StoreCallType, StoreModes, StorePlaces
  <2>3. StoreSensible(call'[c]) /\ call'[c].at \notin StoreFiles /\ StoreFresh(call'[c])
    BY <1>1, <2>1 DEF StoreIInv, StoreSensible, StoreFiles, StoreFresh
  <2> QED
    BY <1>1, <2>1, <2>2, <2>3, StoreQuietKeeps DEF StoreIInv, StoreGuarded
<1> QED
  BY <1>3, <1>4 DEF Waits

LEMMA StoreBreaksKeeps ==
  ASSUME StoreIInv, NEW c \in Callers, Breaks(c)
  PROVE  StoreIInv'
<1>1. /\ call[c].at = "breaks" /\ lock' = Unlocked /\ broken' = TRUE
      /\ UNCHANGED <<dir, doc, calls, failures, acked>>
  BY DEF Breaks
<1>2. StoreTypeOK /\ call \in [Callers -> StoreCallType]
  BY StoreTypesSplit DEF StoreIInv
<1>3. CASE CallEnds(c)
  BY <1>1, <1>2, <1>3, StoreEndingKeeps, StoreNothing DEF StoreTypeOK
<1>4. CASE ~LastTry(c) /\ call' = [call EXCEPT ![c].at = "opens", ![c].tries = @ + 1]
  <2>1. /\ call' \in [Callers -> StoreCallType] /\ call'[c].at = "opens"
        /\ call'[c].name = call[c].name /\ call'[c].edit = call[c].edit
        /\ \A d \in Callers : d # c => call'[d] = call[d]
    BY <1>2, <1>4, StoreTrying DEF StorePlaces
  <2>2. StoreTypeOK'
    BY <1>1, <1>2, <2>1, StoreNothing DEF StoreTypeOK, StoreCallType, StoreModes, StorePlaces
  <2>3. StoreSensible(call'[c])
    BY <1>1, <2>1 DEF StoreIInv, StoreSensible
  <2> QED
    BY <1>1, <2>1, <2>2, <2>3, StoreQuietKeeps
<1> QED
  BY <1>3, <1>4 DEF Breaks

LEMMA StoreUnlocksKeeps ==
  ASSUME StoreIInv, NEW c \in Callers, Unlocks(c)
  PROVE  StoreIInv'
BY StoreEndingKeeps, StoreNothing DEF Unlocks, StoreFiles, StoreIInv, StoreTypeOK

LEMMA StoreDiesKeeps ==
  ASSUME StoreIInv, NEW c \in Callers, Dies(c)
  PROVE  StoreIInv'
<1>1. failures' \in 0 .. MaxFailures
  BY StoreAssumption DEF Dies, StoreIInv, StoreTypeOK
<1> QED
  BY <1>1, StoreEndingKeeps DEF Dies, StoreIInv, StoreTypeOK

LEMMA StoreAgesKeeps ==
  ASSUME StoreIInv, Ages
  PROVE  StoreIInv'
<1>1. /\ failures < MaxFailures /\ failures' = failures + 1 /\ lock' = [lock EXCEPT !.stale = TRUE]
      /\ UNCHANGED <<dir, doc, call, calls, acked, broken>>
  BY DEF Ages
<1>2. failures' \in 0 .. MaxFailures
  BY <1>1, StoreAssumption DEF StoreIInv, StoreTypeOK
<1>3. lock' \in [by : Callers \cup {NoCaller}, stale : BOOLEAN] /\ lock'.by = lock.by
  BY <1>1 DEF StoreIInv, StoreTypeOK
<1>4. StoreTypeOK'
  BY <1>1, <1>2, <1>3 DEF StoreIInv, StoreTypeOK
<1> QED
  BY <1>1, <1>3, <1>4 DEF StoreIInv, StoreSensible, StoreFresh, StoreGuarded, StoreFilesMatch

-----------------------------------------------------------------------------
(* The files.                                                               *)

\* Who is at the files is there alone, and stays so while it is.
LEMMA StoreAlone ==
  ASSUME StoreIInv, ~broken, NEW c \in Callers, call[c].at \in StoreFiles
  PROVE  lock.by = c /\ \A d \in Callers : d # c => call[d].at \notin StoreFiles
BY DEF StoreIInv, StoreGuarded

LEMMA StoreRefusedKeeps ==
  ASSUME StoreIInv, NEW c \in Callers, Refused(c)
  PROVE  StoreIInv'
<1>1. /\ call[c].at = "reads" /\ Goto(c, "unlocks")
      /\ UNCHANGED <<lock, dir, doc, calls, failures, acked, broken>>
  BY DEF Refused
<1>2. StoreTypeOK /\ call \in [Callers -> StoreCallType]
  BY StoreTypesSplit DEF StoreIInv
<1>3. /\ call' \in [Callers -> StoreCallType] /\ call'[c].at = "unlocks"
      /\ call'[c].name = call[c].name /\ call'[c].edit = call[c].edit
      /\ \A d \in Callers : d # c => call'[d] = call[d]
  BY <1>1, <1>2, StoreGoing DEF StorePlaces
<1>4. StoreTypeOK'
  BY <1>1, <1>2, <1>3 DEF StoreTypeOK, StoreCallType, StoreModes, StorePlaces
<1>5. StoreSensible(call'[c]) /\ StoreFresh(call'[c])
  BY <1>1, <1>3 DEF StoreIInv, StoreSensible, StoreFresh
<1>6. call[c].at \in StoreFiles
  BY <1>1 DEF StoreFiles
<1> QED
  BY <1>1, <1>3, <1>4, <1>5, <1>6, StoreAlone, StoreQuietKeeps

\* A call that goes to write, of the task n and what is to be in its file.
LEMMA StoreWriting ==
  ASSUME call \in [Callers -> StoreCallType], NEW c \in Callers, NEW n \in Names, NEW d \in Docs,
         call' = [call EXCEPT ![c].at = "writes", ![c].name = n, ![c].doc = d]
  PROVE  /\ call' \in [Callers -> StoreCallType]
         /\ \A b \in Callers : b # c => call'[b] = call[b]
         /\ call'[c].at = "writes" /\ call'[c].mode = call[c].mode /\ call'[c].name = n
         /\ call'[c].edit = call[c].edit /\ call'[c].doc = d
<1>1. PICK x \in StoreCallType : x = call[c]
  OBVIOUS
<1> DEFINE y == [x EXCEPT !.at = "writes", !.name = n, !.doc = d]
<1>2. /\ y \in StoreCallType /\ y.at = "writes" /\ y.mode = x.mode /\ y.name = n /\ y.edit = x.edit
      /\ y.doc = d
  BY <1>1 DEF StoreCallType, StorePlaces
<1>3. call' = [call EXCEPT ![c] = y]
  BY <1>1
<1> HIDE DEF y
<1> QED
  BY <1>1, <1>2, <1>3

\* A step to a write of a fresh document under the lock, the directories apart.
LEMMA StoreWritingKeeps ==
  ASSUME StoreIInv, NEW c \in Callers, NEW n \in Names, NEW d \in Docs,
         call[c].at = "reads", call[c].mode \in {"create", "update", "origin"},
         call' = [call EXCEPT ![c].at = "writes", ![c].name = n, ![c].doc = d],
         dir' \in [Names -> {"none", "empty", "file"}],
         \A m \in Names : dir'[m] = "file" <=> dir[m] = "file",
         UNCHANGED <<lock, doc, calls, failures, acked, broken>>,
         ~broken => /\ call[c].mode = "create" => d.edits = {call[c].edit}
                    /\ call[c].mode = "update" => d.edits = doc[n].edits \cup {call[c].edit}
                    /\ call[c].mode = "origin" => d.edits = doc[n].edits /\ d.edits # {}
  PROVE  StoreIInv'
<1>1. StoreTypeOK /\ call \in [Callers -> StoreCallType]
  BY StoreTypesSplit DEF StoreIInv
<1>2. /\ call' \in [Callers -> StoreCallType]
      /\ \A b \in Callers : b # c => call'[b] = call[b]
      /\ call'[c].at = "writes" /\ call'[c].mode = call[c].mode /\ call'[c].name = n
      /\ call'[c].edit = call[c].edit /\ call'[c].doc = d
  BY <1>1, StoreWriting
<1>3. StoreTypeOK'
  BY <1>1, <1>2 DEF StoreTypeOK, StoreCallType, StoreModes, StorePlaces
<1>4. StoreSensible(call'[c])
  BY <1>2 DEF StoreIInv, StoreSensible
<1>5. ~broken => StoreFresh(call'[c])
  BY <1>2 DEF StoreFresh
<1>6. call[c].at \in StoreFiles
  BY DEF StoreFiles
<1> QED
  BY <1>2, <1>3, <1>4, <1>5, <1>6, StoreAlone, StoreQuietKeeps

LEMMA StoreMakesTaskKeeps ==
  ASSUME StoreIInv, NEW c \in Callers, MakesTask(c)
  PROVE  StoreIInv'
<1>1. PICK n \in Names :
        /\ dir[n] = "none" /\ dir' = [dir EXCEPT ![n] = "empty"]
        /\ call' = [call EXCEPT ![c].at = "writes", ![c].name = n,
                                ![c].doc = [NoDoc EXCEPT !.edits = {call[c].edit}]]
  BY DEF MakesTask, FreeName
<1>2. /\ call[c].at = "reads" /\ call[c].mode = "create"
      /\ UNCHANGED <<lock, doc, calls, failures, acked, broken>>
  BY DEF MakesTask
<1> DEFINE d == [NoDoc EXCEPT !.edits = {call[c].edit}]
<1>3. d \in Docs /\ d.edits = {call[c].edit}
  <2>1. call[c].edit \in Edits
    BY <1>2 DEF StoreIInv, StoreSensible
  <2> QED
    BY <2>1 DEF NoDoc, Docs
<1>4. call' = [call EXCEPT ![c].at = "writes", ![c].name = n, ![c].doc = d]
  BY <1>1
<1> HIDE DEF d
<1>5. /\ dir' \in [Names -> {"none", "empty", "file"}]
      /\ \A m \in Names : dir'[m] = "file" <=> dir[m] = "file"
  BY <1>1 DEF StoreIInv, StoreTypeOK
<1> QED
  BY <1>2, <1>3, <1>4, <1>5, StoreWritingKeeps

LEMMA StoreReadsTaskKeeps ==
  ASSUME StoreIInv, NEW c \in Callers, ReadsTask(c)
  PROVE  StoreIInv'
<1> DEFINE n == call[c].name
           d == Edited(doc[n], c)
<1>1. /\ call[c].at = "reads" /\ call[c].mode \in {"update", "origin"}
      /\ UNCHANGED <<lock, dir, doc, calls, failures, acked, broken>>
  BY DEF ReadsTask
<1>2. CASE Goto(c, "unlocks")
  <2>1. /\ StoreTypeOK /\ call \in [Callers -> StoreCallType]
    BY StoreTypesSplit DEF StoreIInv
  <2>2. /\ call' \in [Callers -> StoreCallType] /\ call'[c].at = "unlocks"
        /\ call'[c].name = call[c].name /\ call'[c].edit = call[c].edit
        /\ \A b \in Callers : b # c => call'[b] = call[b]
    BY <1>2, <2>1, StoreGoing DEF StorePlaces
  <2>3. StoreTypeOK'
    BY <1>1, <2>1, <2>2 DEF StoreTypeOK, StoreCallType, StoreModes, StorePlaces
  <2>4. StoreSensible(call'[c]) /\ StoreFresh(call'[c]) /\ call[c].at \in StoreFiles
    BY <1>1, <2>2 DEF StoreIInv, StoreSensible, StoreFresh, StoreFiles
  <2> QED
    BY <1>1, <2>2, <2>3, <2>4, StoreAlone, StoreQuietKeeps
<1>3. CASE dir[n] = "file" /\ call' = [call EXCEPT ![c].at = "writes", ![c].doc = d]
  <2>1. n \in Names /\ call[c].edit \in Edits
    BY <1>1 DEF StoreIInv, StoreSensible
  <2>2. PICK x \in Docs : x = doc[n]
    BY <2>1 DEF StoreIInv, StoreTypeOK
  <2> DEFINE u == x.edits \cup {call[c].edit}
  <2>3. u \in SUBSET Edits /\ x.edits \in SUBSET Edits /\ u = x.edits \cup {call[c].edit}
    BY <2>1, <2>2 DEF Docs
  <2>4. d = IF call[c].mode = "origin" THEN [x EXCEPT !.origin = TRUE] ELSE [x EXCEPT !.edits = u]
    BY <2>2 DEF Edited
  <2> HIDE DEF d, u
  <2>5. d \in Docs /\ (call[c].mode = "origin" => d.edits = x.edits)
                   /\ (call[c].mode = "update" => d.edits = u)
    BY <1>1, <2>2, <2>3, <2>4 DEF Docs
  <2>6. call' = [call EXCEPT ![c].at = "writes", ![c].name = n, ![c].doc = d]
    <3>1. PICK y \in StoreCallType : y = call[c]
      BY StoreTypesSplit DEF StoreIInv
    <3>2. [y EXCEPT !.at = "writes", !.doc = d] = [y EXCEPT !.at = "writes", !.name = y.name, !.doc = d]
      BY <3>1 DEF StoreCallType
    <3> QED
      BY <1>3, <3>1, <3>2
  <2>7. ~broken => x.edits # {}
    BY <1>3, <2>1, <2>2 DEF StoreIInv, StoreFilesMatch
  <2>8. dir' \in [Names -> {"none", "empty", "file"}]
    BY <1>1 DEF StoreIInv, StoreTypeOK
  <2> HIDE DEF n
  <2> QED
    BY <1>1, <2>1, <2>2, <2>3, <2>5, <2>6, <2>7, <2>8, StoreWritingKeeps
<1> QED
  BY <1>2, <1>3 DEF ReadsTask

\* A change of one task by a caller that is at the files and goes on or unlocks.
LEMMA StoreChangeKeeps ==
  ASSUME StoreIInv, NEW c \in Callers, NEW n \in Names, NEW at \in {"removes", "unlocks"},
         call[c].at \in StoreFiles, Goto(c, at),
         NEW f \in {"empty", "file"}, NEW d \in Docs, NEW a \in SUBSET Edits,
         dir' = [dir EXCEPT ![n] = f], doc' = [doc EXCEPT ![n] = d], acked' = [acked EXCEPT ![n] = a],
         UNCHANGED <<lock, calls, failures, broken>>,
         ~broken => a \subseteq d.edits /\ (f = "file" <=> d.edits # {})
  PROVE  StoreIInv'
<1>1. StoreTypeOK /\ call \in [Callers -> StoreCallType]
  BY StoreTypesSplit DEF StoreIInv
<1>2. /\ call' \in [Callers -> StoreCallType] /\ call'[c].at = at
      /\ call'[c].name = call[c].name /\ call'[c].edit = call[c].edit
      /\ \A b \in Callers : b # c => call'[b] = call[b]
  BY <1>1, StoreGoing DEF StorePlaces
<1>3. /\ dir \in [Names -> {"none", "empty", "file"}] /\ doc \in [Names -> Docs]
      /\ acked \in [Names -> SUBSET Edits]
  BY <1>1 DEF StoreTypeOK
<1>4. /\ dir'[n] = f /\ doc'[n] = d /\ acked'[n] = a
      /\ \A m \in Names : m # n => dir'[m] = dir[m] /\ doc'[m] = doc[m] /\ acked'[m] = acked[m]
  BY <1>3
<1>5. StoreTypeOK'
  BY <1>1, <1>2, <1>3 DEF StoreTypeOK, StoreCallType, StoreModes, StorePlaces
<1>6. \A b \in Callers : StoreSensible(call[b])'
  BY <1>2 DEF StoreIInv, StoreSensible, StoreFiles
<1>7. ASSUME ~broken PROVE StoreGuarded' /\ StoreFilesMatch' /\ \A b \in Callers : StoreFresh(call[b])'
  <2>1. lock.by = c /\ \A b \in Callers : b # c => call[b].at \notin StoreFiles
    BY <1>7, StoreAlone
  <2>2. StoreGuarded'
    BY <1>2, <2>1 DEF StoreGuarded
  <2>3. StoreFilesMatch'
    BY <1>4, <1>7 DEF StoreIInv, StoreFilesMatch
  <2>4. \A b \in Callers : call'[b].at # "writes"
    BY <1>2, <2>1 DEF StoreFiles
  <2> QED
    BY <2>2, <2>3, <2>4 DEF StoreFresh
<1> QED
  BY <1>5, <1>6, <1>7 DEF StoreIInv

\* A step of one at the files that tells about directories without a file only.
LEMMA StoreDirectoryKeeps ==
  ASSUME StoreIInv, NEW c \in Callers, NEW n \in Names, call[c].at \in StoreFiles, Goto(c, "unlocks"),
         dir' = dir \/ (dir[n] = "empty" /\ dir' = [dir EXCEPT ![n] = "none"]),
         UNCHANGED <<lock, doc, calls, failures, acked, broken>>
  PROVE  StoreIInv'
<1>1. StoreTypeOK /\ call \in [Callers -> StoreCallType]
  BY StoreTypesSplit DEF StoreIInv
<1>2. /\ call' \in [Callers -> StoreCallType] /\ call'[c].at = "unlocks"
      /\ call'[c].name = call[c].name /\ call'[c].edit = call[c].edit
      /\ \A b \in Callers : b # c => call'[b] = call[b]
  BY <1>1, StoreGoing DEF StorePlaces
<1>3. /\ dir' \in [Names -> {"none", "empty", "file"}]
      /\ \A m \in Names : dir'[m] = "file" <=> dir[m] = "file"
  BY <1>1 DEF StoreTypeOK
<1>4. StoreTypeOK'
  BY <1>1, <1>2, <1>3 DEF StoreTypeOK, StoreCallType, StoreModes, StorePlaces
<1>5. StoreSensible(call'[c]) /\ StoreFresh(call'[c])
  BY <1>2 DEF StoreIInv, StoreSensible, StoreFresh, StoreFiles
<1> QED
  BY <1>2, <1>3, <1>4, <1>5, StoreAlone, StoreQuietKeeps

LEMMA StoreWriteKeeps ==
  ASSUME StoreIInv, NEW c \in Callers, writeDocument(c)
  PROVE  StoreIInv'
<1> DEFINE n == call[c].name
<1>1. /\ call[c].at = "writes" /\ Goto(c, "unlocks")
      /\ UNCHANGED <<lock, calls, failures, broken>>
  BY DEF writeDocument
<1>2. n \in Names /\ call[c].edit \in Edits /\ call[c].mode \in {"create", "update", "origin"}
  BY <1>1 DEF StoreIInv, StoreSensible
<1>3. call[c].doc \in Docs /\ acked \in [Names -> SUBSET Edits] /\ call[c].at \in StoreFiles
  BY <1>1, StoreTypesSplit DEF StoreIInv, StoreCallType, StoreFiles
<1>4. CASE /\ dir' = [dir EXCEPT ![n] = "file"] /\ doc' = [doc EXCEPT ![n] = call[c].doc]
           /\ Acknowledges(c, n)
  <2> DEFINE a == IF call[c].mode = "create" THEN {call[c].edit}
                  ELSE IF call[c].mode = "update" THEN acked[n] \cup {call[c].edit} ELSE acked[n]
  <2>1. acked' = [acked EXCEPT ![n] = a]
    BY <1>4 DEF Acknowledges
  <2>2. a \in SUBSET Edits
    BY <1>2, <1>3
  <2>3. ~broken => a \subseteq call[c].doc.edits /\ call[c].doc.edits # {}
    BY <1>1, <1>2 DEF StoreIInv, StoreFresh, StoreFilesMatch
  <2> HIDE DEF a
  <2> QED
    BY <1>1, <1>2, <1>3, <1>4, <2>1, <2>2, <2>3, StoreChangeKeeps
<1>5. CASE /\ IF call[c].mode = "create" /\ dir[n] = "empty"
              THEN dir' = [dir EXCEPT ![n] = "none"] ELSE UNCHANGED dir
           /\ UNCHANGED <<doc, acked>>
  BY <1>1, <1>2, <1>3, <1>5, StoreDirectoryKeeps
<1> QED
  BY <1>4, <1>5 DEF writeDocument

LEMMA StoreDeletesKeeps ==
  ASSUME StoreIInv, NEW c \in Callers, Deletes(c)
  PROVE  StoreIInv'
<1> DEFINE n == call[c].name
<1>1. UNCHANGED <<lock, calls, failures, broken>>
  BY DEF Deletes
<1>2. CASE /\ call[c].at = "reads" /\ dir[n] = "file"
           /\ dir' = [dir EXCEPT ![n] = "empty"] /\ doc' = [doc EXCEPT ![n] = NoDoc]
           /\ acked' = [acked EXCEPT ![n] = {}]
           /\ Goto(c, "removes")
  <2>1. n \in Names /\ call[c].at \in StoreFiles
    BY <1>2 DEF StoreIInv, StoreSensible, StoreFiles
  <2> QED
    BY <1>1, <1>2, <2>1, StoreNothing, StoreChangeKeeps
<1>3. CASE /\ call[c].at = "removes"
           /\ dir' = [dir EXCEPT ![n] = IF @ = "empty" THEN "none" ELSE @]
           /\ Goto(c, "unlocks") /\ UNCHANGED <<doc, acked>>
  <2>1. n \in Names /\ call[c].at \in StoreFiles
    BY <1>3 DEF StoreIInv, StoreSensible, StoreFiles
  <2>2. dir' = dir \/ (dir[n] = "empty" /\ dir' = [dir EXCEPT ![n] = "none"])
    BY <1>3, <2>1 DEF StoreIInv, StoreTypeOK
  <2> QED
    BY <1>1, <1>3, <2>1, <2>2, StoreDirectoryKeeps
<1> QED
  BY <1>2, <1>3 DEF Deletes

-----------------------------------------------------------------------------
LEMMA StoreNextKeeps ==
  ASSUME StoreIInv, [StoreNext]_storeVars
  PROVE  StoreIInv'
<1>1. CASE StoreNext
  <2>1. ASSUME NEW c \in Callers,
               \/ Calls(c) \/ Locks(c) \/ Waits(c) \/ Breaks(c) \/ Unlocks(c) \/ Dies(c)
        PROVE  StoreIInv'
    BY <2>1, StoreCallsKeeps, StoreLocksKeeps, StoreWaitsKeeps, StoreBreaksKeeps,
        StoreUnlocksKeeps, StoreDiesKeeps
  <2>2. ASSUME NEW c \in Callers,
               Refused(c) \/ MakesTask(c) \/ ReadsTask(c) \/ writeDocument(c) \/ Deletes(c)
        PROVE  StoreIInv'
    BY <2>2, StoreRefusedKeeps, StoreMakesTaskKeeps, StoreReadsTaskKeeps, StoreWriteKeeps, StoreDeletesKeeps
  <2> QED
    BY <1>1, <2>1, <2>2, StoreAgesKeeps DEF StoreNext
<1>2. CASE UNCHANGED storeVars
  BY <1>2 DEF StoreIInv, StoreTypeOK, StoreSensible, StoreFresh, StoreGuarded, StoreFilesMatch, storeVars
<1> QED
  BY <1>1, <1>2

LEMMA StoreIInvHolds == StoreSpec => []StoreIInv
BY StoreInitIInv, StoreNextKeeps, PTL DEF StoreSpec

\* Lock, directories, documents and calls keep their types, removed lock files or not.
THEOREM StoreTypes == StoreSpec => []StoreTypeOK
<1>1. StoreIInv => StoreTypeOK
  BY DEF StoreIInv
<1> QED
  BY <1>1, StoreIInvHolds, PTL

\* store.go: until a waiter removes a lock file there is one caller at the files, no
\* acknowledged edit is overwritten by an older copy, and the tasks listed are the ones
\* that were made and not deleted, wherever callers die and however writes fail.
THEOREM StoreKeepsTasks == StoreSpec => []TasksAreKept
<1>1. StoreIInv => TasksAreKept
  <2> SUFFICES ASSUME StoreIInv, ~broken PROVE OneAtFiles /\ NoEditIsLost
    BY DEF TasksAreKept
  <2>1. AtFiles = {} \/ AtFiles = {lock.by}
    BY DEF StoreIInv, StoreGuarded, StoreFiles, AtFiles
  <2>2. OneAtFiles
    <3>1. Cardinality(AtFiles) = 0 \/ Cardinality(AtFiles) = 1
      BY <2>1, FS_EmptySet, FS_Singleton
    <3> QED
      BY <3>1 DEF OneAtFiles
  <2>3. NoEditIsLost
    BY DEF StoreIInv, StoreFilesMatch, NoEditIsLost, Listed
  <2> QED
    BY <2>2, <2>3
<1> QED
  BY <1>1, StoreIInvHolds, PTL

-----------------------------------------------------------------------------
(* LaunchAgent: any number of installations.                               *)

AgentSteps == {"", "config", "plist", "login", "installed", "bootout", "gone", "bootstrap",
          "kickstart", "restart", "unlogin", "unplist", "unconfig"}

\* guardHostedServiceMutation: no command at work is hosted.
AgentCommands == [does : Mutations \cup {""}, step : AgentSteps, starts : BOOLEAN, atLogin : BOOLEAN,
             hosted : {FALSE}]

AgentInTypes ==
    /\ config \in Setups /\ plist \in Setups /\ login \in Setups /\ setups \in Setups
    /\ agentJob \in [state : {"out", "loaded", "leaving"}, of : Setups]
    /\ cli \in AgentCommands /\ wanted \in BOOLEAN

\* A job, its file and its copy for logins have settings to go by.
AgentBacked == agentJob.state # "out" \/ login # 0 \/ plist # 0 => config # 0

\* The files are removed from the one that starts the job to the settings, once the job
\* is gone.
AgentRemoval ==
    /\ cli.step \in {"unlogin", "unplist", "unconfig"} => agentJob.state = "out"
    /\ cli.step \in {"unplist", "unconfig"} => login = 0
    /\ cli.step = "unconfig" => plist = 0

AgentIInv == AgentInTypes /\ (wanted => agentJob.state = "loaded") /\ AgentBacked /\ AgentRemoval

LEMMA AgentIdle == NoCommand \in AgentCommands /\ NoCommand.step = ""
BY DEF NoCommand, AgentCommands, AgentSteps

\* StepsTo moves the command and nothing of it.
LEMMA AgentStepping ==
  ASSUME cli \in AgentCommands, NEW step \in AgentSteps, StepsTo(step)
  PROVE  cli' \in AgentCommands /\ cli'.step = step
BY DEF StepsTo, AgentCommands

LEMMA AgentJobs ==
  ASSUME NEW n \in Setups, NEW s \in {"out", "loaded", "leaving"}
  PROVE  /\ [state |-> s, of |-> n] \in [state : {"out", "loaded", "leaving"}, of : Setups]
         /\ [state |-> s, of |-> n].state = s
OBVIOUS

LEMMA AgentInitIInv == AgentInit => AgentIInv
<1> SUFFICES ASSUME AgentInit PROVE AgentIInv
  OBVIOUS
<1>1. 0 \in Setups
  BY SetupsAssumption DEF Setups
<1> QED
  BY <1>1, AgentIdle, AgentJobs DEF AgentInit, AgentIInv, AgentInTypes, AgentBacked, AgentRemoval

\* The steps of an installation and the login switches write files and leave launchd alone.
LEMMA AgentFilesKeep ==
  ASSUME AgentIInv, writeConfigEnv \/ writePlist \/ copyFile \/ Installed
               \/ runServiceEnableLogin \/ runServiceDisableLogin
  PROVE  AgentIInv'
<1> USE DEF AgentIInv, AgentInTypes, AgentBacked, AgentRemoval
<1>0. 0 \in Setups
  BY SetupsAssumption DEF Setups
<1>1. CASE writeConfigEnv
  <2>1. UNCHANGED <<plist, login, agentJob, wanted>> /\ cli.step = "config"
    BY <1>1 DEF writeConfigEnv, CliAt
  <2>2. CASE Quits /\ UNCHANGED <<config, setups>>
    BY <2>1, <2>2, AgentIdle DEF Quits
  <2>3. CASE /\ setups < MaxSetups
             /\ \E v \in Collected : config' = v /\ setups' = (IF v > setups THEN v ELSE setups)
             /\ StepsTo("plist")
    <3>1. cli' \in AgentCommands /\ cli'.step = "plist"
      BY <2>3, AgentStepping DEF AgentSteps
    <3>2. \A v \in Collected : v \in Setups /\ v # 0
      BY <2>3, SetupsAssumption DEF Collected, Setups
    <3>3. config' \in Setups /\ config' # 0 /\ setups' \in Setups
      BY <2>3, <3>2
    <3> QED
      BY <2>1, <3>1, <3>3
  <2> QED
    BY <1>1, <2>2, <2>3 DEF writeConfigEnv
<1>2. CASE writePlist
  <2>1. /\ plist' = config /\ cli' \in AgentCommands /\ cli'.step \in {"login", "installed"}
        /\ UNCHANGED <<config, login, agentJob, setups, wanted>>
    BY <1>2, AgentStepping DEF writePlist, AgentSteps
  <2> QED
    BY <2>1
<1>3. CASE copyFile
  <2>1. /\ login' = plist /\ cli' \in AgentCommands /\ cli'.step = "installed"
        /\ UNCHANGED <<config, plist, agentJob, setups, wanted>>
    BY <1>3, AgentStepping DEF copyFile, AgentSteps
  <2> QED
    BY <2>1
<1>4. CASE Installed
  <2>1. /\ cli' \in AgentCommands /\ cli'.step \in {"bootout", ""}
        /\ UNCHANGED <<config, plist, login, agentJob, setups, wanted>>
    BY <1>4, AgentStepping, AgentIdle DEF Installed, AgentSteps, Quits, agentFiles
  <2> QED
    BY <2>1
<1>5. CASE runServiceEnableLogin
  BY <1>5, AgentIdle DEF runServiceEnableLogin
<1>6. CASE runServiceDisableLogin
  BY <1>0, <1>6, AgentIdle DEF runServiceDisableLogin
<1> QED
  BY <1>1, <1>2, <1>3, <1>4, <1>5, <1>6

\* The steps that ask launchd for something.
LEMMA AgentLaunchdKeeps ==
  ASSUME AgentIInv, serviceStop \/ waitServiceLoaded \/ runServiceStart \/ Kickstarts \/ runServiceRestart
  PROVE  AgentIInv'
<1> USE DEF AgentIInv, AgentInTypes, AgentBacked, AgentRemoval
<1>1. CASE serviceStop
  <2>1. /\ agentJob' = IF agentJob.state = "loaded" THEN [agentJob EXCEPT !.state = "leaving"] ELSE agentJob
        /\ wanted' = (wanted /\ cli.hosted) /\ StepsTo("gone")
        /\ UNCHANGED <<config, plist, login, setups>>
    BY <1>1 DEF serviceStop, agentFiles
  <2>2. cli' \in AgentCommands /\ cli'.step = "gone"
    BY <2>1, AgentStepping DEF AgentSteps
  <2>3. /\ agentJob' \in [state : {"out", "loaded", "leaving"}, of : Setups]
        /\ agentJob'.state # "out" => agentJob.state # "out"
    BY <2>1
  <2>4. cli.hosted = FALSE
    BY DEF AgentCommands
  <2>5. wanted' = FALSE
    BY <2>1, <2>4
  <2> QED
    BY <2>1, <2>2, <2>3, <2>5
<1>2. CASE waitServiceLoaded
  <2>1. UNCHANGED <<config, plist, login, agentJob, setups, wanted>>
    BY <1>2 DEF waitServiceLoaded, agentFiles
  <2>2. \/ cli' \in AgentCommands /\ cli'.step \in {"", "bootstrap"}
        \/ cli' \in AgentCommands /\ cli'.step = "unlogin" /\ agentJob.state = "out"
    <3>1. \/ AfterStop(~Printed) \in {"", "bootstrap"}
          \/ AfterStop(~Printed) = "unlogin" /\ agentJob.state = "out"
      BY DEF AfterStop, Printed
    <3> QED
      BY <1>2, <3>1, AgentStepping, AgentIdle DEF waitServiceLoaded, AgentSteps, Quits
  <2> QED
    BY <2>1, <2>2
<1>3. CASE runServiceStart
  <2>1. UNCHANGED <<config, plist, login, setups, wanted>> /\ cli.step = "bootstrap"
    BY <1>3 DEF runServiceStart, CliAt, agentFiles
  <2>2. \/ cli' \in AgentCommands /\ cli'.step = "kickstart"
        \/ cli' \in AgentCommands /\ cli'.step = ""
    BY <1>3, AgentStepping, AgentIdle DEF runServiceStart, AgentSteps, Quits
  <2>3. \/ agentJob' = agentJob
        \/ \E from \in {login, plist} : from # 0 /\ agentJob' = [state |-> "loaded", of |-> from]
    BY <1>3 DEF runServiceStart
  <2>4. CASE agentJob' = agentJob
    BY <2>1, <2>2, <2>4
  <2>5. CASE \E from \in {login, plist} : from # 0 /\ agentJob' = [state |-> "loaded", of |-> from]
    <3>1. PICK from \in {login, plist} : from # 0 /\ agentJob' = [state |-> "loaded", of |-> from]
      BY <2>5
    <3>2. /\ agentJob' \in [state : {"out", "loaded", "leaving"}, of : Setups]
          /\ agentJob'.state = "loaded" /\ config # 0
      BY <3>1, AgentJobs
    <3> QED
      BY <2>1, <2>2, <3>2
  <2> QED
    BY <2>3, <2>4, <2>5
<1>4. CASE Kickstarts
  <2>1. /\ cli' \in AgentCommands /\ cli'.step = "" /\ wanted' = (wanted \/ agentJob.state = "loaded")
        /\ UNCHANGED <<config, plist, login, agentJob, setups>>
    BY <1>4, AgentIdle DEF Kickstarts, Quits, agentFiles
  <2> QED
    BY <2>1
<1>5. CASE runServiceRestart
  <2>1. /\ UNCHANGED <<config, plist, login, agentJob, setups, wanted>>
        /\ cli' \in AgentCommands /\ cli'.step \in {"", "bootstrap"}
    BY <1>5, AgentStepping, AgentIdle DEF runServiceRestart, Restarted, AgentSteps, Quits, agentFiles
  <2> QED
    BY <2>1
<1> QED
  BY <1>1, <1>2, <1>3, <1>4, <1>5

LEMMA AgentUninstallKeeps ==
  ASSUME AgentIInv, runServiceUninstall
  PROVE  AgentIInv'
<1> USE DEF AgentIInv, AgentInTypes, AgentBacked, AgentRemoval
<1>0. 0 \in Setups
  BY SetupsAssumption DEF Setups
<1>1. CASE /\ CliAt("unlogin") /\ login' = 0 /\ StepsTo("unplist")
           /\ UNCHANGED <<config, plist, agentJob, setups, wanted>>
  <2>1. cli' \in AgentCommands /\ cli'.step = "unplist"
    BY <1>1, AgentStepping DEF AgentSteps
  <2> QED
    BY <1>0, <1>1, <2>1 DEF CliAt
<1>2. CASE /\ CliAt("unplist") /\ plist' = 0 /\ StepsTo("unconfig")
           /\ UNCHANGED <<config, login, agentJob, setups, wanted>>
  <2>1. cli' \in AgentCommands /\ cli'.step = "unconfig"
    BY <1>2, AgentStepping DEF AgentSteps
  <2> QED
    BY <1>0, <1>2, <2>1 DEF CliAt
<1>3. CASE /\ CliAt("unconfig") /\ config' \in {0, config} /\ Quits
           /\ UNCHANGED <<plist, login, agentJob, setups, wanted>>
  BY <1>0, <1>3, AgentIdle DEF CliAt, Quits
<1> QED
  BY <1>1, <1>2, <1>3 DEF runServiceUninstall

\* A command begins, or is killed, and launchd and the operator go their own way.
LEMMA AgentOthersKeep ==
  ASSUME AgentIInv, runService \/ Unloaded \/ Killed \/ LogsIn
  PROVE  AgentIInv'
<1> USE DEF AgentIInv, AgentInTypes, AgentBacked, AgentRemoval
<1>0. 0 \in Setups
  BY SetupsAssumption DEF Setups
<1>1. CASE runService
  <2>1. UNCHANGED <<config, plist, login, agentJob, setups, wanted>>
    BY <1>1 DEF runService, agentFiles
  <2>2. PICK does \in Mutations, begins \in BOOLEAN, atLogin \in BOOLEAN, hosted \in BOOLEAN :
          /\ guardHostedServiceMutation(does, hosted)
          /\ cli' = [does |-> does, step |-> FirstStep(does), starts |-> begins,
                     atLogin |-> atLogin, hosted |-> hosted]
    BY <1>1 DEF runService
  <2>3. hosted = FALSE
    BY <2>2 DEF guardHostedServiceMutation
  <2>4. FirstStep(does) \in {"config", "bootstrap", "bootout", "restart"}
    BY DEF Mutations, FirstStep
  <2>5. cli' \in AgentCommands /\ cli'.step = FirstStep(does)
    BY <2>2, <2>3, <2>4 DEF AgentCommands, AgentSteps
  <2> QED
    BY <2>1, <2>4, <2>5
<1>2. CASE Unloaded
  <2>1. /\ agentJob.state = "leaving" /\ agentJob' = [state |-> "out", of |-> 0]
        /\ UNCHANGED <<config, plist, login, setups, wanted>>
    BY <1>2 DEF Unloaded, agentFiles
  <2>2. cli' = cli \/ cli' = NoCommand
    BY <1>2 DEF Unloaded, Quits
  <2> QED
    BY <1>0, <2>1, <2>2, AgentIdle, AgentJobs
<1>3. CASE Killed
  BY <1>3, AgentIdle DEF Killed, Quits, agentFiles
<1>4. CASE LogsIn
  <2>1. /\ agentJob' = IF login # 0 THEN [state |-> "loaded", of |-> login] ELSE [state |-> "out", of |-> 0]
        /\ wanted' = (login # 0) /\ cli' = NoCommand
        /\ UNCHANGED <<config, plist, login, setups>>
    BY <1>4 DEF LogsIn, Quits, agentFiles
  <2> QED
    BY <1>0, <2>1, AgentIdle, AgentJobs
<1> QED
  BY <1>1, <1>2, <1>3, <1>4

LEMMA AgentNextKeeps ==
  ASSUME AgentIInv, [AgentNext]_agentVars
  PROVE  AgentIInv'
<1>1. CASE AgentNext
  BY <1>1, AgentFilesKeep, AgentLaunchdKeeps, AgentUninstallKeeps, AgentOthersKeep DEF AgentNext
<1>2. CASE UNCHANGED agentVars
  BY <1>2 DEF AgentIInv, AgentInTypes, AgentBacked, AgentRemoval, agentVars
<1> QED
  BY <1>1, <1>2

LEMMA AgentIInvHolds == AgentSpec => []AgentIInv
BY AgentInitIInv, AgentNextKeeps, PTL DEF AgentSpec

\* Files, job and command keep their types.
THEOREM AgentTypes == AgentSpec => []AgentTypeOK
<1>1. AgentIInv => AgentTypeOK
  BY DEF AgentIInv, AgentInTypes, AgentTypeOK, AgentCommands
<1> QED
  BY <1>1, AgentIInvHolds, PTL

\* service.go: what the operator started stays loaded until a command of theirs stops
\* it, wherever a command is killed, and what launchd loads has its settings.
THEOREM AgentKeepsService == AgentSpec => []ServiceIsKept
<1>1. AgentIInv => ServiceIsKept
  BY DEF AgentIInv, AgentInTypes, AgentBacked, ServiceIsKept
<1> QED
  BY <1>1, AgentIInvHolds, PTL

-----------------------------------------------------------------------------
(* RuntimeBundle: any number of bundles, commands and starts.               *)

\* Desktop's newest bundle is the best candidate, as long as Desktop is there.
RtNewest == sources \subseteq 1 .. newestBundle /\ (sources # {} => newestBundle \in sources)

\* One process at a time is at the files, and the daemon does what its phase says.
RtOne == \A p, q \in Processes : p # q => op[p] = Idle \/ op[q] = Idle

RtJobs ==
  /\ \A p \in Processes : op[p].job = "none" => op[p] = Idle
  /\ op["command"].job # "confirm"
  /\ daemon.phase \in {"off", "validates"} => op["daemon"].job = "none"
  /\ daemon.phase = "prepares" => op["daemon"].job = "ensure"
  /\ daemon.phase = "rollsBack" => op["daemon"].job = "rollback"
  /\ daemon.phase = "confirms" => op["daemon"].job = "confirm"
  /\ daemon.phase = "running" => op["daemon"].job \in {"none", "sync"}

\* What RuntimeIsUsable asks of a state, for those that are yet to be written.
RtNames(s) == s.active \in disk \/ s.previous \in disk

RtConfirms(s) ==
  /\ s.activeConfirmed => s.active \in connected
  /\ s.previousConfirmed => s.previous \in connected

\* A daemon that took its bundle finds it among those in D, and named by the state,
\* unless it was moved away from it twice.
RtTakes == daemon.phase \in {"validates", "confirms", "running"}

RtSpares(D, s, n) ==
  RtTakes => \/ n > 1
             \/ daemon.version \in D /\ daemon.version = s.active
             \/ daemon.version \in D /\ daemon.version = s.previous /\ n = 1

RtMoved(s) == IF s.active # loadState.active THEN daemon.moved + 1 ELSE daemon.moved

RtFiles ==
  /\ loadState # NoState => RtNames(loadState)
  /\ RtConfirms(loadState)
  /\ RtSpares(disk, loadState, daemon.moved)
  /\ daemon.phase = "confirms" => daemon.version \in connected

\* What a process knows of the state that it is about to write, or has written.
RtOp(o) ==
  /\ o.at = "sync" => o.job = "sync"
  /\ o.at = "install" =>
       /\ o.bundle = o.next.active /\ o.bundle \in Bundles
       /\ RtConfirms(o.next) /\ RtSpares(disk \cup {o.bundle}, o.next, RtMoved(o.next))
  /\ o.at \in {"backup", "replace", "rename"} =>
       RtNames(o.next) /\ RtConfirms(o.next) /\ RtSpares(disk, o.next, RtMoved(o.next))
  /\ o.at \in {"backup", "replace", "rename", "prune", "done"} /\ o.job \in {"ensure", "rollback"} =>
       o.next.active \in disk
  /\ o.at = "replace" => current = NoState \/ backup = current
  /\ o.at = "prune" => RtNames(o.next) /\ current = o.next
  /\ o.at = "done" /\ o.job \in {"ensure", "rollback"} => loadState = o.next

RtOps == \A p \in Processes : RtOp(op[p])

RtTypes == RuntimeTypeOK /\ RtNewest

RtIInv == RtTypes /\ RtOne /\ RtJobs /\ RtFiles /\ RtOps

RtAts == {"load", "sync", "install", "backup", "replace", "rename", "prune", "done", "failed"}
RtJobNames == {"none", "ensure", "sync", "rollback", "confirm"}
RtOpType == [job : RtJobNames, at : RtAts, next : States, bundle : Versions]
RtDaemons == [phase : {"off", "prepares", "validates", "confirms", "rollsBack", "running"},
              version : Versions, previous : BOOLEAN, attempt : 0 .. 1, moved : 0 .. 2]

LEMMA RtTypesSplit ==
  RuntimeTypeOK <=>
    /\ sources \subseteq Bundles /\ newestBundle \in Bundles /\ runs \subseteq Bundles
    /\ disk \subseteq Bundles /\ current \in States /\ backup \in States
    /\ op \in [Processes -> RtOpType] /\ daemon \in RtDaemons
    /\ starts \in 0 .. MaxStarts /\ commands \in 0 .. MaxCommands
    /\ connected \subseteq runs
BY DEF RuntimeTypeOK, RtOpType, RtDaemons, RtAts, RtJobNames

\* The states that the operations write are states.
LEMMA RtStates ==
  /\ NoState \in States
  /\ \A s \in States : Swapped(s) \in States /\ [s EXCEPT !.activeConfirmed = TRUE] \in States
  /\ \A b \in Versions : Bootstrapped(b) \in States
  /\ \A b \in Versions, s \in States : Promoted(b, s) \in States
  /\ NoBundle \in Versions /\ NoBundle \notin Bundles /\ Bundles \subseteq Versions
<1>1. NoBundle \in Versions /\ NoBundle \notin Bundles /\ Bundles \subseteq Versions
  BY DEF Versions, Bundles, NoBundle
<1>2. NoState \in States
  BY <1>1, Zenon DEF NoState, States
<1>3. ASSUME NEW s \in States
      PROVE  Swapped(s) \in States /\ [s EXCEPT !.activeConfirmed = TRUE] \in States
  <2>1. /\ s.active \in Versions /\ s.previous \in Versions
        /\ s.activeConfirmed \in BOOLEAN /\ s.previousConfirmed \in BOOLEAN
    BY Zenon DEF States
  <2>2. Swapped(s) \in States
    BY <2>1, Zenon DEF Swapped, States
  <2>3. \A v \in BOOLEAN : [s EXCEPT !.activeConfirmed = v] \in States
    BY SMT DEF States
  <2> QED
    BY <2>2, <2>3
<1>4. ASSUME NEW b \in Versions
      PROVE  Bootstrapped(b) \in States
  BY <1>2, SMT DEF Bootstrapped, States
<1>5. ASSUME NEW b \in Versions, NEW s \in States
      PROVE  Promoted(b, s) \in States
  <2>1. s.active \in Versions /\ s.activeConfirmed \in BOOLEAN
    BY Zenon DEF States
  <2> QED
    BY <2>1, Zenon DEF Promoted, States
<1> QED
  BY <1>1, <1>2, <1>3, <1>4, <1>5

\* loadState falls back to the backup, which is a state as well.
LEMMA RtLoads == RuntimeTypeOK => loadState \in States
BY RtTypesSplit DEF loadState

\* bestCandidate is the bundle that Desktop brought last.
LEMMA RtBest ==
  ASSUME RtTypes, sources # {}
  PROVE  bestCandidate = newestBundle /\ newestBundle \in Bundles /\ newestBundle \in sources
<1>1. /\ newestBundle \in sources /\ newestBundle \in Nat
      /\ \A y \in sources : y \in Nat /\ y <= newestBundle
  BY RtTypesSplit DEF RtTypes, RtNewest, Bundles
<1>2. \A y \in sources : newestBundle >= y
  BY <1>1
<1>3. bestCandidate \in sources /\ \A y \in sources : bestCandidate >= y
  BY <1>1, <1>2 DEF bestCandidate, Max
<1>4. bestCandidate >= newestBundle /\ bestCandidate <= newestBundle /\ bestCandidate \in Nat
  BY <1>1, <1>3
<1> QED
  BY <1>1, <1>4, RtTypesSplit DEF RtTypes

\* OpGoes changes one process and keeps its job.
LEMMA RtGoes ==
  ASSUME RuntimeTypeOK, NEW p \in Processes, NEW at \in RtAts, NEW n \in States,
         NEW b \in Versions, OpGoes(p, at, n, b)
  PROVE  \E o \in RtOpType :
           /\ o.job = op[p].job /\ o.at = at /\ o.next = n /\ o.bundle = b
           /\ op' = [op EXCEPT ![p] = o]
<1> DEFINE x == op[p]
           o == [x EXCEPT !.at = at, !.next = n, !.bundle = b]
<1>1. x \in RtOpType
  BY RtTypesSplit
<1>2. op' = [op EXCEPT ![p] = o]
  BY DEF OpGoes
<1> HIDE DEF x
<1>3. o \in RtOpType /\ o.job = x.job /\ o.at = at /\ o.next = n /\ o.bundle = b
  BY <1>1 DEF RtOpType
<1> HIDE DEF o
<1> QED
  BY <1>2, <1>3 DEF x

LEMMA RtGoesTypes ==
  ASSUME RtTypes, NEW p \in Processes, NEW at \in RtAts, NEW n \in States, NEW b \in Versions,
         OpGoes(p, at, n, b), UNCHANGED <<sources, newestBundle, runs, starts, commands, connected>>,
         disk' \subseteq Bundles, current' \in States, backup' \in States, daemon' \in RtDaemons
  PROVE  RtTypes'
<1>1. op' \in [Processes -> RtOpType]
  BY RtGoes, RtTypesSplit DEF RtTypes
<1>2. RuntimeTypeOK'
  BY <1>1, RtTypesSplit DEF RtTypes, RuntimeTypeOK, RtOpType, RtDaemons, RtAts, RtJobNames
<1> QED
  BY <1>2 DEF RtTypes, RtNewest

\* Ensure, SyncBundle, Confirm and Rollback decide on what to write.
LEMMA RtDecisionTypes ==
  ASSUME RtTypes, NEW p \in Processes,
         Ensure(p) \/ SyncBundle(p) \/ Confirm(p) \/ Rollback(p)
  PROVE  /\ RtTypes'
         /\ UNCHANGED <<sources, newestBundle, runs, disk, current, backup, daemon, starts,
                        commands, connected>>
<1> DEFINE s == loadState
<1>1. s \in States /\ s.active \in Versions /\ s.previous \in Versions
  BY RtLoads DEF RtTypes, States
<1>2. UNCHANGED <<sources, newestBundle, runs, disk, current, backup, daemon, starts,
                  commands, connected>>
  BY DEF Ensure, SyncBundle, Confirm, Rollback, files
<1>3. \E at \in RtAts, n \in States, b \in Versions : OpGoes(p, at, n, b)
  <2>1. CASE Ensure(p)
    <3>1. \/ Resolved(p, s) \/ OpGoes(p, "backup", Swapped(s), NoBundle) \/ Fails(p)
          \/ sources # {} /\ OpGoes(p, "install", Bootstrapped(bestCandidate), bestCandidate)
      BY <2>1 DEF Ensure
    <3>2. Swapped(s) \in States
          /\ (sources # {} => bestCandidate \in Versions /\ Bootstrapped(bestCandidate) \in States)
      BY <1>1, RtStates, RtBest
    <3> QED
      BY <1>1, <3>1, <3>2, RtStates DEF Resolved, Fails, RtAts
  <2>2. CASE SyncBundle(p)
    <3>1. \/ OpGoes(p, "done", s, NoBundle) \/ Fails(p)
          \/ sources # {} /\ OpGoes(p, "install", Promoted(bestCandidate, s), bestCandidate)
      BY <2>2 DEF SyncBundle
    <3>2. sources # {} => bestCandidate \in Versions /\ Promoted(bestCandidate, s) \in States
      BY <1>1, RtStates, RtBest
    <3> QED
      BY <1>1, <3>1, <3>2, RtStates DEF Fails, RtAts
  <2>3. CASE Confirm(p)
    BY <2>3, <1>1, RtStates DEF Confirm, Fails, RtAts
  <2>4. CASE Rollback(p)
    BY <2>4, <1>1, RtStates DEF Rollback, Fails, RtAts
  <2> QED
    BY <2>1, <2>2, <2>3, <2>4
<1> QED
  BY <1>2, <1>3, RtGoesTypes, RtTypesSplit DEF RtTypes

\* The file operations: what is written was prepared.
LEMMA RtWriteTypes ==
  ASSUME RtTypes, NEW p \in Processes,
         install(p) \/ BacksUp(p) \/ replaceFile(p) \/ pruneUnused(p)
  PROVE  RtTypes' /\ UNCHANGED <<sources, newestBundle, runs, starts, commands, connected>>
<1>1. /\ op[p] \in RtOpType /\ op[p].next \in States /\ op[p].bundle \in Versions
      /\ NoState \in States /\ NoBundle \in Versions
      /\ sources \subseteq Bundles /\ disk \subseteq Bundles
      /\ current \in States /\ backup \in States /\ daemon \in RtDaemons
  BY RtTypesSplit, RtStates DEF RtTypes, RtOpType
<1>2. UNCHANGED <<sources, newestBundle, runs, starts, commands, connected>>
  BY DEF install, BacksUp, replaceFile, pruneUnused
<1>3. /\ disk' \subseteq Bundles /\ current' \in States /\ backup' \in States
      /\ daemon' \in RtDaemons
  <2>1. CASE install(p)
    BY <2>1, <1>1 DEF install
  <2>2. CASE BacksUp(p)
    BY <2>2, <1>1 DEF BacksUp
  <2>3. CASE replaceFile(p)
    <3>1. daemon' = daemon \/ Moves(op[p].next)
      BY <2>3 DEF replaceFile
    <3>2. Moves(op[p].next) => daemon' \in RtDaemons
      <4> DEFINE m == IF daemon.phase # "off" /\ op[p].next.active # loadState.active
                          /\ daemon.moved < 2 THEN daemon.moved + 1 ELSE daemon.moved
      <4>1. daemon.moved \in 0 .. 2 /\ m \in 0 .. 2
        BY <1>1 DEF RtDaemons
      <4>2. Moves(op[p].next) => daemon' = [daemon EXCEPT !.moved = m]
        BY DEF Moves
      <4> HIDE DEF m
      <4> QED
        BY <1>1, <4>1, <4>2 DEF RtDaemons
    <3>3. disk' \subseteq Bundles /\ current' \in States /\ backup' \in States
      BY <2>3, <1>1 DEF replaceFile
    <3> QED
      BY <1>1, <3>1, <3>2, <3>3
  <2>4. CASE pruneUnused(p)
    BY <2>4, <1>1 DEF pruneUnused
  <2> QED
    BY <2>1, <2>2, <2>3, <2>4
<1>4. \E at \in RtAts, n \in States, b \in Versions : OpGoes(p, at, n, b)
  <2>1. CASE install(p)
    BY <2>1, <1>1 DEF install, Fails, RtAts
  <2>2. CASE BacksUp(p)
    BY <2>2, <1>1 DEF BacksUp, Fails, RtAts
  <2>3. CASE replaceFile(p)
    BY <2>3, <1>1 DEF replaceFile, AfterWrite, Resolved, Fails, RtAts
  <2>4. CASE pruneUnused(p)
    BY <2>4, <1>1 DEF pruneUnused, Resolved, RtAts
  <2> QED
    BY <2>1, <2>2, <2>3, <2>4
<1> QED
  BY <1>2, <1>3, <1>4, RtGoesTypes

\* A job begins and ends with the same process.
LEMMA RtTurnsTypes ==
  ASSUME RtTypes, NEW p \in Processes,
         OpEnds(p) \/ \E j \in RtJobNames : OpBegins(p, j)
  PROVE  op' \in [Processes -> RtOpType]
<1>1. Idle \in RtOpType /\ \A j \in RtJobNames : [Idle EXCEPT !.job = j] \in RtOpType
  BY RtStates DEF Idle, RtOpType, RtAts, RtJobNames
<1> QED
  BY <1>1, RtTypesSplit DEF RtTypes, OpEnds, OpBegins

\* The daemon takes a bundle, and otherwise goes from one phase to another.
LEMMA RtPhases ==
  ASSUME RtTypes
  PROVE  /\ Off \in RtDaemons /\ [Off EXCEPT !.phase = "prepares"] \in RtDaemons
         /\ \A ph \in {"confirms", "rollsBack", "running"} : [daemon EXCEPT !.phase = ph] \in RtDaemons
         /\ \A s \in States, b \in BOOLEAN :
              /\ [Takes(s) EXCEPT !.attempt = 1] \in RtDaemons
              /\ [Takes(s) EXCEPT !.previous = b] \in RtDaemons
<1>1. daemon \in RtDaemons /\ NoBundle \in Versions
  BY RtTypesSplit, RtStates DEF RtTypes
<1>2. Off \in RtDaemons /\ [Off EXCEPT !.phase = "prepares"] \in RtDaemons
  <2>1. \A v \in BOOLEAN :
          LET off == [phase |-> "off", version |-> NoBundle, previous |-> v, attempt |-> 0, moved |-> 0]
          IN  off \in RtDaemons /\ [off EXCEPT !.phase = "prepares"] \in RtDaemons
    BY <1>1 DEF RtDaemons
  <2> QED
    BY <2>1, Zenon DEF Off
<1>3. \A ph \in {"confirms", "rollsBack", "running"} : [daemon EXCEPT !.phase = ph] \in RtDaemons
  BY <1>1 DEF RtDaemons
<1>4. ASSUME NEW s \in States, NEW b \in BOOLEAN
      PROVE  /\ [Takes(s) EXCEPT !.attempt = 1] \in RtDaemons
             /\ [Takes(s) EXCEPT !.previous = b] \in RtDaemons
  <2>1. s.active \in Versions
    BY DEF States
  <2>2. daemon.attempt \in 0 .. 1
    BY <1>1 DEF RtDaemons
  <2>3. PICK ph \in {"running", "validates"} : ph = IF s.activeConfirmed THEN "running" ELSE "validates"
    OBVIOUS
  <2>4. PICK q \in BOOLEAN : q = (s.previous # NoBundle)
    OBVIOUS
  <2>5. Takes(s) = [phase |-> ph, version |-> s.active, previous |-> q,
                    attempt |-> daemon.attempt, moved |-> 0]
    BY <2>3, <2>4, Zenon DEF Takes
  <2>6. Takes(s) \in RtDaemons
    BY <2>1, <2>2, <2>5 DEF RtDaemons
  <2> HIDE DEF Takes
  <2> QED
    BY <2>6 DEF RtDaemons
<1> QED
  BY <1>2, <1>3, <1>4

LEMMA RtDaemonTypes ==
  ASSUME RtTypes,
         \/ Starts \/ Prepared \/ Validated \/ NotValidated \/ Confirmed \/ SyncBegins
         \/ SyncEnds \/ Stops \/ runRuntime \/ CommandEnds
  PROVE  RtTypes' /\ UNCHANGED <<sources, newestBundle, runs, disk, current, backup>>
<1>1. UNCHANGED <<sources, newestBundle, runs, disk, current, backup>>
  BY DEF Starts, Prepared, Validated, NotValidated, Confirmed, SyncBegins, SyncEnds, Stops,
         runRuntime, CommandEnds, files
<1>2. op' \in [Processes -> RtOpType]
  <2>1. /\ op \in [Processes -> RtOpType]
        /\ "daemon" \in Processes /\ "command" \in Processes
        /\ {"ensure", "sync", "rollback", "confirm"} \subseteq RtJobNames
    BY RtTypesSplit DEF RtTypes, Processes, RtJobNames
  <2>2. op' = op \/ \E p \in Processes : OpEnds(p) \/ \E j \in RtJobNames : OpBegins(p, j)
    BY <2>1 DEF Starts, Prepared, Validated, NotValidated, Confirmed, SyncBegins, SyncEnds, Stops,
           runRuntime, CommandEnds
  <2> QED
    BY <2>1, <2>2, RtTurnsTypes
<1>3. daemon' \in RtDaemons
  <2>1. daemon \in RtDaemons /\ op["daemon"].next \in States
    BY RtTypesSplit DEF RtTypes, Processes, RtOpType
  <2>2. CASE Prepared
    <3>1. \/ daemon' = Off \/ daemon' = [Takes(op["daemon"].next) EXCEPT !.attempt = 1]
          \/ daemon' = [Takes(op["daemon"].next) EXCEPT
                          !.previous = completeBundle(op["daemon"].next.previous)]
      BY <2>2 DEF Prepared
    <3>2. completeBundle(op["daemon"].next.previous) \in BOOLEAN
      BY DEF completeBundle
    <3> QED
      BY <2>1, <3>1, <3>2, RtPhases
  <2>3. CASE ~Prepared
    BY <2>1, <2>3, RtPhases DEF Starts, Validated, NotValidated, Confirmed, SyncBegins, SyncEnds,
           Stops, runRuntime, CommandEnds
  <2> QED
    BY <2>2, <2>3
<1>4. /\ starts' \in 0 .. MaxStarts /\ commands' \in 0 .. MaxCommands
      /\ connected' \subseteq runs
  <2>1. /\ starts \in 0 .. MaxStarts /\ commands \in 0 .. MaxCommands
        /\ connected \subseteq runs /\ MaxStarts \in Nat /\ MaxCommands \in Nat
    BY RtTypesSplit, RuntimeAssumption DEF RtTypes
  <2> QED
    BY <2>1 DEF Starts, Prepared, Validated, NotValidated, Confirmed, SyncBegins, SyncEnds, Stops,
           runRuntime, CommandEnds, Runnable
<1>5. RuntimeTypeOK'
  BY <1>1, <1>2, <1>3, <1>4, RtTypesSplit
     DEF RtTypes, RuntimeTypeOK, RtOpType, RtDaemons, RtAts, RtJobNames
<1> QED
  BY <1>1, <1>5 DEF RtTypes, RtNewest

LEMMA RtUpdateTypes ==
  ASSUME RtTypes, CodexUpdates
  PROVE  RtTypes' /\ UNCHANGED <<disk, current, backup, op, daemon, connected>>
<1>1. UNCHANGED <<runs, disk, current, backup, op, daemon, starts, commands, connected>>
  BY DEF CodexUpdates, files
<1>2. /\ newestBundle \in Bundles /\ sources \subseteq 1 .. newestBundle
      /\ sources # {} => newestBundle \in sources
      /\ sources \subseteq Bundles /\ MaxBundle \in Nat
  BY RtTypesSplit, RuntimeAssumption DEF RtTypes, RtNewest
<1>3. /\ newestBundle' \in Bundles /\ sources' \subseteq 1 .. newestBundle'
      /\ sources' # {} => newestBundle' \in sources'
  <2>1. CASE sources' = {} /\ newestBundle' = newestBundle
    BY <1>2, <2>1
  <2>2. CASE /\ newestBundle < MaxBundle /\ newestBundle' = newestBundle + 1
             /\ sources' \in {{newestBundle'}, sources \cup {newestBundle'}}
    <3>1. newestBundle' \in Bundles /\ newestBundle \in Nat
      BY <1>2, <2>2 DEF Bundles
    <3>2. sources \cup {newestBundle'} \subseteq 1 .. newestBundle'
      BY <1>2, <2>2, <3>1
    <3> QED
      BY <2>2, <3>1, <3>2
  <2> QED
    BY <2>1, <2>2 DEF CodexUpdates
<1>4. sources' \subseteq Bundles
  BY <1>2, <1>3 DEF Bundles
<1>5. RuntimeTypeOK'
  BY <1>1, <1>3, <1>4, RtTypesSplit
     DEF RtTypes, RuntimeTypeOK, RtOpType, RtDaemons, RtAts, RtJobNames
<1> QED
  BY <1>1, <1>3, <1>5 DEF RtTypes, RtNewest

LEMMA RtTypesStep == RtTypes /\ [RuntimeNext]_runtimeVars => RtTypes'
<1> SUFFICES ASSUME RtTypes, [RuntimeNext]_runtimeVars PROVE RtTypes'
  OBVIOUS
<1>1. CASE UNCHANGED runtimeVars
  BY <1>1 DEF RtTypes, RtNewest, RuntimeTypeOK, runtimeVars, files
<1>2. CASE RuntimeNext
  BY <1>2, RtDecisionTypes, RtWriteTypes, RtDaemonTypes, RtUpdateTypes DEF RuntimeNext
<1> QED
  BY <1>1, <1>2

LEMMA RtTypesStart == RuntimeInit => RtTypes
<1> SUFFICES ASSUME RuntimeInit PROVE RtTypes
  OBVIOUS
<1>1. 1 \in Bundles /\ 0 \in 0 .. MaxStarts /\ 0 \in 0 .. MaxCommands /\ {} \subseteq Bundles
  BY RuntimeAssumption DEF Bundles
<1>2. Idle \in RtOpType /\ NoState \in States /\ Off \in RtDaemons
  BY RtStates DEF Idle, RtOpType, RtAts, RtJobNames, Off, RtDaemons
<1> QED
  BY <1>1, <1>2, RtTypesSplit DEF RuntimeInit, RtTypes, RtNewest

\* Type correctness of bundles, state files, the processes at work on them and the
\* daemon's life, whether or not they overlap.
THEOREM RuntimeTypes == RuntimeSpec => []RuntimeTypeOK
<1>1. RtTypes => RuntimeTypeOK
  BY DEF RtTypes
<1> QED
  BY RtTypesStart, RtTypesStep, <1>1, PTL DEF RuntimeSpec

\* While a process goes on with its job, the other one is idle.
LEMMA RtGoesKeeps ==
  ASSUME RtIInv, NEW p \in Processes, op[p] # Idle, NEW o \in RtOpType, o.job = op[p].job,
         op' = [op EXCEPT ![p] = o], daemon'.phase = daemon.phase
  PROVE  RtOne' /\ RtJobs' /\ (RtOp(o)' => RtOps')
<1>1. op \in [Processes -> RtOpType]
  BY RtTypesSplit DEF RtIInv, RtTypes
<1>2. \A q \in Processes : q # p => op[q] = Idle /\ op'[q] = Idle
  BY <1>1 DEF RtIInv, RtOne
<1>3. op'[p] = o /\ o.job # "none"
  BY <1>1 DEF RtIInv, RtJobs
<1>4. RtOne'
  BY <1>2 DEF RtOne
<1>5. \A q \in Processes : op'[q].job = op[q].job
  BY <1>2, <1>3
<1>6. RtJobs'
  BY <1>2, <1>3, <1>5 DEF RtIInv, RtJobs, Processes
<1>7. RtOp(Idle)'
  BY DEF RtOp, Idle
<1>8. RtOp(o)' => RtOps'
  <2> HIDE DEF RtOp
  <2> QED
    BY <1>2, <1>3, <1>7 DEF RtOps
<1> QED
  BY <1>4, <1>6, <1>8

\* A decision that leaves files and daemon alone is right if it is right of the state
\* in which it is taken.
LEMMA RtDecides ==
  ASSUME RtIInv, NEW p \in Processes, op[p] # Idle,
         NEW at \in RtAts, NEW n \in States, NEW b \in Versions, OpGoes(p, at, n, b),
         UNCHANGED <<disk, current, backup, daemon, connected>>, RtTypes',
         \A o \in RtOpType : o.job = op[p].job /\ o.at = at /\ o.next = n /\ o.bundle = b => RtOp(o)
  PROVE  RtIInv'
<1>1. PICK o \in RtOpType : /\ o.job = op[p].job /\ o.at = at /\ o.next = n /\ o.bundle = b
                            /\ op' = [op EXCEPT ![p] = o]
  BY RtGoes DEF RtIInv, RtTypes
<1>2. RtOp(o)
  BY <1>1
<1>3. RtOp(o)'
  BY <1>2 DEF RtOp, RtNames, RtConfirms, RtSpares, RtTakes, RtMoved, loadState
<1>4. RtFiles'
  BY DEF RtIInv, RtFiles, RtNames, RtConfirms, RtSpares, RtTakes, loadState
<1> QED
  BY <1>1, <1>3, <1>4, RtGoesKeeps DEF RtIInv

\* What the state that is loaded says.
LEMMA RtLoaded ==
  ASSUME RtIInv
  PROVE  /\ loadState \in States /\ loadState.active \in Versions /\ loadState.previous \in Versions
         /\ loadState # NoState => RtNames(loadState)
         /\ RtConfirms(loadState)
         /\ RtSpares(disk, loadState, daemon.moved)
         /\ daemon.moved \in 0 .. 2 /\ disk \subseteq Bundles
BY RtLoads, RtTypesSplit DEF RtIInv, RtTypes, RtFiles, States, RtDaemons

\* To swap the two bundles moves the daemon from a bundle that it may go back to.
LEMMA RtSwaps ==
  ASSUME RtIInv, NEW s \in States, s = loadState, s.previous \in disk
  PROVE  LET n == Swapped(s) IN
         /\ n \in States /\ n.active \in disk /\ RtNames(n) /\ RtConfirms(n)
         /\ RtSpares(disk, n, RtMoved(n))
<1> DEFINE n == Swapped(s)
<1>1. /\ n.active = s.previous /\ n.previous = s.active
      /\ (n.activeConfirmed <=> s.previousConfirmed)
      /\ (n.previousConfirmed <=> s.activeConfirmed)
  BY DEF Swapped
<1>2. n \in States
  BY RtStates
<1> HIDE DEF n
<1>3. RtNames(n) /\ RtConfirms(n)
  BY <1>1, RtLoaded DEF RtNames, RtConfirms
<1>4. RtSpares(disk, n, RtMoved(n))
  BY <1>1, RtLoaded DEF RtSpares, RtMoved
<1> QED
  BY <1>1, <1>2, <1>3, <1>4 DEF n

LEMMA RtEnsureKeeps ==
  ASSUME RtIInv, NEW p \in Processes, Ensure(p)
  PROVE  RtIInv'
<1>1. /\ RtTypes' /\ UNCHANGED <<disk, current, backup, daemon, connected>>
      /\ op[p] # Idle /\ op[p].job \in {"ensure", "sync"}
  BY RtDecisionTypes DEF RtIInv, Ensure, Idle
<1>2. PICK s \in States : s = loadState
  BY RtLoaded
<1>3. CASE s.active \in disk /\ Resolved(p, s)
  <2>1. PICK at \in {"sync", "done"} :
           OpGoes(p, at, s, NoBundle) /\ (at = "sync" => op[p].job = "sync")
    BY <1>3 DEF Resolved
  <2>2. ASSUME NEW o \in RtOpType, o.job = op[p].job /\ o.at = at /\ o.next = s
        PROVE  RtOp(o)
    BY <1>2, <1>3, <2>1, <2>2 DEF RtOp
  <2> QED
    BY <1>1, <2>1, <2>2, RtDecides, RtStates DEF RtAts
<1>4. CASE s.previous \in disk /\ OpGoes(p, "backup", Swapped(s), NoBundle)
  <2>1. PICK n \in States : n = Swapped(s)
    BY RtStates
  <2>2. ASSUME NEW o \in RtOpType, o.at = "backup" /\ o.next = n
        PROVE  RtOp(o)
    BY <1>2, <1>4, <2>1, <2>2, RtSwaps DEF RtOp
  <2>3. OpGoes(p, "backup", n, NoBundle)
    BY <1>4, <2>1
  <2> QED
    BY <1>1, <2>2, <2>3, RtDecides, RtStates DEF RtAts
<1>5. CASE Fails(p)
  <2>1. \A o \in RtOpType : o.at = "failed" => RtOp(o)
    BY DEF RtOp
  <2> QED
    BY <1>1, <1>5, <2>1, RtDecides, RtStates DEF RtAts, Fails
<1>6. CASE /\ s.active \notin disk /\ s.previous \notin disk /\ sources # {}
           /\ OpGoes(p, "install", Bootstrapped(bestCandidate), bestCandidate)
  <2>1. PICK b \in Bundles : b = bestCandidate
    BY <1>6, RtBest DEF RtIInv
  <2>2. ASSUME NEW o \in RtOpType,
               o.at = "install" /\ o.next = Bootstrapped(b) /\ o.bundle = b
        PROVE  RtOp(o)
    <3>1. o.next.active = b /\ ~o.next.activeConfirmed /\ ~o.next.previousConfirmed
      BY <2>2, RtStates DEF Bootstrapped, NoState, States
    <3>2. RtSpares(disk \cup {b}, o.next, RtMoved(o.next))
      <4>1. RtTakes => daemon.moved > 1
        BY <1>2, <1>6, RtLoaded DEF RtSpares
      <4> QED
        BY <4>1, RtLoaded DEF RtSpares, RtMoved
    <3> QED
      BY <2>2, <3>1, <3>2 DEF RtOp, RtConfirms
  <2>3. OpGoes(p, "install", Bootstrapped(b), b)
    BY <1>6, <2>1
  <2> QED
    BY <1>1, <2>2, <2>3, RtDecides, RtStates DEF RtAts
<1> QED
  BY <1>2, <1>3, <1>4, <1>5, <1>6 DEF Ensure, completeBundle

LEMMA RtSyncKeeps ==
  ASSUME RtIInv, NEW p \in Processes, SyncBundle(p)
  PROVE  RtIInv'
<1>1. /\ RtTypes' /\ UNCHANGED <<disk, current, backup, daemon, connected>>
      /\ op[p] # Idle /\ op[p].at = "sync" /\ op[p].job = "sync"
  <2>1. op[p].at = "sync" /\ op[p].job = "sync"
    BY DEF RtIInv, RtOps, RtOp, SyncBundle
  <2> QED
    BY <2>1, RtDecisionTypes DEF RtIInv, Idle
<1>2. PICK s \in States : s = loadState
  BY RtLoaded
<1>3. CASE OpGoes(p, "done", s, NoBundle)
  <2>1. \A o \in RtOpType : o.at = "done" /\ o.job = "sync" => RtOp(o)
    BY DEF RtOp
  <2> QED
    BY <1>1, <1>3, <2>1, RtDecides, RtStates DEF RtAts
<1>4. CASE Fails(p)
  <2>1. \A o \in RtOpType : o.at = "failed" => RtOp(o)
    BY DEF RtOp
  <2> QED
    BY <1>1, <1>4, <2>1, RtDecides, RtStates DEF RtAts, Fails
<1>5. CASE /\ sources # {} /\ bestCandidate # s.active
           /\ OpGoes(p, "install", Promoted(bestCandidate, s), bestCandidate)
  <2>1. PICK b \in Bundles : b = bestCandidate
    BY <1>5, RtBest DEF RtIInv
  <2>2. PICK n \in States : n = Promoted(b, s)
    BY RtStates
  <2>3. ASSUME NEW o \in RtOpType, o.at = "install" /\ o.next = n /\ o.bundle = b
        PROVE  RtOp(o)
    <3>1. /\ n.active = b /\ n.previous = s.active /\ ~n.activeConfirmed
          /\ (n.previousConfirmed <=> s.activeConfirmed)
      BY <2>2 DEF Promoted
    <3>2. RtSpares(disk \cup {b}, n, RtMoved(n))
      BY <1>2, <1>5, <2>1, <3>1, RtLoaded DEF RtSpares, RtMoved
    <3>3. RtConfirms(n)
      BY <1>2, <3>1, RtLoaded DEF RtConfirms
    <3> QED
      BY <2>3, <3>1, <3>2, <3>3 DEF RtOp
  <2>4. OpGoes(p, "install", n, b)
    BY <1>5, <2>1, <2>2
  <2> QED
    BY <1>1, <2>3, <2>4, RtDecides, RtStates DEF RtAts
<1> QED
  BY <1>2, <1>3, <1>4, <1>5 DEF SyncBundle

\* Only the daemon confirms, and the bundle that it started is in the set of those
\* that connected.
LEMMA RtConfirmKeeps ==
  ASSUME RtIInv, NEW p \in Processes, Confirm(p)
  PROVE  RtIInv'
<1>1. /\ RtTypes' /\ UNCHANGED <<disk, current, backup, daemon, connected>>
      /\ op[p] # Idle /\ op[p].job = "confirm"
  <2>1. op[p].job = "confirm"
    BY DEF Confirm
  <2> QED
    BY <2>1, RtDecisionTypes DEF RtIInv, Idle
<1>2. daemon.version \in connected
  <2>1. daemon \in RtDaemons
    BY RtTypesSplit DEF RtIInv, RtTypes
  <2> QED
    BY <1>1, <2>1 DEF RtIInv, RtJobs, RtFiles, RtDaemons, Processes
<1>3. PICK s \in States : s = loadState
  BY RtLoaded
<1>4. CASE Fails(p)
  <2>1. \A o \in RtOpType : o.at = "failed" => RtOp(o)
    BY DEF RtOp
  <2> QED
    BY <1>1, <1>4, <2>1, RtDecides, RtStates DEF RtAts, Fails
<1>5. CASE /\ s # NoState /\ daemon.version = s.active
           /\ OpGoes(p, "backup", [s EXCEPT !.activeConfirmed = TRUE], s.active)
  <2>1. PICK n \in States : n = [s EXCEPT !.activeConfirmed = TRUE]
    BY RtStates
  <2>2. /\ n.active = s.active /\ n.previous = s.previous
        /\ (n.previousConfirmed <=> s.previousConfirmed)
    BY <2>1 DEF States
  <2>3. ASSUME NEW o \in RtOpType, o.job = "confirm" /\ o.at = "backup" /\ o.next = n
        PROVE  RtOp(o)
    <3>1. RtNames(n) /\ RtConfirms(n)
      BY <1>2, <1>3, <1>5, <2>2, RtLoaded DEF RtNames, RtConfirms
    <3>2. RtSpares(disk, n, RtMoved(n))
      BY <1>3, <2>2, RtLoaded DEF RtSpares, RtMoved
    <3> QED
      BY <2>3, <3>1, <3>2 DEF RtOp
  <2>4. OpGoes(p, "backup", n, s.active)
    BY <1>5, <2>1
  <2> QED
    BY <1>1, <1>3, <2>3, <2>4, RtDecides, RtLoaded DEF RtAts
<1> QED
  BY <1>3, <1>4, <1>5 DEF Confirm, ConfirmsOnly

LEMMA RtRollbackKeeps ==
  ASSUME RtIInv, NEW p \in Processes, Rollback(p)
  PROVE  RtIInv'
<1>1. /\ RtTypes' /\ UNCHANGED <<disk, current, backup, daemon, connected>>
      /\ op[p] # Idle /\ op[p].job = "rollback"
  BY RtDecisionTypes DEF RtIInv, Rollback, Idle
<1>2. PICK s \in States : s = loadState
  BY RtLoaded
<1>3. CASE Fails(p)
  <2>1. \A o \in RtOpType : o.at = "failed" => RtOp(o)
    BY DEF RtOp
  <2> QED
    BY <1>1, <1>3, <2>1, RtDecides, RtStates DEF RtAts, Fails
<1>4. CASE s.previous \in disk /\ OpGoes(p, "backup", Swapped(s), s.previous)
  <2>1. PICK n \in States : n = Swapped(s)
    BY RtStates
  <2>2. ASSUME NEW o \in RtOpType, o.at = "backup" /\ o.next = n
        PROVE  RtOp(o)
    BY <1>2, <1>4, <2>1, <2>2, RtSwaps DEF RtOp
  <2>3. OpGoes(p, "backup", n, s.previous)
    BY <1>4, <2>1
  <2> QED
    BY <1>1, <1>2, <2>2, <2>3, RtDecides, RtLoaded DEF RtAts
<1> QED
  BY <1>2, <1>3, <1>4 DEF Rollback, completeBundle

-----------------------------------------------------------------------------
(* Writing the files.                                                       *)

\* A write is right if the files are right after it and what the process knows then.
LEMMA RtWrites ==
  ASSUME RtIInv, NEW p \in Processes, op[p] # Idle,
         NEW at \in RtAts, NEW n \in States, NEW b \in Versions, OpGoes(p, at, n, b),
         RtTypes', RtFiles', daemon'.phase = daemon.phase,
         \A o \in RtOpType :
            o.job = op[p].job /\ o.at = at /\ o.next = n /\ o.bundle = b => RtOp(o)'
  PROVE  RtIInv'
<1>1. PICK o \in RtOpType : /\ o.job = op[p].job /\ o.at = at /\ o.next = n /\ o.bundle = b
                            /\ op' = [op EXCEPT ![p] = o]
  BY RtGoes DEF RtIInv, RtTypes
<1>2. RtOp(o)'
  <2> HIDE DEF RtOp
  <2> QED
    BY <1>1
<1> QED
  BY <1>1, <1>2, RtGoesKeeps DEF RtIInv

\* A process that fails leaves what it did so far.
LEMMA RtFailKeeps ==
  ASSUME RtIInv, NEW p \in Processes, op[p] # Idle, Fails(p),
         RtTypes', UNCHANGED <<disk, current, backup, daemon, connected>>
  PROVE  RtIInv'
<1>1. \A o \in RtOpType : o.at = "failed" => RtOp(o)
  BY DEF RtOp
<1> QED
  BY <1>1, RtDecides, RtStates DEF RtAts, Fails

LEMMA RtInstallKeeps ==
  ASSUME RtIInv, NEW p \in Processes, install(p)
  PROVE  RtIInv'
<1>1. /\ RtTypes' /\ UNCHANGED <<current, backup, daemon, connected>>
      /\ op[p] # Idle /\ op[p].at = "install" /\ op[p] \in RtOpType /\ RtOp(op[p])
  BY RtWriteTypes, RtTypesSplit DEF RtIInv, RtTypes, RtOps, install, Idle
<1>2. CASE Fails(p) /\ UNCHANGED disk
  BY <1>1, <1>2, RtFailKeeps
<1>3. CASE /\ disk' = disk \cup {op[p].bundle}
           /\ OpGoes(p, "backup", op[p].next, op[p].bundle)
  <2>1. PICK x \in RtOpType : x = op[p]
    BY <1>1
  <2>2. /\ x.next \in States /\ x.bundle \in Versions
        /\ x.bundle = x.next.active /\ RtConfirms(x.next)
        /\ RtSpares(disk \cup {x.bundle}, x.next, RtMoved(x.next))
    BY <1>1, <2>1 DEF RtOp, RtOpType
  <2>3. disk' = disk \cup {x.bundle} /\ OpGoes(p, "backup", x.next, x.bundle)
    BY <1>3, <2>1
  <2>4. RtFiles'
    BY <1>1, <2>3 DEF RtIInv, RtFiles, RtNames, RtConfirms, RtSpares, RtTakes, loadState
  <2>5. ASSUME NEW o \in RtOpType, o.at = "backup" /\ o.next = x.next
        PROVE  RtOp(o)'
    <3>1. (RtNames(o.next) /\ RtConfirms(o.next))' /\ o.next.active \in disk'
      BY <1>1, <2>2, <2>3, <2>5 DEF RtNames, RtConfirms
    <3>2. RtSpares(disk, o.next, RtMoved(o.next))'
      BY <1>1, <2>2, <2>3, <2>5 DEF RtSpares, RtMoved, RtTakes, loadState
    <3> QED
      BY <2>5, <3>1, <3>2 DEF RtOp
  <2> QED
    BY <1>1, <2>2, <2>3, <2>4, <2>5, RtWrites DEF RtAts
<1> QED
  BY <1>2, <1>3 DEF install

LEMMA RtBackupKeeps ==
  ASSUME RtIInv, NEW p \in Processes, BacksUp(p)
  PROVE  RtIInv'
<1>1. /\ RtTypes' /\ UNCHANGED <<disk, current, daemon, connected>>
      /\ op[p] # Idle /\ op[p].at = "backup" /\ op[p] \in RtOpType /\ RtOp(op[p])
  BY RtWriteTypes, RtTypesSplit DEF RtIInv, RtTypes, RtOps, BacksUp, Idle
<1>2. CASE Fails(p) /\ UNCHANGED backup
  BY <1>1, <1>2, RtFailKeeps
<1>3. CASE /\ backup' = IF current # NoState THEN current ELSE backup
           /\ OpGoes(p, "replace", op[p].next, op[p].bundle)
  <2>1. PICK x \in RtOpType : x = op[p]
    BY <1>1
  <2>2. /\ x.next \in States /\ x.bundle \in Versions
        /\ RtNames(x.next) /\ RtConfirms(x.next) /\ RtSpares(disk, x.next, RtMoved(x.next))
        /\ x.job \in {"ensure", "rollback"} => x.next.active \in disk
    BY <1>1, <2>1 DEF RtOp, RtOpType
  <2>3. OpGoes(p, "replace", x.next, x.bundle) /\ x.job = op[p].job
    BY <1>3, <2>1
  <2>4. loadState' = loadState /\ (current' = NoState \/ backup' = current')
    BY <1>1, <1>3 DEF loadState
  <2>5. RtFiles'
    <3> HIDE DEF loadState
    <3> QED
      BY <1>1, <2>4 DEF RtIInv, RtFiles, RtNames, RtConfirms, RtSpares, RtTakes
  <2>6. ASSUME NEW o \in RtOpType, o.at = "replace" /\ o.next = x.next /\ o.job = x.job
        PROVE  RtOp(o)'
    <3> HIDE DEF loadState
    <3>1. /\ (RtNames(o.next) /\ RtConfirms(o.next))'
          /\ o.job \in {"ensure", "rollback"} => o.next.active \in disk'
      BY <1>1, <2>2, <2>6 DEF RtNames, RtConfirms
    <3>2. RtSpares(disk, o.next, RtMoved(o.next))'
      BY <1>1, <2>2, <2>4, <2>6 DEF RtSpares, RtMoved, RtTakes
    <3> QED
      BY <2>4, <2>6, <3>1, <3>2 DEF RtOp
  <2> QED
    BY <1>1, <2>2, <2>3, <2>5, <2>6, RtWrites DEF RtAts
<1> QED
  BY <1>2, <1>3 DEF BacksUp

\* state.json is replaced: what the process knew of the next state is true of the
\* loaded one, and the daemon is moved if it was moved.
LEMMA RtReplaceKeeps ==
  ASSUME RtIInv, NEW p \in Processes, replaceFile(p)
  PROVE  RtIInv'
<1>1. /\ RtTypes' /\ UNCHANGED <<disk, backup, connected>>
      /\ op[p].at \in {"replace", "rename"} /\ op[p] \in RtOpType /\ RtOp(op[p])
  BY RtWriteTypes, RtTypesSplit DEF RtIInv, RtTypes, RtOps, replaceFile
<1>2. op[p] # Idle
  BY <1>1 DEF Idle
<1>3. CASE Fails(p) /\ UNCHANGED <<current, daemon>>
  BY <1>1, <1>2, <1>3, RtFailKeeps
<1>4. PICK x \in RtOpType : x = op[p]
  BY <1>1
<1>5. /\ x.next \in States /\ x.bundle \in Versions
      /\ RtNames(x.next) /\ RtConfirms(x.next) /\ RtSpares(disk, x.next, RtMoved(x.next))
      /\ x.job \in {"ensure", "rollback"} => x.next.active \in disk
  BY <1>1, <1>4 DEF RtOp, RtOpType
<1>6. CASE /\ op[p].at = "replace" /\ current' = NoState /\ UNCHANGED daemon
           /\ OpGoes(p, "rename", op[p].next, op[p].bundle)
  <2>1. OpGoes(p, "rename", x.next, x.bundle)
    BY <1>4, <1>6
  <2>2. loadState' = loadState
    BY <1>1, <1>4, <1>6 DEF RtOp, loadState
  <2>3. RtFiles'
    <3> HIDE DEF loadState
    <3> QED
      BY <1>1, <1>6, <2>2 DEF RtIInv, RtFiles, RtNames, RtConfirms, RtSpares, RtTakes
  <2>4. ASSUME NEW o \in RtOpType, o.at = "rename" /\ o.next = x.next /\ o.job = x.job
        PROVE  RtOp(o)'
    <3> HIDE DEF loadState
    <3>1. /\ (RtNames(o.next) /\ RtConfirms(o.next))'
          /\ o.job \in {"ensure", "rollback"} => o.next.active \in disk'
      BY <1>1, <1>5, <2>4 DEF RtNames, RtConfirms
    <3>2. RtSpares(disk, o.next, RtMoved(o.next))'
      BY <1>1, <1>5, <1>6, <2>2, <2>4 DEF RtSpares, RtMoved, RtTakes
    <3> QED
      BY <2>4, <3>1, <3>2 DEF RtOp
  <2> QED
    BY <1>1, <1>2, <1>4, <1>5, <1>6, <2>1, <2>3, <2>4, RtWrites DEF RtAts
<1>7. CASE current' = op[p].next /\ Moves(op[p].next) /\ AfterWrite(p)
  <2>1. x.next # NoState
    BY <1>5, RtLoaded, RtStates DEF RtNames, NoState
  <2>2. current' = x.next /\ loadState' = x.next
    BY <1>4, <1>7, <2>1 DEF loadState
  <2>3. PICK m : m = IF daemon.phase # "off" /\ x.next.active # loadState.active
                        /\ daemon.moved < 2 THEN daemon.moved + 1 ELSE daemon.moved
    OBVIOUS
  <2>4. daemon' = [daemon EXCEPT !.moved = m] /\ daemon \in RtDaemons
    BY <1>4, <1>7, <2>3, RtTypesSplit DEF Moves, RtIInv, RtTypes
  <2>5. daemon'.phase = daemon.phase /\ daemon'.version = daemon.version /\ daemon'.moved = m
    BY <2>4 DEF RtDaemons
  <2>6. RtFiles'
    <3> HIDE DEF loadState
    <3>1. RtSpares(disk, x.next, m)
      BY <1>5, <2>3, RtLoaded DEF RtSpares, RtMoved, RtTakes
    <3>2. RtSpares(disk, loadState, daemon.moved)'
      BY <1>1, <2>2, <2>5, <3>1 DEF RtSpares, RtTakes
    <3>3. RtNames(loadState)' /\ RtConfirms(loadState)'
      BY <1>1, <1>5, <2>2 DEF RtNames, RtConfirms
    <3> QED
      BY <1>1, <2>5, <3>2, <3>3 DEF RtIInv, RtFiles
  <2>7. PICK at \in {"prune", "sync", "done"}, b \in Versions :
           OpGoes(p, at, x.next, b) /\ (at = "sync" => x.job = "sync")
    BY <1>4, <1>5, <1>7, RtStates DEF AfterWrite, Resolved
  <2>8. ASSUME NEW o \in RtOpType, o.at = at /\ o.next = x.next /\ o.job = x.job
        PROVE  RtOp(o)'
    <3> HIDE DEF loadState
    <3>1. /\ RtNames(o.next)'
          /\ o.job \in {"ensure", "rollback"} => o.next.active \in disk'
      BY <1>1, <1>5, <2>8 DEF RtNames
    <3> QED
      BY <2>2, <2>7, <2>8, <3>1 DEF RtOp
  <2> QED
    BY <1>1, <1>2, <1>4, <1>5, <2>5, <2>6, <2>7, <2>8, RtWrites DEF RtAts
<1> QED
  BY <1>3, <1>6, <1>7 DEF replaceFile

\* What is pruned is named by no state that can still be loaded.
LEMMA RtPruneKeeps ==
  ASSUME RtIInv, NEW p \in Processes, pruneUnused(p)
  PROVE  RtIInv'
<1>1. /\ RtTypes' /\ UNCHANGED <<current, backup, daemon, connected>>
      /\ op[p].at = "prune" /\ op[p] \in RtOpType /\ RtOp(op[p])
  BY RtWriteTypes, RtTypesSplit DEF RtIInv, RtTypes, RtOps, pruneUnused
<1>2. op[p] # Idle
  BY <1>1 DEF Idle
<1>3. PICK x \in RtOpType : x = op[p]
  BY <1>1
<1>4. /\ x.next \in States /\ x.bundle \in Versions /\ RtNames(x.next) /\ current = x.next
      /\ x.job \in {"ensure", "rollback"} => x.next.active \in disk
  BY <1>1, <1>3 DEF RtOp, RtOpType
<1>5. disk' = disk \cap {x.next.active, x.next.previous}
  BY <1>3 DEF pruneUnused, Kept
<1>6. loadState = x.next /\ loadState' = x.next
  <2>1. x.next # NoState
    BY <1>4, RtLoaded, RtStates DEF RtNames, NoState
  <2> QED
    BY <1>1, <1>4, <2>1 DEF loadState
<1>7. RtFiles'
  <2> HIDE DEF loadState
  <2>1. RtNames(loadState)' /\ RtConfirms(loadState)'
    BY <1>1, <1>4, <1>5, <1>6, RtLoaded DEF RtNames, RtConfirms
  <2>2. RtSpares(disk, loadState, daemon.moved)'
    BY <1>1, <1>5, <1>6, RtLoaded DEF RtSpares, RtTakes
  <2> QED
    BY <1>1, <2>1, <2>2 DEF RtIInv, RtFiles
<1>8. PICK at \in {"sync", "done"}, b \in Versions :
         OpGoes(p, at, x.next, b) /\ (at = "sync" => x.job = "sync")
  BY <1>3, <1>4, RtStates DEF pruneUnused, Resolved
<1>9. ASSUME NEW o \in RtOpType, o.at = at /\ o.next = x.next /\ o.job = x.job
      PROVE  RtOp(o)'
  <2> HIDE DEF loadState
  <2> QED
    BY <1>4, <1>5, <1>6, <1>8, <1>9 DEF RtOp
<1> QED
  BY <1>1, <1>2, <1>3, <1>4, <1>7, <1>8, <1>9, RtWrites DEF RtAts

-----------------------------------------------------------------------------
(* The life of the daemon, the command, and Desktop.                        *)

\* What a process knows stays true while the files do, if the daemon keeps its bundle.
LEMMA RtOpStays ==
  ASSUME RtIInv, NEW q \in Processes, UNCHANGED <<disk, current, backup>>,
         connected \subseteq connected',
         \/ ~RtTakes'
         \/ RtTakes /\ daemon'.version = daemon.version /\ daemon'.moved = daemon.moved
  PROVE  \A o : o = op[q] => RtOp(o)'
<1> SUFFICES ASSUME NEW o, o = op[q] PROVE RtOp(o)'
  OBVIOUS
<1>1. RtOp(o) /\ loadState' = loadState
  BY DEF RtIInv, RtOps, loadState
<1> HIDE DEF loadState
<1>2. /\ RtConfirms(o.next) => RtConfirms(o.next)'
      /\ RtNames(o.next) => RtNames(o.next)'
      /\ RtSpares(disk, o.next, RtMoved(o.next)) => RtSpares(disk, o.next, RtMoved(o.next))'
      /\ RtSpares(disk \cup {o.bundle}, o.next, RtMoved(o.next)) =>
            RtSpares(disk \cup {o.bundle}, o.next, RtMoved(o.next))'
  BY <1>1 DEF RtConfirms, RtNames, RtSpares, RtMoved, RtTakes
<1> QED
  BY <1>1, <1>2 DEF RtOp

LEMMA RtOpsStay ==
  ASSUME RtIInv, UNCHANGED <<disk, current, backup>>, connected \subseteq connected',
         \/ ~RtTakes'
         \/ RtTakes /\ daemon'.version = daemon.version /\ daemon'.moved = daemon.moved,
         \A q \in Processes : op'[q] = op[q] \/ op'[q].at = "load"
  PROVE  RtOps'
<1> SUFFICES ASSUME NEW q \in Processes PROVE RtOp(op[q])'
  BY DEF RtOps
<1>1. CASE op'[q] = op[q]
  <2>1. PICK o : o = op[q]
    OBVIOUS
  <2>2. RtOp(o)'
    BY <2>1, RtOpStays
  <2> QED
    BY <1>1, <2>1, <2>2 DEF RtOp
<1>2. CASE op'[q].at = "load"
  BY <1>2 DEF RtOp
<1> QED
  BY <1>1, <1>2

LEMMA RtFilesStay ==
  ASSUME RtIInv, UNCHANGED <<disk, current, backup>>, connected \subseteq connected',
         \/ ~RtTakes'
         \/ RtTakes /\ daemon'.version = daemon.version /\ daemon'.moved = daemon.moved,
         daemon'.phase = "confirms" => daemon'.version \in connected'
  PROVE  RtFiles'
<1>1. loadState' = loadState
  BY DEF loadState
<1> HIDE DEF loadState
<1> QED
  BY <1>1 DEF RtIInv, RtFiles, RtNames, RtConfirms, RtSpares, RtTakes

\* A job begins when the other process is idle, and one that ends leaves its process so.
LEMMA RtTurns ==
  ASSUME RtIInv, ~Overlap, NEW p \in Processes
  PROVE  /\ op[p] \in RtOpType /\ (op[p] = Idle <=> op[p].job = "none")
         /\ \A j \in RtJobNames : OpBegins(p, j) =>
              /\ op'[p].job = j /\ op'[p].at = "load" /\ (j = "none" => op'[p] = Idle)
              /\ \A q \in Processes : q # p => op[q] = Idle /\ op'[q] = Idle
         /\ OpEnds(p) =>
              op'[p] = Idle /\ \A q \in Processes : q # p => op'[q] = op[q]
<1>1. op \in [Processes -> RtOpType]
  BY RtTypesSplit DEF RtIInv, RtTypes
<1>2. op[p] = Idle <=> op[p].job = "none"
  BY DEF RtIInv, RtJobs, Idle
<1>3. ASSUME NEW j \in RtJobNames, OpBegins(p, j)
      PROVE  /\ op'[p].job = j /\ op'[p].at = "load" /\ (j = "none" => op'[p] = Idle)
             /\ \A q \in Processes : q # p => op[q] = Idle /\ op'[q] = Idle
  <2>1. op' = [op EXCEPT ![p] = [Idle EXCEPT !.job = j]]
        /\ \A q \in Processes : q # p => op[q] = Idle
    BY <1>3 DEF OpBegins
  <2>2. op'[p] = [Idle EXCEPT !.job = j]
    BY <1>1, <2>1
  <2> QED
    BY <1>1, <2>1, <2>2 DEF Idle
<1>4. OpEnds(p) => op'[p] = Idle /\ \A q \in Processes : q # p => op'[q] = op[q]
  BY <1>1 DEF OpEnds
<1> QED
  BY <1>1, <1>2, <1>3, <1>4

\* The bundle that a start takes is the one that Ensure or the rollback left active.
LEMMA RtPreparedKeeps ==
  ASSUME RtIInv, ~Overlap, Prepared
  PROVE  RtIInv'
<1>1. /\ RtTypes' /\ UNCHANGED <<disk, current, backup, connected>>
      /\ "daemon" \in Processes /\ "command" \in Processes /\ "daemon" # "command"
  BY RtDaemonTypes DEF RtIInv, Prepared, Processes
<1>2. PICK x \in RtOpType : x = op["daemon"]
  BY <1>1, RtTurns
<1>3. x.at \in {"done", "failed"} /\ daemon.phase \in {"prepares", "rollsBack"} /\ RtOp(x)
  BY <1>1, <1>2 DEF Prepared, RtIInv, RtOps
<1>4. x # Idle /\ x.job \in {"ensure", "rollback"}
  BY <1>2, <1>3 DEF Idle, RtIInv, RtJobs
<1>5. op'["daemon"] = Idle /\ op["command"] = Idle /\ op'["command"] = Idle
  BY <1>1, <1>2, <1>4, RtTurns DEF RtIInv, RtOne, Prepared
<1>6. RtOne'
  BY <1>5 DEF RtOne, Processes
<1>7. RtOps'
  BY <1>5 DEF RtOps, RtOp, Idle, Processes
<1>8. CASE x.at = "failed" /\ daemon' = Off
  <2>1. RtFiles'
    BY <1>1, <1>8, RtFilesStay DEF RtTakes, Off
  <2>2. RtJobs'
    BY <1>1, <1>5, <1>8 DEF RtJobs, Processes, Idle, Off
  <2> QED
    BY <1>1, <1>6, <1>7, <2>1, <2>2 DEF RtIInv
<1>9. CASE /\ x.at = "done"
           /\ \/ daemon' = [Takes(x.next) EXCEPT !.attempt = 1]
              \/ daemon' = [Takes(x.next) EXCEPT !.previous = completeBundle(x.next.previous)]
  <2>1. /\ daemon'.version = x.next.active /\ daemon'.moved = 0
        /\ daemon'.phase \in {"running", "validates"}
    BY <1>9 DEF Takes
  <2>2. loadState = x.next /\ loadState' = x.next /\ x.next.active \in disk
    BY <1>1, <1>3, <1>4, <1>9 DEF RtOp, loadState
  <2>3. RtFiles'
    <3> HIDE DEF loadState
    <3> QED
      BY <1>1, <2>1, <2>2 DEF RtIInv, RtFiles, RtNames, RtConfirms, RtSpares
  <2>4. RtJobs'
    BY <1>1, <1>5, <2>1 DEF RtJobs, Processes, Idle
  <2> QED
    BY <1>1, <1>6, <1>7, <2>3, <2>4 DEF RtIInv
<1> QED
  BY <1>2, <1>3, <1>8, <1>9 DEF Prepared

LEMMA RtLifeKeeps ==
  ASSUME RtIInv, ~Overlap,
         \/ Starts \/ Validated \/ NotValidated \/ Confirmed \/ SyncBegins
         \/ SyncEnds \/ Stops \/ runRuntime \/ CommandEnds
  PROVE  RtIInv'
<1>1. /\ RtTypes' /\ UNCHANGED <<disk, current, backup>>
      /\ "daemon" \in Processes /\ "command" \in Processes /\ "daemon" # "command"
      /\ \A q \in Processes : q = "daemon" \/ q = "command"
      /\ daemon \in RtDaemons
  BY RtDaemonTypes, RtTypesSplit DEF RtIInv, RtTypes, Processes
<1>2. connected \subseteq connected'
  BY DEF Starts, Validated, NotValidated, Confirmed, SyncBegins, SyncEnds, Stops, runRuntime,
         CommandEnds
<1>3. \/ daemon' = daemon
      \/ \E ph \in {"confirms", "rollsBack", "running"} :
            RtTakes /\ daemon' = [daemon EXCEPT !.phase = ph]
      \/ daemon' = Off \/ daemon' = [Off EXCEPT !.phase = "prepares"]
  BY DEF Starts, Validated, NotValidated, Confirmed, SyncBegins, SyncEnds, Stops, runRuntime,
         CommandEnds, RtTakes
<1>4. \/ ~RtTakes'
      \/ RtTakes /\ daemon'.version = daemon.version /\ daemon'.moved = daemon.moved
  BY <1>1, <1>3 DEF RtTakes, Off, RtDaemons
<1>5. daemon'.phase = "confirms" => daemon'.version \in connected'
  <2>1. CASE Validated
    BY <1>1, <2>1 DEF Validated, RtDaemons
  <2>2. CASE ~Validated
    <3>1. daemon'.phase = "confirms" => daemon' = daemon
      BY <2>2, <1>1 DEF Starts, Validated, NotValidated, Confirmed, SyncBegins, SyncEnds, Stops,
             runRuntime, CommandEnds, Off, RtDaemons
    <3> QED
      BY <1>2, <3>1 DEF RtIInv, RtFiles
  <2> QED
    BY <2>1, <2>2
<1>6. RtFiles'
  BY <1>1, <1>2, <1>4, <1>5, RtFilesStay
<1>7. /\ \A q \in Processes : op'[q] = op[q] \/ op'[q].at = "load"
      /\ RtOne' /\ RtJobs'
  <2>1. \A q \in Processes :
          op[q] \in RtOpType /\ (op[q] = Idle <=> op[q].job = "none")
    BY RtTurns
  <2>2. op["daemon"] = Idle \/ op["command"] = Idle
    BY <1>1 DEF RtIInv, RtOne
  <2>3. CASE \/ daemon.phase = "off" /\ daemon'.phase = "prepares" /\ OpBegins("daemon", "ensure")
             \/ daemon.phase = "validates" /\ daemon'.phase = "confirms" /\ OpBegins("daemon", "confirm")
             \/ daemon.phase = "validates" /\ daemon'.phase = "rollsBack" /\ OpBegins("daemon", "rollback")
             \/ daemon.phase = "running" /\ daemon'.phase = "running" /\ OpBegins("daemon", "sync")
    <3>1. PICK j \in RtJobNames \ {"none"} :
            /\ OpBegins("daemon", j)
            /\ \/ daemon'.phase = "prepares" /\ j = "ensure"
               \/ daemon'.phase = "confirms" /\ j = "confirm"
               \/ daemon'.phase = "rollsBack" /\ j = "rollback"
               \/ daemon'.phase = "running" /\ j = "sync"
      BY <2>3 DEF RtJobNames
    <3>2. /\ op'["daemon"].job = j /\ op'["daemon"].at = "load"
          /\ op["command"] = Idle /\ op'["command"] = Idle
      BY <1>1, <3>1, RtTurns
    <3> QED
      BY <1>1, <3>1, <3>2 DEF RtOne, RtJobs, Idle, Processes
  <2>4. CASE OpEnds("daemon") /\ daemon'.phase \in {"off", "running"}
    <3>1. op'["daemon"] = Idle /\ op'["command"] = op["command"]
      BY <1>1, <2>4, RtTurns
    <3> QED
      BY <1>1, <2>1, <2>4, <3>1 DEF RtIInv, RtOne, RtJobs, Idle, Processes
  <2>5. CASE daemon.phase = "validates" /\ daemon'.phase = "off" /\ op' = op
    BY <1>1, <2>1, <2>5 DEF RtIInv, RtOne, RtJobs, Processes
  <2>6. CASE daemon' = daemon /\ \E j \in {"sync", "rollback"} : OpBegins("command", j)
    <3>1. PICK j \in {"sync", "rollback"} : OpBegins("command", j)
      BY <2>6
    <3>2. j \in RtJobNames /\ j # "none"
      BY DEF RtJobNames
    <3>3. /\ op'["command"].job = j /\ op'["command"].at = "load"
          /\ op["daemon"] = Idle /\ op'["daemon"] = Idle
      BY <1>1, <3>1, <3>2, RtTurns
    <3> QED
      BY <1>1, <2>1, <2>6, <3>3 DEF RtIInv, RtOne, RtJobs, Idle, Processes
  <2>7. CASE daemon' = daemon /\ OpEnds("command")
    <3>1. op'["command"] = Idle /\ op'["daemon"] = op["daemon"]
      BY <1>1, <2>7, RtTurns
    <3> QED
      BY <1>1, <2>1, <2>7, <3>1 DEF RtIInv, RtOne, RtJobs, Idle, Processes
  <2>8. CASE daemon' = daemon /\ op["daemon"].job = "sync" /\ OpEnds("daemon")
    <3>1. op'["daemon"] = Idle /\ op'["command"] = op["command"]
      BY <1>1, <2>8, RtTurns
    <3> QED
      BY <1>1, <2>1, <2>8, <3>1 DEF RtIInv, RtOne, RtJobs, Idle, Processes
  <2> QED
    BY <1>1, <2>3, <2>4, <2>5, <2>6, <2>7, <2>8
       DEF Starts, Validated, NotValidated, Confirmed, SyncBegins, SyncEnds, Stops, runRuntime,
           CommandEnds, Off, RtDaemons
<1>8. RtOps'
  BY <1>1, <1>2, <1>4, <1>7, RtOpsStay
<1> QED
  BY <1>1, <1>6, <1>7, <1>8 DEF RtIInv

LEMMA RtUpdateKeeps ==
  ASSUME RtIInv, CodexUpdates
  PROVE  RtIInv'
BY RtUpdateTypes
   DEF RtIInv, RtOne, RtJobs, RtFiles, RtOps, RtOp, RtNames, RtConfirms, RtSpares, RtTakes, RtMoved,
       loadState

LEMMA RtStep == ~Overlap /\ RtIInv /\ [RuntimeNext]_runtimeVars => RtIInv'
<1> SUFFICES ASSUME ~Overlap, RtIInv, [RuntimeNext]_runtimeVars PROVE RtIInv'
  OBVIOUS
<1>1. CASE UNCHANGED runtimeVars
  <2>1. RtTypes'
    BY RtTypesStep DEF RtIInv
  <2> QED
    BY <1>1, <2>1 DEF RtIInv, RtOne, RtJobs, RtFiles, RtOps, RtOp, RtNames, RtConfirms, RtSpares,
           RtTakes, RtMoved, loadState, runtimeVars, files
<1>2. CASE RuntimeNext
  BY <1>2, RtEnsureKeeps, RtSyncKeeps, RtConfirmKeeps, RtRollbackKeeps, RtInstallKeeps,
     RtBackupKeeps, RtReplaceKeeps, RtPruneKeeps, RtPreparedKeeps, RtLifeKeeps, RtUpdateKeeps
     DEF RuntimeNext
<1> QED
  BY <1>1, <1>2

LEMMA RtStart == RuntimeInit => RtIInv
<1> SUFFICES ASSUME RuntimeInit PROVE RtIInv
  OBVIOUS
<1>1. RtTypes
  BY RtTypesStart
<1>2. /\ \A p \in Processes : op[p] = Idle
      /\ loadState = NoState /\ daemon = Off
      /\ ~NoState.activeConfirmed /\ ~NoState.previousConfirmed
  BY DEF RuntimeInit, loadState, NoState
<1>3. RtOne /\ RtJobs /\ RtOps
  BY <1>2 DEF RtOne, RtJobs, RtOps, RtOp, Idle, Off, Processes
<1>4. RtFiles
  BY <1>2 DEF RtFiles, RtConfirms, RtSpares, RtTakes, Off
<1> QED
  BY <1>1, <1>3, <1>4 DEF RtIInv

\* Wherever a process dies, state.json or its backup names a complete bundle, a
\* confirmed bundle has run, and the running one survives one promotion
\* (writeState, pruneUnused, Confirm), as long as the command does not work on the
\* files while the daemon does.
THEOREM RuntimeStaysUsable ==
  ASSUME ~Overlap
  PROVE  RuntimeSpec => []RuntimeIsUsable
<1>1. RtIInv => RuntimeIsUsable
  BY DEF RtIInv, RtFiles, RtNames, RtConfirms, RtSpares, RtTakes, RuntimeIsUsable,
         StateNamesABundle, ConfirmedHasRun, RunningBundleStays, completeBundle
<1>2. RtIInv /\ [RuntimeNext]_runtimeVars => RtIInv'
  BY RtStep
<1> QED
  BY RtStart, <1>1, <1>2, PTL DEF RuntimeSpec
=============================================================================
