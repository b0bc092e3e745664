---------------------------- MODULE Credentials ----------------------------
(***************************************************************************)
(* The credential watchdog of the App Server client (appserver/             *)
(* credentials.go, credentials/source.go): an access token is read from a   *)
(* file that somebody else keeps, given to the process of the session by a  *)
(* login, renewed when that process asks, and refused when the file has     *)
(* nothing newer.  authMu is held over a login; the session may end in the  *)
(* meantime.  The login is a call of RpcCall: it may be performed although   *)
(* its caller was told of an error.                                         *)
(***************************************************************************)
EXTENDS Naturals

CONSTANTS
  Tokens,          \* access tokens that can be in the source file
  NoToken,         \* an unreadable, expired or foreign source
  MaxSessions,     \* bound: sessions ever started
  MaxChanges       \* bound: rewrites of the source file

ASSUME CredentialAssumption ==
  /\ NoToken \notin Tokens
  /\ MaxSessions \in Nat \ {0} /\ MaxChanges \in Nat

VARIABLES
  open,            \* c.started
  sessionNo,       \* the session's generation
  booting,         \* Start is at its syncCredentials
  source,          \* what Source.Read yields
  changes,
  authToken, authRejected, authGeneration, authStatus,
  job,             \* what the holder of authMu does
  turn,            \* turn[1]: TurnStartInputs, with the generation it captured
  logins,          \* login requests a process may still act on
  asked,           \* refresh requests on their way to a refreshCredentials
  accepted,        \* accepted[g]: tokens that the process of g has taken
  refused          \* refused[g]: the token over which a refresh of g was refused

authVars   == <<authToken, authRejected, authGeneration, authStatus>>
holderVars == <<accepted, refused, logins, asked>>
credVars   == <<open, sessionNo, booting, source, changes, authVars, job, turn, holderVars>>

SessionNos == 0..MaxSessions
Maybe == Tokens \cup {NoToken}
NoHolder == [kind |-> "free", for |-> "watchdog", gen |-> 0, token |-> NoToken]
NoTurn == [step |-> "idle", gen |-> 0]

CredTypeOK ==
  /\ open \in BOOLEAN /\ sessionNo \in SessionNos /\ booting \in BOOLEAN
  /\ source \in Maybe /\ changes \in 0..MaxChanges
  /\ {authToken, authRejected} \subseteq Maybe /\ authGeneration \in SessionNos
  /\ authStatus \in {"waiting", "loaded", "rejected", "unreadable", "failed"}
  /\ job \in [kind : {"free", "login", "await", "refresh"}, gen : SessionNos,
              for : {"boot", "watchdog", "turn"}, token : Maybe]
  /\ turn \in [step : {"idle", "sync", "start"}, gen : SessionNos]
  /\ logins \subseteq [gen : SessionNos, token : Tokens]
  /\ asked \subseteq SessionNos
  /\ accepted \in [SessionNos -> SUBSET Tokens]
  /\ refused \in [SessionNos -> Maybe]

CredInit ==
  /\ open = FALSE /\ sessionNo = 0 /\ booting = FALSE
  /\ source \in Maybe /\ changes = 0
  /\ authToken = NoToken /\ authRejected = NoToken
  /\ authGeneration = 0 /\ authStatus = "waiting"
  /\ job = NoHolder /\ turn = NoTurn /\ logins = {} /\ asked = {}
  /\ accepted = [g \in SessionNos |-> {}]
  /\ refused = [g \in SessionNos |-> NoToken]

Started(g) == open /\ sessionNo = g

-----------------------------------------------------------------------------
(* The session, and the owner of the source file.                           *)

SessionStarts ==
  /\ ~open /\ sessionNo < MaxSessions
  /\ open' = TRUE /\ sessionNo' = sessionNo + 1 /\ booting' = TRUE
  /\ UNCHANGED <<source, changes, authVars, job, turn, holderVars>>

\* Close waits for Start.
SessionCloses ==
  /\ open /\ ~booting
  /\ open' = FALSE
  /\ UNCHANGED <<sessionNo, booting, source, changes, authVars, job, turn, holderVars>>

SourceChanges ==
  /\ changes < MaxChanges /\ changes' = changes + 1
  /\ source' \in Maybe \ {source}
  /\ UNCHANGED <<open, sessionNo, booting, authVars, job, turn, holderVars>>

\* The process takes the token of a login, late or never.
ProcessTakes ==
  /\ \E l \in logins :
       /\ Started(l.gen)
       /\ logins' = logins \ {l}
       /\ accepted' = [accepted EXCEPT ![l.gen] = @ \cup {l.token}]
  /\ UNCHANGED <<open, sessionNo, booting, source, changes, authVars, job, turn,
                 refused, asked>>

-----------------------------------------------------------------------------
(* syncCredentials, called by Start, by the watchdog's ticker and for every  *)
(* turn.                                                                    *)

\* Start is over either way; a turn goes on only with its credentials loaded.
SyncReturns(who, ok) ==
  /\ booting' = (booting /\ who # "boot")
  /\ turn' = IF who # "turn" THEN turn
             ELSE IF ok THEN [turn EXCEPT !.step = "start"] ELSE NoTurn

Blocked(g) == source = authRejected /\ authGeneration = g

Sync(who, g) ==
  /\ job = NoHolder
  /\ LET readable == Started(g) /\ source # NoToken
         known    == source = authToken /\ authGeneration = g
     IN IF readable /\ ~Blocked(g) /\ ~known
        THEN /\ job' = [kind |-> "login", gen |-> g, for |-> who, token |-> source]
             /\ UNCHANGED <<booting, turn, authStatus>>
        ELSE /\ SyncReturns(who, readable /\ ~Blocked(g))
             /\ authStatus' = IF ~Started(g) THEN authStatus
                              ELSE IF source = NoToken THEN "unreadable"
                              ELSE IF Blocked(g) THEN "rejected" ELSE "loaded"
             /\ UNCHANGED job
  /\ UNCHANGED <<open, sessionNo, source, changes, authToken, authRejected,
                 authGeneration, holderVars>>

BootSyncs == booting /\ Sync("boot", sessionNo)

\* A watchdog of an earlier session returns at its next tick.
WatchdogTicks == open /\ ~booting /\ Sync("watchdog", sessionNo)

TurnCaptures ==
  /\ turn = NoTurn
  /\ turn' = [step |-> "sync", gen |-> sessionNo]
  /\ UNCHANGED <<open, sessionNo, booting, source, changes, authVars, job, holderVars>>

TurnSyncs == turn.step = "sync" /\ Sync("turn", turn.gen)

\* turn/start itself is not bound to the session whose credentials were seen to.
TurnStarts ==
  /\ turn.step = "start"
  /\ turn' = NoTurn
  /\ UNCHANGED <<open, sessionNo, booting, source, changes, authVars, job, holderVars>>

LoginGoesTo(g) == g

\* requestForGeneration refuses a session that has changed.
LoginAsks ==
  /\ job.kind = "login"
  /\ job' = [job EXCEPT !.kind = "await"]
  /\ logins' = IF Started(LoginGoesTo(job.gen))
               THEN logins \cup {[gen |-> LoginGoesTo(job.gen), token |-> job.token]}
               ELSE logins
  /\ UNCHANGED <<open, sessionNo, booting, source, changes, authVars, turn, accepted,
                 refused, asked>>

Books(g, token) ==
  /\ authToken' = token /\ authRejected' = NoToken
  /\ authGeneration' = g /\ authStatus' = "loaded"
  /\ refused' = [refused EXCEPT ![g] = NoToken]

NotLoaded(got) ==
  /\ authStatus' = IF got THEN authStatus ELSE "failed"
  /\ UNCHANGED <<authToken, authRejected, authGeneration, refused>>

\* Mutant of Commit: the token is booked on whatever session runs now.
CommitNow(got) == IF got /\ open THEN Books(sessionNo, job.token) ELSE NotLoaded(got)

Commit(got) == IF got /\ Started(job.gen) THEN Books(job.gen, job.token) ELSE NotLoaded(got)

\* A result, which the process has earned, or an error for any other reason.
LoginEnds ==
  /\ job.kind = "await"
  /\ \E got \in BOOLEAN :
       /\ got => job.token \in accepted[job.gen]
       /\ Commit(got)
       /\ SyncReturns(job.for, got /\ Started(job.gen))
  /\ job' = NoHolder
  /\ UNCHANGED <<open, sessionNo, source, changes, accepted, logins, asked>>

-----------------------------------------------------------------------------
(* refreshCredentials.                                                      *)

ProcessAsks ==
  /\ open /\ accepted[sessionNo] # {}
  /\ asked' = asked \cup {sessionNo}
  /\ UNCHANGED <<open, sessionNo, booting, source, changes, authVars, job, turn,
                 accepted, refused, logins>>

Unusable == source \in {NoToken, authToken, authRejected}

RefreshReads(g) ==
  /\ job = NoHolder /\ g \in asked
  /\ asked' = asked \ {g}
  /\ IF Started(g)
     THEN /\ job' = [kind |-> "refresh", gen |-> g, for |-> "watchdog",
                     token |-> IF Unusable THEN NoToken ELSE source]
          /\ authRejected' = IF Unusable THEN authToken ELSE authRejected
          /\ authStatus' = IF ~Unusable THEN authStatus
                           ELSE IF source = NoToken THEN "unreadable" ELSE "rejected"
     ELSE UNCHANGED <<job, authRejected, authStatus>>
  /\ UNCHANGED <<open, sessionNo, booting, source, changes, authToken, authGeneration,
                 turn, accepted, refused, logins>>

\* Under c.mu together with the write, which fails when the process is gone.
RefreshAnswers ==
  /\ job.kind = "refresh"
  /\ LET g == job.gen
     IN \/ /\ Started(g) /\ job.token # NoToken
           /\ Books(g, job.token)
           /\ accepted' = [accepted EXCEPT ![g] = @ \cup {job.token}]
        \/ /\ Started(g) /\ job.token = NoToken
           /\ refused' = IF authGeneration = g
                         THEN [refused EXCEPT ![g] = authToken] ELSE refused
           /\ UNCHANGED <<authVars, accepted>>
        \/ UNCHANGED <<authVars, accepted, refused>>
  /\ job' = NoHolder
  /\ UNCHANGED <<open, sessionNo, booting, source, changes, turn, logins, asked>>

-----------------------------------------------------------------------------
CredNext ==
  \/ SessionStarts \/ SessionCloses \/ SourceChanges
  \/ ProcessTakes \/ ProcessAsks
  \/ BootSyncs \/ WatchdogTicks \/ TurnCaptures \/ TurnSyncs \/ TurnStarts
  \/ LoginAsks \/ LoginEnds
  \/ (\E g \in SessionNos : RefreshReads(g)) \/ RefreshAnswers

CredSpec == CredInit /\ [][CredNext]_credVars

-----------------------------------------------------------------------------
(* Properties.                                                              *)

\* The credentials that the client takes for loaded are in the process of the session
\* it means, whatever becomes of sessions while a login is under way.
LoadedTokenIsHeld == authToken # NoToken => authToken \in accepted[authGeneration]

\* The token over which a refresh was refused is not given to that process again until
\* another one was taken: an unchanged rejected token fails closed (ADR-027).
RefusedIsNotOffered ==
  job.kind # "free" /\ job.token # NoToken => job.token # refused[job.gen]

\* While a refusal stands, nothing that syncs makes the client call its token loaded,
\* so no turn starts on it.
RefusalIsReported ==
  \A g \in SessionNos : refused[g] # NoToken /\ authGeneration = g /\ authToken = refused[g]
    => authStatus # "loaded"

\* What the client says of its credentials is so in the process they are of: it holds
\* the loaded token, and the refused one is neither offered nor called loaded again.
CredentialsAreSound == LoadedTokenIsHeld /\ RefusedIsNotOffered /\ RefusalIsReported
=============================================================================
