------------------------------ MODULE MCParts ------------------------------
(***************************************************************************)
(* The parts that share no state with one another, checked in one run.  A   *)
(* behaviour is of one part only, which Init chooses; the others stay in    *)
(* one of their initial states, so that the state spaces add.               *)
(***************************************************************************)
EXTENDS Credentials, RuntimeBundle, Schedule, TaskStore, TelegramBot, InputRoute,
        Details, LaunchAgent

CONSTANT t1

VARIABLE part

-----------------------------------------------------------------------------
(* The rules, and the times at which they are looked at.                    *)

Rule(f, i, d, m, h, mi) ==
    [freq |-> f, interval |-> i, days |-> d, monthDays |-> m, hour |-> h, minute |-> mi]

Rules ==
    {Rule("HOURLY", i, d, {}, h, mi) :
        i \in {1, 5}, d \in {{}, {0}}, h \in {Absent, 9}, mi \in {Absent, 30}}
    \cup {Rule(f, i, d, {}, h, 15) :
        f \in {"DAILY", "WEEKLY"}, i \in {1, 2, 3}, d \in {{}, {0, 3}, {6}}, h \in {Absent, 0, 18}}
    \cup {Rule("MONTHLY", i, {}, m, 7, mi) :
        i \in {1, 2}, m \in {{}, {31}, {1, 30}}, mi \in {0, Absent}}
    \cup {Rule("MONTHLY", 1, {2}, {}, 7, 0), Rule("DAILY", 366, {}, {}, 24, 0)}

Time(d, h, m) == d * Day + h * Hour + m

MCQuestions ==
    [task : [rule : Rules, created : {Time(2, 9, 20)},
             updated : {Time(1, 0, 0), Time(7, 18, 15), Time(30, 6, 59)}],
     now : {Time(9, 9, 30), Time(10, 0, 14), Time(23, 17, 59), Time(30, 7, 0), Time(89, 12, 0)}]

-----------------------------------------------------------------------------
(* Updates of a chat, commands given in one, and what turns do.             *)

Update(k, g, m) == [kind |-> k, group |-> g, msg |-> m]

MCChats ==
    {<<Update("album", "g", 2), Update("text", "", 3), Update("album", "g", 1), Update("album", "g", 2)>>,
     <<Update("callback", "", 1), Update("album", "g", 2), Update("nothing", "", 3), Update("photo", "", 4)>>}

MCTalks == {[does |-> {"new", "cancel", "bind", "text"}, turns |-> 0, asks |-> 2],
            [does |-> {"arm", "bind", "text"}, turns |-> 2, asks |-> 1],
            [does |-> {"stop", "off", "plan", "text"}, turns |-> 2, asks |-> 0],
            [does |-> {"default", "plan", "text"}, turns |-> 2, asks |-> 0]}

MCWorks == {<<"tool", "commentary", "tool", "commentary">>,
            <<"commentary", "plan", "tool", "answer">>,
            <<"plan", "plan", "plan", "plan", "tool">>,
            <<>>}

-----------------------------------------------------------------------------
AnyQuestion == [task |-> [rule |-> Rule("DAILY", 1, {}, {}, 0, 15),
                          created |-> Time(2, 9, 20), updated |-> Time(1, 0, 0)],
                now |-> Time(9, 9, 30)]

Init ==
    /\ part \in {"credentials", "runtime", "schedule", "store", "bot",
                 "route", "details", "agent"}
    /\ CredInit /\ (part = "credentials" \/ source = NoToken)
    /\ RuntimeInit /\ (part = "runtime" \/ runs = Bundles)
    /\ ScheduleInit /\ (part = "schedule" \/ question = AnyQuestion)
    /\ StoreInit
    /\ BotInit /\ (part = "bot" \/ chat = CHOOSE c \in Chats : TRUE)
    /\ RouteInit /\ (part = "route" \/ talk = CHOOSE t \in Talks : TRUE)
    /\ DetailsInit /\ (part = "details" \/ (panelMode = "stable" /\ card = 1))
    /\ AgentInit

\* A step of the part p.
Of(p) == part = p /\ UNCHANGED part

Next ==
    \/ Of("credentials") /\ CredNext
       /\ UNCHANGED <<runtimeVars, scheduleVars, storeVars, botVars, routeVars, detailsVars, agentVars>>
    \/ Of("runtime") /\ RuntimeNext
       /\ UNCHANGED <<credVars, scheduleVars, storeVars, botVars, routeVars, detailsVars, agentVars>>
    \/ Of("schedule") /\ Ask
       /\ UNCHANGED <<credVars, runtimeVars, storeVars, botVars, routeVars, detailsVars, agentVars>>
    \/ Of("store") /\ StoreNext
       /\ UNCHANGED <<credVars, runtimeVars, scheduleVars, botVars, routeVars, detailsVars, agentVars>>
    \/ Of("bot") /\ BotNext
       /\ UNCHANGED <<credVars, runtimeVars, scheduleVars, storeVars, routeVars, detailsVars, agentVars>>
    \/ Of("route") /\ RouteNext
       /\ UNCHANGED <<credVars, runtimeVars, scheduleVars, storeVars, botVars, detailsVars, agentVars>>
    \/ Of("details") /\ DetailsNext
       /\ UNCHANGED <<credVars, runtimeVars, scheduleVars, storeVars, botVars, routeVars, agentVars>>
    \/ Of("agent") /\ AgentNext
       /\ UNCHANGED <<credVars, runtimeVars, scheduleVars, storeVars, botVars, routeVars, detailsVars>>

vars == <<part, credVars, runtimeVars, scheduleVars, storeVars, botVars, routeVars,
          detailsVars, agentVars>>

Spec == Init /\ [][Next]_vars

-----------------------------------------------------------------------------
\* Every part keeps to its types.
PartsTypeOK ==
    /\ part = "credentials" => CredTypeOK
    /\ part = "runtime" => RuntimeTypeOK
    /\ part = "store" => StoreTypeOK
    /\ part = "bot" => BotTypeOK
    /\ part = "route" => RouteTypeOK
    /\ part = "details" => DetailsTypeOK
    /\ part = "agent" => AgentTypeOK
=============================================================================
