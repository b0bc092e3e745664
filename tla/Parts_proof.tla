---------------------------- MODULE Parts_proof ----------------------------
(***************************************************************************)
(* The composition of the parts that share no state (MCParts): a behaviour   *)
(* of it is a behaviour of every part, so that what is proved of a part      *)
(* (StateFiles_proof, Telegram_proof) holds in it, for any constants.        *)
(***************************************************************************)
EXTENDS MCParts, StateFiles_proof, Telegram_proof, TLAPS

\* In every step a part makes a step of its own, or keeps still.
LEMMA FilesStep ==
  [Next]_vars => /\ [CredNext]_credVars /\ [RuntimeNext]_runtimeVars
                 /\ [StoreNext]_storeVars /\ [AgentNext]_agentVars
BY DEF Next, Of, vars

LEMMA ChatStep == [Next]_vars => [BotNext]_botVars /\ [RouteNext]_routeVars /\ [DetailsNext]_detailsVars
BY DEF Next, Of, vars

LEMMA PartsStart ==
  Init => /\ CredInit /\ RuntimeInit /\ StoreInit /\ AgentInit
          /\ BotInit /\ RouteInit /\ DetailsInit
BY DEF Init

LEMMA PartsAreTheirs ==
  Spec => /\ CredSpec /\ RuntimeSpec /\ StoreSpec /\ AgentSpec
          /\ BotSpec /\ RouteSpec /\ DetailsSpec
BY FilesStep, ChatStep, PartsStart, PTL
   DEF Spec, CredSpec, RuntimeSpec, StoreSpec, AgentSpec, BotSpec, RouteSpec, DetailsSpec

\* Whichever part a behaviour is of, the tokens of the login, the managed runtime, the
\* task store, the macOS service, the bot, the input of the user and the details keep to
\* their types.
THEOREM PartsTypes == Spec => []PartsTypeOK
<1>1. /\ CredTypeOK /\ RuntimeTypeOK /\ StoreTypeOK /\ AgentTypeOK
      /\ BotTypeOK /\ RouteTypeOK /\ DetailsTypeOK
      => PartsTypeOK
  BY DEF PartsTypeOK
<1> QED
  BY <1>1, PartsAreTheirs, CredTypes, RuntimeTypes, StoreTypes, AgentTypes, BotTypes,
     RouteTypes, DetailsKeepTypes, PTL

\* While no command works on the files of the running daemon, the parts stay right side
\* by side: the client offers no refused token, the installed bundle is usable, calls of
\* two automation servers lose no task, the service is kept, and updates, inputs and
\* pages go where they belong.
THEOREM PartsAreSound ==
  ASSUME ~Overlap
  PROVE  Spec => [](/\ CredentialsAreSound /\ RuntimeIsUsable /\ TasksAreKept /\ ServiceIsKept
                    /\ MessagesAreServed /\ InputsAreRouted /\ DetailsAreOwn)
<1>1. RuntimeSpec => []RuntimeIsUsable
  BY RuntimeStaysUsable
<1> QED
  BY <1>1, PartsAreTheirs, CredBooksAreSound, StoreKeepsTasks, AgentKeepsService,
     BotServes, InputsGoRight, DetailsStayOwn, PTL
=============================================================================
