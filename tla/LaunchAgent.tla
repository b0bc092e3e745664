---------------------------- MODULE LaunchAgent ----------------------------
(***************************************************************************)
(* The macOS service of the daemon (cmd/ctr-go/service.go).                 *)
(*                                                                          *)
(* "ctr-go service" writes config.env and the launchd job, bootstraps the   *)
(* job and boots it out.  launchd takes its time, and the command may be    *)
(* killed between any two of its steps: the tray gives it thirty seconds,   *)
(* and a task that the daemon hosts dies with the daemon.                   *)
(***************************************************************************)
EXTENDS Naturals

CONSTANT MaxSetups      \* bound: installations of a run

ASSUME SetupsAssumption == MaxSetups \in Nat

VARIABLES
    config, plist, login,   \* config.env, the job, its copy for logins: the setup they hold
    agentJob,                    \* launchd: the state of the job, and the setup it was loaded from
    cli,                    \* the command at work, and its next step
    setups,                 \* setups given
    wanted                  \* history: the last command left the job loaded

agentVars == <<config, plist, login, agentJob, cli, setups, wanted>>
agentFiles == <<config, plist, login>>

Setups == 0 .. MaxSetups
NoCommand == [does |-> "", step |-> "", starts |-> FALSE, atLogin |-> FALSE, hosted |-> FALSE]
Mutations == {"install", "start", "stop", "restart", "uninstall"}

AgentInit ==
    /\ config = 0 /\ plist = 0 /\ login = 0 /\ setups = 0
    /\ agentJob = [state |-> "out", of |-> 0]
    /\ cli = NoCommand /\ wanted = FALSE

CliAt(step) == cli.step = step
StepsTo(step) == cli' = [cli EXCEPT !.step = step]
Quits == cli' = NoCommand
Printed == agentJob.state # "out"        \* launchctl print, while it unloads as well

-----------------------------------------------------------------------------
guardHostedServiceMutation(does, hosted) == hosted => does \notin Mutations

FirstStep(does) ==
    CASE does = "install" -> "config"
      [] does = "start" -> "bootstrap"
      [] does \in {"stop", "uninstall"} -> "bootout"
      [] does = "restart" -> "restart"

runService ==
    /\ cli = NoCommand
    /\ \E does \in Mutations, starts, atLogin, hosted \in BOOLEAN :
          /\ guardHostedServiceMutation(does, hosted)
          /\ does # "install" => ~starts /\ ~atLogin
          /\ cli' = [does |-> does, step |-> FirstStep(does), starts |-> starts,
                     atLogin |-> atLogin, hosted |-> hosted]
    /\ UNCHANGED <<agentFiles, agentJob, setups, wanted>>

\* collectServiceInstallValues and the wizard: what is not given is kept from the
\* setup before, and nothing is written until all is there and valid.
Collected == {setups + 1} \cup (IF config = 0 THEN {} ELSE {config})

writeConfigEnv ==
    /\ CliAt("config")
    /\ \/ Quits /\ UNCHANGED <<config, setups>>
       \/ /\ setups < MaxSetups
          /\ \E v \in Collected : config' = v /\ setups' = (IF v > setups THEN v ELSE setups)
          /\ StepsTo("plist")
    /\ UNCHANGED <<plist, login, agentJob, wanted>>

writePlist ==
    /\ CliAt("plist")
    /\ plist' = config
    /\ StepsTo(IF cli.atLogin THEN "login" ELSE "installed")
    /\ UNCHANGED <<config, login, agentJob, setups, wanted>>

copyFile ==
    /\ CliAt("login")
    /\ login' = plist
    /\ StepsTo("installed")
    /\ UNCHANGED <<config, plist, agentJob, setups, wanted>>

Installed ==
    /\ CliAt("installed")
    /\ IF cli.starts THEN StepsTo("bootout") ELSE Quits
    /\ UNCHANGED <<agentFiles, agentJob, setups, wanted>>

runServiceEnableLogin ==
    /\ cli = NoCommand /\ plist # 0
    /\ login' = plist
    /\ UNCHANGED <<config, plist, agentJob, cli, setups, wanted>>

runServiceDisableLogin ==
    /\ cli = NoCommand
    /\ login' = 0
    /\ UNCHANGED <<config, plist, agentJob, cli, setups, wanted>>

-----------------------------------------------------------------------------
\* serviceStop: bootout, and up to fifteen seconds until it shows.
serviceStop ==
    /\ CliAt("bootout")
    /\ agentJob' = IF agentJob.state = "loaded" THEN [agentJob EXCEPT !.state = "leaving"] ELSE agentJob
    /\ wanted' = (wanted /\ cli.hosted)
    /\ StepsTo("gone")
    /\ UNCHANGED <<agentFiles, setups>>

\* Mutant of AfterStop: it is uninstalled all the same.
AnyhowNext(gone) ==
    CASE cli.does = "stop" -> ""
      [] cli.does = "install" -> "bootstrap"
      [] OTHER -> "unlogin"

\* What follows the wait: an installation starts all the same, nothing is
\* removed under a job that is still there.
AfterStop(gone) ==
    IF cli.does = "install" THEN "bootstrap"
    ELSE IF cli.does = "uninstall" /\ gone THEN "unlogin" ELSE ""

waitServiceLoaded ==
    LET step == AfterStop(~Printed)
    IN  /\ CliAt("gone")
        /\ IF step = "" THEN Quits ELSE StepsTo(step)
        /\ UNCHANGED <<agentFiles, agentJob, setups, wanted>>

\* runServiceStart: the copy for logins comes first.  A job that shows is taken
\* for a success, be it about to go.
runServiceStart ==
    LET from == IF login # 0 THEN login ELSE plist
    IN  /\ CliAt("bootstrap")
        /\ \/ /\ agentJob.state = "out" /\ from # 0
              /\ agentJob' = [state |-> "loaded", of |-> from]
              /\ StepsTo("kickstart")
           \/ agentJob.state # "out" /\ StepsTo("kickstart") /\ UNCHANGED agentJob
           \/ agentJob.state = "out" /\ Quits /\ UNCHANGED agentJob
        /\ UNCHANGED <<agentFiles, setups, wanted>>

\* kickstart -k ends the process of the job, which launchd starts again; a job
\* that shows though it failed is a success.
Kickstarts ==
    /\ CliAt("kickstart")
    /\ wanted' = (wanted \/ agentJob.state = "loaded")
    /\ Quits
    /\ UNCHANGED <<agentFiles, agentJob, setups>>

Restarted == agentJob

runServiceRestart ==
    /\ CliAt("restart")
    /\ IF Printed THEN agentJob' = Restarted /\ Quits
                  ELSE StepsTo("bootstrap") /\ UNCHANGED agentJob
    /\ UNCHANGED <<agentFiles, setups, wanted>>

\* runServiceUninstall, file by file.  The settings may be kept.
runServiceUninstall ==
    \/ /\ CliAt("unlogin")
       /\ login' = 0 /\ StepsTo("unplist")
       /\ UNCHANGED <<config, plist, agentJob, setups, wanted>>
    \/ /\ CliAt("unplist")
       /\ plist' = 0 /\ StepsTo("unconfig")
       /\ UNCHANGED <<config, login, agentJob, setups, wanted>>
    \/ /\ CliAt("unconfig")
       /\ config' \in {0, config} /\ Quits
       /\ UNCHANGED <<plist, login, agentJob, setups, wanted>>

-----------------------------------------------------------------------------
\* launchd has unloaded the job.  A hosted command ends with its host.
Unloaded ==
    /\ agentJob.state = "leaving"
    /\ agentJob' = [state |-> "out", of |-> 0]
    /\ IF cli.hosted THEN Quits ELSE UNCHANGED cli
    /\ UNCHANGED <<agentFiles, setups, wanted>>

\* The command is killed.
Killed ==
    /\ cli # NoCommand /\ Quits
    /\ UNCHANGED <<agentFiles, agentJob, setups, wanted>>

\* The operator logs in again.
LogsIn ==
    /\ agentJob' = IF login # 0 THEN [state |-> "loaded", of |-> login] ELSE [state |-> "out", of |-> 0]
    /\ wanted' = (login # 0)
    /\ Quits
    /\ UNCHANGED <<agentFiles, setups>>

AgentNext ==
    \/ runService \/ writeConfigEnv \/ writePlist \/ copyFile \/ Installed
    \/ runServiceEnableLogin \/ runServiceDisableLogin
    \/ serviceStop \/ waitServiceLoaded \/ runServiceStart \/ Kickstarts
    \/ runServiceRestart \/ runServiceUninstall
    \/ Unloaded \/ Killed \/ LogsIn

AgentSpec == AgentInit /\ [][AgentNext]_agentVars

AgentTypeOK ==
    /\ {config, plist, login, setups, agentJob.of} \subseteq Setups
    /\ agentJob.state \in {"out", "loaded", "leaving"}
    /\ cli.does \in Mutations \cup {""} /\ wanted \in BOOLEAN

-----------------------------------------------------------------------------
\* Once it runs the service is given up by a command of the operator's that says
\* so, and by nothing else: a restart whose command is killed leaves it loaded
\* (ADR-018), and a task that the daemon hosts cannot end it.  Whatever launchd
\* has loaded, or loads at the next login, finds its settings.
ServiceIsKept ==
    /\ wanted => agentJob.state = "loaded"
    /\ (agentJob.state # "out" \/ login # 0) => config # 0
=============================================================================
