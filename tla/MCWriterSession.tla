--------------------------- MODULE MCWriterSession ---------------------------
(* Small instances of WriterSession.  The bot handles one update at a time; *)
(* the timer stands for the goroutines beside it, album flushes and         *)
(* scheduled dispatches.                                                    *)
EXTENDS WriterSession, TLC

CONSTANTS chat, cron, fresh, bot, timer

\* Writers against releases: every way to start a turn, /release and repairs.
ReleaseJobs == bot   :> {"newchat", "release"}
            @@ timer :> {"input", "automation"}

\* Everything else that takes sessionMu, against album input and crashes.
AdminJobs == bot   :> {"interrupt", "bind", "archive"}
          @@ timer :> {"input"}

\* The shortest disagreements with the documents.
RaceJobs == bot :> {"release"} @@ timer :> {"input"}
NewChatJobs == bot :> {"input", "newchat"} @@ timer :> {}
=============================================================================
