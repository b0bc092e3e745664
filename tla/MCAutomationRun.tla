--------------------------- MODULE MCAutomationRun ---------------------------
(* Small instances of AutomationRun: two occurrences and one observer.      *)
EXTENDS AutomationRun

CONSTANTS poller

MCCallers == Observers \cup {Scheduler}
=============================================================================
