---------------------------- MODULE MCConversation ----------------------------
EXTENDS Conversation

CONSTANTS a, b, poll, live, bot, none

MCThreads == {a, b}
MCJobs == {poll, live, bot}
MCObservers == {poll, live}

Play(jobs, turnsA, turnsB, mayA, mayB) ==
    [jobs |-> jobs,
     turns |-> [t \in MCThreads |-> IF t = a THEN turnsA ELSE turnsB],
     may |-> [t \in MCThreads |-> IF t = a THEN mayA ELSE mayB]]

\* Turn after turn, a question before the end, a working card on either side,
\* and two observers of one thread.
MCPlays == {Play({poll, bot}, 2, 1, {"done"}, {"stopped"}),
            Play({poll, bot}, 1, 1, {"done"}, {"asks", "stopped"}),
            Play({poll, bot}, 1, 1, {"running", "done"}, {"stopped"}),
            Play({poll, live, bot}, 1, 0, {"running", "done"}, {})}
=============================================================================
