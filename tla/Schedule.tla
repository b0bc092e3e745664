------------------------------ MODULE Schedule ------------------------------
(***************************************************************************)
(* When a scheduled task is due (internal/automation/scheduler.go, store.go *)
(* validateRRule).  A time is a minute since Monday, 1 January 2018, in the *)
(* daemon's time zone, without a change of the clocks.  LatestDue looks at  *)
(* some slots, back from now, and takes the first that the rule allows;     *)
(* Latest is what the rule means.                                           *)
(***************************************************************************)
EXTENDS Naturals, FiniteSetsExt

CONSTANTS
    Questions       \* bound: the rules and times that are looked at

Hour == 60
Day == 24 * Hour
Absent == 1000000   \* a part that the rule leaves out; or no slot
Unasked == Absent + 1
Year == 365 * Day   \* bound: now is in 2018

\* A task is made after the first day, so that there is one to go back to.
ASSUME ScheduleAssumption ==
    \A q \in Questions :
        /\ q.now \in 0 .. Year - 1
        /\ q.task.created \in Nat /\ q.task.created >= Day /\ q.task.updated \in Nat
        /\ q.task.rule \in [freq : STRING, interval : Nat, days : SUBSET Nat,
                            monthDays : SUBSET Nat, hour : Nat, minute : Nat]

VARIABLES question, dueAt

scheduleVars == <<question, dueAt>>

-----------------------------------------------------------------------------
(* The calendar.                                                            *)

MonthLengths == <<31, 28, 31, 30, 31, 30, 31, 31, 30, 31, 30, 31>>
civilDay(t) == t \div Day
Weekday(t) == civilDay(t) % 7                        \* Monday is zero
HourOf(t) == (t % Day) \div Hour
MinuteOf(t) == t % Hour
weekStartDay(t) == civilDay(t) - Weekday(t)

MonthStart(m) == <<0, 31, 59, 90, 120, 151, 181, 212, 243, 273, 304, 334, 365>>[m + 1]
civilMonth(t) == CHOOSE m \in 0 .. 11 : MonthStart(m) <= civilDay(t) /\ civilDay(t) < MonthStart(m + 1)
MonthDay(t) == civilDay(t) - MonthStart(civilMonth(t)) + 1

-----------------------------------------------------------------------------
(* A rule.                                                                  *)

validateRRule(r) ==
    /\ r.freq \in {"HOURLY", "DAILY", "WEEKLY", "MONTHLY"}
    /\ r.interval \in 1 .. 365
    /\ r.days # {} => r.freq # "MONTHLY" /\ r.days \subseteq 0 .. 6
    /\ r.monthDays # {} => r.freq = "MONTHLY" /\ r.monthDays \subseteq 1 .. 31
    /\ r.hour \in (0 .. 23) \cup {Absent} /\ r.minute \in (0 .. 59) \cup {Absent}

\* What the rule leaves out is taken from the boundary.
parseRRule(r, boundary) ==
    [r EXCEPT !.hour = IF @ = Absent THEN HourOf(boundary) ELSE @,
              !.minute = IF @ = Absent THEN MinuteOf(boundary) ELSE @]

\* The boundary of a task: its latest edit, never before its creation.
Boundary(task) == IF task.updated < task.created THEN task.created ELSE task.updated

AnyDay(r, t) == r.days = {} \/ Weekday(t) \in r.days

-----------------------------------------------------------------------------
(* The search.                                                              *)

LatestOf(slots) == IF slots = {} THEN Absent ELSE Max(slots)

\* The max + 1 slots that are looked at, back from the first; none is left once
\* the boundary is reached.
Checked(first, step, max, boundary) ==
    {first - k * step : k \in {k \in 0 .. max : boundary + k * step <= first}}

\* A slot of today, or the one before when it is still to come; no boundary is
\* before the first day.
AtOrBefore(slot, step, now) == IF slot <= now THEN slot ELSE IF slot < step THEN 0 ELSE slot - step

HourlyChecks(r) == r.interval * 24 + 24

\* Mutant of DailyChecks: a week of days, whatever the interval.
SevenChecks(r) == 7

DailyChecks(r) == r.interval * 7 + 7

latestHourlyDue(r, byHour, boundary, now) ==
    LET anchor == boundary - MinuteOf(boundary)
        first == AtOrBefore(now - MinuteOf(now) + r.minute, Hour, now)
    IN  LatestOf({t \in Checked(first, Hour, HourlyChecks(r), boundary) :
                     /\ ((t - anchor) \div Hour) % r.interval = 0
                     /\ byHour => HourOf(t) = r.hour
                     /\ AnyDay(r, t)})

Today(r, now) == civilDay(now) * Day + r.hour * Hour + r.minute

latestDailyDue(r, boundary, now) ==
    LET first == AtOrBefore(Today(r, now), Day, now)
    IN  LatestOf({t \in Checked(first, Day, DailyChecks(r), boundary) :
                     (civilDay(t) - civilDay(boundary)) % r.interval = 0 /\ AnyDay(r, t)})

latestWeeklyDue(r, boundary, now) ==
    LET days == IF r.days = {} THEN {Weekday(boundary)} ELSE r.days
        first == AtOrBefore(Today(r, now), Day, now)
    IN  LatestOf({t \in Checked(first, Day, DailyChecks(r), boundary) :
                     /\ ((weekStartDay(t) - weekStartDay(boundary)) \div 7) % r.interval = 0
                     /\ Weekday(t) \in days})

\* The slots of a month from the boundary to now.
SlotsOf(m, r, monthDays, boundary, now) ==
    {t \in {(MonthStart(m) + d - 1) * Day + r.hour * Hour + r.minute :
               d \in {d \in monthDays : d <= MonthLengths[m + 1]}} :
        boundary <= t /\ t <= now}

\* Only the months at the rule's interval are looked at, the last one first.
latestMonthlyDue(r, boundary, now) ==
    LET monthDays == IF r.monthDays = {} THEN {MonthDay(boundary)} ELSE r.monthDays
        first == civilMonth(boundary)
        last == civilMonth(now) - ((civilMonth(now) - first) % r.interval)
        In(m) == SlotsOf(m, r, monthDays, boundary, now)
        months == {m \in first .. last : (last - m) % r.interval = 0 /\ In(m) # {}}
    IN  IF months = {} THEN Absent ELSE Max(In(Max(months)))

LatestDue(task, now) ==
    LET boundary == Boundary(task)
        r == parseRRule(task.rule, boundary)
        found == CASE r.freq = "HOURLY" -> latestHourlyDue(r, task.rule.hour # Absent, boundary, now)
                   [] r.freq = "DAILY" -> latestDailyDue(r, boundary, now)
                   [] r.freq = "WEEKLY" -> latestWeeklyDue(r, boundary, now)
                   [] r.freq = "MONTHLY" -> latestMonthlyDue(r, boundary, now)
    IN IF found < boundary \/ found > now THEN Absent ELSE found

-----------------------------------------------------------------------------
(* The behaviour, and what an answer means.                                 *)

ScheduleInit ==
    /\ question \in {q \in Questions : validateRRule(q.task.rule) /\ Boundary(q.task) <= q.now}
    /\ dueAt = Unasked

Ask == dueAt = Unasked /\ dueAt' = LatestDue(question.task, question.now) /\ UNCHANGED question

ScheduleSpec == ScheduleInit /\ [][Ask]_scheduleVars

\* The slots of a rule, minute by minute, as its parts say.
Occurs(r, byHour, boundary, t) ==
    LET days == IF r.freq = "WEEKLY" /\ r.days = {} THEN {Weekday(boundary)} ELSE r.days
        monthDays == IF r.monthDays = {} THEN {MonthDay(boundary)} ELSE r.monthDays
        every(n) == n % r.interval = 0
    IN
    /\ MinuteOf(t) = r.minute
    /\ r.freq # "HOURLY" \/ byHour => HourOf(t) = r.hour
    /\ days # {} => Weekday(t) \in days
    /\ r.freq = "HOURLY" => every(t \div Hour - boundary \div Hour)
    /\ r.freq = "DAILY" => every(civilDay(t) - civilDay(boundary))
    /\ r.freq = "WEEKLY" => every((weekStartDay(t) - weekStartDay(boundary)) \div 7)
    /\ r.freq = "MONTHLY" => every(civilMonth(t) - civilMonth(boundary)) /\ MonthDay(t) \in monthDays

\* The slots from the boundary to now.  An hourly rule does not look back further
\* than HourlyChecks hours.
RuleSlots(r, byHour, boundary, now) ==
    LET from == IF r.freq = "HOURLY" /\ HourlyChecks(r) * Hour + Hour <= now
                THEN now + 1 - HourlyChecks(r) * Hour - Hour ELSE 0
    IN  {t \in {h * Hour + r.minute : h \in boundary \div Hour .. now \div Hour} :
            boundary <= t /\ from <= t /\ t <= now /\ Occurs(r, byHour, boundary, t)}

Latest(task, now) ==
    LET boundary == Boundary(task)
    IN  LatestOf(RuleSlots(parseRRule(task.rule, boundary), task.rule.hour # Absent, boundary, now))

\* LatestDue gives the latest slot since the last edit and none from before it.
DueIsLatest == dueAt # Unasked => dueAt = Latest(question.task, question.now)
=============================================================================
