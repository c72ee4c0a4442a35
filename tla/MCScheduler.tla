---------------------------- MODULE MCScheduler -----------------------------
(***************************************************************************)
(* Small deployments for Scheduler and small texts for Cron, checked in    *)
(* one run: the initial state chooses a part, "ticks" or "texts", and only *)
(* that part moves.                                                        *)
(***************************************************************************)
EXTENDS Scheduler, MCCron

VARIABLES part, cronSched, cronFrom, cronExpr, cronCandidate, cronNow, cronPhase
cronVars == <<cronSched, cronFrom, cronExpr, cronCandidate, cronNow, cronPhase>>

Text == INSTANCE Cron WITH
    MinutesPerHour <- 2, HoursPerDay <- 2, MonthDays <- MCMonthDays, Years <- 7,
    HostOffset <- 3, Schedules <- TextSchedules \cup WindowSchedules, Starts <- MCStarts,
    Patience <- 20, sched <- cronSched, from <- cronFrom, cron <- cronExpr,
    candidate <- cronCandidate, now <- cronNow, phase <- cronPhase

ASSUME TextAssumption == Text!CalendarAssumption

Always == 0..9

S(kind, policy, catchUp) ==
    [kind |-> kind, command |-> "poll", valid |-> TRUE, interval |-> 2, jitter |-> 0,
     time |-> 1, window |-> Always, catchUp |-> catchUp, ifRunning |-> policy]

(* An interval schedule beside a one-shot one.                             *)
EveryAndOnce == {<<S("every", "skip", "run_once"), S("at", "queue", "skip")>>}
(* Schedules that a new configuration makes invalid or valid again.        *)
OneRestarted ==
    {<<[S("every", "skip", "run_all") EXCEPT !.valid = v]>> : v \in BOOLEAN}
(* A cron and a delayed schedule with a closed window at time 2, whose     *)
(* command is renamed by a new configuration.                              *)
CronAndAfter ==
    {<<[S("cron", "queue", "skip") EXCEPT !.window = Always \ {2}, !.command = c],
       S("after", "skip", "skip")>> : c \in {"poll", "sync"}}
OneOnce == {<<S(k, p, "skip")>> : k \in {"at", "after"}, p \in {"queue", "cancel"}}

D(configs, threshold, outstanding, retention, time, jobs) ==
    [configs |-> configs, threshold |-> threshold, resetAfter |-> 1,
     maxOutstanding |-> outstanding, attempts |-> 2, retention |-> retention,
     time |-> time, jobs |-> jobs, starts |-> 1, faults |-> 0, resets |-> 0]

(* An interval schedule that cancels its predecessor.                      *)
Impatient == {<<[S("every", "cancel", "run_all") EXCEPT !.interval = 1]>>}

First(configs) == {<<f[1]>> : f \in configs}
Often == {<<[f[1] EXCEPT !.interval = 1]>> : f \in OneRestarted}
Valid(configs) == {f \in configs : f[1].valid}

MCDeployments == {
    D(EveryAndOnce, 1, 1, 2, 4, 2),
    [D(First(EveryAndOnce), 1, 1, 2, 2, 2) EXCEPT !.resets = 1],
    D(Valid(OneRestarted), 2, 1, 3, 4, 3),
    [D(Often, 1, 1, 2, 2, 3) EXCEPT !.starts = 2],
    D(First(CronAndAfter), 1, 1, 2, 4, 3),
    D(CronAndAfter, 1, 1, 2, 3, 2),
    [D(First(CronAndAfter), 1, 1, 2, 3, 2) EXCEPT !.starts = 2],
    [D(OneOnce, 13, 2, 2, 3, 2) EXCEPT !.starts = 2, !.faults = 1, !.attempts = 1],
    [D(OneOnce, 13, 2, 2, 2, 3) EXCEPT !.starts = 2, !.faults = 1],
    \* jobs that are cancelled, revived, cancelled again; across a restart
    D(Impatient, 3, 1, 2, 1, 2),
    [D(Impatient, 1, 1, 2, 0, 2) EXCEPT !.starts = 2],
    \* a catch-up that is interrupted and repeated meets its own jobs
    [D(Valid(Often), 2, 1, 2, 2, 2) EXCEPT !.starts = 3],
    \* each of the writes of a tick, of catch-up and of a check fails
    [D(First(EveryAndOnce), 1, 1, 2, 3, 2) EXCEPT !.faults = 1],
    [D(First(CronAndAfter), 1, 1, 2, 2, 1) EXCEPT !.starts = 2, !.faults = 1],
    [D(Often, 1, 1, 2, 1, 1) EXCEPT !.starts = 3, !.faults = 1]}
-----------------------------------------------------------------------------
SchedulesInit ==
    /\ Init
    /\ \/ /\ part = "ticks"
          /\ cronSched = <<>> /\ cronFrom = 0 /\ cronExpr = <<>> /\ cronCandidate = 0
          /\ cronNow = 0 /\ cronPhase = "parse"
       \/ /\ part = "texts"
          /\ deployment = D(EveryAndOnce, 1, 1, 2, 4, 2)
          /\ Text!Init

SchedulesNext ==
    /\ \/ part = "ticks" /\ Next /\ UNCHANGED cronVars
       \/ part = "texts" /\ Text!Next /\ UNCHANGED <<vars, deployment>>
    /\ UNCHANGED part

SchedulesSpec ==
    SchedulesInit /\ [][SchedulesNext]_<<vars, deployment, cronVars, part>> /\ Fairness

(* A cron schedule means what its text says.  ParseCron accepts exactly    *)
(* well-formed text; NextAfter answers with the first minute the text      *)
(* selects, whatever it combines (lists, steps, names, dates with          *)
(* weekdays), and gives up only on text that selects no minute; a due      *)
(* schedule fires in the first minute that only_between and not_on admit,  *)
(* across midnight and in another time zone too.  A weekday range that     *)
(* ends in 7 means what Cron says of it: 7 is Sunday, the first day.       *)
CronAsWritten ==
    Text!Accepts /\ Text!NextIsLeast /\ Text!GivesUpRightly /\ Text!FiresWhenAdmitted
=============================================================================
