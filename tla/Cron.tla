-------------------------------- MODULE Cron --------------------------------
(***************************************************************************)
(* A cron schedule from its text to the minute it fires: ParseCron,         *)
(* Matches and NextAfter of internal/scheduleexpr, then the scheduler's     *)
(* only_between / not_on constraints.  Times are minutes of a calendar with *)
(* few minutes, hours and days; a week has seven days, as in the code,      *)
(* because Sunday may be written 0 or 7.                                    *)
(*                                                                         *)
(* A field's text is [star, segs]: "*" or a list of segments               *)
(* [star, lo, hi, step].  A token is <<"num", n>> or <<"name", n>>, the     *)
(* name of value n.                                                         *)
(***************************************************************************)
EXTENDS Integers, Sequences, FiniteSets, Functions

CONSTANTS MinutesPerHour, HoursPerDay,
          MonthDays,        \* length of each month
          Years,            \* how far NextAfter looks (5 in the code)
          HostOffset,       \* the host's time zone, minutes ahead of UTC
          NoZone,           \* a schedule without timezone
          Schedules,        \* [fields, tz, window, notOn]
          Starts,           \* moments NextAfter is asked about, in half minutes
          Patience          \* minutes a due schedule is watched

(* What a calendar must be.                                                *)
CalendarAssumption ==
    /\ MinutesPerHour \in Nat \ {0} /\ HoursPerDay \in Nat \ {0}
    /\ MonthDays \in Seq(Nat \ {0}) /\ MonthDays # <<>>
    /\ Years \in Nat \ {0} /\ Patience \in Nat /\ HostOffset \in Nat

VARIABLES sched,      \* the schedule under evaluation
          from,       \* when NextAfter was called, in half minutes UTC
          cron,       \* the compiled expression
          candidate,  \* local minute under test
          now,        \* UTC minute of the tick that looks at the due schedule
          phase

vars == <<sched, from, cron, candidate, now, phase>>

-----------------------------------------------------------------------------
(* The calendar (Go's time package).                                        *)

MinutesPerDay == MinutesPerHour * HoursPerDay
DaysBefore(m) == FoldFunctionOnSet(+, 0, MonthDays, 1 .. m - 1)
DaysPerYear == DaysBefore(Len(MonthDays) + 1)
DayNumber(t) == t \div MinutesPerDay
MonthOf(t) ==
    LET d == DayNumber(t) % DaysPerYear
    IN CHOOSE m \in DOMAIN MonthDays :
         DaysBefore(m) <= d /\ d < DaysBefore(m) + MonthDays[m]
\* The value of a time in each field; day 0 is a Sunday.
Clock(t) ==
    [minute |-> t % MinutesPerHour,
     hour   |-> (t \div MinutesPerHour) % HoursPerDay,
     dom    |-> (DayNumber(t) % DaysPerYear) - DaysBefore(MonthOf(t)) + 1,
     month  |-> MonthOf(t),
     dow    |-> DayNumber(t) % 7]

-----------------------------------------------------------------------------
(* Parsing.                                                                 *)

FieldSpec ==
    [minute |-> [min |-> 0, max |-> MinutesPerHour - 1, names |-> FALSE, dow |-> FALSE],
     hour   |-> [min |-> 0, max |-> HoursPerDay - 1,    names |-> FALSE, dow |-> FALSE],
     dom    |-> [min |-> 1, max |-> 31,                 names |-> FALSE, dow |-> FALSE],
     month  |-> [min |-> 1, max |-> Len(MonthDays),     names |-> TRUE,  dow |-> FALSE],
     dow    |-> [min |-> 0, max |-> 7,                  names |-> TRUE,  dow |-> TRUE]]

Bad == -1

parseCronValue(tok, f) ==
    CASE tok[1] = "name"            -> IF f.names THEN tok[2] ELSE Bad
      [] tok[1] = "num" /\ f.dow /\ tok[2] = 7 -> 0
      [] OTHER                      -> IF tok[2] \in f.min .. f.max THEN tok[2] ELSE Bad

Stepped(a, b, step) == {i \in a .. b : (i - a) % step = 0}

\* Values a segment adds to the field; {Bad} when it is refused.
applyCronSegment(seg, f) ==
    LET a == parseCronValue(seg.lo, f)
        b == parseCronValue(seg.hi, f)
        picked == IF seg.star THEN Stepped(f.min, f.max, seg.step) ELSE Stepped(a, b, seg.step)
    IN IF seg.step <= 0 \/ (~seg.star /\ (a = Bad \/ b = Bad \/ a > b))
       THEN {Bad}
       ELSE picked \cup (IF f.dow /\ 7 \in picked THEN {0} ELSE {})

parseCronField(text, f) ==
    [any     |-> text.star,
     allowed |-> IF text.star THEN f.min .. f.max
                 ELSE IF text.segs = {} THEN {Bad}
                 ELSE UNION {applyCronSegment(s, f) : s \in text.segs}]

FieldNames == {"minute", "hour", "dom", "month", "dow"}
Compiled(s) == [n \in FieldNames |-> parseCronField(s.fields[n], FieldSpec[n])]

MatchesBoth(c, t) ==   \* mutant: both day fields must match
    LET v == Clock(t) IN \A n \in FieldNames : v[n] \in c[n].allowed

Matches(c, t) ==
    LET v == Clock(t)
        dom == v.dom \in c.dom.allowed
        dow == v.dow \in c.dow.allowed
    IN /\ \A n \in {"minute", "hour", "month"} : v[n] \in c[n].allowed
       /\ CASE c.dom.any /\ c.dow.any -> TRUE
            [] c.dom.any /\ ~c.dow.any -> dow
            [] ~c.dom.any /\ c.dow.any -> dom
            [] OTHER -> dom \/ dow

-----------------------------------------------------------------------------
(* Constraints.  Cron text is read in the host's zone when the schedule     *)
(* names none, constraints in UTC.                                          *)

scheduleCronOffset(s) == IF s.tz = NoZone THEN HostOffset ELSE s.tz
constraintOffset(s) == IF s.tz = NoZone THEN 0 ELSE s.tz

parseWeekdayConstraint(n) == IF n = 7 THEN 0 ELSE n

scheduleConstraintsAllowAt(s, utc) ==
    LET local == utc + constraintOffset(s)
        nowMin == local % MinutesPerDay
        start == s.window[1]
        end == s.window[2]
    IN /\ ~ \E n \in s.notOn : parseWeekdayConstraint(n) = Clock(local).dow
       /\ \/ s.window = <<>>
          \/ /\ s.window # <<>> /\ start < end
             /\ nowMin >= start /\ nowMin < end
          \/ /\ s.window # <<>> /\ start > end
             /\ (nowMin >= start \/ nowMin < end)

\* What the loader refuses in not_on and only_between.
ValidConstraints(s) ==
    /\ \A n \in s.notOn : n \in 0 .. 7
    /\ \/ s.window = <<>>
       \/ /\ Len(s.window) = 2 /\ s.window[1] # s.window[2]
          /\ \A i \in 1 .. 2 : s.window[i] \in 0 .. MinutesPerDay - 1

-----------------------------------------------------------------------------

Init == /\ sched \in Schedules /\ from \in Starts
        /\ cron = [n \in FieldNames |-> [any |-> FALSE, allowed |-> {}]]
        /\ candidate = 0 /\ now = 0
        /\ phase = "parse"

FirstCandidate(s, t) == (t \div 2) + scheduleCronOffset(s) + 1

\* ParseCron, and the start of NextAfter.
Parse ==
    LET c == Compiled(sched)
        ok == (\A n \in FieldNames : Bad \notin c[n].allowed) /\ ValidConstraints(sched)
    IN /\ phase = "parse"
       /\ phase' = IF ok THEN "scan" ELSE "invalid"
       /\ cron' = IF ok THEN c ELSE cron
       /\ candidate' = IF ok THEN FirstCandidate(sched, from) ELSE candidate
       /\ UNCHANGED <<sched, from, now>>

Deadline == FirstCandidate(sched, from) + Years * DaysPerYear * MinutesPerDay

\* One turn of NextAfter's loop.
Scan ==
    /\ phase = "scan" /\ candidate <= Deadline /\ ~Matches(cron, candidate)
    /\ candidate' = candidate + 1
    /\ UNCHANGED <<sched, from, cron, now, phase>>

Found ==
    /\ phase = "scan" /\ candidate <= Deadline /\ Matches(cron, candidate)
    /\ phase' = "due"
    /\ now' = candidate - scheduleCronOffset(sched)
    /\ UNCHANGED <<sched, from, cron, candidate>>

NotFound ==
    /\ phase = "scan" /\ candidate > Deadline
    /\ phase' = "none"
    /\ UNCHANGED <<sched, from, cron, candidate, now>>

\* A tick finds the schedule due: constraints hold it back or let it fire.
Held ==
    /\ phase = "due" /\ ~scheduleConstraintsAllowAt(sched, now)
    /\ now - (candidate - scheduleCronOffset(sched)) < Patience
    /\ now' = now + 1
    /\ UNCHANGED <<sched, from, cron, candidate, phase>>

Fire ==
    /\ phase = "due" /\ scheduleConstraintsAllowAt(sched, now)
    /\ phase' = "fired"
    /\ UNCHANGED <<sched, from, cron, candidate, now>>

Next == Parse \/ Scan \/ Found \/ NotFound \/ Held \/ Fire
Spec == Init /\ [][Next]_vars

-----------------------------------------------------------------------------
(* What cron text means, stated without the compiled form: a segment        *)
(* selects a value when stepping from its low end reaches it.  On weekdays  *)
(* 7 is another way to write 0, Sunday, the FIRST day of the week, at the   *)
(* end of a range too: 5-7 runs backwards and is refused, 0-7 is Sunday     *)
(* alone.  Other crons read them as Friday to Sunday and the whole week;    *)
(* this one converts 7 before it compares the ends.                         *)

TokenOk(tok, f) == (tok[1] = "num" \/ f.names) /\ tok[2] \in f.min .. f.max
Reads(tok, f) == IF f.dow THEN tok[2] % 7 ELSE tok[2]
SegmentOk(seg, f) ==
    /\ seg.step > 0
    /\ seg.star \/ /\ TokenOk(seg.lo, f) /\ TokenOk(seg.hi, f)
                   /\ Reads(seg.lo, f) <= Reads(seg.hi, f)
Selects(seg, f, v) ==
    LET lo == IF seg.star THEN f.min ELSE Reads(seg.lo, f)
        hi == IF seg.star THEN f.max ELSE Reads(seg.hi, f)
    IN \E k \in 0 .. hi - lo :
         /\ k % seg.step = 0
         /\ IF f.dow THEN (lo + k) % 7 = v ELSE lo + k = v
TextSelects(s, n, v) ==
    s.fields[n].star \/ \E seg \in s.fields[n].segs : Selects(seg, FieldSpec[n], v)
Wellformed(s) ==
    /\ \A n \in FieldNames :
         \/ s.fields[n].star
         \/ s.fields[n].segs # {} /\ \A g \in s.fields[n].segs : SegmentOk(g, FieldSpec[n])
    /\ ValidConstraints(s)
Selected(s, t) ==
    LET sel(n) == TextSelects(s, n, Clock(t)[n])
    IN /\ sel("minute") /\ sel("hour") /\ sel("month")
       /\ IF s.fields["dom"].star \/ s.fields["dow"].star
          THEN sel("dom") /\ sel("dow") ELSE sel("dom") \/ sel("dow")

\* Well-formed text is accepted and nothing else (ParseCron, and the
\* loader's check of the constraints).
Accepts == phase # "parse" => (phase = "invalid") = ~Wellformed(sched)

\* NextAfter answers with the first minute after the moment it was asked
\* about that the text selects; sub-minute parts of that moment never make it
\* answer with the minute it is in.
NextIsLeast ==
    phase \in {"due", "fired"} =>
      /\ Selected(sched, candidate)
      /\ 2 * (candidate - scheduleCronOffset(sched)) > from
      /\ \A t \in (from \div 2) + scheduleCronOffset(sched) + 1 .. candidate - 1 : ~Selected(sched, t)

\* NextAfter gives up only on text that selects no minute of the calendar at
\* all, such as the 31st of a short month.
GivesUpRightly ==
    phase = "none" => \A t \in 0 .. 7 * DaysPerYear * MinutesPerDay - 1 : ~Selected(sched, t)

\* Going round the clock from the window's start, a time is inside when it
\* comes before the window's end; overnight windows are no special case.
InsideWindow(s, local) ==
    \/ s.window = <<>>
    \/ (local - s.window[1]) % MinutesPerDay < (s.window[2] - s.window[1]) % MinutesPerDay
Admitted(s, local) ==
    InsideWindow(s, local) /\ \A n \in s.notOn : n % 7 # Clock(local).dow

\* A due schedule fires in the first minute the constraints admit, in the
\* zone the constraints are evaluated in.
FiresWhenAdmitted ==
    phase \in {"due", "fired"} =>
      /\ phase = "fired" => Admitted(sched, now + constraintOffset(sched))
      /\ \A t \in candidate - scheduleCronOffset(sched) .. now - 1 :
           ~Admitted(sched, t + constraintOffset(sched))
=============================================================================
