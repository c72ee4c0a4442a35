------------------------------- MODULE MCCron -------------------------------
(* Small calendars and schedule texts for Cron.                             *)
EXTENDS Integers, Sequences

CONSTANT NoZone

Num(n) == <<"num", n>>
Name(n) == <<"name", n>>
Star == [star |-> TRUE, segs |-> {}]
Seg(lo, hi, step) == [star |-> FALSE, lo |-> lo, hi |-> hi, step |-> step]
EverySeg(step) == [star |-> TRUE, lo |-> Num(0), hi |-> Num(0), step |-> step]
List(segs) == [star |-> FALSE, segs |-> segs]
At(n) == List({Seg(Num(n), Num(n), 1)})

\* Two minutes, two hours, months of 3 and 2 days: weekdays and dates meet
\* again after seven years.
MCMonthDays == <<3, 2>>
MCStarts == {0, 3, 41}

MinuteTexts == {Star, At(1), List({EverySeg(2)}), At(2)}
HourTexts == {Star, At(0), List({Seg(Num(1), Num(1), 0)})}
DomTexts == {Star, At(3), List({Seg(Num(2), Num(3), 1)}), List({EverySeg(2)}), At(0)}
MonthTexts == {Star, At(2), List({Seg(Name(2), Name(2), 1)}), List({})}
DowTexts ==
    {Star, At(7), At(0), List({Seg(Num(1), Num(5), 2)}), List({EverySeg(7)}),
     List({Seg(Name(5), Name(6), 1), Seg(Num(7), Num(7), 1)}),
     List({Seg(Num(5), Num(2), 1)}), At(8),
     \* a week that ends in 7: backwards, Sunday alone, and a name for one end
     List({Seg(Num(5), Num(7), 1)}), List({Seg(Num(0), Num(7), 1)}),
     List({Seg(Name(0), Num(7), 2), Seg(Num(3), Num(3), 1)})}

Fields(mi, h, d, mo, w) == [minute |-> mi, hour |-> h, dom |-> d, month |-> mo, dow |-> w]
Plain(f) == [fields |-> f, tz |-> NoZone, window |-> <<>>, notOn |-> {}]

TextSchedules ==
    {Plain(Fields(mi, h, d, mo, w)) :
       mi \in MinuteTexts, h \in HourTexts, d \in DomTexts, mo \in MonthTexts, w \in DowTexts}

\* Every window of a four-minute day, days off, with and without a zone.
WindowFields == Fields(At(1), At(0), Star, Star, Star)
WindowSchedules ==
    {[fields |-> WindowFields, tz |-> z, window |-> w, notOn |-> d] :
       z \in {NoZone, 0, 3}, d \in {{}, {7}, {0, 1}, {8}},
       w \in {<<>>} \cup ((0 .. 4) \X (0 .. 4))}
=============================================================================
