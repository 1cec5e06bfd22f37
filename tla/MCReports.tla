----------------------------- MODULE MCReports -----------------------------
\* Days of two hours: the end of a common one, one without its second hour, and one
\* with its second hour twice. A week has two days.
EXTENDS Reports, TLC

CONSTANTS e1, e2

SmallCalendar == <<[day |-> 1, hour |-> 1], [day |-> 2, hour |-> 0],
                   [day |-> 3, hour |-> 0], [day |-> 3, hour |-> 1], [day |-> 3, hour |-> 1]>>
TwoSchedules  == {[hour |-> 1, weekday |-> 1], [hour |-> 0, weekday |-> 2]}
SecondHour    == {1}
TwoEditors    == {e1, e2}
Alike         == Permutations(TwoEditors)

ASSUME SmallCalendarIsReal == RealClocks
=============================================================================
