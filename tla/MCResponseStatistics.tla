------------------------ MODULE MCResponseStatistics ------------------------
(* A small instance of ResponseStatistics for TLC: the end of February, of  *)
(* a leap year or not, and of longer months.                                *)
EXTENDS ResponseStatisticsProps, TLC

\* Of 28 and 31, of 29, and of 30 days.
MonthEnds == {<<1, 29, 60>>, <<1, 30>>, <<1, 31>>}

Phone(platform, time, available) ==
    [platform |-> platform, time |-> time, available |-> available]

SomeAnswers == {Phone("apns", 1, TRUE), Phone("apns", 3, TRUE),
                Phone("apns", 2, FALSE), Phone("gcm", 1, TRUE)}
SomeProbes  == {Phone("gcm", 3, FALSE)}

AnyIds == Permutations(Ids)
=============================================================================
