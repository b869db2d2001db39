------------------------------- MODULE MCTasks -------------------------------
(***************************************************************************)
(* Two devices and one series, under rules of each form: the instances of  *)
(* TaskSeries.                                                             *)
(***************************************************************************)
EXTENDS TaskSeries, TLC

Rule(freq, every, base) ==
    [freq |-> freq, every |-> every, days |-> {}, base |-> base, until |-> Never,
     season |-> <<>>]

\* 2024-01-01 is a Monday; the series starts on Wednesday the 31st.
LastOfJanuary == 30
WeeklyRules ==
    {[Rule("weekly", 2, "due") EXCEPT !.days = {1, 3}],
     [Rule("weekly", 1, "done") EXCEPT !.season = <<1101, 131>>]}
MonthlyRules ==
    {Rule("monthly", 1, "due"), Rule("monthly", 2, "done"),
     [Rule("monthly", 1, "due") EXCEPT !.season = <<301, 930>>],
     [Rule("daily", 5, "due") EXCEPT !.until = LastOfJanuary + 14]}
SomeRules == WeeklyRules \union MonthlyRules
Budget == [r \in SomeRules |-> IF r \in WeeklyRules THEN 3 ELSE 1]
SomeMoments == {LastOfJanuary, LastOfJanuary + 12}

Devices == Permutations(Device)
=============================================================================
