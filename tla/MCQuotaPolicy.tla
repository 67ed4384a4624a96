---------------------------- MODULE MCQuotaPolicy ----------------------------
(* Instances of QuotaPolicy for TLC: the limits an administrator may choose  *)
(* and the symmetries of the instance.                                      *)
EXTENDS QuotaPolicy, TLC

Limit(day, month) == [w \in Windows |-> IF w = "daily" THEN day ELSE month]

\* One unit a day with no monthly limit, or one unit a month.
TwoLimits == {Limit(1, 0), Limit(0, 1)}

\* One fixed limit of a unit a day.
DailyLimit == {Limit(1, 0)}

Symmetric == Permutations(Handlers) \cup Permutations(Forwards)
=============================================================================
