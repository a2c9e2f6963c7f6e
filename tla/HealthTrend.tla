----------------------------- MODULE HealthTrend -----------------------------
(***************************************************************************)
(* The trend of a branch's health (health-graph-card.tsx): one point after *)
(* each scan, whole numbers from 0 to 100, and the axis they are drawn on. *)
(* The axis keeps a margin of five points, or of 15 % of the range, and    *)
(* cuts off what lies outside it (allowDataOverflow).                      *)
(***************************************************************************)
EXTENDS Integers, FiniteSets, FiniteSetsExt

CONSTANT TrendScores     \* the scores that scans may give, rounded

ASSUME TrendAssumption == TrendScores \subseteq 0..100

VARIABLES lowest, highest        \* the range of the history, once there is one

trendVars == <<lowest, highest>>

NoScore  == -1
Higher(a, b)  == IF a > b THEN a ELSE b
Lower(a, b) == IF a < b THEN a ELSE b
Whole    == [from |-> 0, to |-> 100, step |-> 25]

\* Math.floor(x / step) * step and Math.ceil(x / step) * step, for x in twentieths.
floorTo(x20, step) == (x20 \div (20 * step)) * step
ceilTo(x20, step)  == -((-x20) \div (20 * step)) * step

\* Never fewer than two intervals, so a flat line still has a scale.
widened(from, to, step) ==
  CASE to - from >= 2 * step -> [from |-> from, to |-> to, step |-> step]
    [] to - from < 2 * step /\ to + step <= 100 -> [from |-> from, to |-> to + step, step |-> step]
    [] OTHER -> [from |-> Higher(0, from - step), to |-> to, step |-> step]

trendScale ==
  IF lowest = NoScore THEN Whole
  ELSE LET pad20 == Higher(100, 3 * (highest - lowest))
           lo20  == Higher(0, 20 * lowest - pad20)
           hi20  == Lower(2000, 20 * highest + pad20)
           axis(step) == widened(floorTo(lo20, step), ceilTo(hi20, step), step)
           fits  == {step \in {5, 10, 20, 25} : axis(step).to - axis(step).from <= 4 * step}
       IN  IF fits = {} THEN Whole ELSE axis(Min(fits))

TrendInit == lowest = NoScore /\ highest = NoScore

\* Another scan of the branch is scored.
HealthPoint(score) ==
  /\ lowest'  = IF lowest = NoScore THEN score ELSE Lower(lowest, score)
  /\ highest' = IF highest = NoScore THEN score ELSE Higher(highest, score)

TrendNext == \E score \in TrendScores : HealthPoint(score)
TrendSpec == TrendInit /\ [][TrendNext]_trendVars

-----------------------------------------------------------------------------
\* The axis holds every point of the history, stays between 0 and 100, and has two to four
\* intervals.
TrendFits ==
  LET axis == trendScale
      n    == (axis.to - axis.from) \div axis.step
  IN  /\ 0 <= axis.from /\ axis.to <= 100
      /\ n \in 2..4 /\ axis.from + n * axis.step = axis.to
      /\ lowest # NoScore => axis.from <= lowest /\ highest <= axis.to
=============================================================================
