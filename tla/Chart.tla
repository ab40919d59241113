--------------------------------- MODULE Chart ---------------------------------
(***************************************************************************)
(* The chart of an alert (internal/chart/chart.go): the window it covers,  *)
(* the series Prometheus answers with, and the columns they are drawn in.  *)
(* Times are seconds.  A sample is the time it was taken at: its value     *)
(* does not matter, only where it is drawn.                                *)
(***************************************************************************)
EXTENDS Integers, Sequences, SequencesExt, FiniteSetsExt

CONSTANTS
  Window,     \* window: what a chart shows before now
  Margin,     \* what it shows before the onset of an older alert
  Steps,      \* steps
  MaxSeries   \* maxSeries

ASSUME ChartAssumption ==
  /\ Window \in Nat \ {0} /\ Margin \in Nat
  /\ Steps \in Nat \ {0} /\ MaxSeries \in Nat \ {0}

Unset == -1       \* a zero time.Time
Null == -1        \* gocharts.GetNullValue()

\* The window that ends now: an alert older than it widens it.
StartOf(now, startsAt) ==
  IF startsAt # Unset /\ startsAt < now - Window THEN startsAt - Margin ELSE now - Window

StepOf(start, end) == Max({1, (end - start) \div Steps})

\* The points Prometheus evaluates the query at.
Points(start, end) == {t \in start..end : (t - start) % StepOf(start, end) = 0}

\* An answer is a sequence of [label, samples].  Series without samples are
\* dropped; the others are sorted by their labels, and cut.
Kept(answer) == {i \in DOMAIN answer : answer[i].samples # <<>>}

M_InOrder_asAnswered(answer, i, j) == i < j
InOrder(answer, i, j) == i # j /\ answer[i].label <= answer[j].label

Orders(answer) ==
  {o \in [1..Cardinality(Kept(answer)) -> Kept(answer)] :
     \A i, j \in DOMAIN o : i < j => InOrder(answer, o[i], o[j])}

SeriesOf(answer) ==
  LET order == CHOOSE o \in Orders(answer) : TRUE
  IN  [i \in 1..Min({MaxSeries, Cardinality(Kept(answer))}) |-> answer[order[i]]]

\* Render: the first of the longest series gives the columns their times; each
\* series fills them from the left.
Longest(series) ==
  CHOOSE i \in DOMAIN series :
    /\ \A j \in DOMAIN series : Len(series[j].samples) <= Len(series[i].samples)
    /\ \A j \in 1..i - 1 : Len(series[j].samples) < Len(series[i].samples)

Columns(series) == series[Longest(series)].samples

Row(samples, width) == [j \in 1..width |-> IF j <= Len(samples) THEN samples[j] ELSE Null]

Render(series) ==
  [times |-> Columns(series),
   rows |-> [i \in DOMAIN series |-> Row(series[i].samples, Len(Columns(series)))]]
================================================================================
