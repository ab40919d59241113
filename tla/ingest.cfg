SPECIFICATION Spec
SYMMETRY Symmetry
CONSTANTS
  Requests = {q1, q2}
  Names <- TokenNames
  PrefixOf <- SomePrefixes
  Charting <- Flagged
  Payloads <- AllPayloads
  PerTick = 1
  Burst = 1
  MaxTime = 1
  Window = 4
  Margin = 1
  Steps = 4
  MaxSeries = 2
  DrawTimes = {9, 13}
  Answers <- SomeAnswers
INVARIANTS WithinBudget EntryFaithful ChartFaithful
