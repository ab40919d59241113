SPECIFICATION Spec
CONSTANTS
  Requests = {q1}
  Names <- TokenNames
  PrefixOf <- SomePrefixes
  Charting <- Flagged
  Payloads <- AllPayloads
  PerTick = 1
  Burst = 1
  MaxTime = 0
  Window = 4
  Margin = 1
  Steps = 4
  MaxSeries = 2
  DrawTimes = {9, 13}
  Answers <- SomeAnswers
INVARIANT ColumnsAligned
