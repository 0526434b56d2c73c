SPECIFICATION TimeSpec
CONSTANTS
  Milli = 10
  SecondMs = 56
  MinDelta = 75
  MaxDelta = 165
  StartFPS = 50
  StartDelta = 50
  FrameTimes = {11, 23, 190, 280}
  Longest = 280
  Steady = {190}
INVARIANTS
  StepInRange
  AccumulatorSpent
  GameKeepsPace
  GameAdvances
