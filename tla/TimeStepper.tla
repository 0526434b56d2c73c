----------------------------- MODULE TimeStepper -----------------------------
(***************************************************************************)
(* The main loop of WindowApplication as far as time is concerned: the     *)
(* zn::TimeStepper measures frames, counts them to get a frame rate,       *)
(* derives from the rate the time each frame adds to an accumulator, and   *)
(* spends the accumulator in steps of the scene.                           *)
(*                                                                         *)
(* Times are integers, microseconds in the program.  sf::Time is turned    *)
(* into whole milliseconds before dividing, and that truncation is here.   *)
(* The clock is read once per frame: what passes between the end of a      *)
(* frame and the beginning of the next belongs to the frame.               *)
(***************************************************************************)
EXTENDS Integers, FiniteSetsExt

CONSTANTS
  Milli,       \* the units of time in a millisecond
  SecondMs,    \* the milliseconds in a second
  MinDelta,    \* m_minDelta, in units
  MaxDelta,    \* m_maxDelta, in units
  StartFPS,    \* the frame rate assumed before one is measured
  StartDelta,  \* m_rawDelta before the first frame ends
  FrameTimes,  \* how long a frame may take, in units
  Longest,     \* a bound of them
  Steady       \* those of them that frames take when nothing disturbs the program

Second == Milli * SecondMs

ASSUME TimeAssumption ==
  /\ Milli \in Nat \ {0} /\ SecondMs \in Nat \ {0}
  /\ MinDelta \in Nat \ {0} /\ MaxDelta \in Nat
  /\ Milli <= MinDelta /\ MinDelta < MaxDelta
  /\ StartFPS \in Nat /\ StartDelta \in 0..MaxDelta
  /\ Longest \in Nat /\ FrameTimes \subseteq 1..Longest /\ Steady \subseteq FrameTimes

\* The longest that the game may stand still.
Standstill == 2 * (Second + Longest)

VARIABLES
  pc,        \* what the main loop does next
  sinceFPS,  \* the time since m_lastFPS
  fps,       \* m_fps
  recorded,  \* m_recordedFPS
  raw,       \* m_rawDelta
  stored,    \* m_storedDelta
  full,      \* the steps of m_maxDelta that the last callSteps called
  rest,      \* the length of the step it called after them, 0 for none
  steady,    \* history: so far every frame was steady
  ahead,     \* history: the surplus of game time over real time, up to
             \* MaxDelta + 1, as long as frames are steady
  still      \* history: the real time since the last step, up to Standstill + 1

timeVars == <<pc, sinceFPS, fps, recorded, raw, stored, full, rest, steady, ahead, still>>

TimeInit ==
  /\ pc = "begin"
  /\ sinceFPS = 0 /\ fps = 0
  /\ recorded = StartFPS
  /\ raw = StartDelta
  /\ stored = 0 /\ full = 0 /\ rest = 0
  /\ steady = TRUE /\ ahead = 0 /\ still = 0

-----------------------------------------------------------------------------
\* sf::Time::asMilliseconds
Ms(t) == t \div Milli

OnBeginFrame ==
  /\ pc = "begin"
  /\ IF sinceFPS > Second
       THEN sinceFPS' = 0 /\ recorded' = fps /\ fps' = 1
       ELSE fps' = fps + 1 /\ UNCHANGED <<sinceFPS, recorded>>
  /\ pc' = "step"
  /\ UNCHANGED <<raw, stored, full, rest, steady, ahead, still>>

\* What a frame adds to the accumulator: one second by the frame rate.
Delta == IF recorded # 0 THEN Milli * (SecondMs \div recorded) ELSE raw

\* Slip: what was stored for a short step is kept.
SpendKeepingRest(total) ==
  /\ full' = Ms(total) \div Ms(MaxDelta)
  /\ LET remainder == Milli * (Ms(total) % Ms(MaxDelta))
     IN  /\ stored' = remainder
         /\ rest' = IF remainder > MinDelta THEN remainder ELSE 0

\* Slip: a short step is called whatever its length.
SpendAll(total) ==
  /\ full' = Ms(total) \div Ms(MaxDelta)
  /\ rest' = Milli * (Ms(total) % Ms(MaxDelta))
  /\ stored' = 0

\* The accumulator is enough for a step: full steps, then one for the remainder
\* or, if that is too short, the remainder is stored.
Spend(total) ==
  /\ full' = Ms(total) \div Ms(MaxDelta)
  /\ LET remainder == Milli * (Ms(total) % Ms(MaxDelta))
     IN  IF remainder > MinDelta
           THEN rest' = remainder /\ stored' = 0
           ELSE rest' = 0 /\ stored' = remainder

\* Slip: what is too short for a step is not accumulated.
CallStepsForgetting ==
  /\ pc = "step"
  /\ IF stored + Delta >= MinDelta
       THEN Spend(stored + Delta)
       ELSE full' = 0 /\ rest' = 0 /\ stored' = Delta
  /\ pc' = "end"
  /\ UNCHANGED <<sinceFPS, fps, recorded, raw, steady, ahead, still>>

CallSteps ==
  /\ pc = "step"
  /\ IF stored + Delta >= MinDelta
       THEN Spend(stored + Delta)
       ELSE full' = 0 /\ rest' = 0 /\ stored' = stored + Delta
  /\ pc' = "end"
  /\ UNCHANGED <<sinceFPS, fps, recorded, raw, steady, ahead, still>>

\* Game time that the steps of the frame add up to.
Stepped == full * MaxDelta + rest

\* The frame has taken the time d.
OnEndFrame(d) ==
  /\ pc = "end"
  /\ raw' = IF d > MaxDelta THEN MaxDelta ELSE d
  /\ sinceFPS' = sinceFPS + d
  /\ steady' = (steady /\ d \in Steady)
  /\ ahead' = IF steady' THEN Min({MaxDelta + 1, Max({0, ahead + Stepped - d})}) ELSE 0
  /\ still' = IF Stepped > 0 THEN 0 ELSE Min({Standstill + 1, still + d})
  /\ pc' = "begin"
  /\ UNCHANGED <<fps, recorded, stored, full, rest>>

TimeNext == OnBeginFrame \/ CallSteps \/ \E d \in FrameTimes : OnEndFrame(d)

TimeSpec == TimeInit /\ [][TimeNext]_timeVars

-----------------------------------------------------------------------------
(***************************************************************************)
(* Properties.                                                             *)
(***************************************************************************)

\* Every step has a length in the range given to setDeltaRange ("Sets the
\* expected range for the time delta", TimeStepper.hpp:39), the full ones being
\* MaxDelta long.
StepInRange == rest # 0 => MinDelta < rest /\ rest < MaxDelta

\* What is left unspent never makes a step: the accumulator does not grow from
\* frame to frame, however slow the frames are.
AccumulatorSpent == stored <= MinDelta

\* The game time that the delta derived from a rate becomes in full steps, each of
\* which lasts longer than the whole milliseconds it takes from the accumulator, is
\* not longer than a steady frame.
Fair(rate) ==
  \A d \in Steady : (SecondMs \div rate) * MaxDelta <= d * Ms(MaxDelta)

\* Steady frames are so much alike that every rate measured over a second of them
\* is fair to the shortest.
FramesAreEven ==
  /\ StartFPS # 0 /\ Fair(StartFPS)
  /\ \E slow \in Steady :
       /\ \A d \in Steady : d <= slow
       /\ \A k \in 1..SecondMs : k * slow > Second => Fair(k)

\* While frames are even, in no interval does the game gain more than the longest
\* step over real time: the steps are called "to match the elapsed time"
\* (TimeStepper.cpp:51).  After slow frames it may gain without end: the frames of
\* a fast interval are each taken for as long as those of the slow one before it.
GameKeepsPace == ahead <= MaxDelta

\* There are no more frames in a second than milliseconds, and as many frames as
\* make a step a millisecond at a time are few in a second.
FramesAreFew ==
  /\ StartFPS \in 1..SecondMs
  /\ \A d \in FrameTimes : d > Milli
  /\ Ms(MinDelta) * (Ms(MinDelta) + 1) <= SecondMs

\* The game does not stand still: the callback "will be called once or several
\* times in order to get a fixed-time step logic" (TimeStepper.hpp:73-74).  When
\* fast frames are followed by slow ones, which count for a millisecond each, two
\* intervals may pass before their rate is known.
GameAdvances == still <= Standstill
=============================================================================
