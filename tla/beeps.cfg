\* Files of up to seven frames; every frame is too quiet for the detector, or
\* just loud enough, at a frequency at the edge of the tolerance or beyond it.
CONSTANTS
  FrameSize = 4
  Files <- MCFiles
  Frequencies = {8, 13}
  Levels = {2, 3}
  ValidLevel = 1
  MinLevel = 2
  TargetFreq = 10
  FreqTolerance = 2
  MinDuration = 1
  MaxDuration = 2
  FirstCapacity = 1
SPECIFICATION DetectorSpec
\* The command ends.
CHECK_DEADLOCK FALSE
INVARIANTS
  DetectorTypeOK
  BeepsAreRuns
  RunsAreBeeps
  FramesAreData
