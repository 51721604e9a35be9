---------------------------- MODULE BeepDetector ----------------------------
(***************************************************************************)
(* The beep detector of src/src/audio/beep_detector.c and the `analyze`     *)
(* command that feeds it the frames of a file (src/src/cli/cmd_analyze.c).  *)
(* Time is counted in frames: a beep that starts with frame i and ends with *)
(* frame j lasts j - i of them.                                             *)
(***************************************************************************)
EXTENDS AudioAnalyzer

CONSTANTS
  Files,           \* the files the command may be given
  Frequencies,     \* what the analysis of a frame may find
  Levels,
  ValidLevel,      \* the analyzer's min_level_db
  MinLevel,        \* the detector's min_level_db
  TargetFreq,      \* target_freq_hz, 0 for any
  FreqTolerance,   \* freq_tolerance_hz
  MinDuration,     \* min_duration_sec and max_duration_sec, in frames
  MaxDuration,
  FirstCapacity    \* the room for beeps that is allocated first, 16

\* Sizes from 2^31 on, which the analysis would take for negative, are left out.
MaxSize == 2147483647

ASSUME FilesAssumption ==
  \A f \in Files :
    f.bits \in Nat /\ f.channels \in Nat /\ f.size \in 0 .. MaxSize /\ f.present \in Nat
ASSUME NumbersAssumption ==
  /\ Frequencies \subseteq Nat /\ Levels \subseteq Int
  /\ ValidLevel \in Int /\ MinLevel \in Int
  /\ TargetFreq \in Nat /\ FreqTolerance \in Nat
  /\ MinDuration \in Nat /\ MaxDuration \in Nat
ASSUME FirstCapacityAssumption == FirstCapacity \in Nat \ {0}

VARIABLES
  file,      \* the file that is analysed
  frames,    \* what the analysis found in each of its frames
  pc,        \* the main thread: its place
  exit,      \* the exit status
  pos,       \* the frames processed so far
  in_beep,   \* whether a tone is sounding
  start,     \* beep_start_time
  summed,    \* the frames in beep_sum_freq, beep_sum_level, beep_sample_count
  beeps,     \* result.beeps
  capacity,  \* result.beep_capacity
  lost       \* history: a beep was dropped because memory ran out

detector == <<in_beep, start, summed, beeps, capacity, lost>>
detectorVars == <<file, frames, pc, exit, pos, detector>>

----------------------------------------------------------------------------
Frame == [frequency : Frequencies, level : Levels]

\* The frames of an event are those its frequency and level are averaged over.
Beep == [start : Nat, end : Nat, frames : SUBSET Nat]

DetectorTypeOK ==
  /\ file \in Files
  /\ frames \in Seq(Frame)
  /\ pc \in {"begin", "process", "crashed", "done"}
  /\ exit \in {0, 1}
  /\ pos \in 0 .. Len(frames)
  /\ in_beep \in BOOLEAN /\ lost \in BOOLEAN
  /\ start \in Nat
  /\ summed \in SUBSET Nat
  /\ beeps \in Seq(Beep)
  /\ capacity \in Nat
  /\ Len(beeps) <= capacity

DetectorInit ==
  /\ file \in Files
  /\ frames = <<>>
  /\ pc = "begin" /\ exit = 0
  /\ pos = 0
  /\ in_beep = FALSE /\ start = 0 /\ summed = {}
  /\ beeps = <<>> /\ capacity = 0 /\ lost = FALSE

\* vu_analyzer_analyze_file, which a file that cannot be analysed ends.
AnalyzeFile ==
  /\ pc = "begin"
  /\ Parsed(file) => Divides(file)
  /\ IF Analyzable(file)
     THEN /\ frames' \in [1 .. Cardinality(Analyzed(file)) -> Frame]
          /\ pc' = "process" /\ exit' = exit
     ELSE /\ pc' = "done" /\ exit' = 1
          /\ frames' = frames
  /\ UNCHANGED <<file, pos, detector>>

\* A division by zero traps, or leaves 0 samples and so no frame.
AnalyzeUndefined ==
  /\ pc = "begin"
  /\ Parsed(file) /\ ~Divides(file)
  /\ \/ pc' = "crashed" /\ exit' = exit
     \/ pc' = "done" /\ exit' = 1
  /\ UNCHANGED <<file, frames, pos, detector>>

----------------------------------------------------------------------------
\* vu_beep_detector_process.

Distance(a, b) == IF a < b THEN b - a ELSE a - b

Tone(frame) ==
  /\ frame.level > ValidLevel
  /\ TargetFreq > 0 => Distance(frame.frequency, TargetFreq) <= FreqTolerance
  /\ frame.level > MinLevel

Processing(tone) ==
  /\ pc = "process"
  /\ pos < Len(frames)
  /\ Tone(frames[pos + 1]) = tone
  /\ pos' = pos + 1
  /\ UNCHANGED <<file, frames, pc, exit>>

StartBeepKeepingSums ==
  /\ Processing(TRUE) /\ ~in_beep
  /\ in_beep' = TRUE
  /\ start' = pos
  /\ summed' = summed \cup {pos}
  /\ UNCHANGED <<beeps, capacity, lost>>

StartBeep ==
  /\ Processing(TRUE) /\ ~in_beep
  /\ in_beep' = TRUE
  /\ start' = pos
  /\ summed' = {pos}
  /\ UNCHANGED <<beeps, capacity, lost>>

ContinueBeep ==
  /\ Processing(TRUE) /\ in_beep
  /\ summed' = summed \cup {pos}
  /\ UNCHANGED <<in_beep, start, beeps, capacity, lost>>

NoBeep ==
  /\ Processing(FALSE) /\ ~in_beep
  /\ UNCHANGED detector

LongEnoughStrictly(duration) == MinDuration < duration /\ duration <= MaxDuration

LongEnough(duration) == MinDuration <= duration /\ duration <= MaxDuration

RejectBeep ==
  /\ Processing(FALSE) /\ in_beep
  /\ ~LongEnough(pos - start)
  /\ in_beep' = FALSE
  /\ UNCHANGED <<start, summed, beeps, capacity, lost>>

\* The room is doubled when it is used up; realloc may fail.
Room ==
  {capacity} \cup
  (IF Len(beeps) < capacity THEN {}
   ELSE {IF capacity = 0 THEN FirstCapacity ELSE 2 * capacity})

StoreBeepUnchecked ==
  /\ Processing(FALSE) /\ in_beep
  /\ LongEnough(pos - start)
  /\ in_beep' = FALSE
  /\ capacity' \in Room
  /\ beeps' = Append(beeps, [start |-> start, end |-> pos, frames |-> summed])
  /\ lost' = lost
  /\ UNCHANGED <<start, summed>>

StoreBeep ==
  /\ Processing(FALSE) /\ in_beep
  /\ LongEnough(pos - start)
  /\ in_beep' = FALSE
  /\ capacity' \in Room
  /\ IF Len(beeps) < capacity'
     THEN /\ beeps' = Append(beeps, [start |-> start, end |-> pos, frames |-> summed])
          /\ lost' = lost
     ELSE beeps' = beeps /\ lost' = TRUE
  /\ UNCHANGED <<start, summed>>

\* A tone that sounds to the end of the file is not reported.
Finish ==
  /\ pc = "process"
  /\ pos = Len(frames)
  /\ pc' = "done"
  /\ UNCHANGED <<file, frames, exit, pos, detector>>

DetectorNext ==
  \/ AnalyzeFile \/ AnalyzeUndefined \/ StartBeep \/ ContinueBeep \/ NoBeep
  \/ RejectBeep \/ StoreBeep \/ Finish

DetectorSpec == DetectorInit /\ [][DetectorNext]_detectorVars

----------------------------------------------------------------------------
\* The reference: the beeps of a signal are its maximal runs of tone that end
\* in a frame without tone, if their length is within the limits.  Frames are
\* numbered from 0.
IsTone(i) == Tone(frames[i + 1])

IsRun(i, j) ==
  /\ i < j
  /\ \A k \in i .. j - 1 : IsTone(k)
  /\ ~IsTone(j)
  /\ i > 0 => ~IsTone(i - 1)

\* What is reported are runs of the signal, each once and in order, with a
\* frequency and a level averaged over the frames of that run and no other
\* (beep_detector.c:76-105).
BeepsAreRuns ==
  /\ \A n \in DOMAIN beeps :
       /\ beeps[n].end < pos
       /\ IsRun(beeps[n].start, beeps[n].end)
       /\ beeps[n].end - beeps[n].start \in MinDuration .. MaxDuration
       /\ beeps[n].frames = beeps[n].start .. beeps[n].end - 1
  /\ \A m, n \in DOMAIN beeps : m < n => beeps[m].end < beeps[n].start

\* No run that ended in what was processed so far is missing, at whatever frame
\* it started and whatever came before, unless memory ran out.  However short the
\* silence before it, it is a beep of its own: the gap_duration_sec of config.h:68
\* and of docs/AUTOMATED_TESTING.md:492 is read nowhere.
RunsAreBeeps ==
  ~lost =>
    \A i \in 0 .. pos - 1 : \A j \in 0 .. pos - 1 :
      IsRun(i, j) /\ j - i \in MinDuration .. MaxDuration =>
        \E n \in DOMAIN beeps : beeps[n].start = i /\ beeps[n].end = j

\* Samples are counted by the file's format and read as 16-bit words
\* (analyzer.c:271-272, 296-301).  Where a sample of all channels takes a word at
\* least and there is a frame's worth of them, no frame reaches behind the data
\* chunk; a shorter file still gets one frame at most.  Of an uncut file of 16
\* bits and one channel every frame that lies in the data is analysed.  (8 bits
\* and one channel are the exception: of those frames are read behind the data.)
FramesAreData ==
  pc # "begin" /\ Analyzable(file) =>
    /\ NumSamples(file) < FrameSize => Len(frames) <= 1
    /\ NumSamples(file) >= FrameSize /\ (file.bits >= 16 \/ file.channels >= 2) =>
         \A k \in 0 .. Len(frames) - 1 : WordSize * (k * HopSize + FrameSize) <= file.size
    /\ file.bits = 16 /\ file.channels = 1 /\ file.present >= file.size =>
         \A k \in 0 .. file.size :
           WordSize * (k * HopSize + FrameSize) <= file.size => k < Len(frames)
=============================================================================
