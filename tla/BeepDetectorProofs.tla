------------------------- MODULE BeepDetectorProofs -------------------------
(***************************************************************************)
(* Proofs about BeepDetector, for every set of files, every signal and      *)
(* every limit: the types, that what is reported are runs of the signal,    *)
(* that no run is missing, and that the frames lie in the data.             *)
(***************************************************************************)
EXTENDS BeepDetector, FiniteSetTheorems, TLAPS

\* What a quotient of natural numbers and a product are good for here.
LEMMA DivisionFits ==
  ASSUME NEW a \in Nat, NEW b \in Nat, b >= 1
  PROVE  /\ a \div b \in Nat
         /\ b * (a \div b) <= a
         /\ b = 1 => a \div b = a
<1> DEFINE q == a \div b
           m == a % b
<1>1. q \in Nat /\ m \in Nat /\ a = b * q + m
  OBVIOUS
<1>2. b = 1 => q = a
  OBVIOUS
<1>3. b * q \in Int
  BY <1>1
<1> DEFINE p == b * q
<1>4. p \in Int /\ a = p + m
  BY <1>1, <1>3
<1> HIDE DEF p, m
<1>5. p <= a
  BY <1>1, <1>4
<1>6. QED BY <1>1, <1>2, <1>5 DEF p

LEMMA ProductGrows ==
  ASSUME NEW a \in Nat, NEW b \in Nat
  PROVE  /\ a >= 1 => b <= a * b
         /\ a >= 2 => 2 * b <= a * b
OBVIOUS

\* The samples counted are numbers, and where a sample of all channels takes two
\* bytes or more they lie in the bytes declared.
LEMMA SamplesFit ==
  ASSUME NEW f \in Files, Divides(f)
  PROVE  /\ NumSamples(f) \in Nat
         /\ f.bits >= 16 \/ f.channels >= 2 => WordSize * NumSamples(f) <= f.size
         /\ f.bits = 16 /\ f.channels = 1 => f.size <= WordSize * NumSamples(f) + 1
<1> DEFINE a == f.bits \div 8
           c == f.channels
           x == f.size \div a
           y == x \div c
<1>1. /\ f.bits \in Nat /\ c \in Nat /\ f.size \in Nat
      /\ a # 0 /\ c # 0
  BY FilesAssumption DEF Divides
<1>2. a \in Nat /\ a >= 1 /\ c >= 1 /\ (f.bits >= 16 => a >= 2) /\ (f.bits = 16 => a = 2)
  BY <1>1
<1> HIDE DEF a
<1>3. x \in Nat /\ a * x <= f.size
  BY <1>1, <1>2, DivisionFits
<1>4. a = 2 => f.size <= 2 * x + 1
  BY <1>1
<1> HIDE DEF x
<1>5. y \in Nat /\ c * y <= x /\ (c = 1 => y = x)
  BY <1>1, <1>2, <1>3, DivisionFits
<1> HIDE DEF y
<1>6. x <= a * x /\ y <= c * y
  BY <1>2, <1>3, <1>5, <1>1, ProductGrows
<1>7. a >= 2 => 2 * x <= a * x
  BY <1>2, <1>3, ProductGrows
<1>8. c >= 2 => 2 * y <= c * y
  BY <1>1, <1>2, <1>5, ProductGrows
<1>9. NumSamples(f) = y
  BY DEF NumSamples, y, x, a
<1>10. a * x \in Int /\ c * y \in Int
  BY <1>1, <1>2, <1>3, <1>5
<1> DEFINE ax == a * x
           cy == c * y
<1>11. /\ ax \in Int /\ cy \in Int /\ ax <= f.size /\ cy <= x /\ x <= ax /\ y <= cy
       /\ a >= 2 => 2 * x <= ax
       /\ c >= 2 => 2 * y <= cy
  BY <1>3, <1>5, <1>6, <1>7, <1>8, <1>10
<1> HIDE DEF ax, cy
<1>12. QED BY <1>1, <1>2, <1>3, <1>4, <1>5, <1>9, <1>11 DEF WordSize

\* There are no more frames analysed than NumFrames counts.
LEMMA FramesFit ==
  ASSUME NEW f \in Files, Analyzable(f)
  PROVE  /\ NumFrames(NumSamples(f)) \in Nat
         /\ Cardinality(Analyzed(f)) \in Nat
         /\ Cardinality(Analyzed(f)) <= NumFrames(NumSamples(f))
<1> DEFINE n == NumFrames(NumSamples(f))
<1>1. HopSize \in Nat /\ HopSize >= 1
  BY FrameSizeAssumption DEF HopSize
<1>2. NumSamples(f) - FrameSize \in Int /\ n > 0
  BY SamplesFit, FrameSizeAssumption DEF Analyzable
<1>3. ASSUME NEW a \in Int PROVE Quotient(a, HopSize) \in Int
  BY <1>1 DEF Quotient
<1>4. n \in Nat
  BY <1>2, <1>3 DEF NumFrames
<1>5. IsFiniteSet(0 .. n - 1) /\ Cardinality(0 .. n - 1) = n
  BY <1>4, FS_Interval
<1>6. Analyzed(f) \in SUBSET (0 .. n - 1)
  BY DEF Analyzed
<1>7. IsFiniteSet(Analyzed(f)) /\ Cardinality(Analyzed(f)) <= n
  BY <1>5, <1>6, FS_Subset
<1>8. QED BY <1>4, <1>7, FS_CardinalityType

----------------------------------------------------------------------------
\* Before the file is analysed nothing was processed.
NothingYet == pc = "begin" => pos = 0 /\ beeps = <<>> /\ in_beep = FALSE

TypesInv == DetectorTypeOK /\ NothingYet

LEMMA TypesInit == DetectorInit => TypesInv
<1> SUFFICES ASSUME DetectorInit PROVE TypesInv
  OBVIOUS
<1>1. <<>> \in Seq(Frame) /\ <<>> \in Seq(Beep)
  OBVIOUS
<1>2. Len(frames) = 0 /\ Len(beeps) = 0
  BY DEF DetectorInit
<1>3. in_beep \in BOOLEAN /\ lost \in BOOLEAN
  BY Zenon DEF DetectorInit
<1>4. QED BY <1>1, <1>2, <1>3 DEF DetectorInit, DetectorTypeOK, TypesInv, NothingYet

\* The room is not smaller than before, and it is a number.
LEMMA RoomGrows ==
  ASSUME DetectorTypeOK, NEW room \in Room
  PROVE  room \in Nat /\ room >= capacity
BY FirstCapacityAssumption DEF DetectorTypeOK, Room

LEMMA TypesStep ==
  ASSUME TypesInv, [DetectorNext]_detectorVars
  PROVE  TypesInv'
<1> USE DEF TypesInv, DetectorTypeOK, NothingYet
<1>1. CASE AnalyzeFile
  <2>1. CASE Analyzable(file)
    <3>1. Cardinality(Analyzed(file)) \in Nat
      BY <2>1, FramesFit
    <3>2. frames' \in Seq(Frame)
      BY <1>1, <2>1, <3>1 DEF AnalyzeFile
    <3>3. Len(frames') \in Nat
      BY <3>2
    <3>4. pos' = 0
      BY <1>1 DEF AnalyzeFile
    <3>5. QED BY <1>1, <2>1, <3>2, <3>3, <3>4 DEF AnalyzeFile, detector
  <2>2. CASE ~Analyzable(file)
    BY <1>1, <2>2 DEF AnalyzeFile, detector
  <2>3. QED BY <2>1, <2>2
<1>2. CASE StartBeep BY <1>2 DEF StartBeep, Processing
<1>3. CASE ContinueBeep BY <1>3 DEF ContinueBeep, Processing
<1>4. CASE NoBeep BY <1>4 DEF NoBeep, Processing, detector
<1>5. CASE RejectBeep
  <2>1. in_beep' \in BOOLEAN BY <1>5, Zenon DEF RejectBeep
  <2>2. QED BY <1>5, <2>1 DEF RejectBeep, Processing
<1>6. CASE StoreBeep
  <2>1. capacity' \in Nat /\ capacity' >= capacity
    BY <1>6, RoomGrows DEF StoreBeep
  <2>0. in_beep' \in BOOLEAN BY <1>6, Zenon DEF StoreBeep
  <2>2. [start |-> start, end |-> pos, frames |-> summed] \in Beep
    BY DEF Beep
  <2> DEFINE beep == [start |-> start, end |-> pos, frames |-> summed]
  <2>3. Append(beeps, beep) \in Seq(Beep) /\ Len(Append(beeps, beep)) = Len(beeps) + 1
    BY <2>2
  <2>4. CASE Len(beeps) < capacity'
    <3>1. beeps' = Append(beeps, beep) /\ lost' = lost
      BY <1>6, <2>4 DEF StoreBeep
    <3>2. QED BY <1>6, <2>0, <2>1, <2>3, <2>4, <3>1 DEF StoreBeep, Processing
  <2>5. CASE ~(Len(beeps) < capacity')
    <3>1. beeps' = beeps /\ lost' = TRUE
      BY <1>6, <2>5 DEF StoreBeep
    <3>2. QED BY <1>6, <2>0, <2>1, <3>1 DEF StoreBeep, Processing
  <2>6. QED BY <2>4, <2>5
<1>7. CASE Finish BY <1>7 DEF Finish, detector
<1>8. CASE AnalyzeUndefined BY <1>8 DEF AnalyzeUndefined, detector
<1>9. CASE UNCHANGED detectorVars BY <1>9 DEF detectorVars, detector
<1>10. QED
  BY <1>1, <1>2, <1>3, <1>4, <1>5, <1>6, <1>7, <1>8, <1>9 DEF DetectorNext

\* The types hold: the position stays within the frames, and the beeps within
\* the room allocated for them (beep_detector.c:87-103).
THEOREM DetectorTypes == DetectorSpec => []DetectorTypeOK
<1>1. DetectorInit => TypesInv BY TypesInit
<1>2. TypesInv /\ [DetectorNext]_detectorVars => TypesInv'
  BY TypesStep
<1>3. TypesInv => DetectorTypeOK BY DEF TypesInv
<1>4. QED BY <1>1, <1>2, <1>3, PTL DEF DetectorSpec

----------------------------------------------------------------------------
\* The tone that sounds is a run up to here, and its frames are the ones summed
\* up; without one the frame before was without tone.
RunSoFar ==
  /\ in_beep =>
       /\ start < pos
       /\ summed = start .. pos - 1
       /\ \A k \in start .. pos - 1 : IsTone(k)
       /\ start > 0 => ~IsTone(start - 1)
  /\ ~in_beep /\ pos > 0 => ~IsTone(pos - 1)

\* What was reported alone is not inductive: what is reported next depends on
\* the run that the detector is in.
DetectorInv == TypesInv /\ RunSoFar /\ BeepsAreRuns /\ RunsAreBeeps

\* The signal stays as it is once it is there.
LEMMA SignalStays ==
  ASSUME frames' = frames, NEW i, NEW j
  PROVE  (IsTone(i) <=> IsTone(i)') /\ (IsRun(i, j) <=> IsRun(i, j)')
BY DEF IsRun, IsTone

LEMMA FrameWithTone == Processing(TRUE) => IsTone(pos)
BY Zenon DEF Processing, IsTone

LEMMA FrameWithoutTone == Processing(FALSE) => ~IsTone(pos)
BY Zenon DEF Processing, IsTone

LEMMA ProcessingTypes ==
  ASSUME TypesInv, NEW tone, Processing(tone)
  PROVE  /\ pos \in Nat /\ start \in Nat /\ Len(beeps) \in Nat
         /\ pos' = pos + 1 /\ frames' = frames
         /\ \A n \in DOMAIN beeps : beeps[n].start \in Nat /\ beeps[n].end \in Nat
<1>1. pos \in Nat /\ start \in Nat /\ Len(beeps) \in Nat /\ beeps \in Seq(Beep)
  BY DEF TypesInv, DetectorTypeOK
<1>2. \A n \in DOMAIN beeps : beeps[n] \in Beep
  BY <1>1
<1>3. QED BY <1>1, <1>2 DEF Processing, Beep

\* A beep that was reported is still a run of the signal, one frame later.
LEMMA BeepsStay ==
  ASSUME TypesInv, BeepsAreRuns, NEW tone, Processing(tone), beeps' = beeps
  PROVE  BeepsAreRuns'
<1>1. \A i, j : IsRun(i, j) <=> IsRun(i, j)'
  BY ProcessingTypes, SignalStays
<1>2. ASSUME NEW n \in DOMAIN beeps
      PROVE  /\ beeps[n].end < pos'
             /\ IsRun(beeps[n].start, beeps[n].end)'
             /\ beeps[n].end - beeps[n].start \in MinDuration .. MaxDuration
             /\ beeps[n].frames = beeps[n].start .. beeps[n].end - 1
  <2>1. IsRun(beeps[n].start, beeps[n].end)'
    BY <1>1 DEF BeepsAreRuns
  <2>2. QED BY <2>1, ProcessingTypes DEF BeepsAreRuns
<1>3. QED BY <1>2 DEF BeepsAreRuns

\* Where no run within the limits ends, nothing can be missing.
LEMMA NothingMissing ==
  ASSUME TypesInv, RunsAreBeeps, NEW tone, Processing(tone),
         beeps' = beeps, lost' = lost,
         \A i \in 0 .. pos : ~(IsRun(i, pos) /\ pos - i \in MinDuration .. MaxDuration)
  PROVE  RunsAreBeeps'
<1> SUFFICES ASSUME ~lost', NEW i \in 0 .. pos' - 1, NEW j \in 0 .. pos' - 1,
                    IsRun(i, j)', j - i \in MinDuration .. MaxDuration
             PROVE  \E n \in DOMAIN beeps : beeps[n].start = i /\ beeps[n].end = j
  BY DEF RunsAreBeeps
<1>1. IsRun(i, j)
  BY ProcessingTypes, SignalStays
<1>2. pos \in Nat /\ pos' = pos + 1
  BY ProcessingTypes
<1>3. i < j
  BY <1>1 DEF IsRun
<1>4. j # pos
  BY <1>1, <1>2, <1>3
<1>5. i \in 0 .. pos - 1 /\ j \in 0 .. pos - 1
  BY <1>2, <1>3, <1>4
<1>6. QED BY <1>1, <1>5 DEF RunsAreBeeps

\* In every step the detector stays in the run that sounds.
LEMMA RunStep ==
  ASSUME TypesInv, RunSoFar, [DetectorNext]_detectorVars
  PROVE  RunSoFar'
<1>1. CASE AnalyzeFile
  BY <1>1 DEF AnalyzeFile, detector, TypesInv, DetectorTypeOK, NothingYet, RunSoFar
<1>2. CASE StartBeep
  <2>1. pos > 0 => ~IsTone(pos - 1)
    BY <1>2 DEF StartBeep, RunSoFar
  <2>2. start' = pos /\ pos \in Nat /\ pos' = pos + 1 /\ frames' = frames
    BY <1>2, ProcessingTypes DEF StartBeep
  <2>3. IsTone(pos) /\ in_beep' /\ summed' = {pos}
    BY <1>2, FrameWithTone, Zenon DEF StartBeep
  <2>4. \A k \in start' .. pos' - 1 : IsTone(k)'
    BY <2>2, <2>3, SignalStays
  <2>5. (start > 0 => ~IsTone(start - 1))'
    BY <2>1, <2>2 DEF IsTone
  <2>6. start' < pos' /\ summed' = start' .. pos' - 1
    BY <2>2, <2>3
  <2>7. QED BY <2>3, <2>4, <2>5, <2>6 DEF RunSoFar
<1>3. CASE ContinueBeep
  <2>1. start' = start /\ pos \in Nat /\ start \in Nat /\ pos' = pos + 1 /\ frames' = frames
    BY <1>3, ProcessingTypes DEF ContinueBeep
  <2>2. IsTone(pos) /\ in_beep /\ in_beep' /\ summed' = summed \cup {pos}
    BY <1>3, FrameWithTone, Zenon DEF ContinueBeep
  <2>3. /\ start < pos /\ summed = start .. pos - 1
        /\ \A k \in start .. pos - 1 : IsTone(k)
        /\ start > 0 => ~IsTone(start - 1)
    BY <2>2 DEF RunSoFar
  <2>4. \A k \in start .. pos : IsTone(k)'
    BY <2>1, <2>2, <2>3, SignalStays
  <2>5. (start > 0 => ~IsTone(start - 1))'
    BY <2>1, <2>3 DEF IsTone
  <2>6. start' < pos' /\ summed' = start' .. pos' - 1
    BY <2>1, <2>2, <2>3
  <2>7. QED BY <2>1, <2>2, <2>4, <2>5, <2>6 DEF RunSoFar
<1>4. ASSUME Processing(FALSE), ~in_beep' PROVE RunSoFar'
  <2>1. pos \in Nat /\ pos' = pos + 1 /\ frames' = frames
    BY <1>4, ProcessingTypes
  <2>2. ~IsTone(pos - 1)'
    <3>1. pos' - 1 = pos /\ ~IsTone(pos)
      BY <1>4, <2>1, FrameWithoutTone
    <3>2. QED BY <2>1, <3>1 DEF IsTone
  <2>3. QED BY <1>4, <2>2 DEF RunSoFar
<1>5. CASE NoBeep \/ RejectBeep \/ StoreBeep
  <2>1. ~in_beep'
    BY <1>5, Zenon DEF NoBeep, RejectBeep, StoreBeep, detector
  <2>2. Processing(FALSE)
    BY <1>5, Zenon DEF NoBeep, RejectBeep, StoreBeep
  <2>3. QED BY <1>4, <2>1, <2>2
<1>6. CASE AnalyzeUndefined \/ Finish \/ UNCHANGED detectorVars
  BY <1>6 DEF AnalyzeUndefined, Finish, detectorVars, detector, RunSoFar, IsTone
<1>7. QED
  BY <1>1, <1>2, <1>3, <1>5, <1>6 DEF DetectorNext

\* A run that ends here is the one that sounds.
LEMMA RunEndingHere ==
  ASSUME TypesInv, RunSoFar, NEW tone, Processing(tone),
         NEW i \in 0 .. pos, IsRun(i, pos)
  PROVE  in_beep /\ i = start
<1>1. pos \in Nat /\ start \in Nat /\ i \in Nat /\ i < pos
  BY ProcessingTypes DEF IsRun
<1>2. IsTone(pos - 1)
  BY <1>1 DEF IsRun
<1>3. in_beep
  BY <1>1, <1>2 DEF RunSoFar
<1>4. ~(i < start)
  <2> SUFFICES ASSUME i < start PROVE FALSE
    OBVIOUS
  <2>1. start - 1 \in i .. pos - 1
    BY <1>1, <1>3 DEF RunSoFar
  <2>2. QED BY <1>1, <1>3, <2>1 DEF RunSoFar, IsRun
<1>5. ~(start < i)
  <2> SUFFICES ASSUME start < i PROVE FALSE
    OBVIOUS
  <2>1. i - 1 \in start .. pos - 1
    BY <1>1
  <2>2. QED BY <1>1, <1>3, <2>1 DEF RunSoFar, IsRun
<1>6. QED BY <1>1, <1>3, <1>4, <1>5

\* A tone that stops is a run of the signal, behind all that was reported.
LEMMA RunThatStops ==
  ASSUME TypesInv, RunSoFar, BeepsAreRuns, Processing(FALSE), in_beep
  PROVE  /\ IsRun(start, pos) /\ summed = start .. pos - 1
         /\ \A n \in DOMAIN beeps : beeps[n].end < start
<1>1. pos \in Nat /\ start \in Nat
  BY ProcessingTypes
<1>2. IsRun(start, pos) /\ summed = start .. pos - 1
  BY FrameWithoutTone DEF RunSoFar, IsRun
<1>3. ASSUME NEW n \in DOMAIN beeps PROVE beeps[n].end < start
  <2>1. beeps[n].end \in Nat /\ beeps[n].end < pos /\ ~IsTone(beeps[n].end)
    BY ProcessingTypes DEF BeepsAreRuns, IsRun
  <2>2. beeps[n].end \notin start .. pos - 1
    BY <2>1 DEF RunSoFar
  <2>3. QED BY <1>1, <2>1, <2>2
<1>4. QED BY <1>2, <1>3

----------------------------------------------------------------------------
\* Memory that ran out stays so.
LEMMA StoredOrLost ==
  ASSUME StoreBeep
  PROVE  \/ /\ beeps' = Append(beeps, [start |-> start, end |-> pos, frames |-> summed])
            /\ lost' = lost
         \/ beeps' = beeps /\ lost'
BY Zenon DEF StoreBeep

\* The tone that stops is appended: behind the others, and the only run that
\* ends here.
LEMMA StoredBeep ==
  ASSUME DetectorInv, Processing(FALSE), in_beep, LongEnough(pos - start), lost' = lost,
         beeps' = Append(beeps, [start |-> start, end |-> pos, frames |-> summed])
  PROVE  BeepsAreRuns' /\ RunsAreBeeps'
<1> USE DEF DetectorInv
<1>1. /\ pos \in Nat /\ start \in Nat /\ Len(beeps) \in Nat
      /\ pos' = pos + 1 /\ frames' = frames
      /\ \A n \in DOMAIN beeps : beeps[n].start \in Nat /\ beeps[n].end \in Nat
  BY ProcessingTypes
<1>2. \A i, j : IsRun(i, j) <=> IsRun(i, j)'
  BY <1>1, SignalStays
<1>3. /\ IsRun(start, pos) /\ summed = start .. pos - 1
      /\ \A n \in DOMAIN beeps : beeps[n].end < start
  BY RunThatStops
<1>4. pos - start \in MinDuration .. MaxDuration
  BY <1>1, NumbersAssumption DEF LongEnough
<1> DEFINE last == Len(beeps) + 1
<1>5. /\ DOMAIN beeps' = 1 .. last /\ DOMAIN beeps = 1 .. last - 1
      /\ \A n \in DOMAIN beeps : beeps'[n] = beeps[n]
      /\ beeps'[last] = [start |-> start, end |-> pos, frames |-> summed]
  <2>1. beeps \in Seq(Beep)
    BY DEF TypesInv, DetectorTypeOK
  <2>2. [start |-> start, end |-> pos, frames |-> summed] \in Beep
    BY DEF Beep, TypesInv, DetectorTypeOK
  <2>3. QED BY <2>1, <2>2
<1>6. ASSUME NEW n \in DOMAIN beeps'
      PROVE  /\ beeps'[n].end < pos'
             /\ IsRun(beeps'[n].start, beeps'[n].end)
             /\ beeps'[n].end - beeps'[n].start \in MinDuration .. MaxDuration
             /\ beeps'[n].frames = beeps'[n].start .. beeps'[n].end - 1
  <2>1. CASE n = last
    BY <1>1, <1>3, <1>4, <1>5, <2>1
  <2>2. CASE n # last
    <3>1. n \in DOMAIN beeps /\ beeps'[n] = beeps[n]
      BY <1>1, <1>5, <2>2
    <3>2. QED BY <1>1, <3>1 DEF BeepsAreRuns
  <2>3. QED BY <2>1, <2>2
<1>7. ASSUME NEW m \in DOMAIN beeps', NEW n \in DOMAIN beeps', m < n
      PROVE  beeps'[m].end < beeps'[n].start
  <2>1. m \in DOMAIN beeps /\ beeps'[m] = beeps[m]
    BY <1>1, <1>5, <1>7
  <2>2. CASE n = last
    BY <1>3, <1>5, <2>1, <2>2
  <2>3. CASE n # last
    <3>1. n \in DOMAIN beeps /\ beeps'[n] = beeps[n]
      BY <1>1, <1>5, <2>3
    <3>2. QED BY <1>7, <2>1, <3>1 DEF BeepsAreRuns
  <2>4. QED BY <2>2, <2>3
<1>8. BeepsAreRuns'
  <2>1. \A n \in DOMAIN beeps' : IsRun(beeps[n].start, beeps[n].end)'
    BY <1>2, <1>6
  <2>2. QED BY <1>6, <1>7, <2>1 DEF BeepsAreRuns
<1>9. RunsAreBeeps'
  <2> SUFFICES ASSUME ~lost', NEW i \in 0 .. pos' - 1, NEW j \in 0 .. pos' - 1,
                      IsRun(i, j)', j - i \in MinDuration .. MaxDuration
               PROVE  \E n \in DOMAIN beeps' : beeps'[n].start = i /\ beeps'[n].end = j
    BY DEF RunsAreBeeps
  <2>1. IsRun(i, j) /\ i < j
    BY <1>2 DEF IsRun
  <2>2. CASE j = pos
    <3>1. i = start
      <4>1. i \in 0 .. pos /\ IsRun(i, pos)
        BY <1>1, <2>1, <2>2
      <4>2. QED BY <4>1, RunEndingHere
    <3>2. beeps'[last].start = i /\ beeps'[last].end = j /\ last \in DOMAIN beeps'
      BY <1>1, <1>5, <2>2, <3>1
    <3>3. QED BY <3>2
  <2>3. CASE j # pos
    <3>1. i \in 0 .. pos - 1 /\ j \in 0 .. pos - 1
      BY <1>1, <2>1, <2>3
    <3>2. PICK n \in DOMAIN beeps : beeps[n].start = i /\ beeps[n].end = j
      BY <2>1, <3>1 DEF RunsAreBeeps
    <3>3. n \in DOMAIN beeps' /\ beeps'[n] = beeps[n]
      BY <1>1, <1>5
    <3>4. QED BY <3>2, <3>3
  <2>4. QED BY <2>2, <2>3
<1>10. QED BY <1>8, <1>9

LEMMA DetectorInvInit == DetectorInit => DetectorInv
<1> SUFFICES ASSUME DetectorInit PROVE DetectorInv
  OBVIOUS
<1>1. TypesInv BY TypesInit
<1>2. ~in_beep /\ pos = 0 /\ beeps = <<>>
  BY Zenon DEF DetectorInit
<1>3. RunSoFar BY <1>2 DEF RunSoFar
<1>4. BeepsAreRuns BY <1>2 DEF BeepsAreRuns
<1>5. RunsAreBeeps BY <1>2 DEF RunsAreBeeps
<1>6. QED BY <1>1, <1>3, <1>4, <1>5 DEF DetectorInv

LEMMA DetectorInvStep ==
  ASSUME DetectorInv, [DetectorNext]_detectorVars
  PROVE  DetectorInv'
<1>1. TypesInv /\ RunSoFar /\ BeepsAreRuns /\ RunsAreBeeps
  BY DEF DetectorInv
<1>2. TypesInv' /\ RunSoFar'
  BY <1>1, TypesStep, RunStep
<1>3. CASE AnalyzeFile
  <2>1. pos' = 0 /\ beeps' = <<>>
    BY <1>1, <1>3 DEF AnalyzeFile, detector, TypesInv, NothingYet
  <2>2. BeepsAreRuns' /\ RunsAreBeeps'
    BY <2>1 DEF BeepsAreRuns, RunsAreBeeps
  <2>3. QED BY <1>2, <2>2 DEF DetectorInv
<1>4. ASSUME NEW tone, Processing(tone), beeps' = beeps, lost' = lost,
             \A i \in 0 .. pos : ~(IsRun(i, pos) /\ pos - i \in MinDuration .. MaxDuration)
      PROVE  DetectorInv'
  BY <1>1, <1>2, <1>4, BeepsStay, NothingMissing DEF DetectorInv
<1>5. CASE StartBeep \/ ContinueBeep
  <2>1. Processing(TRUE) /\ beeps' = beeps /\ lost' = lost
    BY <1>5 DEF StartBeep, ContinueBeep
  <2>2. \A i : ~IsRun(i, pos)
    BY <2>1, FrameWithTone DEF IsRun
  <2>3. QED BY <1>4, <2>1, <2>2
<1>6. CASE NoBeep
  <2>1. Processing(FALSE) /\ ~in_beep /\ beeps' = beeps /\ lost' = lost
    BY <1>6 DEF NoBeep, detector
  <2>2. \A i \in 0 .. pos : ~IsRun(i, pos)
    BY <1>1, <2>1, RunEndingHere
  <2>3. QED BY <1>4, <2>1, <2>2
<1>7. CASE RejectBeep
  <2>1. Processing(FALSE) /\ ~LongEnough(pos - start) /\ beeps' = beeps /\ lost' = lost
    BY <1>7 DEF RejectBeep
  <2>2. pos - start \notin MinDuration .. MaxDuration
    BY <2>1, NumbersAssumption DEF LongEnough
  <2>3. \A i \in 0 .. pos : IsRun(i, pos) => i = start
    BY <1>1, <2>1, RunEndingHere
  <2>4. QED BY <1>4, <2>1, <2>2, <2>3
<1>8. CASE StoreBeep
  <2>1. Processing(FALSE) /\ in_beep /\ LongEnough(pos - start)
    BY <1>8 DEF StoreBeep
  <2>2. CASE beeps' = beeps /\ lost'
    <3>1. BeepsAreRuns' BY <1>1, <2>1, <2>2, BeepsStay
    <3>2. RunsAreBeeps' BY <2>2 DEF RunsAreBeeps
    <3>3. QED BY <1>2, <3>1, <3>2 DEF DetectorInv
  <2>3. CASE /\ beeps' = Append(beeps, [start |-> start, end |-> pos, frames |-> summed])
             /\ lost' = lost
    BY <1>2, <2>1, <2>3, StoredBeep DEF DetectorInv
  <2>4. QED BY <1>8, <2>2, <2>3, StoredOrLost
<1>9. CASE AnalyzeUndefined \/ Finish \/ UNCHANGED detectorVars
  <2>1. UNCHANGED <<frames, pos, beeps, lost>>
    BY <1>9 DEF AnalyzeUndefined, Finish, detectorVars, detector
  <2>2. BeepsAreRuns' /\ RunsAreBeeps'
    BY <1>1, <2>1 DEF BeepsAreRuns, RunsAreBeeps, IsRun, IsTone
  <2>3. QED BY <1>2, <2>2 DEF DetectorInv
<1>10. QED
  BY <1>3, <1>5, <1>6, <1>7, <1>8, <1>9 DEF DetectorNext

LEMMA DetectorInvHolds == DetectorSpec => []DetectorInv
BY DetectorInvInit, DetectorInvStep, PTL DEF DetectorSpec

\* What the analysis reports are runs of the signal, each once, in order, and
\* averaged over its own frames (beep_detector.c:76-105).
THEOREM ReportedBeepsAreRuns == DetectorSpec => []BeepsAreRuns
<1>1. DetectorInv => BeepsAreRuns BY DEF DetectorInv
<1>2. QED BY <1>1, DetectorInvHolds, PTL

\* And it reports every one of them that has ended, unless memory ran out.
THEOREM RunsAreReported == DetectorSpec => []RunsAreBeeps
<1>1. DetectorInv => RunsAreBeeps BY DEF DetectorInv
<1>2. QED BY <1>1, DetectorInvHolds, PTL

----------------------------------------------------------------------------
\* The frames are as many as were analysed.
FramesOfFile ==
  pc # "begin" /\ Analyzable(file) => Len(frames) = Cardinality(Analyzed(file))

LEMMA FileStays ==
  ASSUME file' = file
  PROVE  /\ Analyzable(file)' <=> Analyzable(file)
         /\ Cardinality(Analyzed(file))' = Cardinality(Analyzed(file))
BY DEF Analyzable, Parsed, Divides, NumFrames, NumSamples, Quotient, Analyzed, Words

LEMMA FramesOfFileStep ==
  ASSUME TypesInv, FramesOfFile, [DetectorNext]_detectorVars
  PROVE  FramesOfFile'
<1>1. CASE AnalyzeFile
  <2>1. file' = file /\ file \in Files
    BY <1>1 DEF AnalyzeFile, TypesInv, DetectorTypeOK
  <2>2. ASSUME Analyzable(file) PROVE Len(frames') = Cardinality(Analyzed(file))
    <3>1. Cardinality(Analyzed(file)) \in Nat
      BY <2>1, <2>2, FramesFit
    <3>2. frames' \in [1 .. Cardinality(Analyzed(file)) -> Frame]
      BY <1>1, <2>2 DEF AnalyzeFile
    <3>3. QED BY <3>1, <3>2
  <2>3. QED BY <2>1, <2>2, FileStays DEF FramesOfFile
<1>2. CASE AnalyzeUndefined
  <2>1. file' = file /\ ~Analyzable(file)
    BY <1>2 DEF AnalyzeUndefined, Analyzable
  <2>2. QED BY <2>1, FileStays DEF FramesOfFile
<1>3. CASE ~AnalyzeFile /\ ~AnalyzeUndefined
  <2>1. UNCHANGED <<file, frames>> /\ (pc = "begin" <=> pc' = "begin")
    BY <1>3 DEF DetectorNext, StartBeep, ContinueBeep, NoBeep, RejectBeep, StoreBeep,
                Finish, Processing, detectorVars
  <2>2. QED BY <2>1, FileStays DEF FramesOfFile
<1>4. QED BY <1>1, <1>2, <1>3

\* As long as the samples fill a frame, NumFrames counts those that end with
\* them or before; fewer samples get one frame at most.
LEMMA FramesEnd ==
  ASSUME NEW n \in Nat
  PROVE  /\ n < FrameSize => NumFrames(n) <= 1
         /\ n >= FrameSize =>
              \A k \in Nat : k < NumFrames(n) <=> k * HopSize + FrameSize <= n
<1>1. HopSize \in Nat /\ HopSize >= 1 /\ FrameSize \in Nat
  BY FrameSizeAssumption DEF HopSize
<1>2. ASSUME n < FrameSize PROVE NumFrames(n) <= 1
  <2> DEFINE short == FrameSize - n
  <2>1. short \in Nat /\ n - FrameSize < 0 /\ -(n - FrameSize) = short
    BY <1>1, <1>2
  <2>2. short \div HopSize \in Nat
    BY <1>1, <2>1, DivisionFits
  <2>3. Quotient(n - FrameSize, HopSize) = -(short \div HopSize)
    BY <2>1 DEF Quotient
  <2>4. QED BY <2>2, <2>3 DEF NumFrames
<1>3. ASSUME n >= FrameSize, NEW k \in Nat
      PROVE  k < NumFrames(n) <=> k * HopSize + FrameSize <= n
  <2> DEFINE rest == n - FrameSize
             q == rest \div HopSize
             m == rest % HopSize
  <2>1. rest \in Nat
    BY <1>1, <1>3
  <2>2. NumFrames(n) = q + 1
    BY <2>1 DEF NumFrames, Quotient
  <2> HIDE DEF rest
  <2>3. q \in Nat /\ m \in Nat /\ m < HopSize /\ rest = HopSize * q + m
    BY <1>1, <2>1
  <2> HIDE DEF q, m
  <2>4. k <= q => k * HopSize <= HopSize * q
    BY <1>1, <2>3
  <2>5. q + 1 <= k => HopSize * q + HopSize <= k * HopSize
    <3>1. ASSUME q + 1 <= k PROVE (q + 1) * HopSize <= k * HopSize
      BY <1>1, <2>3, <3>1
    <3>2. (q + 1) * HopSize = HopSize * q + HopSize
      BY <1>1, <2>3
    <3>3. QED BY <3>1, <3>2
  <2>6. k * HopSize \in Nat /\ HopSize * q \in Nat
    BY <1>1, <2>3
  <2> DEFINE kh == k * HopSize
             hq == HopSize * q
  <2>7. /\ kh \in Nat /\ hq \in Nat /\ rest = hq + m
        /\ k <= q => kh <= hq
        /\ q + 1 <= k => hq + HopSize <= kh
    BY <2>3, <2>4, <2>5, <2>6
  <2> HIDE DEF kh, hq
  <2>8. k < q + 1 <=> kh <= rest
    BY <1>1, <2>1, <2>3, <2>7
  <2>9. kh <= rest <=> kh + FrameSize <= n
    BY <1>1, <1>3, <2>7 DEF rest
  <2>10. QED BY <2>2, <2>8, <2>9 DEF kh
<1>4. QED BY <1>2, <1>3

\* Twice the last word of a frame is where its bytes end.
LEMMA WholeFrame ==
  ASSUME NEW k \in Nat, NEW n \in Nat, NEW bytes \in Nat
  PROVE  /\ k * HopSize \in Nat /\ WordSize * k * HopSize = WordSize * (k * HopSize)
         /\ k * HopSize + FrameSize <= n /\ WordSize * n <= bytes =>
              WordSize * (k * HopSize + FrameSize) <= bytes
         /\ WordSize * (k * HopSize + FrameSize) <= bytes /\ bytes <= WordSize * n + 1 =>
              k * HopSize + FrameSize <= n
<1>1. HopSize \in Nat /\ FrameSize \in Nat
  BY FrameSizeAssumption DEF HopSize
<1>2. k * HopSize \in Nat /\ WordSize * k * HopSize = WordSize * (k * HopSize)
  BY <1>1 DEF WordSize
<1> DEFINE kh == k * HopSize
<1>3. kh \in Nat BY <1>2
<1> HIDE DEF kh
<1>4. /\ kh + FrameSize <= n /\ 2 * n <= bytes => 2 * (kh + FrameSize) <= bytes
      /\ 2 * (kh + FrameSize) <= bytes /\ bytes <= 2 * n + 1 => kh + FrameSize <= n
  BY <1>1, <1>3
<1>5. QED BY <1>2, <1>4 DEF kh, WordSize

\* Of an uncut file whose samples fill a frame every frame is read in full.
LEMMA AllAnalyzed ==
  ASSUME NEW f \in Files, Analyzable(f), NumSamples(f) >= FrameSize,
         f.bits >= 16 \/ f.channels >= 2, f.present >= f.size
  PROVE  Cardinality(Analyzed(f)) = NumFrames(NumSamples(f))
<1> DEFINE n == NumFrames(NumSamples(f))
<1>1. /\ HopSize \in Nat /\ FrameSize \in Nat /\ FrameSize \div 2 <= FrameSize
      /\ f.present \in Nat /\ f.size \in Nat
  BY FrameSizeAssumption, FilesAssumption DEF HopSize
<1>2. /\ NumSamples(f) \in Nat /\ n \in Nat
      /\ WordSize * NumSamples(f) <= f.size
  BY SamplesFit, FramesFit DEF Analyzable
<1>3. ASSUME NEW j \in 0 .. n - 1 PROVE Words(f, j) = FrameSize
  <2>1. j \in Nat /\ j < n
    BY <1>2
  <2>2. WordSize * (j * HopSize + FrameSize) <= f.size
    BY <1>1, <1>2, <2>1, FramesEnd, WholeFrame
  <2> DEFINE jh == j * HopSize
             left == (f.present - WordSize * j * HopSize) \div WordSize
  <2>3. jh \in Nat /\ left = (f.present - 2 * jh) \div 2
    BY <1>1, <2>1, WholeFrame DEF WordSize
  <2>4. 2 * (jh + FrameSize) <= f.present
    BY <1>1, <2>2, <2>3 DEF WordSize
  <2> HIDE DEF jh
  <2>5. left \in Int /\ left >= FrameSize
    BY <1>1, <2>3, <2>4
  <2>6. Words(f, j) = IF left < 0 THEN 0 ELSE IF left < FrameSize THEN left ELSE FrameSize
    BY DEF Words
  <2> HIDE DEF left
  <2>7. QED BY <1>1, <2>5, <2>6
<1>4. Analyzed(f) = 0 .. n - 1
  <2>1. \A k \in 0 .. n - 1 : \A j \in 0 .. k : Words(f, j) >= FrameSize \div 2
    BY <1>1, <1>2, <1>3
  <2>2. QED BY <2>1 DEF Analyzed
<1>5. QED BY <1>2, <1>4, FS_Interval

\* Where a sample of all channels takes a word or more, no frame that is analysed
\* reaches behind the data chunk, a file shorter than a frame gets one at most,
\* and of an uncut file of 16 bits and one channel no frame is left out - for
\* every size of a frame and of a file (analyzer.c:271-272, 296-302).
THEOREM FramesStayInData == DetectorSpec => []FramesAreData
<1>1. DetectorInit => FramesOfFile
  BY DEF DetectorInit, FramesOfFile
<1>2. FramesOfFile /\ TypesInv /\ [DetectorNext]_detectorVars => FramesOfFile'
  BY FramesOfFileStep
<1>3. TypesInv /\ FramesOfFile => FramesAreData
  <2> SUFFICES ASSUME TypesInv, FramesOfFile, pc # "begin", Analyzable(file)
               PROVE  /\ NumSamples(file) < FrameSize => Len(frames) <= 1
                      /\ NumSamples(file) >= FrameSize /\ (file.bits >= 16 \/ file.channels >= 2) =>
                           \A k \in 0 .. Len(frames) - 1 :
                             WordSize * (k * HopSize + FrameSize) <= file.size
                      /\ file.bits = 16 /\ file.channels = 1 /\ file.present >= file.size =>
                           \A k \in 0 .. file.size :
                             WordSize * (k * HopSize + FrameSize) <= file.size => k < Len(frames)
    BY DEF FramesAreData
  <2> DEFINE n == NumSamples(file)
  <2>1. file \in Files /\ Len(frames) \in Nat /\ file.size \in Nat /\ FrameSize \in Nat
    BY FilesAssumption, FrameSizeAssumption DEF TypesInv, DetectorTypeOK
  <2>2. /\ n \in Nat
        /\ file.bits >= 16 \/ file.channels >= 2 => WordSize * n <= file.size
        /\ file.bits = 16 /\ file.channels = 1 => file.size <= WordSize * n + 1
    BY <2>1, SamplesFit DEF Analyzable
  <2>3. NumFrames(n) \in Nat /\ Len(frames) <= NumFrames(n)
    BY <2>1, FramesFit DEF FramesOfFile
  <2>4. n < FrameSize => Len(frames) <= 1
    BY <2>1, <2>2, <2>3, FramesEnd
  <2>5. ASSUME n >= FrameSize, file.bits >= 16 \/ file.channels >= 2,
               NEW k \in 0 .. Len(frames) - 1
        PROVE  WordSize * (k * HopSize + FrameSize) <= file.size
    <3>1. k \in Nat /\ k < NumFrames(n)
      BY <2>1, <2>3
    <3>2. k * HopSize + FrameSize <= n
      BY <2>2, <2>5, <3>1, FramesEnd
    <3>3. QED BY <2>1, <2>2, <2>5, <3>1, <3>2, WholeFrame
  <2>6. ASSUME file.bits = 16, file.channels = 1, file.present >= file.size,
               NEW k \in 0 .. file.size, WordSize * (k * HopSize + FrameSize) <= file.size
        PROVE  k < Len(frames)
    <3>1. k \in Nat
      BY <2>1
    <3>2. k * HopSize \in Nat /\ k * HopSize + FrameSize <= n
      BY <2>1, <2>2, <2>6, <3>1, WholeFrame
    <3>3. n >= FrameSize
      BY <2>1, <2>2, <3>2
    <3>4. k < NumFrames(n)
      BY <2>2, <3>1, <3>2, <3>3, FramesEnd
    <3>5. Len(frames) = NumFrames(n)
      BY <2>1, <2>6, <3>3, AllAnalyzed DEF FramesOfFile
    <3>6. QED BY <3>4, <3>5
  <2>7. QED BY <2>4, <2>5, <2>6
<1>4. DetectorInv => TypesInv BY DEF DetectorInv
<1>5. QED BY <1>1, <1>2, <1>3, <1>4, DetectorInvHolds, PTL DEF DetectorSpec
=============================================================================
