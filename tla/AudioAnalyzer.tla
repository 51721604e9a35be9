--------------------------- MODULE AudioAnalyzer ---------------------------
(***************************************************************************)
(* vu_analyzer_analyze_file of src/src/audio/analyzer.c: which frames of a  *)
(* WAV file are analysed.  The Fourier transform is floating point and not  *)
(* modelled: what it finds in a frame is a frequency and a level.           *)
(*                                                                          *)
(* A file is a record: riff, whether it is a RIFF/WAVE file; chunks, their  *)
(* names in order; bits, of a sample; channels; size, the bytes the data    *)
(* chunk declares; present, the bytes that follow its header in the file.   *)
(***************************************************************************)
EXTENDS Integers, Sequences, FiniteSets

CONSTANT FrameSize   \* fft_size, a power of 2

ASSUME FrameSizeAssumption == FrameSize \in Nat /\ FrameSize >= 2

HopSize == FrameSize \div 2

WordSize == 2   \* sizeof(int16_t)

\* The scan stops once it has seen both chunks; a "fmt " behind the data is
\* looked for inside the data and not found.
Parsed(file) ==
  /\ file.riff
  /\ file.bits # 0
  /\ \E d \in DOMAIN file.chunks :
       /\ file.chunks[d] = "data"
       /\ \E f \in 1 .. d - 1 : file.chunks[f] = "fmt "

\* Only a bits_per_sample of 0 is refused: from 1 to 7, and without channels, the
\* number of samples is a division by zero.
Divides(file) == file.bits \div 8 # 0 /\ file.channels # 0

\* The samples of each channel, by the format the file declares.
NumSamples(file) == (file.size \div (file.bits \div 8)) \div file.channels

\* The division of C, which rounds to zero.
Quotient(a, b) == IF a < 0 THEN -((-a) \div b) ELSE a \div b

NumFramesOneMore(samples) == Quotient(samples - FrameSize, HopSize) + 2

NumFrames(samples) == Quotient(samples - FrameSize, HopSize) + 1

\* The words fread returns for frame k: whatever the format, 16 bits each, and a
\* hop is counted in them.
Words(file, k) ==
  LET left == (file.present - WordSize * k * HopSize) \div WordSize
  IN  IF left < 0 THEN 0 ELSE IF left < FrameSize THEN left ELSE FrameSize

\* The loop ends with the first frame less than half of which could be read.
Analyzed(file) ==
  {k \in 0 .. NumFrames(NumSamples(file)) - 1 :
     \A j \in 0 .. k : Words(file, j) >= FrameSize \div 2}

\* NULL is returned for a file that does not parse and for one without frames.
Analyzable(file) == Parsed(file) /\ Divides(file) /\ NumFrames(NumSamples(file)) > 0
=============================================================================
