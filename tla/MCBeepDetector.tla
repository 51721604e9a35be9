--------------------------- MODULE MCBeepDetector ---------------------------
(***************************************************************************)
(* Instances of BeepDetector for TLC.                                       *)
(***************************************************************************)
EXTENDS BeepDetector

\* 16 bits and one channel: size bytes declared, of present ones.
Wave(size, present) ==
  [riff |-> TRUE, chunks |-> <<"fmt ", "LIST", "data">>, bits |-> 16, channels |-> 1,
   size |-> size, present |-> present]

\* Up to seven frames of four samples each; empty, short, cut off, followed by
\* another chunk; other formats; and files that are refused or divide by zero.
MCFiles ==
  {Wave(0, 18), Wave(4, 4), Wave(6, 6), Wave(6, 18), Wave(8, 8), Wave(11, 16),
   Wave(18, 18), Wave(32, 40), Wave(32, 23), Wave(34, 32),
   [Wave(8, 8) EXCEPT !.bits = 8], [Wave(8, 20) EXCEPT !.bits = 8],
   [Wave(13, 13) EXCEPT !.bits = 8, !.channels = 2],
   [Wave(22, 22) EXCEPT !.channels = 2], [Wave(13, 13) EXCEPT !.bits = 24],
   [Wave(16, 16) EXCEPT !.riff = FALSE], [Wave(16, 16) EXCEPT !.bits = 0],
   [Wave(16, 16) EXCEPT !.bits = 4], [Wave(16, 16) EXCEPT !.channels = 0],
   [Wave(16, 16) EXCEPT !.chunks = <<"fmt ", "LIST">>],
   [Wave(16, 16) EXCEPT !.chunks = <<"data", "fmt ">>]}
=============================================================================
