---------------------------- MODULE MCFramePath ----------------------------
(* TLC instances of FramePath: the last numbers of microseconds that fit   *)
(* into the nanoseconds and the first that wrap around, in every place of  *)
(* the header, and sizes around the header.                                *)
EXTENDS FramePath

MCMessages ==
  [pts : {17}, duration : {5}, system : {16}, size : {HeaderSize + 1}]
  \cup [pts : {16}, duration : {17}, system : {5}, size : {HeaderSize}]
  \cup [pts : {6}, duration : {4}, system : {0, 17}, size : {HeaderSize}]
  \cup [pts : {80}, duration : {1}, system : {80},
        size : {0, HeaderSize - 1, HeaderSize + 1}]
=============================================================================
