---------------------------- MODULE FrameHeader ----------------------------
(***************************************************************************)
(* The header of a video frame as on_video_frame of src/video_receiver.cpp *)
(* reads it.  Bytes are 0..Base-1 and an unsigned 64-bit number has Width  *)
(* of them: 256 and 8 in the code, less for TLC.                           *)
(***************************************************************************)
EXTENDS Naturals, Sequences

CONSTANTS
  Base, Width,
  NsPerUs                    (* 1000                                       *)

(* What a byte counts that is shifted to place i, and a number of Width    *)
(* bytes is less than.                                                     *)
Weight[i \in 0..Width] == IF i = 0 THEN 1 ELSE Base * Weight[i - 1]

Modulus == Weight[Width]

ASSUME HeaderAssumption ==
  /\ Base \in Nat \ {0, 1}
  /\ Width \in Nat \ {0}
  /\ NsPerUs \in Nat

(* pts, duration and system time.                                          *)
HeaderSize == 3 * Width
-----------------------------------------------------------------------------
(* The number in n bytes after an offset: each byte shifted to its place.  *)
LittleEndian(data, offset, n) ==
  LET value[i \in 0..n] ==
        IF i = 0 THEN 0
        ELSE value[i - 1] + data[offset + i] * Weight[i - 1]
  IN  value[n]

Nanoseconds(us) == (us * NsPerUs) % Modulus

(* Of a message of at least HeaderSize bytes.                              *)
TimesOf(data) ==
  [pts      |-> Nanoseconds(LittleEndian(data, 0, Width)),
   duration |-> Nanoseconds(LittleEndian(data, Width, Width)),
   system   |-> Nanoseconds(LittleEndian(data, 2 * Width, Width))]
=============================================================================
