----------------------------- MODULE MCFileOutput -----------------------------
(* Model-checking instance of FileOutput.                                  *)
EXTENDS FileOutput, TLC

CONSTANTS w1, w2, b1, b2, b3, i1, i2, i3, i4, i5, i6, i7

MCWriters == {w1, w2}
MCBatches == {b1, b2, b3}
MCInodes == {i1, i2, i3, i4, i5, i6, i7}
\* The earlier run sealed name_0_... to name_8_....
MCOldSealed == 0 .. 8
=============================================================================
