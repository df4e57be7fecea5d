------------------------------ MODULE MCFbdevApp ------------------------------
(* Small instances of FbdevApp for TLC. *)
EXTENDS FbdevApp

Mode(xres, yres, depth, length) ==
  [xres |-> xres, yres |-> yres, bits_per_pixel |-> depth, line_length |-> length]

(* Depths of 8 to 32 bits, lines with and without padding, heights with and without *)
(* lines left over, lengths that are no multiple of 2, 16 or 32.                     *)
SmallModes ==
  {Mode(2, yres, 16, length) : yres \in {8, 9, 16}, length \in {4, 5, 6}}
    \union {Mode(2, 8, 8, 2), Mode(2, 9, 24, 6), Mode(2, 8, 32, 8)}
    \union {Mode(xres, 2, 32, length) : xres \in {6, 8}, length \in {32, 48, 56, 64}}
    \union {Mode(16, 3, 32, 64), Mode(8, 2, 16, 16), Mode(6, 2, 32, 24)}
===============================================================================
