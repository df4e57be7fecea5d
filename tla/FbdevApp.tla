-------------------------------- MODULE FbdevApp --------------------------------
(***************************************************************************)
(* fbdev_app.c: a program that asks a frame buffer driver for its mode,     *)
(* maps the buffer and fills it with eight color bars, once a second and    *)
(* without end (the loop in app_main() does not count).  The driver is      *)
(* outside the repository: it has one of Modes, whose pitch setting the     *)
(* mode again may change, and any call to it may fail.                      *)
(*                                                                          *)
(* A color is the number of its bar.  fill_color_bar() has two versions:    *)
(* "ycbcr", horizontal bars of 16-bit pixels, and "rgb" (CONFIG_TI81XX),    *)
(* vertical bars of 32-bit pixels.                                          *)
(***************************************************************************)
EXTENDS Integers

CONSTANTS Builds,           \* a set of "ycbcr", "rgb"
          Modes             \* of the driver: xres, yres, bits_per_pixel, line_length

ASSUME BuildsAssumption == Builds \subseteq {"ycbcr", "rgb"}
ASSUME ModesAssumption ==
  /\ Modes \subseteq [xres : Nat, yres : Nat, bits_per_pixel : Nat, line_length : Nat]
  /\ \A m \in Modes : m.yres > 0 /\ m.line_length * 8 >= m.xres * m.bits_per_pixel

VARIABLES
  build,
  device,           \* the mode of the driver
  pc,
  fixinfo,          \* the line_length that the program knows, NotRead before
  varinfo,          \* the mode it knows, or NotRead
  display_fd,       \* whether it is open
  buffer,           \* the mapped bytes: the bar shown by each, or Blank
  line, start,      \* in fill_color_bar(): lines filled, and the next pixel to store
  stray             \* a pixel was stored outside the buffer

known == <<fixinfo, varinfo>>
fill  == <<buffer, line, start, stray>>
vars  == <<build, device, pc, known, display_fd, fill>>

Blank   == 8
NotRead == 0
Bar     == 0 .. 7

Init == /\ build \in Builds /\ device \in Modes
        /\ pc = "open" /\ fixinfo = NotRead /\ varinfo = NotRead /\ display_fd = FALSE
        /\ buffer = << >> /\ line = 0 /\ start = 0 /\ stray = FALSE
-------------------------------------------------------------------------------
(* app_main(): every call goes on, or to exit1 *)

OpenDisplay == /\ pc = "open"
               /\ \/ pc' = "getfix" /\ display_fd' = TRUE
                  \/ pc' = "end" /\ UNCHANGED display_fd
               /\ UNCHANGED <<build, device, known, fill>>

Ioctl(from, to) == /\ pc = from /\ pc' \in {to, "exit1"}
                   /\ UNCHANGED <<build, display_fd, fill>>

GetFix == /\ Ioctl("getfix", "getvar")
          /\ fixinfo' = IF pc' = "exit1" THEN fixinfo ELSE device.line_length
          /\ UNCHANGED <<device, varinfo>>

GetVar == /\ Ioctl("getvar", "putvar")
          /\ varinfo' = IF pc' = "exit1" THEN varinfo ELSE device
          /\ UNCHANGED <<device, fixinfo>>

(* The mode just read is set again; the driver may choose another pitch for it. *)
PutVar == /\ Ioctl("putvar", "getfix again")
          /\ device' \in {m \in Modes : m = [device EXCEPT !.line_length = m.line_length]}
          /\ UNCHANGED known

(* Variant: the line length is not asked for again. *)
GetFixNoMore == Ioctl("getfix again", "mmap") /\ UNCHANGED <<device, known>>

GetFixAgain == /\ Ioctl("getfix again", "mmap")
               /\ fixinfo' = IF pc' = "exit1" THEN fixinfo ELSE device.line_length
               /\ UNCHANGED <<device, varinfo>>

buffersize == fixinfo * varinfo.yres

Mmap == /\ pc = "mmap"
        /\ \/ /\ pc' = "fill"
              /\ buffer' = [a \in 0 .. buffersize - 1 |-> Blank]
           \/ pc' = "exit1" /\ UNCHANGED buffer
        /\ UNCHANGED <<build, device, known, display_fd, line, start, stray>>

Exit == /\ pc = "exit1"
        /\ pc' = "end" /\ display_fd' = FALSE
        /\ UNCHANGED <<build, device, known, fill>>
-------------------------------------------------------------------------------
(* fill_color_bar(), line by line *)

PixelBytes == IF build = "ycbcr" THEN 2 ELSE 4

(* Variant: in bytes, although start counts pixels. *)
LineLenInBytes == fixinfo

(* In pixels of "ycbcr", as app_main() passes it; "rgb" takes bytes and rounds up to 16. *)
LineLen == IF build = "ycbcr" THEN fixinfo \div 2 ELSE ((fixinfo + 15) \div 16) * 16

BarHeight == varinfo.yres \div 8
BarWidth  == LineLen \div 32

Lines == IF build = "ycbcr" THEN 8 * BarHeight ELSE varinfo.yres

(* The pixels of a line, counted from start, and the bar each belongs to. *)
LineBars == IF build = "ycbcr" THEN [j \in 0 .. varinfo.xres - 1 |-> line \div BarHeight]
                               ELSE [j \in 0 .. 8 * BarWidth - 1 |-> j \div BarWidth]

NextStart == start + (IF build = "ycbcr" THEN LineLen ELSE 8 * BarWidth)

FillLine ==
  /\ pc = "fill" /\ line < Lines
  /\ LET pixel(a) == a \div PixelBytes - start
     IN  buffer' = [a \in DOMAIN buffer |->
                      IF pixel(a) \in DOMAIN LineBars THEN LineBars[pixel(a)] ELSE buffer[a]]
  /\ stray' = (stray \/ \E j \in DOMAIN LineBars : (start + j + 1) * PixelBytes > buffersize)
  /\ line' = line + 1 /\ start' = NextStart
  /\ UNCHANGED <<build, device, pc, known, display_fd>>

FillDone == /\ pc = "fill" /\ line = Lines
            /\ pc' = "sleep"
            /\ UNCHANGED <<build, device, known, display_fd, fill>>

(* sleep(1), and the same bars again: i stays 0, and with it the table of colors. *)
Again == /\ pc = "sleep"
         /\ pc' = "fill" /\ line' = 0 /\ start' = 0
         /\ UNCHANGED <<build, device, known, display_fd, buffer, stray>>
-------------------------------------------------------------------------------
Next == \/ OpenDisplay \/ GetFix \/ GetVar \/ PutVar \/ GetFixAgain \/ Mmap \/ Exit
        \/ FillLine \/ FillDone \/ Again

Spec == Init /\ [][Next]_vars
-------------------------------------------------------------------------------
(* No pixel is stored outside the mapped buffer, whatever the size, padding and depth *)
(* of the mode; but the program does not look at the depth, and needs 16 bits of it,   *)
(* and the rounding of "rgb" needs a line length of full 16 bytes.                     *)
StoresInBuffer ==
  stray => IF build = "ycbcr" THEN varinfo.bits_per_pixel < 16 ELSE fixinfo % 16 # 0

(* The modes that each version is written for. *)
Fits == IF build = "ycbcr"
        THEN device.bits_per_pixel = 16 /\ device.line_length % 2 = 0
        ELSE device.bits_per_pixel = 32 /\ device.line_length % 32 = 0

(* What the bars should be: in eighths of the height, lines that are left over aside, *)
(* or of the line.                                                                    *)
Reference(x, y) == IF build = "ycbcr" THEN y \div (device.yres \div 8)
                                      ELSE (8 * 4 * x) \div device.line_length

(* In these modes every pixel of the screen shows its bar after each filling, at the  *)
(* pitch the driver has now, padded or not.                                           *)
BarsMatchPixels ==
  pc = "sleep" /\ Fits =>
    \A x \in 0 .. device.xres - 1, y \in 0 .. Lines - 1, b \in 0 .. PixelBytes - 1 :
      buffer[y * device.line_length + x * PixelBytes + b] = Reference(x, y)
===============================================================================
