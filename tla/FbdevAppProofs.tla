----------------------------- MODULE FbdevAppProofs -----------------------------
(***************************************************************************)
(* Proofs about fbdev_app.c, for every set of modes a driver may have.       *)
(***************************************************************************)
EXTENDS FbdevApp, TLAPS

(* Products and quotients of numbers that are all variables: the provers know little *)
(* of them beyond these facts.                                                         *)
LEMMA Times ==
  ASSUME NEW a \in Nat, NEW b \in Nat, NEW c \in Nat, a <= b
  PROVE  /\ a * c \in Nat /\ b * c \in Nat
         /\ a * c <= b * c
         /\ a < b => a * c + c <= b * c
<1>1. PICK d \in Nat : b = a + d
  <2> WITNESS b - a \in Nat
  <2> QED OBVIOUS
<1>2. b * c = a * c + d * c /\ d * c \in Nat /\ a * c \in Nat
  BY <1>1
<1>3. d > 0 => d * c >= c
  BY <1>1
<1> QED
  BY <1>1, <1>2, <1>3

LEMMA Quotient ==
  ASSUME NEW n \in Nat, NEW d \in Nat \ {0}
  PROVE  /\ n \div d \in Nat
         /\ (n \div d) * d <= n /\ n < (n \div d) * d + d
  OBVIOUS

LEMMA QuotientUnique ==
  ASSUME NEW n \in Nat, NEW d \in Nat \ {0}, NEW q \in Nat, q * d <= n, n < q * d + d
  PROVE  n \div d = q
<1> DEFINE r == n \div d
<1>1. r \in Nat /\ r * d <= n /\ n < r * d + d
  BY Quotient
<1> HIDE DEF r
<1>2. CASE q < r
  BY <1>1, <1>2, Times
<1>3. CASE r < q
  BY <1>1, <1>3, Times
<1>4. q = r
  BY <1>1, <1>2, <1>3
<1> QED
  BY <1>4 DEF r
-------------------------------------------------------------------------------
(* What the program knows: from the second ioctl on, the size and depth of the mode, *)
(* which setting it again does not change; before the mapping, the line length of     *)
(* the mode that was set.                                                             *)
Settled == pc \in {"mmap", "fill", "sleep"}

Knows ==
  /\ build \in Builds /\ device \in Modes
  /\ pc \in {"putvar", "getfix again", "mmap", "fill", "sleep"} =>
       /\ varinfo \in Modes
       /\ varinfo.xres = device.xres /\ varinfo.yres = device.yres
       /\ varinfo.bits_per_pixel = device.bits_per_pixel
  /\ Settled => fixinfo = device.line_length

Filling == pc \in {"fill", "sleep"}

(* Pixels from one line to the next. *)
Stride == IF build = "ycbcr" THEN LineLen ELSE 8 * BarWidth

(* Where filling is, and that what it has stored so far is inside the buffer. *)
Position ==
  /\ ~Filling => line = 0 /\ start = 0 /\ ~stray
  /\ Filling => line \in 0 .. Lines /\ start = line * Stride
  /\ pc = "sleep" => line = Lines
  /\ StoresInBuffer

(* The lines filled so far show their bars. *)
LinesMatch ==
  Filling =>
    /\ DOMAIN buffer = 0 .. buffersize - 1
    /\ Fits => \A x \in 0 .. device.xres - 1, y \in 0 .. line - 1, b \in 0 .. PixelBytes - 1 :
                 buffer[y * device.line_length + x * PixelBytes + b] = Reference(x, y)

FbInv == Knows /\ Position /\ LinesMatch
-------------------------------------------------------------------------------
(* The geometry of a filling, both versions alike. *)

Exempt == IF build = "ycbcr" THEN varinfo.bits_per_pixel < 16 ELSE fixinfo % 16 # 0

(* Pixels of a line. *)
Width == IF build = "ycbcr" THEN varinfo.xres ELSE 8 * BarWidth

LEMMA Sizes ==
  ASSUME Knows, Settled
  PROVE  /\ fixinfo \in Nat /\ fixinfo = device.line_length
         /\ varinfo.xres \in Nat /\ varinfo.xres = device.xres
         /\ varinfo.yres \in Nat /\ varinfo.yres = device.yres
         /\ varinfo.bits_per_pixel \in Nat /\ varinfo.bits_per_pixel = device.bits_per_pixel
         /\ fixinfo * 8 >= varinfo.xres * varinfo.bits_per_pixel
         /\ build \in {"ycbcr", "rgb"}
         /\ Lines \in Nat /\ Lines <= varinfo.yres
         /\ buffersize = fixinfo * varinfo.yres
<1>1. /\ device \in [xres : Nat, yres : Nat, bits_per_pixel : Nat, line_length : Nat]
      /\ device.line_length * 8 >= device.xres * device.bits_per_pixel
  BY ModesAssumption DEF Knows
<1>2. varinfo.yres = device.yres /\ device.yres \in Nat
  BY <1>1 DEF Knows, Settled
<1>3. Lines \in Nat /\ Lines <= varinfo.yres
  BY <1>2 DEF Lines, BarHeight
<1> QED
  BY <1>1, <1>2, <1>3, BuildsAssumption DEF Knows, Settled, buffersize

LEMMA Geometry ==
  ASSUME Knows, Settled
  PROVE  /\ PixelBytes \in {2, 4} /\ Stride \in Nat /\ Width \in Nat
         /\ DOMAIN LineBars = 0 .. Width - 1
         /\ ~Exempt => Stride * PixelBytes <= fixinfo /\ Width * PixelBytes <= fixinfo
         /\ Fits => /\ Stride * PixelBytes = fixinfo
                    /\ varinfo.xres <= Width /\ Width <= Stride
<1>1. CASE build = "ycbcr"
  <2>1. /\ PixelBytes = 2 /\ Stride = fixinfo \div 2 /\ Width = varinfo.xres
        /\ DOMAIN LineBars = 0 .. Width - 1
    BY <1>1 DEF PixelBytes, Stride, LineLen, Width, LineBars
  <2>2. varinfo.bits_per_pixel >= 16 => varinfo.xres * 2 <= fixinfo
    <3>1. varinfo.bits_per_pixel >= 16 => 16 * varinfo.xres <= varinfo.bits_per_pixel * varinfo.xres
      BY Sizes, Times
    <3> QED
      BY <3>1, Sizes
  <2>3. Fits => varinfo.bits_per_pixel = 16 /\ fixinfo % 2 = 0
    BY <1>1, Sizes DEF Fits
  <2>4. Fits => fixinfo = 2 * (fixinfo \div 2)
    BY <2>3, Sizes
  <2>5. Exempt <=> varinfo.bits_per_pixel < 16
    BY <1>1 DEF Exempt
  <2>6. fixinfo \div 2 \in Nat /\ (fixinfo \div 2) * 2 <= fixinfo
    BY Sizes
  <2>7. /\ fixinfo \in Nat /\ varinfo.xres \in Nat /\ varinfo.bits_per_pixel \in Nat
    BY Sizes
  <2>8. ~Exempt => Stride * PixelBytes <= fixinfo /\ Width * PixelBytes <= fixinfo
    BY <2>1, <2>2, <2>5, <2>6, <2>7
  <2>9. Fits => Stride * PixelBytes = fixinfo /\ varinfo.xres <= Width /\ Width <= Stride
    BY <2>1, <2>2, <2>3, <2>4, <2>6, <2>7
  <2> QED
    BY <2>1, <2>6, <2>7, <2>8, <2>9
<1>2. CASE build = "rgb"
  <2>1. /\ PixelBytes = 4 /\ Stride = 8 * BarWidth /\ Width = 8 * BarWidth
        /\ DOMAIN LineBars = 0 .. Width - 1
    BY <1>2 DEF PixelBytes, Stride, Width, LineBars
  <2>2. /\ LineLen \in Nat /\ BarWidth \in Nat /\ 32 * BarWidth <= LineLen
        /\ fixinfo % 16 = 0 => LineLen = fixinfo
        /\ fixinfo % 32 = 0 => LineLen = fixinfo /\ 32 * BarWidth = fixinfo
    BY <1>2, Sizes DEF LineLen, BarWidth
  <2>3. Fits => varinfo.bits_per_pixel = 32 /\ fixinfo % 32 = 0
    BY <1>2, Sizes DEF Fits
  <2>4. Fits => varinfo.xres * 4 <= fixinfo
    BY <2>3, Sizes
  <2> QED
    BY <1>2, <2>1, <2>2, <2>3, <2>4, Sizes DEF Exempt
<1> QED
  BY <1>1, <1>2, Sizes

(* The bars of the line that is filled next are the right ones. *)
LEMMA RightBars ==
  ASSUME Knows, Settled, Fits, line \in Nat, line < Lines, NEW x \in 0 .. varinfo.xres - 1
  PROVE  x \in DOMAIN LineBars /\ LineBars[x] = Reference(x, line)
<1>1. x \in Nat /\ x \in 0 .. Width - 1 /\ DOMAIN LineBars = 0 .. Width - 1
  BY Geometry, Sizes
<1>2. CASE build = "ycbcr"
  BY <1>1, <1>2, Sizes DEF LineBars, Width, Reference, BarHeight
<1>3. CASE build = "rgb"
  <2>1. BarWidth \in Nat /\ Width = 8 * BarWidth /\ 8 * BarWidth * 4 = fixinfo
    <3>1. LineLen \in Nat
      BY <1>3, Sizes DEF LineLen
    <3>2. BarWidth \in Nat
      BY <3>1 DEF BarWidth
    <3> QED
      BY <1>3, <3>2, Geometry DEF Stride, PixelBytes, Width
  <2>2. BarWidth > 0
    BY <1>1, <2>1
  <2> DEFINE q == x \div BarWidth
  <2>3. q \in Nat /\ q * BarWidth <= x /\ x < q * BarWidth + BarWidth
    <3>1. x \in Nat /\ BarWidth \in Nat \ {0}
      BY <1>1, <2>1, <2>2
    <3> HIDE DEF q
    <3>2. x \div BarWidth \in Nat
          /\ (x \div BarWidth) * BarWidth <= x /\ x < (x \div BarWidth) * BarWidth + BarWidth
      BY <3>1, Quotient
    <3> QED
      BY <3>2 DEF q
  <2>4. LineBars[x] = q
    BY <1>1, <1>3, <2>1 DEF LineBars
  <2> HIDE DEF q
  <2>5. q * fixinfo = 32 * (q * BarWidth) /\ q * BarWidth \in Nat
    <3> DEFINE w == BarWidth
    <3>1. w \in Nat /\ fixinfo = 32 * w
      BY <2>1
    <3>2. q \in Nat
      BY <2>3
    <3> HIDE DEF w
    <3>3. q * (32 * w) = 32 * (q * w) /\ q * w \in Nat
      BY <3>1, <3>2
    <3> QED
      BY <3>1, <3>3 DEF w
  <2>6. q * fixinfo <= 32 * x /\ 32 * x < q * fixinfo + fixinfo
    BY <1>1, <2>1, <2>3, <2>5
  <2>7. (32 * x) \div fixinfo = q
    BY <1>1, <2>1, <2>2, <2>3, <2>6, QuotientUnique
  <2> QED
    BY <1>1, <1>3, <2>4, <2>7, Sizes DEF Reference
<1> QED
  BY <1>2, <1>3, Sizes

(* Where the bytes of a pixel are. *)
Address(x, y, b) == y * device.line_length + x * PixelBytes + b

LEMMA AddressInBuffer ==
  ASSUME Knows, Settled, Fits, NEW x \in 0 .. varinfo.xres - 1, NEW y \in Nat, y < Lines,
         NEW b \in 0 .. PixelBytes - 1
  PROVE  /\ Address(x, y, b) \in 0 .. buffersize - 1
         /\ Address(x, y, b) \div PixelBytes = y * Stride + x
<1>a. /\ Stride \in Nat /\ PixelBytes \in {2, 4} /\ Stride * PixelBytes = fixinfo
      /\ Width \in Nat /\ varinfo.xres <= Width /\ Width <= Stride
  BY Geometry
<1>b. fixinfo \in Nat /\ varinfo.xres \in Nat
  BY Sizes
<1>c. x \in Nat /\ x < Stride /\ b \in Nat /\ b < PixelBytes
  BY <1>a, <1>b
<1> DEFINE S == Stride  L == fixinfo  P == PixelBytes
<1>1. /\ S \in Nat /\ L \in Nat /\ P \in {2, 4} /\ S * P = L
      /\ x \in Nat /\ x < S /\ b \in Nat /\ b < P
  BY <1>a, <1>b, <1>c
<1>2. y + 1 \in Nat /\ y + 1 <= varinfo.yres /\ varinfo.yres \in Nat
  BY Sizes
<1>3. Address(x, y, b) = y * L + x * P + b /\ buffersize = varinfo.yres * L
  <2>1. buffersize = fixinfo * varinfo.yres /\ fixinfo = device.line_length
    BY Sizes
  <2> QED
    BY <2>1, <1>1, <1>2 DEF Address
<1>4. Address(x, y, b) \div PixelBytes = (y * L + x * P + b) \div P
  BY <1>3
<1> HIDE DEF S, L, P
<1>5. y * L \in Nat /\ y * L + L <= varinfo.yres * L
  BY <1>1, <1>2, Times
<1>6. x * P + b < L /\ x * P + b \in Nat
  BY <1>1
<1>7. y * S \in Nat /\ y * L = (y * S) * P
  BY <1>1
<1>8. y * L + x * P + b \in Nat /\ y * S + x \in Nat
  BY <1>1, <1>5, <1>6, <1>7
<1>9. /\ (y * S + x) * P <= y * L + x * P + b
      /\ y * L + x * P + b < (y * S + x) * P + P
  BY <1>1, <1>7
<1>10. P \in Nat \ {0}
  BY <1>1
<1>11. (y * L + x * P + b) \div P = y * S + x
  BY <1>8, <1>9, <1>10, QuotientUnique
<1>12. Address(x, y, b) \in 0 .. buffersize - 1
  BY <1>1, <1>2, <1>3, <1>5, <1>6, Times
<1> QED
  BY <1>4, <1>11, <1>12 DEF S

LEMMA StoreInBuffer ==
  ASSUME Knows, Settled, ~Exempt, line \in Nat, line < Lines, start = line * Stride,
         NEW j \in DOMAIN LineBars
  PROVE  (start + j + 1) * PixelBytes <= buffersize
<1>a. /\ Stride \in Nat /\ PixelBytes \in {2, 4} /\ Stride * PixelBytes <= fixinfo
      /\ Width \in Nat /\ Width * PixelBytes <= fixinfo
      /\ DOMAIN LineBars = 0 .. Width - 1
  BY Geometry
<1>b. fixinfo \in Nat
  BY Sizes
<1>c. j \in Nat /\ j < Width
  BY <1>a
<1> DEFINE S == Stride  L == fixinfo  P == PixelBytes  W == Width
<1>1. /\ S \in Nat /\ L \in Nat /\ P \in {2, 4} /\ W \in Nat /\ S * P <= L /\ W * P <= L
      /\ j \in Nat /\ j < W
  BY <1>a, <1>b, <1>c
<1>2. line + 1 \in Nat /\ line + 1 <= varinfo.yres /\ varinfo.yres \in Nat
  BY Sizes
<1>3. buffersize = varinfo.yres * L
  <2>1. buffersize = fixinfo * varinfo.yres
    BY Sizes
  <2> QED
    BY <2>1, <1>1, <1>2
<1> HIDE DEF S, L, P, W
<1>4. line * L \in Nat /\ line * L + L <= varinfo.yres * L
  BY <1>1, <1>2, Times
<1>5. line * S \in Nat /\ (line * S) * P <= line * L
  <2>1. (line * S) * P = (S * P) * line /\ line * S \in Nat /\ S * P \in Nat
    BY <1>1
  <2>2. (S * P) * line <= L * line
    BY <1>1, <2>1, Times
  <2> QED
    BY <1>1, <2>1, <2>2
<1>6. (j + 1) * P <= W * P
  BY <1>1
<1>7. (line * S + j + 1) * P = (line * S) * P + (j + 1) * P
  BY <1>1, <1>5
<1>8. (line * S) * P \in Nat /\ (j + 1) * P \in Nat /\ W * P \in Nat /\ varinfo.yres * L \in Nat
  BY <1>1, <1>2, <1>5
<1>9. (line * S + j + 1) * P <= buffersize
  BY <1>1, <1>3, <1>4, <1>5, <1>6, <1>7, <1>8
<1> QED
  BY <1>9 DEF S, P
-------------------------------------------------------------------------------
LEMMA Initially == Init => FbInv
  BY DEF Init, FbInv, Knows, Settled, Position, LinesMatch, Filling, StoresInBuffer

(* The ioctls, until the buffer is mapped. *)
LEMMA SettingUpKeeps ==
  ASSUME FbInv, OpenDisplay \/ GetFix \/ GetVar \/ PutVar \/ GetFixAgain \/ Exit
  PROVE  FbInv'
<1>1. ~Filling /\ ~Filling' /\ UNCHANGED <<build, line, start, stray>> /\ pc' # "sleep"
  BY DEF OpenDisplay, GetFix, GetVar, PutVar, GetFixAgain, Exit, Ioctl, Filling, fill
<1>2. Position' /\ LinesMatch'
  <2>1. line' = 0 /\ start' = 0 /\ ~stray'
    BY <1>1 DEF FbInv, Position
  <2> QED
    BY <1>1, <2>1 DEF Position, LinesMatch, StoresInBuffer
<1>3. CASE OpenDisplay \/ GetFix \/ GetVar \/ GetFixAgain \/ Exit
  <2>1. CASE OpenDisplay \/ Exit
    BY <1>2, <2>1 DEF FbInv, Knows, Settled, known, OpenDisplay, Exit
  <2>2. CASE GetFix
    BY <1>2, <2>2 DEF FbInv, Knows, Settled, GetFix, Ioctl
  <2>3. CASE GetVar
    BY <1>2, <2>3 DEF FbInv, Knows, Settled, GetVar, Ioctl
  <2>4. CASE GetFixAgain
    BY <1>2, <2>4 DEF FbInv, Knows, Settled, GetFixAgain, Ioctl
  <2> QED
    BY <1>3, <2>1, <2>2, <2>3, <2>4
<1>4. CASE PutVar
  <2>1. /\ pc = "putvar" /\ pc' \in {"getfix again", "exit1"} /\ device' \in Modes
        /\ device' = [device EXCEPT !.line_length = device'.line_length]
        /\ UNCHANGED <<build, varinfo>>
    BY <1>4 DEF PutVar, Ioctl, known
  <2>2. device \in [xres : Nat, yres : Nat, bits_per_pixel : Nat, line_length : Nat]
    BY ModesAssumption DEF FbInv, Knows
  <2>3. /\ device'.xres = device.xres /\ device'.yres = device.yres
        /\ device'.bits_per_pixel = device.bits_per_pixel
    BY <2>1, <2>2
  <2>4. Knows'
    BY <2>1, <2>3 DEF FbInv, Knows, Settled
  <2> QED
    BY <1>2, <2>4 DEF FbInv
<1> QED
  BY <1>2, <1>3, <1>4 DEF FbInv

LEMMA MmapKeeps ==
  ASSUME FbInv, Mmap
  PROVE  FbInv'
<1>1. /\ UNCHANGED <<build, device, known, line, start, stray>>
      /\ pc = "mmap" /\ line = 0 /\ start = 0 /\ ~stray
      /\ \/ pc' = "fill" /\ buffer' = [a \in 0 .. buffersize - 1 |-> Blank]
         \/ pc' = "exit1"
  BY DEF FbInv, Position, Filling, Mmap
<1>2. Knows' /\ UNCHANGED <<Lines, Stride, buffersize>>
  BY <1>1 DEF FbInv, Knows, Settled, known, Lines, BarHeight, Stride, LineLen, BarWidth, buffersize
<1>3. CASE pc' = "exit1"
  BY <1>1, <1>2, <1>3 DEF FbInv, Position, LinesMatch, Filling, StoresInBuffer
<1>4. CASE pc' = "fill"
  <2>1. Filling' /\ line' = 0 /\ start' = 0 /\ ~stray' /\ DOMAIN buffer' = 0 .. buffersize - 1
    BY <1>1, <1>4 DEF Filling
  <2>2. Lines' \in Nat /\ Stride' \in Nat
    <3>1. Knows /\ Settled
      BY <1>1 DEF FbInv, Settled
    <3> QED
      BY <1>2, <3>1, Sizes, Geometry
  <2> QED
    BY <1>2, <1>4, <2>1, <2>2 DEF FbInv, Position, LinesMatch, StoresInBuffer
<1> QED
  BY <1>1, <1>3, <1>4

LEMMA FillLineKeeps ==
  ASSUME FbInv, FillLine
  PROVE  FbInv'
<1>1. /\ Knows /\ Settled /\ Filling /\ Filling' /\ pc = "fill" /\ pc' = "fill"
      /\ line \in Nat /\ line < Lines /\ start = line * Stride
      /\ line' = line + 1
      /\ UNCHANGED <<build, device, known, fixinfo, varinfo>>
  <2>1. Lines \in Nat
    BY Sizes DEF FbInv, FillLine, Settled
  <2> QED
    BY <2>1 DEF FbInv, FillLine, Position, Filling, Settled, known
<1>2. UNCHANGED <<Lines, Stride, LineLen, PixelBytes, buffersize, Exempt, Fits>>
      /\ \A x, y : UNCHANGED Reference(x, y)
  BY <1>1 DEF Lines, BarHeight, Stride, LineLen, BarWidth, PixelBytes, buffersize, Exempt, Fits,
              Reference
<1>3. Knows'
  BY <1>1 DEF Knows, Settled
<1>4. Position'
  <2>1. start' = line' * Stride'
    <3>1. start' = start + Stride /\ Stride \in Nat
      BY <1>1, Geometry DEF FillLine, NextStart, Stride
    <3>2. (line + 1) * Stride = line * Stride + Stride
      BY <1>1, <3>1
    <3> QED
      BY <1>1, <1>2, <3>1, <3>2
  <2>2. line' \in 0 .. Lines'
    BY <1>1, <1>2, Sizes
  <2>3. stray' => Exempt
    <3>1. CASE stray
      BY <3>1 DEF FbInv, Position, StoresInBuffer, Exempt
    <3>2. CASE \E j \in DOMAIN LineBars : (start + j + 1) * PixelBytes > buffersize
      <4>1. SUFFICES ASSUME ~Exempt
                     PROVE  FALSE
        OBVIOUS
      <4>2. PICK j \in DOMAIN LineBars : (start + j + 1) * PixelBytes > buffersize
        BY <3>2
      <4>3. (start + j + 1) * PixelBytes <= buffersize
        BY <1>1, <4>1, StoreInBuffer
      <4>4. /\ start \in Nat /\ j \in Nat /\ PixelBytes \in Nat /\ buffersize \in Nat
        <5>1. Stride \in Nat /\ Width \in Nat /\ DOMAIN LineBars = 0 .. Width - 1
              /\ PixelBytes \in {2, 4}
          BY <1>1, Geometry
        <5>2. fixinfo \in Nat /\ varinfo.yres \in Nat /\ buffersize = fixinfo * varinfo.yres
          BY <1>1, Sizes
        <5> QED
          BY <1>1, <5>1, <5>2
      <4> QED
        BY <4>2, <4>3, <4>4
    <3> QED
      BY <3>1, <3>2 DEF FillLine
  <2> QED
    BY <1>1, <1>2, <2>1, <2>2, <2>3 DEF Position, StoresInBuffer, Exempt
<1>5. LinesMatch'
  <2>1. DOMAIN buffer = 0 .. buffersize - 1 /\ DOMAIN buffer' = DOMAIN buffer
    BY <1>1 DEF FbInv, LinesMatch, FillLine
  <2>2. ASSUME Fits, NEW x \in 0 .. device.xres - 1, NEW y \in 0 .. line,
               NEW b \in 0 .. PixelBytes - 1
        PROVE  buffer'[Address(x, y, b)] = Reference(x, y)
    <3> DEFINE a == Address(x, y, b)
               pixel == a \div PixelBytes - start
    <3>1. /\ Stride \in Nat /\ Width \in Nat /\ DOMAIN LineBars = 0 .. Width - 1
          /\ varinfo.xres <= Width /\ Width <= Stride
          /\ varinfo.xres = device.xres /\ varinfo.xres \in Nat
      BY <1>1, <2>2, Sizes, Geometry
    <3>2. x \in 0 .. varinfo.xres - 1 /\ y \in Nat /\ y < Lines
      BY <1>1, <3>1, Sizes
    <3>3. a \in DOMAIN buffer /\ a \div PixelBytes = y * Stride + x
      BY <1>1, <2>1, <2>2, <3>2, AddressInBuffer
    <3>4. buffer'[a] = IF pixel \in DOMAIN LineBars THEN LineBars[pixel] ELSE buffer[a]
      BY <3>3 DEF FillLine
    <3> HIDE DEF a
    <3>5. pixel = (y * Stride + x) - line * Stride
      BY <1>1, <3>3
    <3>6. CASE y = line
      <4>1. pixel = x
        BY <1>1, <3>1, <3>2, <3>5, <3>6
      <4>2. x \in DOMAIN LineBars /\ LineBars[x] = Reference(x, line)
        BY <1>1, <2>2, <3>2, RightBars
      <4> QED
        BY <3>4, <3>6, <4>1, <4>2 DEF a
    <3>7. CASE y < line
      <4>1. y * Stride + Stride <= line * Stride /\ y * Stride \in Nat /\ line * Stride \in Nat
        BY <1>1, <3>1, <3>2, <3>7, Times
      <4>2. pixel < 0 /\ pixel \in Int
        BY <3>1, <3>2, <3>5, <4>1
      <4>3. buffer'[a] = buffer[a]
        BY <3>1, <3>4, <4>2
      <4>4. y \in 0 .. line - 1
        BY <1>1, <3>2, <3>7
      <4>5. buffer[y * device.line_length + x * PixelBytes + b] = Reference(x, y)
        BY <1>1, <2>2, <4>4 DEF FbInv, LinesMatch
      <4> QED
        BY <4>3, <4>5 DEF a, Address
    <3> QED
      BY <1>1, <3>2, <3>6, <3>7
  <2> QED
    BY <1>1, <1>2, <2>1, <2>2 DEF LinesMatch, Address
<1> QED
  BY <1>3, <1>4, <1>5 DEF FbInv

LEMMA Inductive == FbInv /\ [Next]_vars => FbInv'
<1> SUFFICES ASSUME FbInv, [Next]_vars
             PROVE  FbInv'
  OBVIOUS
<1>1. CASE UNCHANGED vars
  BY <1>1 DEF vars, known, fill, FbInv, Knows, Settled, Position, LinesMatch, Filling, Lines,
              BarHeight, Stride, LineLen, BarWidth, PixelBytes, buffersize, Fits, Reference,
              StoresInBuffer
<1>2. CASE FillDone
  BY <1>2 DEF FillDone, known, fill, FbInv, Knows, Settled, Position, LinesMatch, Filling, Lines,
              BarHeight, Stride, LineLen, BarWidth, PixelBytes, buffersize, Fits, Reference,
              StoresInBuffer
<1>3. CASE Again
  <2>1. Knows /\ Settled /\ Lines \in Nat /\ Stride \in Nat
    BY <1>3, Sizes, Geometry DEF FbInv, Again, Settled
  <2> QED
    BY <1>3, <2>1 DEF Again, known, FbInv, Knows, Settled, Position, LinesMatch, Filling,
                      Lines, BarHeight, Stride, LineLen, BarWidth, PixelBytes, buffersize, Fits,
                      Reference, StoresInBuffer
<1> QED
  BY <1>1, <1>2, <1>3, SettingUpKeeps, MmapKeeps, FillLineKeeps DEF Next

THEOREM Invariance == Spec => []FbInv
  BY Initially, Inductive, PTL DEF Spec
-------------------------------------------------------------------------------
(* No pixel is stored outside the mapped buffer, for every size, padding and depth of *)
(* the mode, but for depths below 16 bits and, in "rgb", lines of no full 16 bytes.    *)
THEOREM NoStrayStore == Spec => []StoresInBuffer
<1>1. FbInv => StoresInBuffer
  BY DEF FbInv, Position
<1> QED
  BY <1>1, Invariance, PTL

(* After each filling every byte of the screen shows its bar, at the pitch the driver *)
(* has now, for every size and padding of the modes the program is written for.        *)
THEOREM BarsFillTheScreen == Spec => []BarsMatchPixels
<1>1. FbInv => BarsMatchPixels
  BY DEF FbInv, Position, LinesMatch, Filling, BarsMatchPixels
<1> QED
  BY <1>1, Invariance, PTL
===============================================================================
