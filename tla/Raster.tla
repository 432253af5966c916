------------------------------- MODULE Raster -------------------------------
(***************************************************************************)
(* render: a picture is reduced to black and white (Monochrome) and        *)
(* written as a 1-bit BMP (EncodeBMP1).  A pixel of the source is a gray   *)
(* of 0..255.                                                              *)
(*                                                                         *)
(* The code's buffer holds float64; here it holds integers, in units of    *)
(* 1/(256 * Unit) of a gray level.  With Unit a power of 16 that is large  *)
(* enough for the picture, each sixteenth of an error is a whole number of *)
(* these units and nothing is rounded.                                     *)
(***************************************************************************)
EXTENDS Integers, FiniteSets

CONSTANTS
    Unit,         \* bound: 16^n, n the most pixels an error passes through
    Blank         \* no picture, no file yet

ASSUME RasterAssumption == Unit \in Nat \ {0}

VARIABLES
    source,       \* the picture: mode, width, height, gray
    mono,         \* its reduction, or Blank
    file          \* the BMP file, or Blank

rasterVars == <<source, mono, file>>

(* Pixel (x, y) of a picture is gray[y * width + x]. *)
Area(p) == 0..(p.width * p.height - 1)

(* The pictures of the size of p. *)
Like(p) == [mode : {"threshold", "floyd_steinberg"}, width : {p.width},
            height : {p.height}, gray : [Area(p) -> 0..255]]

-----------------------------------------------------------------------------
(* luma8: a channel of the color is the 16-bit value 257 * gray, and the   *)
(* luminance is that divided by 256: white is 255.996, not 255.            *)
luma8(p, i) == 257 * p.gray[i] * Unit

White == 255 * 256 * Unit
Middle == 128 * 256 * Unit

BugWraps(buf, p, x, y, delta) ==     \* over the edge, into the next row
    IF y * p.width + x \notin DOMAIN buf THEN buf
    ELSE [buf EXCEPT ![y * p.width + x] = @ + delta]

(* diffuse: adds to the buffer, unless the pixel is outside. *)
diffuse(buf, p, x, y, delta) ==
    IF x < 0 \/ x >= p.width \/ y < 0 \/ y >= p.height THEN buf
    ELSE [buf EXCEPT ![y * p.width + x] = @ + delta]

(* Floyd-Steinberg: a pixel's error goes to four of the pixels to come.    *)
DiffuseFrom(p, buf, i) ==
    LET x   == i % p.width
        y   == i \div p.width
        err == buf[i] - (IF buf[i] >= Middle THEN White ELSE 0)
        b1  == diffuse(buf, p, x + 1, y,     (err * 7) \div 16)
        b2  == diffuse(b1,  p, x - 1, y + 1, (err * 3) \div 16)
        b3  == diffuse(b2,  p, x,     y + 1, (err * 5) \div 16)
    IN  diffuse(b3, p, x + 1, y + 1, err \div 16)

(* Buffers(p)[n]: the buffer once the first n pixels have been visited. *)
Buffers(p) ==
    LET buf[n \in 0..(p.width * p.height)] ==
            IF n = 0 THEN [i \in Area(p) |-> luma8(p, i)]
                     ELSE DiffuseFrom(p, buf[n - 1], n - 1)
    IN  buf

(* The pixels of the result, as the source's: row by row. *)
Monochrome(p) ==
    LET value(i) == IF p.mode = "threshold" THEN luma8(p, i) ELSE Buffers(p)[i][i]
    IN  [p EXCEPT !.gray = [i \in Area(p) |-> IF value(i) >= Middle THEN 255 ELSE 0]]

-----------------------------------------------------------------------------
pixelOffset == 14 + 40 + 8           \* two headers and two colors

rowStride(width) == ((width + 31) \div 32) * 4

isWhite(gray) == (299 * 257 * gray + 587 * 257 * gray + 114 * 257 * gray) \div 1000 >= 128 * 256

(* Pixel (x, y) as a bit; a row is filled with zeros. *)
BitAt(p, y, x) == IF x < p.width /\ isWhite(p.gray[y * p.width + x]) THEN 1 ELSE 0

BugPackedByte(p, y, k) ==            \* the least significant bit first
    LET bit(n) == BitAt(p, y, 8 * k + n)
    IN  bit(0) + 2 * bit(1) + 4 * bit(2) + 8 * bit(3)
        + 16 * bit(4) + 32 * bit(5) + 64 * bit(6) + 128 * bit(7)

(* The most significant bit is the leftmost pixel. *)
PackedByte(p, y, k) ==
    LET bit(n) == BitAt(p, y, 8 * k + n)
    IN  128 * bit(0) + 64 * bit(1) + 32 * bit(2) + 16 * bit(3)
        + 8 * bit(4) + 4 * bit(5) + 2 * bit(6) + bit(7)

(* The rows from the bottom up, each filled to a multiple of four bytes.   *)
EncodeBMP1(p) ==
    LET stride == rowStride(p.width)
        size   == stride * p.height
    IN  [fileSize |-> pixelOffset + size, pixelOffset |-> pixelOffset,
         width |-> p.width, height |-> p.height, dataSize |-> size,
         data |-> [n \in 0..(size - 1) |->
                      PackedByte(p, p.height - 1 - n \div stride, n % stride)]]

-----------------------------------------------------------------------------
RasterInit(Pictures) == source \in Pictures /\ mono = Blank /\ file = Blank

(* Renderer.Process: reduced, then encoded. *)
Process ==
    /\ file = Blank
    /\ mono' = Monochrome(source)
    /\ file' = EncodeBMP1(mono')
    /\ UNCHANGED source

(* The placeholder is encoded as it was drawn, without Monochrome. *)
EncodeDirectly ==
    /\ mono = Blank /\ file = Blank
    /\ file' = EncodeBMP1(source)
    /\ UNCHANGED <<source, mono>>
=============================================================================
