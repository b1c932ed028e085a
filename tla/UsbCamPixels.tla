---------------------------- MODULE UsbCamPixels ----------------------------
(***************************************************************************)
(* The pixel conversions of usb_cam.cpp, one pixel (or pair) at a time.    *)
(***************************************************************************)
EXTENDS Integers

Byte == 0..255

(* A read outside the table yields what lies there: no byte is promised.   *)
Outside == -1

(* uchar_clipping_table: 0 up to 0, 255 from 255 on, for -128 to 383.      *)
clipping_table_offset == 128
uchar_clipping_table ==
  [i \in 0..511 |->
     CASE i < 128 -> 0 [] i > 383 -> 255 [] OTHER -> i - 128]

CLIPVALUE(val) ==
  LET i == val + clipping_table_offset
  IN  IF i \in DOMAIN uchar_clipping_table THEN uchar_clipping_table[i] ELSE Outside

(* Mutant: the offsets of the chroma are left in.                          *)
YUV2RGB_no_offset(y, u, v) ==
  <<CLIPVALUE(y + ((v * 37221) \div 32768)),
    CLIPVALUE(y - ((u * 12975 + v * 18949) \div 32768)),
    CLIPVALUE(y + ((u * 66883) \div 32768))>>

(* >> 15 rounds down, as \div does.                                        *)
YUV2RGB(y, u, v) ==
  LET u2 == u - 128
      v2 == v - 128
  IN  <<CLIPVALUE(y + ((v2 * 37221) \div 32768)),
        CLIPVALUE(y - ((u2 * 12975 + v2 * 18949) \div 32768)),
        CLIPVALUE(y + ((u2 * 66883) \div 32768))>>

(* Two pixels share their chroma; the formats differ in the bytes' order.  *)
yuyv2rgb(b) == <<YUV2RGB(b[1], b[2], b[4]), YUV2RGB(b[3], b[2], b[4])>>
uyvy2rgb(b) == <<YUV2RGB(b[2], b[1], b[3]), YUV2RGB(b[4], b[1], b[3])>>

(* Ten bits of grey in two bytes, low byte first.                          *)
mono102mono8(b) == ((b[1] \div 4) % 64) + (b[2] % 4) * 64

rgb242rgb(b) == b

(* process_image(): monochrome images are one byte a pixel.                *)
process_image(pixel_format, b) ==
  CASE pixel_format = "yuyv" -> yuyv2rgb(b)
    [] pixel_format = "uyvy" -> uyvy2rgb(b)
    [] pixel_format = "yuvmono10" -> mono102mono8(b)
    [] OTHER -> rgb242rgb(b)

-----------------------------------------------------------------------------
(* What a camera sends of a colour (ITU-R BT.601, full range).             *)
Luma(c) == (299 * c[1] + 587 * c[2] + 114 * c[3]) \div 1000
ChromaU(c) == 128 + ((564 * (c[3] - Luma(c))) \div 1000)
ChromaV(c) == 128 + ((713 * (c[1] - Luma(c))) \div 1000)

(* Two neighbours share their chroma: the first one's, or the mean.        *)
Chromas(c, d) ==
  {<<ChromaU(c), ChromaV(c)>>,
   <<(ChromaU(c) + ChromaU(d)) \div 2, (ChromaV(c) + ChromaV(d)) \div 2>>}

SentAs(pixel_format, c, d, chroma) ==
  CASE pixel_format = "yuyv" -> <<Luma(c), chroma[1], Luma(d), chroma[2]>>
    [] pixel_format = "uyvy" -> <<chroma[1], Luma(c), chroma[2], Luma(d)>>

IsGrey(c) == c[1] = c[2] /\ c[2] = c[3]

(* Neighbours whose brightness differs by more than the clipping table can *)
(* make up for.                                                            *)
Contrast == 90
Apart(c, d) == Luma(c) > Luma(d) + Contrast \/ Luma(d) > Luma(c) + Contrast

(* Two neighbouring pixels are shown without a read outside the clipping   *)
(* table, unless they are apart: beside blue (luma 29), white is looked up *)
(* at 513 or more of the table's 512 places.  Greys are shown as they were *)
(* and two pixels of one colour in the order of its components.  The       *)
(* program's matrix is not the inverse of BT.601: a component may be off   *)
(* by 36, and two that differ by 47 be shown alike, by 48 not.             *)
PairTrue(c, d, shown) ==
  /\ Apart(c, d) \/ \A i \in 1..2, k \in 1..3 : shown[i][k] \in Byte
  /\ IsGrey(c) /\ IsGrey(d) => shown = <<c, d>>
  /\ c = d => \A i \in 1..2, k, l \in 1..3 :
                c[k] >= c[l] + 48 => shown[i][k] > shown[i][l]

(* All that a format can send is shown as it should be: any two colours    *)
(* side by side, any level of ten-bit grey, any colour as it is.           *)
ShownTrue(pixel_format, colours, levels) ==
  CASE pixel_format \in {"yuyv", "uyvy"} ->
         \A c, d \in colours : \A chroma \in Chromas(c, d) :
           PairTrue(c, d, process_image(pixel_format, SentAs(pixel_format, c, d, chroma)))
    [] pixel_format = "yuvmono10" ->
         \A x \in levels : process_image(pixel_format, <<x % 256, x \div 256>>) = x \div 4
    [] OTHER -> \A c \in colours : process_image(pixel_format, c) = c
=============================================================================
