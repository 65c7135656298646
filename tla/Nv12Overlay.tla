----------------------------- MODULE Nv12Overlay -----------------------------
(***************************************************************************)
(* The two uses that examples/rknn_yolo/main.cpp makes of an NV12 image:     *)
(* the frame callback draws the frame rate and, for every detection, a      *)
(* frame and a label over it in place, before it is encoded; the worker     *)
(* converts its copy, and scales it, to the RGB input of the network.       *)
(*                                                                         *)
(* An NV12 buffer has one byte of luma for each pixel and then, for each    *)
(* block of two by two pixels, one byte of U and one of V.  A byte is given *)
(* by who wrote it last: the camera or a colour.  A write outside of the    *)
(* buffer would add its index to the domain of nv12.  A byte of the RGB     *)
(* image is the set of the bytes it was computed from.                      *)
(***************************************************************************)
EXTENDS Integers

CONSTANTS Widths, Heights, \* sizes of the image, even
          Coords,          \* coordinates of the corners of a detection
          Lengths,         \* lengths of a text
          Border,          \* 8, lines of a frame
          Cell,            \* 8, rows and columns of a glyph
          text_scale,      \* 4, pixels for a bit of a glyph
          Margin,          \* 5, around the text of a label
          Corner,          \* 20, where the frame rate stands
          INPUT_W, INPUT_H, \* 640 and 640, sizes of the RGB image
          MaxDraws         \* texts and detections drawn; bounds the model

Even(n) == n \in Nat /\ n % 2 = 0

ASSUME SizesAssumption == \A n \in Widths \union Heights : Even(n) /\ n > 0

ASSUME DrawingAssumption ==
  /\ Coords \subseteq Int /\ Lengths \subseteq Nat
  /\ {Border, Cell, text_scale, Margin, Corner} \subseteq Nat
  /\ {INPUT_W, INPUT_H} \subseteq Nat \ {0}

VARIABLES w, h,   \* size of the image
          nv12,   \* the buffer
          draws,  \* texts and detections drawn
          input,  \* input_buf, the RGB image
          done    \* the image was converted

vars == <<w, h, nv12, draws, input, done>>

\* The bytes of the image, 3/2 for each pixel.
Buffer == 0..(w * h + (h \div 2) * w - 1)

\* The bytes of the RGB image, three for each pixel.
InputBuffer == 0..(INPUT_W * INPUT_H * 3 - 1)

Init ==
  /\ w \in Widths /\ h \in Heights
  /\ nv12 = [k \in Buffer |-> "camera"]
  /\ draws = 0
  /\ input = [k \in InputBuffer |-> {}]
  /\ done = FALSE

-----------------------------------------------------------------------------
(* Pixels and bytes.                                                       *)

\* Variant: the column of a pixel is not rounded to its block.
uv_offset_odd(px, py)  == w * h + (py \div 2) * w + px
uv_offset(px, py)      == w * h + (py \div 2) * w + (px - (px % 2))

Bytes(px, py) == {py * w + px, uv_offset(px, py), uv_offset(px, py) + 1}

Paint(buf, pixels, colour) ==
  LET written == UNION {Bytes(p[1], p[2]) : p \in pixels} IN
  [k \in DOMAIN buf \union written |-> IF k \in written THEN colour ELSE buf[k]]

Least(a, b)    == IF a <= b THEN a ELSE b
Greatest(a, b) == IF a >= b THEN a ELSE b

\* Variant: the right and the lower bound are one too far.
fill_rect_beyond(x1, y1, x2, y2) ==
  (Greatest(0, x1)..Least(w, x2)) \X (Greatest(0, y1)..Least(h, y2))
\* The pixels fill_rect_nv12() writes.
fill_rect(x1, y1, x2, y2) ==
  (Greatest(0, x1)..Least(w - 1, x2)) \X (Greatest(0, y1)..Least(h - 1, y2))

\* The pixels draw_text_nv12() writes: each bit of its glyphs is a square,
\* of which the part outside of the image is left out.
draw_text(bits, x, y) ==
  {p \in (0..(w - 1)) \X (0..(h - 1)) :
     \E b \in bits : /\ p[1] \in (x + b[1] * text_scale)..(x + b[1] * text_scale + text_scale - 1)
                     /\ p[2] \in (y + b[2] * text_scale)..(y + b[2] * text_scale + text_scale - 1)}

\* The bits of the glyphs of a text, of which a font sets some.
Bits(len) == (0..(len * Cell - 1)) \X (0..(Cell - 1))

-----------------------------------------------------------------------------
(* The frame callback.                                                     *)

text_w(len) == len * Cell * text_scale
text_h == Cell * text_scale

\* The sides of a detection, Border lines each.
Sides(rx1, ry1, rx2, ry2) ==
  UNION {   fill_rect(rx1, ry1 + i, rx2, ry1 + i)
     \union fill_rect(rx1, ry2 - i, rx2, ry2 - i)
     \union fill_rect(rx1 + i, ry1, rx1 + i, ry2)
     \union fill_rect(rx2 - i, ry1, rx2 - i, ry2) : i \in 0..(Border - 1)}

\* The bar above it, and the place of the text on the bar.
Bar(len, rx1, ry1) ==
  fill_rect(rx1, ry1 - text_h - 2 * Margin, rx1 + text_w(len) + 2 * Margin, ry1)
Label(bits, rx1, ry1) == draw_text(bits, rx1 + Margin, ry1 - text_h - Margin)

\* draw_text_nv12() of the frame rate.
DrawRate ==
  /\ draws = 0
  /\ \E len \in Lengths : \E bits \in SUBSET Bits(len) :
       nv12' = Paint(nv12, draw_text(bits, Corner, Corner), "red")
  /\ draws' = 1
  /\ UNCHANGED <<w, h, input, done>>

\* A detection: its sides, the bar, and the name of its class.
DrawDetection ==
  /\ draws \in 1..(MaxDraws - 1)
  /\ \E rx1, ry1, rx2, ry2 \in Coords, len \in Lengths :
       \E bits \in SUBSET Bits(len) :
         nv12' = Paint(Paint(nv12, Sides(rx1, ry1, rx2, ry2) \union Bar(len, rx1, ry1), "red"),
                       Label(bits, rx1, ry1), "blue")
  /\ draws' = draws + 1
  /\ UNCHANGED <<w, h, input, done>>

-----------------------------------------------------------------------------
(* The worker.                                                             *)

\* The column (the row) of the image that one of the RGB image is taken from:
\* the nearest on its left (above).  The factors of the program, 6 and 3.375,
\* are exact as a float, and so is the product.
Nearest(d, size, input_size) == Least((d * size) \div input_size, size - 1)

\* The bytes a pixel is converted from, and those it is written to.
Read(sx_i, sy_i) ==
  LET uv == w * h + (sy_i \div 2) * w + (sx_i - (sx_i % 2)) IN
  {sy_i * w + sx_i, uv, uv + 1}
Rgb(dx, dy) == {(dy * INPUT_W + dx) * 3 + c : c \in 0..2}

\* What preprocess_nv12_to_rgb() writes to byte k: the conversion of pixels.
Converted(k) ==
  UNION {Read(Nearest(p[1], w, INPUT_W), Nearest(p[2], h, INPUT_H)) :
           p \in {p \in (0..(INPUT_W - 1)) \X (0..(INPUT_H - 1)) : k \in Rgb(p[1], p[2])}}

preprocess_nv12_to_rgb ==
  /\ ~done /\ done' = TRUE
  /\ input' = [k \in InputBuffer \union
                      UNION {Rgb(dx, dy) : dx \in 0..(INPUT_W - 1), dy \in 0..(INPUT_H - 1)} |->
                 Converted(k)]
  /\ UNCHANGED <<w, h, nv12, draws>>

-----------------------------------------------------------------------------
\* All detections are drawn.
Finished == draws > 0 /\ done /\ UNCHANGED vars

Next == DrawRate \/ DrawDetection \/ preprocess_nv12_to_rgb \/ Finished

Spec == Init /\ [][Next]_vars

-----------------------------------------------------------------------------
(* Properties.                                                             *)

\* The variables have their kinds, and no write goes outside of the image,
\* wherever a detection lies and however long its label is; nor does a read
\* or a write of the conversion, whatever the two sizes are.
InBuffer ==
  /\ w \in Widths /\ h \in Heights /\ draws \in Nat /\ done \in BOOLEAN
  /\ DOMAIN nv12 = Buffer
  /\ DOMAIN input = InputBuffer /\ \A k \in InputBuffer : input[k] \subseteq Buffer

\* The two bytes of a block's chroma are of one colour: drawing never leaves
\* a block with the U of one and the V of another.  Drawing and conversion,
\* which compute offsets in code of their own, agree on the layout: every byte
\* of the network's input is computed from what drawing takes for one pixel.
WholeChroma ==
  /\ \A px \in 0..(w - 1), py \in 0..(h - 1) :
       nv12[uv_offset(px, py)] = nv12[w * h + (py \div 2) * w + 2 * (px \div 2) + 1]
  /\ done => \A k \in InputBuffer :
       \E px \in 0..(w - 1), py \in 0..(h - 1) : input[k] = Bytes(px, py)
=============================================================================
