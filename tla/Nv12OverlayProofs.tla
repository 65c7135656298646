-------------------------- MODULE Nv12OverlayProofs --------------------------
(***************************************************************************)
(* For images of any even size, detections and labels of any size and place *)
(* and an RGB image of any size: drawing and conversion read and write no   *)
(* byte outside of their images, a block's chroma stays of one colour, and  *)
(* the two agree on the bytes of a pixel.                                   *)
(***************************************************************************)
EXTENDS Nv12Overlay, TLAPS

\* Multiplication by a natural number keeps the order.
LEMMA TimesMonotonic ==
  ASSUME NEW a \in Nat, NEW b \in Nat, NEW c \in Nat, a <= b
  PROVE  a * c <= b * c
<1>1. PICK d \in Nat : b = a + d
  BY b - a \in Nat, b = a + (b - a)
<1>2. b * c = a * c + d * c /\ d * c \in Nat
  BY <1>1
<1> QED
  BY <1>2

\* The three bytes of a pixel of the image are in the buffer.
LEMMA BytesInBuffer ==
  ASSUME w \in Widths, h \in Heights,
         NEW px \in 0..(w - 1), NEW py \in 0..(h - 1)
  PROVE  Bytes(px, py) \subseteq Buffer
<1>1. /\ w \in Nat /\ w % 2 = 0 /\ w > 0
      /\ h \in Nat /\ h % 2 = 0 /\ h > 0
  BY SizesAssumption DEF Even
<1> DEFINE q == py \div 2
           H == h \div 2
           x == px - (px % 2)
<1>2. q \in Nat /\ H \in Nat /\ q + 1 <= H /\ x \in Nat /\ x + 2 <= w
  BY <1>1
<1>3. /\ py * w \in Nat /\ q * w \in Nat /\ w * h \in Nat /\ H * w \in Nat
      /\ (py + 1) * w = py * w + w /\ (q + 1) * w = q * w + w /\ h * w = w * h
  BY <1>1, <1>2
<1>4. py * w + w <= w * h
  BY <1>1, <1>3, TimesMonotonic, py + 1 \in Nat, py + 1 <= h
<1>5. q * w + w <= H * w
  BY <1>1, <1>2, <1>3, TimesMonotonic, q + 1 \in Nat
<1>6. py * w + px \in 0..(w * h + H * w - 1)
  BY <1>1, <1>3, <1>4
<1>7. /\ w * h + q * w + x \in 0..(w * h + H * w - 1)
      /\ w * h + q * w + x + 1 \in 0..(w * h + H * w - 1)
  BY <1>1, <1>2, <1>3, <1>5
<1> QED
  BY <1>6, <1>7 DEF Bytes, uv_offset, Buffer

\* Painting pixels of the image leaves the buffer its size.
LEMMA PaintInBuffer ==
  ASSUME w \in Widths, h \in Heights,
         NEW buf, DOMAIN buf = Buffer, NEW colour,
         NEW pixels, pixels \subseteq (0..(w - 1)) \X (0..(h - 1))
  PROVE  DOMAIN Paint(buf, pixels, colour) = Buffer
<1>1. \A p \in pixels : Bytes(p[1], p[2]) \subseteq Buffer
  BY BytesInBuffer
<1>2. UNION {Bytes(p[1], p[2]) : p \in pixels} \subseteq Buffer
  BY <1>1
<1> QED
  BY <1>2 DEF Paint

\* What the drawing functions write are pixels of the image.
LEMMA RectInImage ==
  ASSUME w \in Widths, h \in Heights,
         NEW x1 \in Int, NEW y1 \in Int, NEW x2 \in Int, NEW y2 \in Int
  PROVE  fill_rect(x1, y1, x2, y2) \subseteq (0..(w - 1)) \X (0..(h - 1))
<1>1. w \in Nat /\ h \in Nat
  BY SizesAssumption DEF Even
<1>2. /\ Greatest(0, x1)..Least(w - 1, x2) \subseteq 0..(w - 1)
      /\ Greatest(0, y1)..Least(h - 1, y2) \subseteq 0..(h - 1)
  BY <1>1 DEF Greatest, Least
<1> QED
  BY <1>2 DEF fill_rect

LEMMA TextInImage ==
  ASSUME NEW bits, NEW x, NEW y
  PROVE  draw_text(bits, x, y) \subseteq (0..(w - 1)) \X (0..(h - 1))
  BY DEF draw_text

LEMMA DetectionInImage ==
  ASSUME w \in Widths, h \in Heights, NEW len \in Nat,
         NEW rx1 \in Int, NEW ry1 \in Int, NEW rx2 \in Int, NEW ry2 \in Int
  PROVE  Sides(rx1, ry1, rx2, ry2) \union Bar(len, rx1, ry1)
           \subseteq (0..(w - 1)) \X (0..(h - 1))
<1> DEFINE Image == (0..(w - 1)) \X (0..(h - 1))
<1>1. ASSUME NEW i \in 0..(Border - 1)
      PROVE  /\ fill_rect(rx1, ry1 + i, rx2, ry1 + i) \subseteq Image
             /\ fill_rect(rx1, ry2 - i, rx2, ry2 - i) \subseteq Image
             /\ fill_rect(rx1 + i, ry1, rx1 + i, ry2) \subseteq Image
             /\ fill_rect(rx2 - i, ry1, rx2 - i, ry2) \subseteq Image
  <2>1. i \in Int
    BY DrawingAssumption
  <2>2. /\ rx1 + i \in Int /\ ry1 + i \in Int
        /\ rx2 - i \in Int /\ ry2 - i \in Int
    BY <2>1
  <2> QED
    BY <2>2, RectInImage
<1>2. Sides(rx1, ry1, rx2, ry2) \subseteq Image
  BY <1>1 DEF Sides
<1>3. Bar(len, rx1, ry1) \subseteq Image
  <2>1. text_h \in Int /\ text_w(len) \in Int /\ Margin \in Int
    BY DrawingAssumption DEF text_h, text_w
  <2>2. /\ ry1 - text_h - 2 * Margin \in Int
        /\ rx1 + text_w(len) + 2 * Margin \in Int
    BY <2>1
  <2> QED
    BY <2>2, RectInImage DEF Bar
<1> QED
  BY <1>2, <1>3

-----------------------------------------------------------------------------
(* The conversion.                                                         *)

\* A quotient of natural numbers is one, and lies where it should.
LEMMA Quotient ==
  ASSUME NEW n \in Nat, NEW d \in Nat \ {0}
  PROVE  /\ n \div d \in Nat /\ n % d \in 0..(d - 1)
         /\ n = (n \div d) * d + (n % d)
<1>1. n \div d \in Int /\ n % d \in 0..(d - 1) /\ n = d * (n \div d) + (n % d)
  <2>1. n \div d \in Int
    OBVIOUS
  <2>2. n % d \in 0..(d - 1)
    OBVIOUS
  <2>3. n = d * (n \div d) + (n % d)
    OBVIOUS
  <2> QED
    BY <2>1, <2>2, <2>3
<1>2. ASSUME n \div d < 0 PROVE FALSE
  <2>1. PICK e \in Nat : n \div d = -1 - e
    BY <1>1, <1>2, -1 - (n \div d) \in Nat
  <2>2. d * (n \div d) = -d - d * e /\ d * e \in Nat
    BY <2>1
  <2> QED
    BY <1>1, <2>2
<1> QED
  BY <1>1, <1>2

\* The nearest pixel is one of the image.
LEMMA NearestInImage ==
  ASSUME NEW d \in Nat, NEW size \in Nat \ {0}, NEW input_size \in Nat \ {0}
  PROVE  Nearest(d, size, input_size) \in 0..(size - 1)
<1>1. d * size \in Nat
  OBVIOUS
<1>2. (d * size) \div input_size \in Nat
  BY <1>1, Quotient
<1> QED
  BY <1>2 DEF Nearest, Least

\* A byte of the RGB image belongs to one pixel.
LEMMA OnePixel ==
  ASSUME NEW k \in InputBuffer
  PROVE  \E dx \in 0..(INPUT_W - 1), dy \in 0..(INPUT_H - 1) :
           /\ k \in Rgb(dx, dy)
           /\ \A p \in (0..(INPUT_W - 1)) \X (0..(INPUT_H - 1)) :
                k \in Rgb(p[1], p[2]) => p = <<dx, dy>>
<1> DEFINE m == k \div 3
           dy == m \div INPUT_W
           dx == m % INPUT_W
<1>1. INPUT_W \in Nat \ {0} /\ INPUT_H \in Nat \ {0}
  BY DrawingAssumption
<1>2. INPUT_W * INPUT_H \in Nat
  BY <1>1
<1>3. m \in Nat /\ m < INPUT_W * INPUT_H /\ k - m * 3 \in 0..2 /\ k \in Nat
  BY <1>2 DEF InputBuffer
<1>4. dy \in Nat /\ dx \in 0..(INPUT_W - 1) /\ m = dy * INPUT_W + dx
  BY <1>1, <1>3, Quotient
<1> HIDE DEF dx, dy
<1>5. dy < INPUT_H
  <2>1. ASSUME INPUT_H <= dy PROVE FALSE
    <3>1. INPUT_H * INPUT_W <= dy * INPUT_W
      BY <1>1, <1>4, <2>1, TimesMonotonic
    <3>2. INPUT_H * INPUT_W = INPUT_W * INPUT_H /\ dy * INPUT_W \in Nat
      BY <1>1, <1>4
    <3> QED
      BY <1>2, <1>3, <1>4, <3>1, <3>2
  <2> QED
    BY <1>1, <1>4, <2>1
<1>6. k \in Rgb(dx, dy)
  BY <1>3, <1>4, k = (dy * INPUT_W + dx) * 3 + (k - m * 3) DEF Rgb
<1>7. ASSUME NEW px \in 0..(INPUT_W - 1), NEW py \in 0..(INPUT_H - 1), k \in Rgb(px, py)
      PROVE  px = dx /\ py = dy
  <2>1. px \in Nat /\ py \in Nat /\ px < INPUT_W
    BY <1>1
  <2>2. py * INPUT_W \in Nat /\ dy * INPUT_W \in Nat
    BY <1>1, <1>4, <2>1
  <2>3. m = py * INPUT_W + px
    <3>1. PICK c \in 0..2 : k = (py * INPUT_W + px) * 3 + c
      BY <1>7 DEF Rgb
    <3>2. py * INPUT_W + px \in Nat
      BY <2>1, <2>2
    <3> QED
      BY <3>1, <3>2
  <2>4. ASSUME NEW a \in Nat, NEW b \in Nat, a < b PROVE a * INPUT_W + INPUT_W <= b * INPUT_W
    <3>1. (a + 1) * INPUT_W <= b * INPUT_W
      BY <1>1, <2>4, TimesMonotonic, a + 1 \in Nat, a + 1 <= b
    <3>2. (a + 1) * INPUT_W = a * INPUT_W + INPUT_W
      BY <1>1
    <3> QED
      BY <3>1, <3>2
  <2>5. ~(py < dy) /\ ~(dy < py)
    BY <1>1, <1>4, <2>1, <2>2, <2>3, <2>4
  <2>6. py = dy
    BY <1>4, <2>1, <2>5
  <2> QED
    BY <1>4, <2>1, <2>2, <2>3, <2>6
<1> QED
  BY <1>4, <1>5, <1>6, <1>7, <1>1

\* A byte of the RGB image is computed from the bytes of one pixel.
LEMMA ConvertedFromAPixel ==
  ASSUME w \in Widths, h \in Heights, NEW k \in InputBuffer
  PROVE  \E px \in 0..(w - 1), py \in 0..(h - 1) : Converted(k) = Bytes(px, py)
<1>1. /\ w \in Nat \ {0} /\ h \in Nat \ {0}
      /\ INPUT_W \in Nat \ {0} /\ INPUT_H \in Nat \ {0}
  BY SizesAssumption, DrawingAssumption DEF Even
<1>2. PICK dx \in 0..(INPUT_W - 1), dy \in 0..(INPUT_H - 1) :
        /\ k \in Rgb(dx, dy)
        /\ \A p \in (0..(INPUT_W - 1)) \X (0..(INPUT_H - 1)) :
             k \in Rgb(p[1], p[2]) => p = <<dx, dy>>
  BY OnePixel
<1> DEFINE px == Nearest(dx, w, INPUT_W)
           py == Nearest(dy, h, INPUT_H)
<1>3. px \in 0..(w - 1) /\ py \in 0..(h - 1)
  BY <1>1, NearestInImage, dx \in Nat, dy \in Nat
<1>4. {p \in (0..(INPUT_W - 1)) \X (0..(INPUT_H - 1)) : k \in Rgb(p[1], p[2])} = {<<dx, dy>>}
  BY <1>2
<1>5. Converted(k) = Read(px, py)
  <2>1. Converted(k) = UNION {Read(Nearest(p[1], w, INPUT_W), Nearest(p[2], h, INPUT_H)) :
                                p \in {<<dx, dy>>}}
    BY <1>4 DEF Converted
  <2> QED
    BY <2>1
<1>6. Read(px, py) = Bytes(px, py)
  BY DEF Read, Bytes, uv_offset
<1> QED
  BY <1>3, <1>5, <1>6

\* The RGB image is written within its buffer, every byte of it.
LEMMA RgbInBuffer ==
  InputBuffer \union UNION {Rgb(dx, dy) : dx \in 0..(INPUT_W - 1), dy \in 0..(INPUT_H - 1)}
    = InputBuffer
<1>1. INPUT_W \in Nat \ {0} /\ INPUT_H \in Nat \ {0}
  BY DrawingAssumption
<1>2. ASSUME NEW dx \in 0..(INPUT_W - 1), NEW dy \in 0..(INPUT_H - 1)
      PROVE  Rgb(dx, dy) \subseteq InputBuffer
  <2>1. dx \in Nat /\ dy \in Nat /\ dx < INPUT_W /\ dy + 1 <= INPUT_H /\ dy + 1 \in Nat
    BY <1>1
  <2>2. (dy + 1) * INPUT_W <= INPUT_H * INPUT_W
    BY <1>1, <2>1, TimesMonotonic
  <2>3. /\ (dy + 1) * INPUT_W = dy * INPUT_W + INPUT_W
        /\ INPUT_H * INPUT_W = INPUT_W * INPUT_H
        /\ dy * INPUT_W \in Nat /\ INPUT_W * INPUT_H \in Nat
    BY <1>1, <2>1
  <2>4. dy * INPUT_W + dx + 1 <= INPUT_W * INPUT_H
    BY <1>1, <2>1, <2>2, <2>3
  <2> QED
    BY <1>1, <2>1, <2>3, <2>4 DEF Rgb, InputBuffer
<1> QED
  BY <1>2

-----------------------------------------------------------------------------
\* No byte outside of the two images is read or written.
THEOREM DrawsInBuffer == Spec => []InBuffer
<1>1. Init => InBuffer
  <2>1. Init => w \in Widths /\ h \in Heights /\ draws \in Nat
    BY DEF Init
  <2>0. Init => done \in BOOLEAN
    BY Zenon DEF Init
  <2>2. Init => DOMAIN nv12 = Buffer
    BY DEF Init
  <2>3. Init => DOMAIN input = InputBuffer /\ \A k \in InputBuffer : input[k] = {}
    BY DEF Init
  <2> QED
    BY <2>0, <2>1, <2>2, <2>3 DEF InBuffer
<1>2. InBuffer /\ [Next]_vars => InBuffer'
  <2> SUFFICES ASSUME InBuffer, [Next]_vars PROVE InBuffer'
    OBVIOUS
  <2> USE DEF InBuffer
  <2>1. CASE DrawRate
    <3>1. PICK bits : nv12' = Paint(nv12, draw_text(bits, Corner, Corner), "red")
      BY <2>1 DEF DrawRate
    <3>2. DOMAIN nv12' = Buffer
      BY <3>1, PaintInBuffer, TextInImage
    <3> QED
      BY <2>1, <3>2 DEF DrawRate, Buffer, InputBuffer
  <2>2. CASE DrawDetection
    <3>1. PICK rx1 \in Coords, ry1 \in Coords, rx2 \in Coords, ry2 \in Coords,
               len \in Lengths, bits \in SUBSET (Int \X Int) :
            nv12' = Paint(Paint(nv12, Sides(rx1, ry1, rx2, ry2) \union Bar(len, rx1, ry1), "red"),
                          Label(bits, rx1, ry1), "blue")
      <4>1. \A len \in Lengths : Bits(len) \subseteq Int \X Int
        BY DrawingAssumption DEF Bits
      <4> QED
        BY <2>2, <4>1 DEF DrawDetection
    <3>2. rx1 \in Int /\ ry1 \in Int /\ rx2 \in Int /\ ry2 \in Int /\ len \in Nat
      BY DrawingAssumption
    <3>3. DOMAIN Paint(nv12, Sides(rx1, ry1, rx2, ry2) \union Bar(len, rx1, ry1), "red") = Buffer
      BY <3>2, PaintInBuffer, DetectionInImage
    <3>4. DOMAIN nv12' = Buffer
      BY <3>1, <3>3, PaintInBuffer, TextInImage DEF Label
    <3> QED
      BY <2>2, <3>4 DEF DrawDetection, Buffer, InputBuffer
  <2>3. CASE preprocess_nv12_to_rgb
    <3>1. input' = [k \in InputBuffer |-> Converted(k)]
      BY <2>3, RgbInBuffer DEF preprocess_nv12_to_rgb
    <3>2. \A k \in InputBuffer : Converted(k) \subseteq Buffer
      BY ConvertedFromAPixel, BytesInBuffer
    <3>3. Buffer' = Buffer /\ InputBuffer' = InputBuffer
      BY <2>3 DEF preprocess_nv12_to_rgb, Buffer, InputBuffer
    <3>4. DOMAIN input' = InputBuffer /\ \A k \in InputBuffer : input'[k] \subseteq Buffer
      BY <3>1, <3>2
    <3> QED
      BY <2>3, <3>3, <3>4 DEF preprocess_nv12_to_rgb
  <2>4. CASE UNCHANGED vars
    BY <2>4 DEF vars, Buffer, InputBuffer
  <2> QED
    BY <2>1, <2>2, <2>3, <2>4 DEF Next, Finished
<1> QED
  BY <1>1, <1>2, PTL DEF Spec

-----------------------------------------------------------------------------
(* The chroma of a block.                                                  *)

\* The two bytes of the chroma of a pixel's block: one even, one odd, and
\* those of no other block.
SameColour(buf) ==
  \A px \in 0..(w - 1), py \in 0..(h - 1) :
    buf[uv_offset(px, py)] = buf[uv_offset(px, py) + 1]

\* The byte WholeChroma names is the one after the pixel's U.
LEMMA TheVByte ==
  ASSUME w \in Widths, h \in Heights,
         NEW px \in 0..(w - 1), NEW py \in 0..(h - 1)
  PROVE  /\ w * h + (py \div 2) * w + 2 * (px \div 2) + 1 = uv_offset(px, py) + 1
         /\ {uv_offset(px, py), uv_offset(px, py) + 1} \subseteq Buffer
<1>1. w \in Nat /\ h \in Nat
  BY SizesAssumption DEF Even
<1>2. 2 * (px \div 2) = px - (px % 2) /\ px \in Int
  BY <1>1
<1>3. w * h \in Int /\ (py \div 2) * w \in Int
  BY <1>1
<1>4. w * h + (py \div 2) * w + 2 * (px \div 2) + 1 = uv_offset(px, py) + 1
  BY <1>2, <1>3 DEF uv_offset
<1> QED
  BY <1>4, BytesInBuffer DEF Bytes

\* An offset of chroma is even, and lies behind every byte of luma.
LEMMA ChromaEven ==
  ASSUME w \in Widths, h \in Heights,
         NEW px \in 0..(w - 1), NEW py \in 0..(h - 1)
  PROVE  uv_offset(px, py) \in Nat /\ uv_offset(px, py) % 2 = 0 /\ uv_offset(px, py) >= w * h
<1>1. w \in Nat /\ w % 2 = 0 /\ h \in Nat
  BY SizesAssumption DEF Even
<1> DEFINE v == w \div 2
           q == py \div 2
<1>2. v \in Nat /\ w = 2 * v /\ q \in Nat
  BY <1>1
<1>3. w * h = 2 * (v * h) /\ q * w = 2 * (q * v) /\ v * h \in Nat /\ q * v \in Nat
  BY <1>1, <1>2
<1>4. px - (px % 2) \in Nat /\ (px - (px % 2)) % 2 = 0
  BY <1>1
<1> HIDE DEF q
<1>5. w * h + q * w + (px - (px % 2)) \in Nat /\ (w * h + q * w + (px - (px % 2))) % 2 = 0
  BY <1>3, <1>4
<1> QED
  BY <1>3, <1>4, <1>5 DEF uv_offset, q

\* A luma byte lies before the chroma.
LEMMA LumaBefore ==
  ASSUME w \in Widths, h \in Heights,
         NEW px \in 0..(w - 1), NEW py \in 0..(h - 1)
  PROVE  py * w + px \in Nat /\ py * w + px < w * h
<1>1. w \in Nat /\ h \in Nat
  BY SizesAssumption DEF Even
<1>2. (py + 1) * w <= h * w
  BY <1>1, TimesMonotonic, py + 1 \in Nat, py + 1 <= h
<1>3. (py + 1) * w = py * w + w /\ h * w = w * h /\ py * w \in Nat
  BY <1>1
<1> QED
  BY <1>1, <1>2, <1>3

\* Painting writes both bytes of a block's chroma or none.
LEMMA PaintWholeBlocks ==
  ASSUME w \in Widths, h \in Heights,
         NEW buf, DOMAIN buf = Buffer, SameColour(buf), NEW colour,
         NEW pixels, pixels \subseteq (0..(w - 1)) \X (0..(h - 1))
  PROVE  SameColour(Paint(buf, pixels, colour))
<1> DEFINE written == UNION {Bytes(p[1], p[2]) : p \in pixels}
<1> SUFFICES ASSUME NEW px \in 0..(w - 1), NEW py \in 0..(h - 1)
             PROVE  Paint(buf, pixels, colour)[uv_offset(px, py)]
                      = Paint(buf, pixels, colour)[uv_offset(px, py) + 1]
  BY DEF SameColour
<1> DEFINE u == uv_offset(px, py)
<1>1. u \in Nat /\ u % 2 = 0 /\ u >= w * h /\ w * h \in Int
  <2>1. w \in Nat /\ h \in Nat
    BY SizesAssumption DEF Even
  <2> QED
    BY <2>1, ChromaEven
<1>2. ASSUME NEW p \in pixels
      PROVE  u \in Bytes(p[1], p[2]) <=> u + 1 \in Bytes(p[1], p[2])
  <2> DEFINE a == p[1]
             b == p[2]
             o == uv_offset(a, b)
  <2>1. a \in 0..(w - 1) /\ b \in 0..(h - 1)
    OBVIOUS
  <2>2. o \in Nat /\ o % 2 = 0
    BY <2>1, ChromaEven
  <2>3. b * w + a \in Nat /\ b * w + a < w * h
    BY <2>1, LumaBefore
  <2>4. Bytes(p[1], p[2]) = {b * w + a, o, o + 1}
    BY DEF Bytes
  <2> HIDE DEF a, b, o, u
  <2> QED
    BY <1>1, <2>2, <2>3, <2>4
<1>3. u \in written <=> u + 1 \in written
  BY <1>2
<1>4. u \in Buffer /\ u + 1 \in Buffer
  BY TheVByte
<1>5. buf[u] = buf[u + 1]
  BY DEF SameColour
<1>6. Paint(buf, pixels, colour)
        = [k \in Buffer \union written |-> IF k \in written THEN colour ELSE buf[k]]
  BY DEF Paint
<1> HIDE DEF written, u
<1> QED
  BY <1>3, <1>4, <1>5, <1>6 DEF u

\* What the induction carries: every byte of a converted image is of one pixel.
OfAPixel ==
  done => \A k \in InputBuffer :
    \E px \in 0..(w - 1), py \in 0..(h - 1) : input[k] = Bytes(px, py)

ChromaInv == SameColour(nv12) /\ OfAPixel

\* Drawing leaves the chroma of a block of one colour, and the conversion
\* reads the bytes that drawing takes for a pixel.
THEOREM ChromaStaysWhole == Spec => []WholeChroma
<1>1. Init => ChromaInv
  BY TheVByte DEF Init, ChromaInv, SameColour, OfAPixel
<1>2. InBuffer /\ ChromaInv /\ [Next]_vars => ChromaInv'
  <2> SUFFICES ASSUME InBuffer, ChromaInv, [Next]_vars PROVE ChromaInv'
    OBVIOUS
  <2>0. w \in Widths /\ h \in Heights /\ DOMAIN nv12 = Buffer
    BY DEF InBuffer
  <2>1. ASSUME UNCHANGED <<w, h, input, done>>, SameColour(nv12') PROVE ChromaInv'
    BY <2>1 DEF ChromaInv, SameColour, OfAPixel, InputBuffer, Bytes, uv_offset
  <2>2. CASE DrawRate
    <3>1. PICK bits : nv12' = Paint(nv12, draw_text(bits, Corner, Corner), "red")
      BY <2>2 DEF DrawRate
    <3>2. SameColour(nv12')
      BY <2>0, <3>1, PaintWholeBlocks, TextInImage DEF ChromaInv
    <3> QED
      BY <2>1, <2>2, <3>2 DEF DrawRate
  <2>3. CASE DrawDetection
    <3>1. PICK rx1 \in Coords, ry1 \in Coords, rx2 \in Coords, ry2 \in Coords,
               len \in Lengths, bits \in SUBSET (Int \X Int) :
            nv12' = Paint(Paint(nv12, Sides(rx1, ry1, rx2, ry2) \union Bar(len, rx1, ry1), "red"),
                          Label(bits, rx1, ry1), "blue")
      <4>1. \A len \in Lengths : Bits(len) \subseteq Int \X Int
        BY DrawingAssumption DEF Bits
      <4> QED
        BY <2>3, <4>1 DEF DrawDetection
    <3>2. rx1 \in Int /\ ry1 \in Int /\ rx2 \in Int /\ ry2 \in Int /\ len \in Nat
      BY DrawingAssumption
    <3> DEFINE drawn == Paint(nv12, Sides(rx1, ry1, rx2, ry2) \union Bar(len, rx1, ry1), "red")
    <3>3. DOMAIN drawn = Buffer /\ SameColour(drawn)
      BY <2>0, <3>2, PaintInBuffer, PaintWholeBlocks, DetectionInImage DEF ChromaInv
    <3> HIDE DEF drawn
    <3>4. SameColour(Paint(drawn, Label(bits, rx1, ry1), "blue"))
      BY <2>0, <3>3, PaintWholeBlocks, TextInImage DEF Label
    <3> QED
      BY <2>1, <2>3, <3>1, <3>4 DEF DrawDetection, drawn
  <2>4. CASE preprocess_nv12_to_rgb
    <3>1. input' = [k \in InputBuffer |-> Converted(k)]
      BY <2>4, RgbInBuffer DEF preprocess_nv12_to_rgb
    <3>2. \A k \in InputBuffer : \E px \in 0..(w - 1), py \in 0..(h - 1) :
            input'[k] = Bytes(px, py)
      BY <2>0, <3>1, ConvertedFromAPixel
    <3>3. w' = w /\ h' = h /\ nv12' = nv12
      BY <2>4 DEF preprocess_nv12_to_rgb
    <3> QED
      BY <3>2, <3>3 DEF ChromaInv, SameColour, OfAPixel, InputBuffer, Bytes, uv_offset
  <2>5. CASE UNCHANGED vars
    BY <2>1, <2>5 DEF vars, ChromaInv
  <2> QED
    BY <2>2, <2>3, <2>4, <2>5 DEF Next, Finished
<1>3. InBuffer /\ ChromaInv => WholeChroma
  BY TheVByte DEF InBuffer, ChromaInv, SameColour, OfAPixel, WholeChroma
<1> QED
  BY <1>1, <1>2, <1>3, DrawsInBuffer, PTL DEF Spec
=============================================================================
