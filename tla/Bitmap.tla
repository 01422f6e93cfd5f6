------------------------------- MODULE Bitmap -------------------------------
(***************************************************************************)
(* bitmap.py: the one-bit image, and how a frame becomes one.              *)
(*                                                                         *)
(* A bitmap is its size and the set of its ink pixels <<x, y>>.  A frame   *)
(* has two colours, of which only the brightness (luma) is modelled: ink   *)
(* is the set of pixels drawn with the pen, the rest is paper.             *)
(***************************************************************************)
EXTENDS Integers, Sequences, FiniteSets

Least(S) == CHOOSE x \in S : \A y \in S : x <= y
Greatest(S) == CHOOSE x \in S : \A y \in S : y <= x

(* The numbers of a finite set, the least first. *)
InOrder(S) ==
    LET before == [x \in S |-> Cardinality({y \in S : y < x})]
    IN  [k \in 1 .. Cardinality(S) |-> CHOOSE x \in S : before[x] = k - 1]

Area(width, height) == (0 .. width - 1) \X (0 .. height - 1)

(* Pixels outside the bitmap are background. *)
Crop(bitmap, x, y, width, height) ==
    [width |-> width, height |-> height,
     ink |-> {p \in Area(width, height) : <<p[1] + x, p[2] + y>> \in bitmap.ink}]

Count(bitmap) == Cardinality(bitmap.ink)

Differences(one, other) ==
    LET areas == {one.width * one.height, other.width * other.height}
    IN  IF one.width = other.width /\ one.height = other.height
        THEN Cardinality((one.ink \ other.ink) \cup (other.ink \ one.ink))
        ELSE CHOOSE a \in areas : \A b \in areas : b <= a

-----------------------------------------------------------------------------
(* The background is the most common colour; Counter.most_common breaks a  *)
(* tie in favour of the colour that is met first, at the top left.         *)
Background(frame) ==
    LET ink  == Cardinality(frame.ink)
        rest == frame.width * frame.height - ink
    IN  IF ink > rest \/ (ink = rest /\ <<0, 0>> \in frame.ink)
        THEN frame.pen ELSE frame.paper

(* The other colour, if there is one far enough in brightness; else white  *)
(* or black, and there is no text.                                         *)
Foreground(frame) ==
    LET back   == Background(frame)
        pen    == IF frame.ink = {} THEN {} ELSE {frame.pen}
        paper  == IF frame.ink = Area(frame.width, frame.height)
                  THEN {} ELSE {frame.paper}
        far    == {c \in pen \cup paper : c - back >= 32 \/ back - c >= 32}
    IN  IF far # {} THEN CHOOSE c \in far : TRUE
        ELSE IF back < 128 THEN 255 ELSE 0

(* What binarise settles when neither is given, as in `configure`. *)
Inverted(frame) == Foreground(frame) < Background(frame)
Threshold(frame) == (Foreground(frame) + Background(frame)) \div 2

Binarise(frame, threshold, inverted) ==
    LET IsInk(luma) == IF inverted THEN luma < threshold ELSE luma > threshold
        pixels == Area(frame.width, frame.height)
    IN  [width |-> frame.width, height |-> frame.height,
         ink |-> (IF IsInk(frame.pen) THEN frame.ink ELSE {})
                 \cup (IF IsInk(frame.paper) THEN pixels \ frame.ink ELSE {})]

-----------------------------------------------------------------------------
(* Rows of ink, grouped: usually one band for a line of text. *)
BandWidth(band) == band.right - band.left + 1
BandHeight(band) == band.bottom - band.top + 1

MeasureBand(mask, top, bottom) ==
    LET columns == {p[1] : p \in {q \in mask.ink : q[2] \in top .. bottom}}
    IN  [top |-> top, bottom |-> bottom,
         left |-> Least(columns), right |-> Greatest(columns)]

FindBands(mask) ==
    LET inked  == {p[2] : p \in mask.ink}
        tops   == InOrder({y \in inked : y - 1 \notin inked})
        End(y) == Least({z \in inked : z >= y /\ z + 1 \notin inked})
    IN  [i \in DOMAIN tops |-> MeasureBand(mask, tops[i], End(tops[i]))]
=============================================================================
