-------------------------------- MODULE Png ---------------------------------
(***************************************************************************)
(* png.py: what write_frame puts in a file, and what read_frame makes of a *)
(* file, its own or another tool's, whole or cut short.  A file is its     *)
(* signature and its chunks; `sound` says that the chunk is all there and  *)
(* its CRC is right.  A piece of deflated data is the bytes it inflates to *)
(* and whether the stream ends with it.                                    *)
(***************************************************************************)
EXTENDS Integers, SequencesExt

CONSTANTS
    MaxPixels,   \* MAX_PIXELS
    Refused      \* ImageError

ASSUME PngAssumption == MaxPixels \in Nat

(* PNG colour types *)
Grey == 0
RGB == 2
Palette == 3
GreyAlpha == 4
RGBA == 6

Channels ==
    [c \in {Grey, RGB, Palette, GreyAlpha, RGBA} |->
        CASE c \in {Grey, Palette} -> 1
          [] c = GreyAlpha -> 2
          [] c = RGB -> 3
          [] c = RGBA -> 4]

Byte(n) == n % 256

-----------------------------------------------------------------------------
(* encode *)

(* Frame.__post_init__ *)
IsFrame(frame) ==
    /\ frame.width \in Nat \ {0} /\ frame.height \in Nat \ {0}
    /\ frame.data \in [1..frame.width * frame.height * 3 -> 0..255]
    /\ frame = [width |-> frame.width, height |-> frame.height, data |-> frame.data]

Chunk(kind, payload) == [kind |-> kind, payload |-> payload, sound |-> TRUE]

(* A plausible bug: the header has the sides the wrong way round.          *)
SwapsSides(frame) ==
    LET stride == frame.width * 3
        raw == [i \in 1..frame.height * (stride + 1) |->
                   LET y == (i - 1) \div (stride + 1)
                       k == (i - 1) % (stride + 1) IN
                   IF k = 0 THEN 0 ELSE frame.data[y * stride + k]]
    IN [signed |-> TRUE,
        chunks |-> <<Chunk("IHDR", [width |-> frame.height, height |-> frame.width,
                                    depth |-> 8, colour |-> RGB, compression |-> 0,
                                    filter_method |-> 0, interlace |-> 0]),
                     Chunk("IDAT", [raw |-> raw, ends |-> TRUE]),
                     Chunk("IEND", <<>>)>>]

encode(frame) ==
    LET stride == frame.width * 3
        raw == [i \in 1..frame.height * (stride + 1) |->
                   LET y == (i - 1) \div (stride + 1)
                       k == (i - 1) % (stride + 1) IN
                   IF k = 0 THEN 0 ELSE frame.data[y * stride + k]]
    IN [signed |-> TRUE,
        chunks |-> <<Chunk("IHDR", [width |-> frame.width, height |-> frame.height,
                                    depth |-> 8, colour |-> RGB, compression |-> 0,
                                    filter_method |-> 0, interlace |-> 0]),
                     Chunk("IDAT", [raw |-> raw, ends |-> TRUE]),
                     Chunk("IEND", <<>>)>>]

(* What is in a file that has been opened: not all of a signature.         *)
Empty == [signed |-> FALSE, chunks |-> <<>>]

(* What is in it once `n` chunks of `new`, and in case `torn` a part of    *)
(* the next, have been written over `old`, which another process that has  *)
(* it open may have written meanwhile.                                     *)
Written(new, n, torn, old) ==
    LET k == IF torn THEN n + 1 ELSE n
        same(i) == i <= Len(old.chunks) /\ old.chunks[i] = new.chunks[i] IN
    [signed |-> TRUE,
     chunks |-> [i \in 1..k |-> [new.chunks[i] EXCEPT !.sound = i <= n \/ same(i)]]
                \o SubSeq(old.chunks, k + 1, Len(old.chunks))]

-----------------------------------------------------------------------------
(* _iter_chunks, up to the IEND at which decode stops *)

Read(file) ==
    LET ends == {i \in 1..Len(file.chunks) : file.chunks[i].kind = "IEND"} IN
    IF ends = {} THEN file.chunks
    ELSE SubSeq(file.chunks, 1, CHOOSE i \in ends : \A j \in ends : i <= j)

(* The places of the chunks of one kind. *)
OfKind(chunks, kind) == {i \in 1..Len(chunks) : chunks[i].kind = kind}

Intact(chunks) == \A i \in 1..Len(chunks) : chunks[i].sound

LastOf(chunks, places) ==
    chunks[CHOOSE i \in places : \A j \in places : j <= i].payload

(* zlib.decompress of the IDATs put together: what follows the end of the  *)
(* stream is left.                                                         *)
Inflates(chunks, pieces) == \E i \in pieces : chunks[i].payload.ends

Inflated(chunks, pieces) ==
    LET Used(i) == i \in pieces /\ \A j \in pieces : chunks[j].payload.ends => i <= j
    IN  FlattenSeq([i \in 1..Len(chunks) |->
            IF Used(i) THEN chunks[i].payload.raw ELSE <<>>])

-----------------------------------------------------------------------------
(* _unfilter *)

Distance(a, b) == IF a > b THEN a - b ELSE b - a

(* A plausible bug: a tie goes to the corner.                              *)
TiesGoToTheCorner(a, b, c) ==
    LET p == a + b - c
        pa == Distance(p, a)
        pb == Distance(p, b)
        pc == Distance(p, c)
    IN IF pa <= pb /\ pa < pc THEN a ELSE IF pb < pc THEN b ELSE c

paeth(a, b, c) ==
    LET p == a + b - c
        pa == Distance(p, a)
        pb == Distance(p, b)
        pc == Distance(p, c)
    IN IF pa <= pb /\ pa <= pc THEN a ELSE IF pb <= pc THEN b ELSE c

(* One line: `written` as it is in the file, under the line `above`. *)
UnfilteredLine(type, written, above, bpp) ==
    LET line[i \in 1..Len(written)] ==
            LET left == IF i > bpp THEN line[i - bpp] ELSE 0
                upper_left == IF i > bpp THEN above[i - bpp] ELSE 0 IN
            Byte(written[i] +
                (CASE type = 0 -> 0
                   [] type = 1 -> left
                   [] type = 2 -> above[i]
                   [] type = 3 -> (left + above[i]) \div 2
                   [] type = 4 -> paeth(left, above[i], upper_left)))
    IN [i \in 1..Len(written) |-> line[i]]

TypeOfLine(raw, stride, y) == raw[(y - 1) * (stride + 1) + 1]

Unfilters(raw, height, stride) ==
    /\ Len(raw) >= height * (stride + 1)
    /\ \A y \in 1..height : TypeOfLine(raw, stride, y) \in 0..4

Unfilter(raw, height, stride, bpp) ==
    LET lines[y \in 0..height] ==
            IF y = 0 THEN [i \in 1..stride |-> 0]
            ELSE LET base == (y - 1) * (stride + 1) + 1 IN
                 UnfilteredLine(raw[base], SubSeq(raw, base + 1, base + stride),
                                lines[y - 1], bpp)
    IN [y \in 1..height |-> lines[y]]

-----------------------------------------------------------------------------
(* _sample_reader and _to_rgb.  Samples and pixels count from 0. *)

Sample(line, depth, index) ==
    CASE depth = 8 -> line[index + 1]
      [] depth = 16 -> line[index * 2 + 1]
      [] OTHER ->
            LET per_byte == 8 \div depth
                shift == 8 - depth * ((index % per_byte) + 1)
            IN (line[index \div per_byte + 1] \div 2^shift) % 2^depth

(* The red, green and blue of pixel x. *)
Pixel(line, header, palette, x) ==
    LET sample(i) == Sample(line, header.depth, x * Channels[header.colour] + i)
        colour(c) == CASE header.colour \in {RGB, RGBA} -> sample(c)
                       [] header.colour \in {Grey, GreyAlpha} -> sample(0)
                       [] header.colour = Palette -> palette[sample(0) * 3 + c + 1]
    IN [c \in 0..2 |-> colour(c)]

InPalette(lines, header, palette) ==
    header.colour = Palette =>
        \A y \in 1..header.height, x \in 0..header.width - 1 :
            Sample(lines[y], header.depth, x) * 3 + 3 <= Len(palette)

ToRGB(lines, header, palette) ==
    [width |-> header.width, height |-> header.height,
     data |-> [i \in 1..header.width * header.height * 3 |->
                 LET n == (i - 1) \div 3 IN
                 Pixel(lines[n \div header.width + 1], header, palette,
                       n % header.width)[(i - 1) % 3]]]

-----------------------------------------------------------------------------
(* decode *)

Supported(header) ==
    /\ header.width > 0 /\ header.height > 0
    /\ header.width * header.height <= MaxPixels
    /\ header.compression = 0 /\ header.filter_method = 0 /\ header.interlace = 0
    /\ header.colour \in DOMAIN Channels
    /\ header.depth \in {1, 2, 4, 8, 16}
    /\ header.colour # Palette => header.depth >= 8

decode(file) ==
    LET chunks == Read(file)
        headers == OfKind(chunks, "IHDR")
        palettes == OfKind(chunks, "PLTE")
        pieces == OfKind(chunks, "IDAT") IN
    IF ~file.signed \/ ~Intact(chunks) \/ headers = {} \/ pieces = {} THEN Refused
    ELSE IF ~Supported(LastOf(chunks, headers)) \/ ~Inflates(chunks, pieces) THEN Refused
    ELSE LET header == LastOf(chunks, headers)
             palette == IF palettes = {} THEN <<>> ELSE LastOf(chunks, palettes)
             bits == Channels[header.colour] * header.depth
             stride == (header.width * bits + 7) \div 8
             bpp == IF bits < 8 THEN 1 ELSE bits \div 8
             raw == Inflated(chunks, pieces) IN
         IF ~Unfilters(raw, header.height, stride) THEN Refused
         ELSE LET lines == Unfilter(raw, header.height, stride, bpp) IN
              IF InPalette(lines, header, palette)
              THEN ToRGB(lines, header, palette) ELSE Refused
=============================================================================
