------------------------------ MODULE Pictures ------------------------------
(***************************************************************************)
(* The PNG files that other tools write, after the PNG specification: what *)
(* `configure --from` and `test-detect` may be given, and what a reader    *)
(* ought to make of it.  The reference that decode is checked against.     *)
(***************************************************************************)
EXTENDS Png

(* A picture is a header's fields, a palette, and samples[y][x][c].        *)
Channel(pic) == 0..Channels[pic.colour] - 1

SampleAt(pic, y, i) ==
    LET n == Channels[pic.colour] IN
    IF i < pic.width * n THEN pic.samples[y][i \div n][i % n] ELSE 0

(* The pictures the reader supports: every colour type of eight bits or    *)
(* more, and palettes of any depth, with no sample beyond their end.       *)
IsPicture(pic) ==
    /\ pic.width \in Nat \ {0} /\ pic.height \in Nat \ {0}
    /\ pic.width * pic.height <= MaxPixels
    /\ \/ pic.colour \in {Grey, RGB, GreyAlpha, RGBA} /\ pic.depth \in {8, 16}
       \/ pic.colour = Palette /\ pic.depth \in {1, 2, 4, 8}
    /\ pic.palette \in Seq(0..255)
    /\ pic.samples \in [1..pic.height ->
                          [0..pic.width - 1 -> [Channel(pic) -> 0..2^pic.depth - 1]]]
    /\ pic.colour = Palette =>
          \A y \in 1..pic.height, x \in 0..pic.width - 1 :
              pic.samples[y][x][0] * 3 + 3 <= Len(pic.palette)

(* The bytes of a line: samples of less than a byte are packed from the    *)
(* left, samples of two bytes have their high byte first.                  *)
LineOf(pic, y) ==
    LET samples == pic.width * Channels[pic.colour]
        per_byte == 8 \div pic.depth IN
    CASE pic.depth = 16 ->
            [i \in 1..2 * samples |->
                LET v == SampleAt(pic, y, (i - 1) \div 2) IN
                IF i % 2 = 1 THEN v \div 256 ELSE v % 256]
      [] pic.depth < 16 ->
            [i \in 1..(samples + per_byte - 1) \div per_byte |->
                LET part[k \in 0..per_byte] ==
                        IF k = 0 THEN 0
                        ELSE part[k - 1] * 2^pic.depth
                             + SampleAt(pic, y, (i - 1) * per_byte + k - 1)
                IN part[per_byte]]

(* The filters, as a writer applies them: from the bytes themselves.       *)
Nearest(p, a, b, c) ==
    CHOOSE x \in {a, b, c} :
        /\ \A z \in {a, b, c} : Distance(p, x) <= Distance(p, z)
        /\ x = a \/ Distance(p, a) > Distance(p, x)
        /\ x \in {a, b} \/ Distance(p, b) > Distance(p, x)

FilteredLine(type, line, above, bpp) ==
    [i \in 1..Len(line) |->
        LET left == IF i > bpp THEN line[i - bpp] ELSE 0
            corner == IF i > bpp THEN above[i - bpp] ELSE 0
            guess == CASE type = 0 -> 0
                       [] type = 1 -> left
                       [] type = 2 -> above[i]
                       [] type = 3 -> (left + above[i]) \div 2
                       [] type = 4 -> Nearest(left + above[i] - corner,
                                              left, above[i], corner)
        IN Byte(line[i] - guess)]

RawOf(pic, types) ==
    LET bits == Channels[pic.colour] * pic.depth
        bpp == IF bits < 8 THEN 1 ELSE bits \div 8
        above(y) == IF y = 1 THEN [i \in 1..Len(LineOf(pic, 1)) |-> 0]
                    ELSE LineOf(pic, y - 1) IN
    FlattenSeq([y \in 1..pic.height |->
        <<types[y]>> \o FilteredLine(types[y], LineOf(pic, y), above(y), bpp)])

(* The file: a palette if there is one, and the data in two chunks. *)
SavedAs(pic, types) ==
    LET raw == RawOf(pic, types)
        half == Len(raw) \div 2 IN
    [signed |-> TRUE,
     chunks |->
        <<Chunk("IHDR", [width |-> pic.width, height |-> pic.height,
                         depth |-> pic.depth, colour |-> pic.colour,
                         compression |-> 0, filter_method |-> 0, interlace |-> 0])>>
        \o (IF pic.palette = <<>> THEN <<>> ELSE <<Chunk("PLTE", pic.palette)>>)
        \o <<Chunk("tEXt", <<>>),
             Chunk("IDAT", [raw |-> SubSeq(raw, 1, half), ends |-> FALSE]),
             Chunk("IDAT", [raw |-> SubSeq(raw, half + 1, Len(raw)), ends |-> TRUE]),
             Chunk("IEND", <<>>)>>]

(* What it shows: alpha and low bytes are dropped. *)
Shows(pic) ==
    LET eight(v) == IF pic.depth = 16 THEN v \div 256 ELSE v
        rgb(s, c) == CASE pic.colour = Palette -> pic.palette[s[0] * 3 + c + 1]
                       [] pic.colour \in {Grey, GreyAlpha} -> eight(s[0])
                       [] pic.colour \in {RGB, RGBA} -> eight(s[c])
    IN [width |-> pic.width, height |-> pic.height,
        data |-> FlattenSeq([y \in 1..pic.height |->
            [i \in 1..pic.width * 3 |->
                rgb(pic.samples[y][(i - 1) \div 3], (i - 1) % 3)]])]

-----------------------------------------------------------------------------
(* Files nobody should make a frame of. *)

(* Of the header, and of the data. *)
HeaderFlaws == {"interlaced", "deflated otherwise", "filtered otherwise", "huge", "flat"}
DataFlaws == {"unended", "short", "unknown filter"}

Flaws == {"unsigned", "cut", "crc", "headless", "dataless", "pale"}
         \cup HeaderFlaws \cup DataFlaws

(* In the place of each chunk of the kind is one that nobody reads.        *)
Without(file, kind) ==
    [file EXCEPT !.chunks =
        [i \in 1..Len(@) |-> IF @[i].kind = kind THEN Chunk("tEXt", <<>>) ELSE @[i]]]

(* What becomes of the header, or of a piece of the data.                  *)
After(flaw, payload) ==
    CASE flaw = "interlaced" -> [payload EXCEPT !.interlace = 1]
      [] flaw = "deflated otherwise" -> [payload EXCEPT !.compression = 1]
      [] flaw = "filtered otherwise" -> [payload EXCEPT !.filter_method = 1]
      [] flaw = "huge" -> [payload EXCEPT !.width = MaxPixels + 1]
      [] flaw = "flat" -> [payload EXCEPT !.height = 0]
      [] flaw = "unended" -> [payload EXCEPT !.ends = FALSE]
      [] flaw = "short" ->
            IF payload.ends THEN [payload EXCEPT !.raw = Tail(@)] ELSE payload
      [] flaw = "unknown filter" ->
            IF payload.ends THEN payload ELSE [payload EXCEPT !.raw[1] = 5]

Changed(file, kind, flaw) ==
    [file EXCEPT !.chunks =
        [i \in 1..Len(@) |-> IF @[i].kind = kind
                             THEN Chunk(kind, After(flaw, @[i].payload)) ELSE @[i]]]

Flawed(file, flaw) ==
    CASE flaw = "unsigned" -> [file EXCEPT !.signed = FALSE]
      [] flaw = "cut" -> Written(file, Len(file.chunks) - 3, TRUE, Empty)
      [] flaw = "crc" -> [file EXCEPT !.chunks[1].sound = FALSE]
      [] flaw = "headless" -> Without(file, "IHDR")
      [] flaw = "dataless" -> Without(file, "IDAT")
      [] flaw = "pale" -> Without(file, "PLTE")
      [] flaw \in HeaderFlaws -> Changed(file, "IHDR", flaw)
      [] flaw \in DataFlaws -> Changed(file, "IDAT", flaw)
=============================================================================
