----------------------------- MODULE Calibrate -----------------------------
(***************************************************************************)
(* calibrate.py: from a frame known to show a text, to the grid it is      *)
(* drawn on and a picture of each of its characters.                       *)
(*                                                                         *)
(* A character is a number, its code point; a line is a sequence of them.  *)
(* The analysis is a search: grids are proposed in a fixed order, and the  *)
(* first that gives every character one picture is the calibration.        *)
(***************************************************************************)
EXTENDS Bitmap

CONSTANTS Space,        \* the code point of a blank
          Fold,         \* casefold: a function from code points
          NoCalibration \* the file does not exist; the analysis found nothing

MinCellWidth == 4
MaxCellWidth == 40
MinCellHeight == 6
MaxCellHeight == 64
OriginSearch == 3
None == <<>>            \* no hint was given on the command line

(* x / y, rounded as Python's round() does: a half goes to the even side. *)
Rounded(x, y) ==
    LET whole == x \div y
        twice == 2 * (x % y)
    IN  IF twice > y \/ (twice = y /\ whole % 2 = 1) THEN whole + 1 ELSE whole

(* One space for any run of them, none at the ends, in one case. *)
Normalise(text) ==
    LET Kept(i) == \/ text[i] # Space
                   \/ /\ \E j \in 1 .. i - 1 : text[j] # Space
                      /\ i < Len(text) /\ text[i + 1] # Space
        places  == InOrder({i \in DOMAIN text : Kept(i)})
    IN  [i \in DOMAIN places |-> Fold[text[places[i]]]]

NormaliseAll(lines) == [i \in DOMAIN lines |-> Normalise(lines[i])]

-----------------------------------------------------------------------------
(* The order of proposals.                                                 *)

(* How far the cell widths that the bands of a run imply are apart, as *)
(* a whole number: multiplied by the number of lines and the product of    *)
(* their lengths, which leaves the order of the runs as it is.             *)
Spread(run, lines) ==
    LET n        == Len(lines)
        scale[i \in 0 .. n] == IF i = 0 THEN 1 ELSE scale[i - 1] * Len(lines[i])
        width    == [i \in 1 .. n |-> BandWidth(run[i]) * (scale[n] \div Len(lines[i]))]
        sum[i \in 0 .. n] == IF i = 0 THEN 0 ELSE sum[i - 1] + width[i]
        off      == [i \in 1 .. n |-> IF n * width[i] >= sum[n] THEN n * width[i] - sum[n]
                                      ELSE sum[n] - n * width[i]]
        apart[i \in 0 .. n] == IF i = 0 THEN 0 ELSE apart[i - 1] + off[i]
    IN  apart[n]

(* The median pitch, each pitch, then guesses from the tallest line; 0,    *)
(* which is no height, where there is no pitch.                            *)
CellHeightCandidates(run) ==
    LET n       == Len(run)
        pitch   == [i \in 1 .. n - 1 |-> run[i + 1].top - run[i].top]
        median  == CHOOSE p \in {pitch[i] : i \in DOMAIN pitch} :
                      /\ Cardinality({i \in DOMAIN pitch : pitch[i] < p}) <= (n - 1) \div 2
                      /\ Cardinality({i \in DOMAIN pitch : pitch[i] <= p}) > (n - 1) \div 2
        tallest == Greatest({BandHeight(run[i]) : i \in 1 .. n})
    IN  [k \in 1 .. n + 4 |->
            CASE k = 1 -> IF n = 1 THEN 0 ELSE median
              [] k \in 2 .. n -> pitch[k - 1]
              [] OTHER -> tallest + <<2, 3, 4, 0>>[k - n]]

(* From two lines of different length, where the bearings at the ends      *)
(* cancel; then from each line alone.  Two lines that give nothing give    *)
(* numbers that are too small for a width.                                 *)
CellWidthCandidates(run, lines) ==
    LET n == Len(lines)
        More(i, j) == /\ Len(lines[i]) > Len(lines[j])
                      /\ BandWidth(run[i]) > BandWidth(run[j])
        Between(i, j) == IF More(i, j)
                         THEN Rounded(BandWidth(run[i]) - BandWidth(run[j]),
                                      Len(lines[i]) - Len(lines[j]))
                         ELSE 0
        Alone(i) == Rounded(BandWidth(run[i]), Len(lines[i]))
    IN  [k \in 1 .. 3 * n * n + 2 * n |->
            IF k <= 3 * n * n
            THEN Between(((k - 1) \div (3 * n)) + 1, (((k - 1) \div 3) % n) + 1)
                 + <<0, 1, -1>>[((k - 1) % 3) + 1]
            ELSE LET j == k - 1 - 3 * n * n IN Alone((j \div 2) + 1) + (j % 2)]

(* The grids for run i of the bands, each with its turn; cell and origin   *)
(* are what the operator gave, or None.                                    *)
Candidates(run, i, lines, cell, origin) ==
    LET spread  == Spread(run, lines)
        heights == IF cell = None THEN CellHeightCandidates(run) ELSE <<cell[2]>>
        widths  == IF cell = None THEN CellWidthCandidates(run, lines) ELSE <<cell[1]>>
        left    == Least({run[j].left : j \in DOMAIN run})
        side    == OriginSearch + 1
        origins == IF origin # None THEN <<origin>>
                   ELSE [k \in 1 .. side * side |->
                            <<left - OriginSearch + ((k - 1) % side),
                              run[1].top - OriginSearch + ((k - 1) \div side)>>]
    IN  {[turn |-> <<spread, i, h, w, o>>, run |-> run,
          grid |-> [cell_width |-> widths[w], cell_height |-> heights[h],
                    origin_x |-> origins[o][1], origin_y |-> origins[o][2]]] :
            h \in {h \in DOMAIN heights : heights[h] \in MinCellHeight .. MaxCellHeight},
            w \in {w \in DOMAIN widths : widths[w] \in MinCellWidth .. MaxCellWidth},
            o \in DOMAIN origins}

(* Every window of consecutive bands may be the message.                   *)
Proposals(bands, lines, cell, origin) ==
    UNION {Candidates([j \in 1 .. Len(lines) |-> bands[i + j - 1]], i, lines, cell, origin) :
            i \in 1 .. Len(bands) - Len(lines) + 1}

(* The evenest run first, of equal ones the upper one, and so on. *)
Sooner(p, q) ==
    \E i \in 1 .. 5 : p.turn[i] < q.turn[i] /\ \A j \in 1 .. i - 1 : p.turn[j] = q.turn[j]

-----------------------------------------------------------------------------
(* One proposal on trial.                                                  *)

CellAt(mask, grid, column, row) ==
    Crop(mask, grid.origin_x + column * grid.cell_width,
         grid.origin_y + row * grid.cell_height, grid.cell_width, grid.cell_height)

(* The column each line begins in, from where its ink begins. *)
Columns(grid, run) ==
    [i \in DOMAIN run |->
        LET offset == run[i].left - grid.origin_x
        IN  IF offset < 0 THEN 0 ELSE Rounded(offset, grid.cell_width)]

(* Where the text has its characters: pairs of line and place in the line. *)
Places(lines) == UNION {{<<i, k>> : k \in DOMAIN lines[i]} : i \in DOMAIN lines}

(* The picture that stands, on this grid, where the message has a place. *)
Picture(mask, grid, columns, place) ==
    CellAt(mask, grid, columns[place[1]] + place[2] - 1, place[1] - 1)

(* A plausible bug: the pictures of one line are forgotten in the next. *)
VerifiesLineByLine(mask, grid, run, lines) ==
    LET columns == Columns(grid, run)
    IN  \A p, q \in Places(lines) :
            p[1] = q[1] /\ lines[p[1]][p[2]] = lines[q[1]][q[2]] =>
                Picture(mask, grid, columns, p) = Picture(mask, grid, columns, q)

(* A delta of zero: a character looks alike wherever the message has it.   *)
(* (The code stops counting after eight conflicts, which is not zero.)     *)
Verifies(mask, grid, run, lines) ==
    LET columns == Columns(grid, run)
    IN  \A p, q \in Places(lines) :
            lines[p[1]][p[2]] = lines[q[1]][q[2]] =>
                Picture(mask, grid, columns, p) = Picture(mask, grid, columns, q)

(* Left, top, right and bottom of the message on the grid. *)
Bounds(grid, columns, lines) ==
    LET Left(i)  == grid.origin_x + columns[i] * grid.cell_width
        Right(i) == Left(i) + Len(lines[i]) * grid.cell_width
        n        == Len(lines)
    IN  <<Least({Left(i) : i \in 1 .. n}), grid.origin_y,
          Greatest({Right(i) : i \in 1 .. n}), grid.origin_y + n * grid.cell_height>>

(* A plausible bug: the region is not cut off at the right and the bottom. *)
RegionOffTheFrame(frame, grid, columns, lines) ==
    LET bounds == Bounds(grid, columns, lines)
        left   == Greatest({0, bounds[1]})
        top    == Greatest({0, bounds[2]})
    IN  <<left, top, bounds[3] - left, bounds[4] - top>>

(* Where the message is, as far as it is in the frame: x, y, width, height. *)
Region(frame, grid, columns, lines) ==
    LET bounds == Bounds(grid, columns, lines)
        left   == Greatest({0, bounds[1]})
        top    == Greatest({0, bounds[2]})
    IN  <<left, top, Least({bounds[3], frame.width}) - left,
          Least({bounds[4], frame.height}) - top>>

(* A bitmap as its rows of text in the file give it back. *)
FromRows(bitmap) ==
    IF bitmap.height > 0 THEN bitmap ELSE [width |-> 0, height |-> 0, ink |-> {}]

(* The calibration that is written.  If the region has a negative area, as *)
(* when an origin is given that lies off the frame, the crop of the mask   *)
(* raises a ValueError and `configure` writes nothing.                     *)
Build(frame, mask, grid, run, lines) ==
    LET columns == Columns(grid, run)
        region  == Region(frame, grid, columns, lines)
        Char(p) == lines[p[1]][p[2]]
    IN  IF region[3] * region[4] < 0 THEN NoCalibration
        ELSE [width |-> frame.width, height |-> frame.height, grid |-> grid,
              threshold |-> Threshold(frame), inverted |-> Inverted(frame),
              text |-> NormaliseAll(lines),
              glyphs |-> [c \in {Char(p) : p \in Places(lines)} |->
                             Picture(mask, grid, columns,
                                     CHOOSE p \in Places(lines) : Char(p) = c)],
              region |-> region,
              region_mask |->
                  FromRows(Crop(mask, region[1], region[2], region[3], region[4]))]

(* What `configure` finds, or NoCalibration.  It stops at the first grid   *)
(* that verifies.                                                          *)
Analyse(frame, lines, cell, origin) ==
    LET mask == Binarise(frame, Threshold(frame), Inverted(frame))
        good == {p \in Proposals(FindBands(mask), lines, cell, origin) :
                    Verifies(mask, p.grid, p.run, lines)}
        first == CHOOSE p \in good : \A q \in good \ {p} : Sooner(p, q)
    IN  IF good = {} THEN NoCalibration
        ELSE Build(frame, mask, first.grid, first.run, lines)

(* A plausible bug: whatever is in the file will do. *)
AnyTextWillDo(calibration, lines) == Len(lines) > 0

(* check_calibration: is this the calibration of the configured text? *)
MatchesText(calibration, lines) == NormaliseAll(lines) = calibration.text
=============================================================================
