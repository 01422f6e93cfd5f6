------------------------------- MODULE Detect -------------------------------
(***************************************************************************)
(* Calibration and detection (calibrate.py, detect.py) around one file.    *)
(*                                                                         *)
(* A console shows text on a grid of cells.  The operator sets the text to *)
(* look for and runs `configure`, which learns a calibration from what the *)
(* console shows at that moment; the daemon reads the file once, when it   *)
(* starts, and answers for every frame whether the text is on it.  The     *)
(* console, the configuration and the file change at any time.             *)
(***************************************************************************)
EXTENDS Calibrate

CONSTANTS Texts,        \* what may be configured: sequences of lines
          Screens,      \* what the console may show
          Lessons,      \* those of them `configure` is run on (a bound)
          Font,         \* the console's font: the ink of each character
          FontCell,     \* the size of its cells
          Unknown,      \* the replacement character
          Hints,        \* --cell and --origin: pairs, None where not given
          Tolerance,    \* detect.tolerance, in percent
          NoAnswer

ASSUME AnswersDiffer ==
    NoAnswer \notin {"region", "region+glyph", "glyph", "no match", "uncalibrated"}

(* Code points are numbers, the ink of a character lies in its cell, and a *)
(* blank has none.                                                         *)
ASSUME FontAssumption ==
    /\ FontCell \in (Nat \ {0}) \X (Nat \ {0})
    /\ \A c \in DOMAIN Font :
            c \in Nat /\ Font[c] \subseteq Area(FontCell[1], FontCell[2])
    /\ Space \in DOMAIN Font /\ Font[Space] = {}

(* Lines of characters of the font. *)
AreLines(lines) ==
    lines \in Seq(Seq(DOMAIN Font))

(* DetectConfig.lines: stripped, and none of them empty. *)
IsText(lines) ==
    /\ AreLines(lines) /\ lines # <<>>
    /\ \A i \in DOMAIN lines :
            lines[i] # <<>> /\ lines[i][1] # Space /\ lines[i][Len(lines[i])] # Space

(* A console has its characters and its stray pixels on the screen. *)
IsScreen(s) ==
    /\ AreLines(s.lines) /\ s.at \in Nat \X Nat
    /\ s.mode \in [width : Nat \ {0}, height : Nat \ {0}, paper : 0 .. 255, pen : 0 .. 255]
    /\ \A i \in DOMAIN s.lines :
            /\ (s.at[1] + Len(s.lines[i])) * FontCell[1] <= s.mode.width
            /\ (s.at[2] + i) * FontCell[2] <= s.mode.height
    /\ s.specks \subseteq Area(s.mode.width, s.mode.height)

ASSUME DetectAssumption ==
    /\ \A t \in Texts : IsText(t)
    /\ \A s \in Screens \cup Lessons : IsScreen(s)
    /\ \A hint \in Hints :
            /\ hint.cell = None \/ hint.cell \in Int \X Int
            /\ hint.origin = None \/ hint.origin \in Int \X Int

VARIABLES screen,       \* what the console shows
          text,         \* detect.text of the configuration file, as lines
          file,         \* the calibration file
          lesson,       \* where the file was learned from: screen and text
          daemon,       \* the running daemon's own copies
          answer        \* its answer for what the console shows

vars == <<screen, text, file, lesson, daemon, answer>>

-----------------------------------------------------------------------------
(* The console: lines of characters, the first at cell `at`; its colours   *)
(* and size; stray pixels.                                                 *)

Cells(s) == Places(s.lines)

CellInk(s, place) ==
    LET x == (s.at[1] + place[2] - 1) * FontCell[1]
        y == (s.at[2] + place[1] - 1) * FontCell[2]
    IN  {<<x + p[1], y + p[2]>> : p \in Font[s.lines[place[1]][place[2]]]}

Render(s) ==
    LET drawn == UNION {CellInk(s, p) : p \in Cells(s)}
    IN  [width |-> s.mode.width, height |-> s.mode.height,
         paper |-> s.mode.paper, pen |-> s.mode.pen,
         ink |-> (drawn \ s.specks) \cup (s.specks \ drawn)]

-----------------------------------------------------------------------------
(* The detector.                                                           *)

(* The character a picture stands for.  A blank one is a space, whatever   *)
(* else was learned as blank; of two characters that look alike the first  *)
(* in the order of the file counts, which is that of the code points.      *)
CharOf(calibration, picture) ==
    LET alike == {c \in DOMAIN calibration.glyphs : calibration.glyphs[c] = picture}
    IN  IF Count(picture) = 0 THEN Space
        ELSE IF alike = {} THEN Unknown ELSE Least(alike)

(* A plausible bug: the reading starts at the message. *)
StartAtTheMessage(grid) == <<grid.origin_x, grid.origin_y>>

(* Where the reading of a screen starts: the calibrated origin, moved back *)
(* to the top left in whole cells.                                         *)
StartOf(grid) == <<grid.origin_x % grid.cell_width, grid.origin_y % grid.cell_height>>

(* Rows of characters put together, with a blank after each. *)
InRows(rows, columns, char) ==
    [n \in 1 .. rows * (columns + 1) |->
        LET i == ((n - 1) \div (columns + 1)) + 1
            k == ((n - 1) % (columns + 1)) + 1
        IN  IF k > columns THEN Space ELSE char[<<i, k>>]]

(* All whole cells, row by row, a blank after each row.  Blanks at the end *)
(* of a row and empty rows, which the code drops, mean nothing further on. *)
ReadScreen(calibration, mask) ==
    LET grid    == calibration.grid
        start   == StartOf(grid)
        columns == Greatest({0, (mask.width - start[1]) \div grid.cell_width})
        rows    == Greatest({0, (mask.height - start[2]) \div grid.cell_height})
        Cell(i, k) == Crop(mask, start[1] + (k - 1) * grid.cell_width,
                           start[2] + (i - 1) * grid.cell_height,
                           grid.cell_width, grid.cell_height)
    IN  InRows(rows, columns,
               [p \in (1 .. rows) \X (1 .. columns) |-> CharOf(calibration, Cell(p[1], p[2]))])

IsPartOf(part, whole) ==
    \E i \in 0 .. Len(whole) - Len(part) :
        \A k \in 1 .. Len(part) : whole[i + k] = part[k]

Says(characters, lines) ==
    LET haystack == Normalise(characters)
    IN  \A i \in DOMAIN lines : IsPartOf(lines[i], haystack)

GlyphMatch(calibration, mask) ==
    Says(ReadScreen(calibration, mask), calibration.text)

(* How many pixels of the region differ, of how many; another size of the  *)
(* frame is no match, however close.                                       *)
RegionMatch(calibration, mask, frame) ==
    LET r     == calibration.region
        total == r[3] * r[4]
        differing == Differences(Crop(mask, r[1], r[2], r[3], r[4]),
                                 calibration.region_mask)
        same  == frame.width = calibration.width /\ frame.height = calibration.height
        close == IF total = 0 THEN Tolerance >= 100
                 ELSE 100 * differing <= Tolerance * total
    IN  [near |-> same /\ close, exact |-> same /\ total > 0 /\ differing = 0]

(* A plausible bug: a near match is a match. *)
AcceptsTheNearMatch(calibration, frame) ==
    LET mask   == Binarise(frame, calibration.threshold, calibration.inverted)
        region == RegionMatch(calibration, mask, frame)
    IN  CASE region.near -> "region"
          [] ~region.near /\ GlyphMatch(calibration, mask) -> "glyph"
          [] OTHER -> "no match"

(* An exact region is enough.  A near one is not: the text must be read.   *)
Detected(calibration, frame) ==
    LET mask   == Binarise(frame, calibration.threshold, calibration.inverted)
        region == RegionMatch(calibration, mask, frame)
    IN  CASE region.exact -> "region"
          [] ~region.exact /\ GlyphMatch(calibration, mask) ->
                IF region.near THEN "region+glyph" ELSE "glyph"
          [] OTHER -> "no match"

Matched == answer \in {"region", "region+glyph", "glyph"}

-----------------------------------------------------------------------------
Init ==
    /\ screen \in Screens
    /\ text \in Texts
    /\ file = NoCalibration
    /\ lesson = NoCalibration
    /\ daemon = [calibration |-> NoCalibration, lines |-> text,
                 lesson |-> NoCalibration]
    /\ answer = NoAnswer

(* The console shows something else. *)
Show ==
    /\ screen' \in Screens
    /\ answer' = NoAnswer
    /\ UNCHANGED <<text, file, lesson, daemon>>

(* The operator configures another text; the daemon does not notice. *)
Reword ==
    /\ text' \in Texts
    /\ UNCHANGED <<screen, file, lesson, daemon, answer>>

(* What `configure` finds: a function of its input, so a constant. *)
Learned ==
    {[screen |-> s, lines |-> t,
      calibration |-> Analyse(Render(s), t, hint.cell, hint.origin)] :
        s \in Lessons, t \in Texts, hint \in Hints}

(* `configure`.  If the analysis finds nothing the file stays as it is.    *)
Configure ==
    \E found \in Learned :
        /\ found.screen = screen /\ found.lines = text
        /\ found.calibration # NoCalibration
        /\ file' = found.calibration
        /\ lesson' = [screen |-> screen, lines |-> text]
        /\ UNCHANGED <<screen, text, daemon, answer>>

(* `run`, again and again.  Without a calibration, or with one of another  *)
(* text, the daemon watches but answers nothing but no.                    *)
Start ==
    LET usable == file # NoCalibration /\ MatchesText(file, text)
    IN  /\ daemon' = [calibration |-> IF usable THEN file ELSE NoCalibration,
                      lines |-> text, lesson |-> lesson]
        /\ answer' = NoAnswer
        /\ UNCHANGED <<screen, text, file, lesson>>

(* The daemon looks at a frame. *)
Look ==
    /\ answer = NoAnswer
    /\ answer' = IF daemon.calibration = NoCalibration THEN "uncalibrated"
                 ELSE Detected(daemon.calibration, Render(screen))
    /\ UNCHANGED <<screen, text, file, lesson, daemon>>

Next == Show \/ Reword \/ Configure \/ Start \/ Look

Spec == Init /\ [][Next]_vars

-----------------------------------------------------------------------------
(* What the properties speak of.                                           *)

(* How far the learned grid lies up and left of the console's own. *)
Shift(grid) == <<(-grid.origin_x) % FontCell[1], (-grid.origin_y) % FontCell[2]>>

(* The lines of the learned grid run between the characters. *)
CutsBetweenCharacters(grid) ==
    LET shift == Shift(grid)
    IN  /\ <<grid.cell_width, grid.cell_height>> = FontCell
        /\ \A c \in DOMAIN Font, p \in Area(FontCell[1], FontCell[2]) :
                p \in Font[c] => /\ p[1] + shift[1] < FontCell[1]
                                 /\ p[2] + shift[2] < FontCell[2]

(* The console's cell in which the learned grid begins. *)
Corner(grid) ==
    LET shift == Shift(grid)
    IN  <<(grid.origin_x + shift[1]) \div FontCell[1],
          (grid.origin_y + shift[2]) \div FontCell[2]>>

(* The calibration in use was learned from its own text on a clean screen. *)
LearnedFromTheMessage ==
    /\ daemon.calibration # NoCalibration
    /\ daemon.lesson.screen.lines = daemon.lesson.lines
    /\ daemon.lesson.screen.specks = {}

(* And on the grid that the text was on. *)
LearnedOnItsGrid ==
    /\ LearnedFromTheMessage
    /\ CutsBetweenCharacters(daemon.calibration.grid)
    /\ Corner(daemon.calibration.grid)[1] <= daemon.lesson.screen.at[1]
    /\ Corner(daemon.calibration.grid)[2] = daemon.lesson.screen.at[2]

(* What somebody who looks at the screen reads. *)
Reads(s) ==
    LET columns == Greatest({0} \cup {Len(s.lines[i]) : i \in DOMAIN s.lines})
    IN  InRows(Len(s.lines), columns,
               [p \in (DOMAIN s.lines) \X (1 .. columns) |->
                   IF p[2] <= Len(s.lines[p[1]]) THEN s.lines[p[1]][p[2]] ELSE Space])

(* The console has the colours that the calibration takes for ink and      *)
(* paper.                                                                  *)
Legible(s, calibration) ==
    IF calibration.inverted
    THEN s.mode.pen < calibration.threshold /\ s.mode.paper >= calibration.threshold
    ELSE s.mode.pen > calibration.threshold /\ s.mode.paper <= calibration.threshold

(* Every character of the screen lies in a cell that is read. *)
InReach(s, grid) ==
    LET shift == Shift(grid)
    IN  \A p \in Cells(s) :
            LET x == (s.at[1] + p[2] - 1) * FontCell[1] - shift[1]
                y == (s.at[2] + p[1] - 1) * FontCell[2] - shift[2]
            IN  /\ x >= 0 /\ x + FontCell[1] <= s.mode.width
                /\ y >= 0 /\ y + FontCell[2] <= s.mode.height

(* No stray pixel within a character. *)
SpecksAreElsewhere(s, grid) ==
    LET shift == Shift(grid)
    IN  \A p \in Cells(s), q \in s.specks :
            <<(q[1] + shift[1]) \div FontCell[1], (q[2] + shift[2]) \div FontCell[2]>>
                # <<s.at[1] + p[2] - 1, s.at[2] + p[1] - 1>>

-----------------------------------------------------------------------------
(* What a console's font and an ordinary screen are like.                  *)

(* Only the blank has no ink, and what looks alike is one letter. *)
ReadableFont ==
    \A c, d \in DOMAIN Font :
        /\ Font[c] = {} => c = Space
        /\ Font[c] = Font[d] => Fold[c] = Fold[d]

(* No two characters look alike. *)
DistinctFont == \A c, d \in DOMAIN Font : Font[c] = Font[d] => c = d

(* What stands for an unknown picture is no character, in any case. *)
UnknownStandsAlone == \A c \in DOMAIN Font : Fold[c] # Fold[Unknown]

(* A character has its ink so far to the left that, in a grid that lies as *)
(* far to the left as the font allows, it is still nearest to its own cell. *)
BeginsAtTheLeft(c) ==
    \A room \in 0 .. FontCell[1] - 1 :
        (\A d \in DOMAIN Font : \A p \in Font[d] : p[1] + room < FontCell[1])
            => \E p \in Font[c] : 2 * (p[1] + room) < FontCell[1]

(* A line starts with such a character, and no row of pixels parts it. *)
OrdinaryLine(line) ==
    LET rows == {p[2] : p \in UNION {Font[line[k]] : k \in DOMAIN line}}
    IN  line # <<>> =>
            /\ BeginsAtTheLeft(line[1])
            /\ \A y, z \in rows : y .. z \subseteq rows

(* The calibrations are made from lines of this kind on a mostly blank screen. *)
OrdinaryLessons ==
    \A s \in Lessons :
        /\ \A i \in DOMAIN s.lines : OrdinaryLine(s.lines[i])
        /\ 2 * Cardinality(Render(s).ink) < s.mode.width * s.mode.height

-----------------------------------------------------------------------------
(* Properties.                                                             *)

(* The region lies within the frame and, unless it is empty, its mask has  *)
(* its size; every picture has the size of a cell.                         *)
CalibrationOK(c) ==
    /\ c.region[1] >= 0 /\ c.region[1] + c.region[3] <= c.width
    /\ c.region[2] >= 0 /\ c.region[2] + c.region[4] <= c.height
    /\ c.region[4] > 0 => /\ c.region_mask.width = c.region[3]
                          /\ c.region_mask.height = c.region[4]
    /\ \A g \in DOMAIN c.glyphs :
            /\ c.glyphs[g].width = c.grid.cell_width
            /\ c.glyphs[g].height = c.grid.cell_height

TypeOK ==
    /\ screen \in Screens
    /\ text \in Texts /\ daemon.lines \in Texts
    /\ file # NoCalibration => CalibrationOK(file)
    /\ daemon.calibration # NoCalibration => CalibrationOK(daemon.calibration)
    /\ answer = NoAnswer \/ Matched \/ answer \in {"no match", "uncalibrated"}

(* detect: whatever the tolerance, an answer of yes has evidence: the      *)
(* region is what it was, pixel by pixel, or the lines that were           *)
(* configured when the daemon started were read on the screen.             *)
MatchIsEvidence ==
    Matched =>
        LET calibration == daemon.calibration
            frame == Render(screen)
            mask  == Binarise(frame, calibration.threshold, calibration.inverted)
        IN  \/ RegionMatch(calibration, mask, frame).exact
            \/ Says(ReadScreen(calibration, mask), NormaliseAll(daemon.lines))

(* detect: a match means that every line that was configured when the      *)
(* daemon started can be read on the screen, whatever is nearly like it    *)
(* and whatever happened to file and configuration since.                  *)
OnlyTheMessage ==
    /\ Matched
    /\ LearnedOnItsGrid
    => Says(Reads(screen), NormaliseAll(daemon.lines))

(* detect, read_screen: the message is recognised in every place that the  *)
(* reading reaches, wrapped or in other capitals, at another screen size,  *)
(* in other colours on the same side of the threshold, with other text     *)
(* around it and, unwrapped, with stray pixels beside its characters.      *)
SeenWhereverItMoves ==
    /\ answer # NoAnswer
    /\ LearnedOnItsGrid
    /\ Says(Reads(screen), NormaliseAll(daemon.lines))
    /\ UNION {{screen.lines[i][k] : k \in DOMAIN screen.lines[i]} :
                i \in DOMAIN screen.lines}
            \subseteq DOMAIN daemon.calibration.glyphs
    /\ Legible(screen, daemon.calibration)
    /\ InReach(screen, daemon.calibration.grid)
    /\ \/ screen.specks = {}
       \/ /\ screen.lines = daemon.lines
          /\ SpecksAreElsewhere(screen, daemon.calibration.grid)
    => Matched

(* _extract, _delta: what a delta of zero shows.  If the grid lies between *)
(* the characters, the screen it was learned from repeats its characters   *)
(* where the message repeats its own, over all lines.                      *)
VerifiedMeansSameShape ==
    /\ file # NoCalibration
    /\ lesson.screen.specks = {}
    /\ CutsBetweenCharacters(file.grid)
    /\ Corner(file.grid)[1] <= lesson.screen.at[1]
    => LET shown == lesson.screen.lines
           above == Corner(file.grid)[2] - lesson.screen.at[2]
           Shown(p) == IF /\ above + p[1] \in DOMAIN shown
                          /\ p[2] \in DOMAIN shown[above + p[1]]
                       THEN shown[above + p[1]][p[2]] ELSE Space
       IN  \A p, q \in Places(lesson.lines) :
                lesson.lines[p[1]][p[2]] = lesson.lines[q[1]][q[2]] => Shown(p) = Shown(q)

(* detect.py on reading the screen: it "survives the message appearing a   *)
(* line higher or lower than it did during calibration".                   *)
SurvivesMovingALine ==
    /\ answer # NoAnswer
    /\ LearnedFromTheMessage
    /\ screen.lines = daemon.lines
    /\ screen.specks = {}
    /\ screen.mode = daemon.lesson.screen.mode
    /\ screen.at[1] = daemon.lesson.screen.at[1]
    /\ screen.at[2] - daemon.lesson.screen.at[2] \in {-1, 1}
    => Matched

(* calibrate.py on a delta of zero: a calibration that verifies "has       *)
(* demonstrated it can reproduce the screen it came from".  So a screen    *)
(* with nothing on it is not the message.                                  *)
BlankIsNoMatch ==
    Matched /\ LearnedFromTheMessage => Render(screen).ink # {}
=============================================================================
