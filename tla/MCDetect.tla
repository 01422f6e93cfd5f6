------------------------------ MODULE MCDetect ------------------------------
(***************************************************************************)
(* Constants for model-checking Detect: a font of four letters of 3 by 4   *)
(* pixels in cells of 4 by 6, on a screen of 4 by 3 cells.                 *)
(***************************************************************************)
EXTENDS Detect, TLC

E == 1
F == 2
A == 3
a == 4

MCFold == (Space :> Space) @@ (E :> E) @@ (F :> F) @@ (A :> A) @@ (a :> A)
          @@ (Unknown :> Unknown)

Box == (0 .. 2) \X (0 .. 3)

(* E and F differ in two pixels of the last row. *)
MCFont ==
    (Space :> {})
    @@ (E :> Box \ {<<1, 1>>, <<2, 1>>, <<2, 2>>})
    @@ (F :> Box \ {<<1, 1>>, <<2, 1>>, <<2, 2>>, <<1, 3>>, <<2, 3>>})
    @@ (A :> Box \ {<<1, 1>>, <<1, 3>>})
    @@ (a :> Box \ {<<0, 0>>, <<1, 0>>, <<2, 0>>, <<1, 2>>})

MCFontCell == <<4, 6>>

(* Two lines with a letter that occurs in both; a line with none. *)
TwoLines == <<<<E, A, E>>, <<a, E>>>>
OneLine == <<<<E, Space, F>>>>
MCTexts == {TwoLines, OneLine}

(* No hint; the right cell; the right cell and the place of a message at   *)
(* cell <<1, 1>>, or places right of the frame and beyond its corner.      *)
MCHints == {[cell |-> None, origin |-> None],
            [cell |-> <<4, 6>>, origin |-> None],
            [cell |-> <<4, 6>>, origin |-> <<4, 6>>],
            [cell |-> <<4, 6>>, origin |-> <<20, 6>>],
            [cell |-> <<4, 6>>, origin |-> <<20, 20>>]}

Mode(width, paper, pen) ==
    [width |-> width, height |-> 18, paper |-> paper, pen |-> pen]

Plain == Mode(16, 0, 200)

Shots(lines, places, modes, specks) ==
    {[lines |-> lines, at |-> p, mode |-> m, specks |-> s] :
        p \in places, m \in modes, s \in specks}

(* The messages in several places; other screens like them; the message in *)
(* other modes and with stray pixels: in a letter, beside the short line,  *)
(* below a letter.                                                         *)
MCScreens ==
    Shots(<<>>, {<<0, 0>>}, {Plain}, {{}})
    \cup Shots(TwoLines, (0 .. 1) \X (0 .. 1), {Plain}, {{}})
    \cup Shots(OneLine, (0 .. 1) \X (0 .. 2), {Plain}, {{}})
    \cup Shots(<<<<F, A, E>>, <<a, E>>>>, {<<0, 0>>, <<1, 1>>}, {Plain}, {{}})
    \cup Shots(<<<<F, A, F>>, <<a, E>>>>, {<<1, 1>>}, {Plain}, {{}})
    \cup Shots(<<<<E, a, E>>, <<A, E>>>>, {<<0, 1>>, <<1, 1>>}, {Plain}, {{}})
    \cup Shots(<<<<F, F>>, <<E, A, E>>, <<a, E>>>>, {<<1, 0>>}, {Plain}, {{}})
    \cup Shots(<<<<E, Space, E>>>>, {<<0, 1>>, <<1, 1>>}, {Plain}, {{}})
    \cup Shots(<<<<E>>, <<F>>>>, {<<1, 1>>}, {Plain}, {{}})
    \cup Shots(TwoLines, {<<1, 1>>},
               {Mode(20, 0, 200), Mode(16, 60, 255), Mode(16, 200, 0), Mode(16, 0, 30)},
               {{}})
    \cup Shots(TwoLines, {<<1, 1>>}, {Plain},
               {{<<5, 7>>}, {<<13, 13>>}, {<<5, 10>>}})

(* `configure` is run on the messages, on other screens, on stray pixels. *)
MCLessons ==
    Shots(TwoLines, {<<0, 0>>, <<1, 1>>}, {Plain}, {{}})
    \cup Shots(OneLine, {<<1, 1>>}, {Plain}, {{}})
    \cup Shots(<<<<F, A, F>>, <<a, E>>>>, {<<1, 1>>}, {Plain}, {{}})
    \cup Shots(<<<<E, Space, E>>>>, {<<1, 1>>}, {Plain}, {{}})
    \cup Shots(<<<<F, F>>, <<E, A, E>>, <<a, E>>>>, {<<1, 0>>}, {Plain}, {{}})
    \cup Shots(TwoLines, {<<1, 1>>}, {Mode(16, 200, 0), Mode(16, 0, 30)}, {{}})
    \cup Shots(TwoLines, {<<1, 1>>}, {Plain}, {{<<13, 13>>}})

(* For the run about a blank screen: a hint that lies above the message. *)
MCWrongHint == {[cell |-> <<4, 6>>, origin |-> <<4, 0>>]}
MCShortText == {<<<<E, A, E>>>>}
MCBlankScreens == Shots(<<>>, {<<0, 0>>}, {Plain}, {{}})
                  \cup Shots(<<<<E, A, E>>>>, (0 .. 1) \X (0 .. 2), {Plain}, {{}})

(* For the run about a message that moves: no hint, and the longer text. *)
MCNoHint == {[cell |-> None, origin |-> None]}
MCOneText == {TwoLines}

(* What the proofs take of font and lessons. *)
ASSUME ReadableFont /\ DistinctFont /\ UnknownStandsAlone
ASSUME OrdinaryLessons
=============================================================================
