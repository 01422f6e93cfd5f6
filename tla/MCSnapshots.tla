---------------------------- MODULE MCSnapshots -----------------------------
(***************************************************************************)
(* Constants for model-checking Snapshots: two daemons, and an album with *)
(* every colour type and depth under every pair of filters.                *)
(***************************************************************************)
EXTENDS Snapshots

CONSTANTS d1, d2

(* Two consoles, with screens of two sizes. *)
Small == [width |-> 1, height |-> 1, data |-> <<1, 2, 3>>]
Large == [width |-> 1, height |-> 2, data |-> <<0, 9, 255, 128, 7, 200>>]
MCFrames == [w \in Writers |-> IF w = d1 THEN {Small} ELSE {Large}]

(* In the middle of the data. *)
MCStops == {<<1, TRUE>>}

Kinds ==
    {<<Grey, 8>>, <<Grey, 16>>, <<RGB, 8>>, <<RGB, 16>>, <<GreyAlpha, 8>>,
     <<GreyAlpha, 16>>, <<RGBA, 8>>, <<RGBA, 16>>,
     <<Palette, 1>>, <<Palette, 2>>, <<Palette, 4>>, <<Palette, 8>>}

(* Samples that wrap around and pull every predictor its own way. *)
SampleFor(kind, seed, y, x, c) ==
    LET v == 61 * seed * (x + 1) + 97 * y * (c + 2) + 177 * x * y IN
    CASE kind[1] = Palette -> v % (IF kind[2] = 1 THEN 2 ELSE 4)
      [] kind[2] = 16 -> (v * 257 + 40 * seed) % 65536
      [] kind[2] = 8 -> v % 256

PictureOf(kind, seed) ==
    [width |-> 3, height |-> 2, colour |-> kind[1], depth |-> kind[2],
     palette |-> IF kind[1] = Palette
                 THEN [i \in 1..12 |-> (i * 37 + seed) % 256] ELSE <<>>,
     samples |-> [y \in 1..2 |-> [x \in 0..2 |-> [c \in 0..Channels[kind[1]] - 1 |->
                     SampleFor(kind, seed, y, x, c)]]]]

MCAlbum ==
    {[pic |-> PictureOf(kind, seed), types |-> types] :
        kind \in Kinds, seed \in {1, 2}, types \in {<<s, t>> : s, t \in 0..4}}
=============================================================================
