------------------------------- MODULE MCPicture -------------------------------
(***************************************************************************)
(* Every image and panel of up to four pixels a side, one size that is too *)
(* large, and a word that just holds the largest product.                  *)
(***************************************************************************)
EXTENDS Picture

Sizes == 1..4

MCJobs ==
    [width: Sizes, height: Sizes, cols: Sizes, rows: 1..3,
     scale: {"Width", "Height", "Scroll"}, colour: {200}, alpha: {255}, rpi: {FALSE}]
        \cup
    [width: {1, 3}, height: {2}, cols: Sizes, rows: {1, 2}, scale: {"Scroll"},
     colour: {200}, alpha: {255}, rpi: {TRUE}]
        \cup
    [width: {0, 5}, height: {1}, cols: {2}, rows: {2}, scale: {"Scroll"}, colour: {9}, alpha: {0},
     rpi: BOOLEAN]
        \cup
    [width: {2}, height: {2}, cols: {3}, rows: {2}, scale: {"Height"},
     colour: {1, 255}, alpha: {0, 1, 128, 255}, rpi: {TRUE}]
=============================================================================
