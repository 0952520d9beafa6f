------------------------------ MODULE MCPlayback ------------------------------
(***************************************************************************)
(* Playback on small instances: pictures of one to three columns, up to    *)
(* two cycles, animations of up to three frames, and times around the      *)
(* interval, the delays and the deadline.                                  *)
(***************************************************************************)
EXTENDS Playback

MCDisplays ==
    [mode: {"Static"}, width: {2}, cycles: {0}, duration: {0, 3, 9}, minimum: {0}]
        \cup
    [mode: {"ScrollHorizontal"}, width: {1, 2, 3}, cycles: {0}, duration: {4, 9}, minimum: {0}]
        \cup
    [mode: {"ScrollHorizontal"}, width: {1, 2, 3}, cycles: {1, 2}, duration: {0}, minimum: {0, 6}]
        \cup
    [mode: {"Animated"}, width: {1, 2, 3}, cycles: {0}, duration: {0, 5, 9}, minimum: {0}]
=============================================================================
