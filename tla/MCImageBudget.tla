----------------------------- MODULE MCImageBudget -----------------------------
(***************************************************************************)
(* ImageBudget on panels and pictures of a few pixels, with every kind of  *)
(* value in every variable, and limits just below, at and just above what  *)
(* the buffers need. The widths are those of a u15 and a u30: numbers of   *)
(* one are often not numbers of the other, and TLC can count both.         *)
(***************************************************************************)
EXTENDS ImageBudget

Unset == [kind |-> "unset", value |-> 0]
NotUnicode == [kind |-> "notUnicode", value |-> 0]
Garbage == [kind |-> "garbage", value |-> 0]
Number(n) == [kind |-> "number", value |-> n]

Usual ==
    [rpi |-> TRUE, grpc_addr |-> Unset, worker_timeout |-> Unset,
     rows |-> Number(1), cols |-> Number(2), brightness |-> Unset,
     refresh |-> Unset, slowdown |-> Unset, pwm_bits |-> Unset,
     dimension |-> Number(3), frames |-> Number(2), decoded |-> Number(32),
     render |-> Number(18)]

\* One variable of the usual environment has another value.
OneChanged ==
    UNION {{[Usual EXCEPT ![v] = raw] :
              raw \in {Unset, NotUnicode, Garbage, Number(-1), Number(0), Number(11),
                       Number(257), Number(267), Number(U32 - 1), Number(U32),
                       Number(U32 + 60), Number(U64 - 1), Number(U64)}}
             : v \in DOMAIN Usual \ {"rpi", "rows", "cols"}}

\* The render limit and the decoder's, at and around what two frames need.
Boundaries ==
    {[Usual EXCEPT !.render = Number(r), !.decoded = Number(d)] :
       r \in {11, 12, 17, 18, 24}, d \in {15, 16, 31, 32, 33, 64}}
        \cup
    {[Usual EXCEPT !.rpi = FALSE, !.render = Number(r)] : r \in {18, 811, 812, 817, 818}}

\* Panels of other sizes, and one that does not parse.
Panels ==
    {[Usual EXCEPT !.rows = r, !.cols = c, !.render = Number(36)] :
       r \in {Number(0), Number(2), Number(4)}, c \in {Number(1), Number(3), Garbage}}

MCEnvironments == OneChanged \cup Boundaries \cup Panels

MCPictures ==
    [kind: {"gif"}, width: {1, 2}, height: {2}, depth: {4}, frames: 0..3,
     scroll: {FALSE}]
        \cup
    [kind: {"still"}, width: {0, 1, 3, 4}, height: {1, 3}, depth: {1, 4}, frames: {1},
     scroll: BOOLEAN]
=============================================================================
