----------------------------- MODULE MCClientCall -----------------------------
(***************************************************************************)
(* ClientCall with two callers. The first makes every kind of call: every  *)
(* combination of options, and every combination of the fields the server  *)
(* validates. The second is a probe or a program that competes with it for *)
(* the queue.                                                              *)
(***************************************************************************)
EXTENDS ClientCall

AllArgs ==
    [file: {"data"}, extension: {"ppm", "gif", "png"},
     mime: {"none", "IMAGE/GIF", "image/x-portable-pixmap"},
     mode: {"none", "Static", "Scroll"}, duration: {1}, cycles: {0, 1}, minimum: {0, 1}]
        \cup
    [file: {"unreadable", "empty"}, extension: {"other"}, mime: {"none"}, mode: {"none"},
     duration: {1}, cycles: {0}, minimum: {0}]

AllRequests ==
    [image: {"data"}, mime: {"IMAGE/GIF", "image/png", "image/x-portable-pixmap"},
     mode: Modes \cup {"Unknown"}, duration: {-1, 0, 1}, cycles: {0, 1}, minimum: {0}]
        \cup
    [image: {"data"}, mime: {"image/png"}, mode: {"Scroll"}, duration: {0, 1}, cycles: {0, 1},
     minimum: {1}]
        \cup
    [image: {"missing", "empty"}, mime: {"image/png"}, mode: {"Static"}, duration: {1},
     cycles: {0}, minimum: {0}]

FewRequests == [image: {"data"}, mime: {"image/png"}, mode: {"Scroll"},
                duration: {0, 1}, cycles: {0}, minimum: {0}]

MCArgs == [c \in Callers |-> IF c = "first" THEN AllArgs ELSE {}]
MCRequests == [c \in Callers |-> IF c = "first" THEN AllRequests ELSE FewRequests]
=============================================================================
