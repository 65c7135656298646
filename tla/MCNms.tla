-------------------------------- MODULE MCNms --------------------------------
(***************************************************************************)
(* Instances of Nms: three boxes of which only neighbours overlap by more   *)
(* than the threshold, and an empty one; confidences below, at and above    *)
(* the threshold.                                                           *)
(***************************************************************************)
EXTENDS Nms

MCRows ==
  {[cx |-> x, cy |-> 2, bw |-> w, bh |-> w, obj |-> o,
    prob |-> [c \in Class |-> p[c + 1]]] :
     x \in {2, 3, 4}, w \in {3, 4}, o \in {60, 90}, p \in {<<40, 50>>, <<100, 100>>}}
  \union {[cx |-> 2, cy |-> 2, bw |-> 0, bh |-> 0, obj |-> 90,
           prob |-> [c \in Class |-> 90]]}
=============================================================================
