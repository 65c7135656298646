--------------------------------- MODULE Nms ---------------------------------
(***************************************************************************)
(* The post-processing of examples/rknn_yolo/main.cpp: what the worker      *)
(* makes of the output of the network.  parse_yolox_output() turns the rows *)
(* that are confident enough into detections, nms() sorts them and keeps    *)
(* those that no better one overlaps.  One action is one turn of a loop.    *)
(*                                                                         *)
(* Probabilities and thresholds are in per cent, a confidence is in per     *)
(* cent of a per cent.  Boxes are in half pixels, so that the half of an    *)
(* odd width is a number.                                                   *)
(***************************************************************************)
EXTENDS Integers, Sequences

CONSTANTS Rows,         \* the rows the network may produce
          num_anchors,  \* how many it produces
          NumClasses,   \* classes of the model
          conf_thresh, iou_thresh,
          scale_x, scale_y  \* pixels of the image for one of the input

ASSUME NmsAssumption == num_anchors \in Nat

Class == 0..(NumClasses - 1)

VARIABLES rows,        \* the output of the network
          pc,          \* "parse", "suppress" or "done"
          i,           \* the index of the loop
          dets,        \* detections
          suppressed,  \* a better detection overlaps this one
          result       \* detections that are kept

vars == <<rows, pc, i, dets, suppressed, result>>

-----------------------------------------------------------------------------
(* parse_yolox_output().                                                   *)

\* The first of the classes with the greatest probability, and that.
best_cls(row) ==
  CHOOSE c \in Class : /\ \A k \in Class : row.prob[k] <= row.prob[c]
                       /\ \A k \in Class : k < c => row.prob[k] < row.prob[c]
score(row) == row.obj * row.prob[best_cls(row)]

\* Variant: only the confidence in the object is looked at.
PassesObject(row) == row.obj >= conf_thresh
Passes(row) == /\ row.obj >= conf_thresh
               /\ score(row) >= 100 * conf_thresh

Decode(row) ==
  [x1 |-> (2 * row.cx - row.bw) * scale_x, y1 |-> (2 * row.cy - row.bh) * scale_y,
   x2 |-> (2 * row.cx + row.bw) * scale_x, y2 |-> (2 * row.cy + row.bh) * scale_y,
   confidence |-> score(row), class_id |-> best_cls(row)]

Init ==
  /\ rows \in [1..num_anchors -> Rows]
  /\ pc = "parse" /\ i = 1
  /\ dets = <<>> /\ suppressed = <<>> /\ result = <<>>

ParseRow ==
  /\ pc = "parse" /\ i <= num_anchors
  /\ dets' = IF Passes(rows[i]) THEN Append(dets, Decode(rows[i])) ELSE dets
  /\ i' = i + 1
  /\ UNCHANGED <<rows, pc, suppressed, result>>

-----------------------------------------------------------------------------
(* nms().                                                                  *)

Least(a, b)    == IF a <= b THEN a ELSE b
Greatest(a, b) == IF a >= b THEN a ELSE b

\* iou(a, b) > iou_thresh, multiplied by the union, which is positive when
\* the boxes intersect.
Exceeds(a, b) ==
  LET iw == Greatest(0, Least(a.x2, b.x2) - Greatest(a.x1, b.x1))
      ih == Greatest(0, Least(a.y2, b.y2) - Greatest(a.y1, b.y1))
      inter  == iw * ih
      area_a == (a.x2 - a.x1) * (a.y2 - a.y1)
      area_b == (b.x2 - b.x1) * (b.y2 - b.y1)
  IN inter > 0 /\ 100 * inter > iou_thresh * (area_a + area_b - inter)

Permutation(n) == {p \in [1..n -> 1..n] : \A k \in 1..n : \E j \in 1..n : p[j] = k}

\* Variant: the detections stay in the order of the rows.
OrderedAny(s) == TRUE
\* a comes before b only if a.confidence > b.confidence or they are equal.
Ordered(s) == \A j, k \in DOMAIN s : j <= k => s[j].confidence >= s[k].confidence

\* Variant: the flags are those of an empty vector.
UnsuppressedEmpty == <<>>
Unsuppressed == [k \in 1..Len(dets) |-> FALSE]

\* std::sort() leaves equal confidences in any order.
Sort ==
  /\ pc = "parse" /\ i > num_anchors
  /\ \E p \in Permutation(Len(dets)) :
       /\ dets' = [k \in 1..Len(dets) |-> dets[p[k]]]
       /\ Ordered(dets')
  /\ suppressed' = Unsuppressed
  /\ pc' = "suppress" /\ i' = 1
  /\ UNCHANGED <<rows, result>>

SkipSuppressed ==
  /\ pc = "suppress" /\ i <= Len(dets)
  /\ suppressed[i]
  /\ i' = i + 1
  /\ UNCHANGED <<rows, pc, dets, suppressed, result>>

\* Variant: the inner loop stops at the first detection it suppresses.
SuppressFirst(s) ==
  [j \in DOMAIN s |-> \/ s[j]
                      \/ /\ j > i /\ Exceeds(dets[i], dets[j])
                         /\ \A k \in (i + 1)..(j - 1) : ~Exceeds(dets[i], dets[k])]
SuppressOverlapped(s) ==
  [j \in DOMAIN s |-> s[j] \/ (j > i /\ Exceeds(dets[i], dets[j]))]

KeepBest ==
  /\ pc = "suppress" /\ i <= Len(dets)
  /\ ~suppressed[i]
  /\ result' = Append(result, dets[i])
  /\ suppressed' = SuppressOverlapped(suppressed)
  /\ i' = i + 1
  /\ UNCHANGED <<rows, pc, dets>>

Return ==
  /\ pc = "suppress" /\ i > Len(dets)
  /\ pc' = "done"
  /\ UNCHANGED <<rows, i, dets, suppressed, result>>

Terminated == pc = "done" /\ UNCHANGED vars

Next == ParseRow \/ Sort \/ SkipSuppressed \/ KeepBest \/ Return \/ Terminated

Spec == Init /\ [][Next]_vars

-----------------------------------------------------------------------------
(* Properties.                                                             *)

Detections == {Decode(row) : row \in Rows}

\* Every variable has a value of its kind.
TypeOK ==
  /\ rows \in [1..num_anchors -> Rows]
  /\ pc \in {"parse", "suppress", "done"}
  /\ i \in Nat \ {0}
  /\ dets \in Seq(Detections) /\ result \in Seq(Detections)
  /\ pc # "parse" => suppressed \in [DOMAIN dets -> BOOLEAN]

\* Of two detections that are kept, neither hides the other: the one that
\* came later was not suppressed by the earlier one.
KeptApart ==
  \A a, b \in DOMAIN result : a < b => ~Exceeds(result[a], result[b])

\* Nothing confident gets lost on the way through parsing, sorting and
\* suppression: a row above the thresholds is in the result, or one that is
\* at least as confident is there and overlaps it.
Represented(row) ==
  \E a \in DOMAIN result :
    \/ result[a] = Decode(row)
    \/ /\ Exceeds(result[a], Decode(row))
       /\ result[a].confidence >= score(row)
NothingLost ==
  pc = "done" => \A k \in 1..num_anchors : Passes(rows[k]) => Represented(rows[k])

\* Nothing is made up: what is kept is a row above both thresholds.
NothingMadeUp ==
  \A a \in DOMAIN result :
    /\ result[a].confidence >= 100 * conf_thresh
    /\ \E k \in 1..num_anchors : result[a] = Decode(rows[k])

-----------------------------------------------------------------------------
(* The inductive invariant behind the properties.                          *)

\* While parsing, the detections are those of the rows above the thresholds
\* so far; sorting does not change which they are.
ParseInv ==
  LET parsed == IF pc = "parse" THEN i - 1 ELSE num_anchors IN
  /\ pc = "parse" => i <= num_anchors + 1 /\ result = <<>>
  /\ \A k \in 1..parsed : Passes(rows[k]) => \E j \in DOMAIN dets : dets[j] = Decode(rows[k])
  /\ \A j \in DOMAIN dets : \E k \in 1..num_anchors : Passes(rows[k]) /\ dets[j] = Decode(rows[k])

\* The turns of the loop so far: what is kept hides nothing that may still
\* be kept, what is suppressed is covered, and what is passed is in one of
\* these ways accounted for.
SuppressInv ==
  pc # "parse" =>
    /\ Ordered(dets)
    /\ i <= Len(dets) + 1 /\ (pc = "done" => i > Len(dets))
    /\ \A a \in DOMAIN result : \E j \in 1..(i - 1) : result[a] = dets[j]
    /\ \A a \in DOMAIN result : \A j \in i..Len(dets) :
         ~suppressed[j] => ~Exceeds(result[a], dets[j])
    /\ \A j \in DOMAIN dets : suppressed[j] =>
         \E a \in DOMAIN result : /\ Exceeds(result[a], dets[j])
                                  /\ result[a].confidence >= dets[j].confidence
    /\ \A j \in 1..(i - 1) : ~suppressed[j] =>
         \E a \in DOMAIN result : result[a] = dets[j]

IInv == ParseInv /\ SuppressInv /\ KeptApart
=============================================================================
