------------------------------ MODULE NmsProofs ------------------------------
(***************************************************************************)
(* Theorems about Nms for any rows, thresholds and number of anchors: what  *)
(* is kept is apart, real, and stands for everything that is confident.     *)
(* The proofs never look into Exceeds, Decode or score.                     *)
(***************************************************************************)
EXTENDS Nms, TLAPS

\* The variables have their kinds.
LEMMA TypeInit == Init => TypeOK
  BY DEF Init, TypeOK

LEMMA TypeNext == TypeOK /\ [Next]_vars => TypeOK'
<1> SUFFICES ASSUME TypeOK, [Next]_vars PROVE TypeOK'
  OBVIOUS
<1> USE DEF TypeOK
<1>1. CASE ParseRow
  <2>1. ASSUME i <= num_anchors PROVE Decode(rows[i]) \in Detections
    BY <2>1, NmsAssumption DEF Detections
  <2> QED
    BY <1>1, <2>1 DEF ParseRow
<1>2. CASE Sort
  <2>1. PICK p \in Permutation(Len(dets)) :
               dets' = [k \in 1..Len(dets) |-> dets[p[k]]]
    BY <1>2 DEF Sort
  <2> DEFINE n == Len(dets)
  <2>2. n \in Nat /\ \A k \in 1..n : dets[p[k]] \in Detections
    BY DEF Permutation
  <2>3. \A k \in 1..n : p[k] \in 1..n
    BY DEF Permutation
  <2>4. dets' \in [1..n -> Detections]
    BY <2>1, <2>2
  <2> HIDE DEF n
  <2>5. dets' \in Seq(Detections) /\ DOMAIN dets' = 1..n
    BY <2>2, <2>4
  <2> QED
    BY <1>2, <2>5 DEF Sort, Unsuppressed, n
<1>3. CASE SkipSuppressed
  BY <1>3 DEF SkipSuppressed
<1>4. CASE KeepBest
  <2>1. dets[i] \in Detections
    BY <1>4 DEF KeepBest
  <2>2. SuppressOverlapped(suppressed) \in [DOMAIN dets -> BOOLEAN]
    BY <1>4 DEF KeepBest, SuppressOverlapped
  <2> QED
    BY <1>4, <2>1, <2>2 DEF KeepBest
<1>5. CASE Return
  BY <1>5 DEF Return
<1>6. CASE UNCHANGED vars
  BY <1>6 DEF vars
<1> QED
  BY <1>1, <1>2, <1>3, <1>4, <1>5, <1>6 DEF Next, Terminated

THEOREM TypeCorrect == Spec => []TypeOK
  BY TypeInit, TypeNext, PTL DEF Spec

-----------------------------------------------------------------------------
\* The turns of the parsing loop.
LEMMA ParseStep == TypeOK /\ IInv /\ ParseRow => IInv'
<1> SUFFICES ASSUME TypeOK, IInv, ParseRow PROVE IInv'
  OBVIOUS
<1> USE DEF TypeOK
<1>1. ParseInv'
  <2>1. CASE Passes(rows[i])
    <3>1. DOMAIN dets' = 1..(Len(dets) + 1)
      BY <2>1 DEF ParseRow
    <3>2. dets'[Len(dets) + 1] = Decode(rows[i])
      BY <2>1, NmsAssumption DEF ParseRow, Detections
    <3>3. \A j \in DOMAIN dets : dets'[j] = dets[j]
      BY <2>1 DEF ParseRow
    <3>4. \A k \in 1..i : Passes(rows[k]) => \E j \in DOMAIN dets' : dets'[j] = Decode(rows[k])
      <4> SUFFICES ASSUME NEW k \in 1..i, Passes(rows[k])
                   PROVE  \E j \in DOMAIN dets' : dets'[j] = Decode(rows[k])
        OBVIOUS
      <4>1. CASE k = i
        BY <4>1, <3>1, <3>2
      <4>2. CASE k # i
        BY <4>2, <3>1, <3>3 DEF IInv, ParseInv, ParseRow
      <4> QED
        BY <4>1, <4>2
    <3>5. \A j \in DOMAIN dets' :
            \E k \in 1..num_anchors : Passes(rows[k]) /\ dets'[j] = Decode(rows[k])
      BY <2>1, <3>1, <3>2, <3>3, NmsAssumption DEF IInv, ParseInv, ParseRow
    <3> QED
      BY <3>4, <3>5, NmsAssumption DEF ParseInv, IInv, ParseRow
  <2>2. CASE ~Passes(rows[i])
    <3>1. dets' = dets
      BY <2>2 DEF ParseRow
    <3>2. \A k \in 1..i : Passes(rows[k]) => \E j \in DOMAIN dets : dets[j] = Decode(rows[k])
      BY <2>2 DEF IInv, ParseInv, ParseRow
    <3> QED
      BY <3>1, <3>2, NmsAssumption DEF ParseInv, IInv, ParseRow
  <2> QED
    BY <2>1, <2>2
<1>2. SuppressInv' /\ KeptApart'
  BY DEF ParseRow, SuppressInv, IInv, KeptApart
<1> QED
  BY <1>1, <1>2 DEF IInv

\* Sorting neither adds nor drops a detection.
LEMMA SortStep == TypeOK /\ IInv /\ Sort => IInv'
<1> SUFFICES ASSUME TypeOK, IInv, Sort PROVE IInv'
  OBVIOUS
<1> USE DEF TypeOK
<1>1. PICK p \in Permutation(Len(dets)) :
             /\ dets' = [k \in 1..Len(dets) |-> dets[p[k]]]
             /\ Ordered(dets')
  BY DEF Sort
<1>2. DOMAIN dets' = 1..Len(dets) /\ Len(dets') = Len(dets) /\ DOMAIN dets = 1..Len(dets)
  BY <1>1
<1>3. \A j \in DOMAIN dets : \E k \in DOMAIN dets' : dets'[k] = dets[j]
  BY <1>1, <1>2 DEF Permutation
<1>4. \A k \in DOMAIN dets' : \E j \in DOMAIN dets : dets'[k] = dets[j]
  BY <1>1, <1>2 DEF Permutation
<1>5. ParseInv'
  <2>1. \A k \in 1..num_anchors :
          Passes(rows[k]) => \E j \in DOMAIN dets : dets[j] = Decode(rows[k])
    BY NmsAssumption DEF IInv, ParseInv, Sort
  <2>2. \A j \in DOMAIN dets :
          \E k \in 1..num_anchors : Passes(rows[k]) /\ dets[j] = Decode(rows[k])
    BY DEF IInv, ParseInv
  <2>3. \A k \in 1..num_anchors :
          Passes(rows[k]) => \E j \in DOMAIN dets' : dets'[j] = Decode(rows[k])
    BY <1>3, <2>1
  <2>4. \A j \in DOMAIN dets' :
          \E k \in 1..num_anchors : Passes(rows[k]) /\ dets'[j] = Decode(rows[k])
    BY <1>4, <2>2
  <2> QED
    BY <2>3, <2>4 DEF ParseInv, Sort
<1>6. result = <<>>
  BY DEF IInv, ParseInv, Sort
<1>7. SuppressInv'
  <2>1. DOMAIN result' = {}
    BY <1>6 DEF Sort
  <2>2. i' = 1 /\ pc' = "suppress" /\ \A j \in DOMAIN dets' : ~suppressed'[j]
    BY <1>2 DEF Sort, Unsuppressed
  <2>3. Len(dets') \in Nat
    BY <1>2
  <2> QED
    BY <1>1, <1>2, <2>1, <2>2, <2>3 DEF SuppressInv
<1>8. KeptApart'
  BY <1>6 DEF KeptApart, Sort
<1> QED
  BY <1>5, <1>7, <1>8 DEF IInv

\* A turn that keeps a detection suppresses all it overlaps.
LEMMA KeepStep == TypeOK /\ IInv /\ KeepBest => IInv'
<1> SUFFICES ASSUME TypeOK, IInv, KeepBest PROVE IInv'
  OBVIOUS
<1> USE DEF TypeOK
<1> DEFINE n == Len(result)
<1>1. /\ n \in Nat /\ DOMAIN result = 1..n /\ DOMAIN result' = 1..(n + 1)
      /\ result'[n + 1] = dets[i]
      /\ \A a \in 1..n : result'[a] = result[a]
  BY DEF KeepBest
<1>2. /\ dets' = dets /\ i' = i + 1 /\ pc' = pc /\ rows' = rows /\ pc = "suppress"
      /\ i \in DOMAIN dets /\ DOMAIN dets = 1..Len(dets) /\ ~suppressed[i]
  BY DEF KeepBest
<1>3. \A j \in DOMAIN dets :
        suppressed'[j] <=> suppressed[j] \/ (j > i /\ Exceeds(dets[i], dets[j]))
  BY DEF KeepBest, SuppressOverlapped
<1>a. /\ Ordered(dets)
      /\ \A a \in 1..n : \E j \in 1..(i - 1) : result[a] = dets[j]
      /\ \A a \in 1..n : \A j \in i..Len(dets) :
           ~suppressed[j] => ~Exceeds(result[a], dets[j])
      /\ \A j \in DOMAIN dets : suppressed[j] =>
           \E a \in 1..n : /\ Exceeds(result[a], dets[j])
                           /\ result[a].confidence >= dets[j].confidence
      /\ \A j \in 1..(i - 1) : ~suppressed[j] => \E a \in 1..n : result[a] = dets[j]
  BY <1>1, <1>2 DEF IInv, SuppressInv
<1>b. i \in 1..Len(dets) /\ Len(dets) \in Nat
  BY <1>2
<1>4. ParseInv'
  BY <1>2 DEF ParseInv, IInv
<1>5. KeptApart'
  <2>1. \A a \in 1..n : ~Exceeds(result[a], dets[i])
    BY <1>a, <1>b, <1>2
  <2> SUFFICES ASSUME NEW a \in 1..(n + 1), NEW b \in 1..(n + 1), a < b
               PROVE  ~Exceeds(result'[a], result'[b])
    BY <1>1 DEF KeptApart
  <2>2. CASE b = n + 1
    BY <2>1, <2>2, <1>1
  <2>3. CASE b # n + 1
    BY <2>3, <1>1 DEF IInv, KeptApart
  <2> QED
    BY <2>2, <2>3
<1>6. SuppressInv'
  <2>1. Ordered(dets') /\ i' <= Len(dets') + 1 /\ (pc' = "done" => i' > Len(dets'))
    BY <1>2 DEF IInv, SuppressInv
  <2>2. \A a \in DOMAIN result' : \E j \in 1..(i' - 1) : result'[a] = dets'[j]
    BY <1>1, <1>2 DEF IInv, SuppressInv
  <2>3. \A a \in DOMAIN result' : \A j \in i'..Len(dets') :
          ~suppressed'[j] => ~Exceeds(result'[a], dets'[j])
    <3> SUFFICES ASSUME NEW a \in 1..(n + 1), NEW j \in (i + 1)..Len(dets),
                        ~suppressed'[j]
                 PROVE  ~Exceeds(result'[a], dets[j])
      BY <1>1, <1>2
    <3>1. j \in i..Len(dets) /\ j \in DOMAIN dets /\ j > i
      BY <1>b, <1>2
    <3>2. ~suppressed[j] /\ ~Exceeds(dets[i], dets[j])
      BY <1>3, <3>1
    <3> QED
      BY <1>1, <1>a, <3>1, <3>2
  <2>4. ASSUME NEW j \in DOMAIN dets, suppressed'[j]
        PROVE  \E a \in DOMAIN result' : /\ Exceeds(result'[a], dets[j])
                                         /\ result'[a].confidence >= dets[j].confidence
    <3>1. CASE suppressed[j]
      <4>1. PICK a \in 1..n : /\ Exceeds(result[a], dets[j])
                              /\ result[a].confidence >= dets[j].confidence
        BY <3>1, <1>a
      <4>2. a \in DOMAIN result' /\ result'[a] = result[a]
        BY <1>1
      <4> QED
        BY <4>1, <4>2
    <3>2. CASE j > i /\ Exceeds(dets[i], dets[j])
      <4>1. n + 1 \in DOMAIN result' /\ result'[n + 1] = dets[i]
        BY <1>1
      <4>2. dets[i].confidence >= dets[j].confidence
        BY <3>2, <1>2, <1>a, <1>b DEF Ordered
      <4> QED
        BY <3>2, <4>1, <4>2
    <3> QED
      BY <2>4, <3>1, <3>2, <1>3
  <2>5. \A j \in 1..(i' - 1) : ~suppressed'[j] =>
          \E a \in DOMAIN result' : result'[a] = dets'[j]
    <3> SUFFICES ASSUME NEW j \in 1..i, ~suppressed'[j]
                 PROVE  \E a \in DOMAIN result' : result'[a] = dets[j]
      BY <1>2
    <3>1. CASE j = i
      BY <3>1, <1>1
    <3>2. CASE j # i
      <4>1. j \in 1..(i - 1) /\ j \in DOMAIN dets
        BY <3>2, <1>b, <1>2
      <4>2. ~suppressed[j]
        BY <4>1, <1>3
      <4>3. PICK a \in 1..n : result[a] = dets[j]
        BY <4>1, <4>2, <1>a
      <4>4. a \in DOMAIN result' /\ result'[a] = result[a]
        BY <1>1
      <4> QED
        BY <4>3, <4>4
    <3> QED
      BY <3>1, <3>2
  <2> QED
    BY <1>2, <2>1, <2>2, <2>3, <2>4, <2>5 DEF SuppressInv
<1> QED
  BY <1>4, <1>5, <1>6 DEF IInv

\* The other turns change the index only.
LEMMA SkipStep == TypeOK /\ IInv /\ (SkipSuppressed \/ Return \/ UNCHANGED vars) => IInv'
<1> SUFFICES ASSUME TypeOK, IInv, SkipSuppressed \/ Return \/ UNCHANGED vars
             PROVE  IInv'
  OBVIOUS
<1> USE DEF TypeOK
<1>1. CASE SkipSuppressed
  <2>1. ParseInv' /\ KeptApart'
    BY <1>1 DEF SkipSuppressed, IInv, ParseInv, KeptApart
  <2>2. SuppressInv'
    BY <1>1 DEF SkipSuppressed, IInv, SuppressInv, Ordered
  <2> QED
    BY <2>1, <2>2 DEF IInv
<1>2. CASE Return
  <2>1. ParseInv' /\ KeptApart'
    BY <1>2 DEF Return, IInv, ParseInv, KeptApart
  <2>2. SuppressInv'
    BY <1>2 DEF Return, IInv, SuppressInv, Ordered
  <2> QED
    BY <2>1, <2>2 DEF IInv
<1>3. CASE UNCHANGED vars
  BY <1>3 DEF vars, IInv, ParseInv, SuppressInv, KeptApart, Ordered
<1> QED
  BY <1>1, <1>2, <1>3

\* The invariant of the two loops.
THEOREM Inductive == Spec => []IInv
<1>1. Init => IInv
  BY NmsAssumption DEF Init, IInv, ParseInv, SuppressInv, KeptApart
<1>2. TypeOK /\ IInv /\ [Next]_vars => IInv'
  BY ParseStep, SortStep, KeepStep, SkipStep DEF Next, Terminated
<1> QED
  BY <1>1, <1>2, TypeCorrect, PTL DEF Spec

\* No detection that is kept hides a later one that is kept.
THEOREM KeptAreApart == Spec => []KeptApart
  BY Inductive, PTL DEF IInv

\* Every row above the thresholds is in the result or covered by it.
THEOREM NothingIsLost == Spec => []NothingLost
<1>1. TypeOK /\ IInv => NothingLost
  <2> SUFFICES ASSUME TypeOK, IInv, pc = "done",
                      NEW k \in 1..num_anchors, Passes(rows[k])
               PROVE  Represented(rows[k])
    BY DEF NothingLost
  <2>1. PICK j \in DOMAIN dets : dets[j] = Decode(rows[k])
    BY DEF IInv, ParseInv
  <2>2. j \in 1..(i - 1)
    BY DEF IInv, SuppressInv, TypeOK
  <2>3. dets[j].confidence = score(rows[k])
    BY <2>1 DEF Decode
  <2>4. CASE suppressed[j]
    BY <2>1, <2>3, <2>4 DEF IInv, SuppressInv, Represented
  <2>5. CASE ~suppressed[j]
    BY <2>1, <2>2, <2>5 DEF IInv, SuppressInv, Represented
  <2> QED
    BY <2>4, <2>5
<1> QED
  BY <1>1, TypeCorrect, Inductive, PTL

\* Everything in the result is a row above the thresholds.
THEOREM NothingIsMadeUp == Spec => []NothingMadeUp
<1>1. TypeOK /\ IInv => NothingMadeUp
  <2> SUFFICES ASSUME TypeOK, IInv, NEW a \in DOMAIN result
               PROVE  /\ result[a].confidence >= 100 * conf_thresh
                      /\ \E k \in 1..num_anchors : result[a] = Decode(rows[k])
    BY DEF NothingMadeUp
  <2>1. pc # "parse"
    BY DEF IInv, ParseInv
  <2>2. PICK j \in DOMAIN dets : result[a] = dets[j]
    BY <2>1 DEF IInv, SuppressInv, TypeOK
  <2>3. PICK k \in 1..num_anchors : Passes(rows[k]) /\ dets[j] = Decode(rows[k])
    BY DEF IInv, ParseInv
  <2> QED
    BY <2>2, <2>3 DEF Passes, Decode
<1> QED
  BY <1>1, TypeCorrect, Inductive, PTL
=============================================================================
