---------------------------- MODULE UdpMjpegProofs ----------------------------
(***************************************************************************)
(* The MJPEG stream over UDP, for any number of frames, chunks and runs of  *)
(* the sender and for every behaviour of the network: what the receiver     *)
(* shows is what was sent.                                                  *)
(*                                                                         *)
(* The receiver knows a frame by its number and its completeness by a count *)
(* of indices.  Why that is enough is the invariant: a datagram on its way  *)
(* names a frame that was sent and one of its chunks; the chunks counted    *)
(* for a frame number that one run alone has used are in their places.      *)
(* Without duplicates no datagram is left of a frame that was shown, and in *)
(* order none but copies of its last one.  When the sender starts its       *)
(* numbers again, the first datagram of the new run that arrives in order   *)
(* ends the old ones: only the frame it falls into can be a mix.            *)
(***************************************************************************)
EXTENDS UdpMjpeg, FiniteSetTheorems, SequenceTheorems, TLAPS

-----------------------------------------------------------------------------
(* The invariant.                                                          *)

\* The run is the only one that has sent a frame of this number.
OnlyRun(r, id) ==
  <<r, id>> \in DOMAIN sizes /\ \A q \in 1..scenario.runs : <<q, id>> \in DOMAIN sizes => q = r

Numbers ==
  /\ scenario \in Scenarios
  /\ run \in 1..scenario.runs /\ frame_id_ \in 1..(scenario.frames + 1)

\* The frames that were sent: those of this run have the numbers below the next.
SentOK ==
  /\ DOMAIN sizes \subseteq (1..scenario.runs) \X (1..scenario.frames)
  /\ \A f \in DOMAIN sizes : sizes[f] \in 1..scenario.chunks
  /\ \A r, id \in Nat : <<r, id>> \in DOMAIN sizes => r <= run /\ (r = run => id < frame_id_)
  /\ arrived \subseteq DOMAIN sizes

\* A datagram names a frame that was sent and one of its chunks.
NetOK ==
  \A d \in net :
    /\ d \in [header : {Headers}, run : 1..scenario.runs, frame_id : 1..scenario.frames,
              chunk_index : Nat, chunk_count : 1..scenario.chunks]
    /\ <<d.run, d.frame_id>> \in DOMAIN sizes
    /\ d.chunk_count = sizes[<<d.run, d.frame_id>>]
    /\ d.chunk_index \in 1..d.chunk_count

\* A part of an image: nothing, or a chunk of a frame of this number.
Part(part, id) ==
  \/ part = Blank
  \/ \E r \in 1..scenario.runs : part = <<r, id>> /\ <<r, id>> \in DOMAIN sizes

\* The frame that is put together.
CurrentOK ==
  /\ current_frame_id \in 0..scenario.frames
  /\ current_frame \in Seq(FrameNo \union {Blank})
  /\ received_chunks \subseteq 1..scenario.chunks
  /\ since \subseteq (1..scenario.frames) \X (1..scenario.chunks)
  /\ \A i \in received_chunks : <<current_frame_id, i>> \in since
  /\ current_frame_id = 0 => current_frame = <<>> /\ received_chunks = {}
  /\ current_frame_id # 0 =>
       /\ \E r \in 1..scenario.runs : <<r, current_frame_id>> \in DOMAIN sizes
       /\ \A i \in 1..Len(current_frame) : Part(current_frame[i], current_frame_id)
       /\ \A r \in 1..scenario.runs : OnlyRun(r, current_frame_id) =>
            /\ Len(current_frame) = sizes[<<r, current_frame_id>>]
            /\ received_chunks \subseteq 1..sizes[<<r, current_frame_id>>]
            /\ \A i \in received_chunks : current_frame[i] = <<r, current_frame_id>>

\* An image is one frame, or several runs have used its number.
Image(image, id) ==
  /\ id \in 1..scenario.frames
  /\ \A i \in DOMAIN image : Part(image[i], id)
  /\ \/ \E r \in 1..scenario.runs : IsFrame(image, <<r, id>>)
     \/ \E r, q \in 1..scenario.runs : /\ r # q
                                       /\ <<r, id>> \in DOMAIN sizes
                                       /\ <<q, id>> \in DOMAIN sizes

ShownOK ==
  /\ shown \in Seq(Seq(FrameNo \union {Blank})) /\ Len(shown) <= MaxShown
  /\ \A k \in 1..Len(shown) : \E id \in 1..scenario.frames : Image(shown[k], id)

UdpInv == Numbers /\ SentOK /\ NetOK /\ CurrentOK /\ ShownOK /\ receiving \in BOOLEAN

\* Without duplicates nothing is left of what was counted or shown.
LeftOver ==
  ~scenario.duplicating /\ scenario.runs = 1 =>
    /\ \A d \in net : d.frame_id = current_frame_id => d.chunk_index \notin received_chunks
    /\ \A k \in 1..Len(shown) : \A a \in IdsOf(shown[k]) :
         /\ a \in 1..scenario.frames /\ <<1, a>> \in DOMAIN sizes
         /\ a # current_frame_id
         /\ \A d \in net : d.frame_id # a

\* Without duplicates, no two images have a frame in common.
ShownDistinct ==
  ~scenario.duplicating /\ scenario.runs = 1 => \A j, k \in DOMAIN shown :
    j # k => IdsOf(shown[j]) \intersect IdsOf(shown[k]) = {}

OrderInv == UdpInv /\ LeftOver /\ ShownDistinct

-----------------------------------------------------------------------------
LEMMA ScenarioFacts ==
  ASSUME Numbers
  PROVE  /\ scenario \in Scenario /\ MaxShown \in Nat
         /\ scenario.runs \in Nat /\ scenario.frames \in Nat /\ scenario.chunks \in Nat
         /\ scenario.in_order \in BOOLEAN /\ scenario.duplicating \in BOOLEAN
         /\ (1..scenario.runs) \X (1..scenario.frames) \subseteq FrameNo
<1>1. scenario \in Scenario /\ scenario \in Scenarios /\ MaxShown \in Nat
  BY BoundsAssumption DEF Numbers
<1>2. /\ scenario.runs \in Nat /\ scenario.frames \in Nat /\ scenario.chunks \in Nat
      /\ scenario.in_order \in BOOLEAN /\ scenario.duplicating \in BOOLEAN
  BY <1>1 DEF Scenario
<1>3. (1..scenario.runs) \X (1..scenario.frames) \subseteq FrameNo
  BY <1>1 DEF FrameNo
<1> QED
  BY <1>1, <1>2, <1>3

LEMMA UdpStarts == Init => OrderInv
<1> SUFFICES ASSUME Init PROVE OrderInv
  OBVIOUS
<1>1. scenario \in Scenarios
  BY DEF Init
<1>2. scenario \in Scenario /\ MaxShown \in Nat \ {0}
  BY <1>1, BoundsAssumption
<1>3. Numbers
  BY <1>1, <1>2 DEF Init, Numbers, Scenario
<1>4. SentOK /\ NetOK
  BY DEF Init, SentOK, NetOK
<1>5. CurrentOK
  BY <1>2 DEF Init, CurrentOK, Scenario
<1>6. ShownOK /\ receiving \in BOOLEAN
  BY <1>2 DEF Init, ShownOK
<1>7. LeftOver /\ ShownDistinct
  BY DEF Init, LeftOver, ShownDistinct
<1> QED
  BY <1>3, <1>4, <1>5, <1>6, <1>7 DEF OrderInv, UdpInv

-----------------------------------------------------------------------------
(* The sender only adds frames.                                            *)

\* What holds of the receiver stays true when frames are added to those sent.
LEMMA MoreSent ==
  ASSUME UdpInv, UNCHANGED <<scenario, receiverVars>>,
         DOMAIN sizes \subseteq DOMAIN sizes',
         \A f \in DOMAIN sizes : sizes'[f] = sizes[f]
  PROVE  CurrentOK' /\ ShownOK'
<1> USE DEF receiverVars
<1>1. ASSUME NEW part, NEW id, Part(part, id) PROVE Part(part, id)'
  BY <1>1 DEF Part
<1>2. CurrentOK'
  <2>1. CASE current_frame_id = 0
    BY <2>1 DEF UdpInv, CurrentOK
  <2>2. CASE current_frame_id # 0
    <3>1. PICK s \in 1..scenario.runs : <<s, current_frame_id>> \in DOMAIN sizes
      BY <2>2 DEF UdpInv, CurrentOK
    <3>2. ASSUME NEW r \in 1..scenario.runs, OnlyRun(r, current_frame_id)'
          PROVE  OnlyRun(r, current_frame_id)
      BY <3>1, <3>2 DEF OnlyRun
    <3>3. \A i \in 1..Len(current_frame) : Part(current_frame[i], current_frame_id)'
      BY <1>1, <2>2 DEF UdpInv, CurrentOK
    <3>4. \A r \in 1..scenario.runs : OnlyRun(r, current_frame_id)' =>
            /\ Len(current_frame) = sizes'[<<r, current_frame_id>>]
            /\ received_chunks \subseteq 1..sizes'[<<r, current_frame_id>>]
            /\ \A i \in received_chunks : current_frame[i] = <<r, current_frame_id>>
      BY <2>2, <3>2 DEF UdpInv, CurrentOK, OnlyRun
    <3>5. /\ current_frame_id \in 0..scenario.frames
          /\ current_frame \in Seq(FrameNo \union {Blank})
          /\ received_chunks \subseteq 1..scenario.chunks
          /\ since \subseteq (1..scenario.frames) \X (1..scenario.chunks)
          /\ \A i \in received_chunks : <<current_frame_id, i>> \in since
      BY DEF UdpInv, CurrentOK
    <3> QED
      BY <2>2, <3>1, <3>3, <3>4, <3>5 DEF CurrentOK
  <2> QED
    BY <2>1, <2>2
<1>3. ShownOK'
  <2>1. ASSUME NEW image, NEW id, Image(image, id) PROVE Image(image, id)'
    <3>1. \A i \in DOMAIN image : Part(image[i], id)'
      BY <1>1, <2>1 DEF Image
    <3>2. ASSUME NEW r \in 1..scenario.runs, IsFrame(image, <<r, id>>)
          PROVE  IsFrame(image, <<r, id>>)'
      BY <3>2 DEF IsFrame
    <3> QED
      BY <2>1, <3>1, <3>2 DEF Image
  <2>2. \A k \in 1..Len(shown) : \E id \in 1..scenario.frames : Image(shown[k], id)'
    BY <2>1 DEF UdpInv, ShownOK
  <2> QED
    BY <2>2 DEF UdpInv, ShownOK
<1> QED
  BY <1>2, <1>3

LEMMA SenderKept ==
  ASSUME UdpInv, send_frame
  PROVE  /\ UdpInv' 
         /\ \A d \in net' \ net : d.frame_id = frame_id_
         /\ DOMAIN sizes \subseteq DOMAIN sizes'
<1>0. /\ scenario.runs \in Nat /\ scenario.frames \in Nat /\ scenario.chunks \in Nat
  BY ScenarioFacts DEF UdpInv
<1>1. PICK count \in 1..scenario.chunks :
        \E sent \in IF Headers THEN SentUntilError(count) ELSE SentRegardless(count) :
           /\ frame_id_' = NextId
           /\ sizes' = [f \in DOMAIN sizes \union {<<run, frame_id_>>} |->
                          IF f = <<run, frame_id_>> THEN count ELSE sizes[f]]
           /\ net' = net \union {Datagram(frame_id_, idx, count) : idx \in 1..sent}
           /\ arrived' = IF sent = count THEN arrived \union {<<run, frame_id_>>}
                                         ELSE arrived
  BY DEF send_frame
<1>2. PICK sent \in 0..count :
           /\ net' = net \union {Datagram(frame_id_, idx, count) : idx \in 1..sent}
           /\ arrived' = IF sent = count THEN arrived \union {<<run, frame_id_>>}
                                         ELSE arrived
  BY <1>0, <1>1 DEF SentUntilError, SentRegardless
<1>3. /\ frame_id_' = frame_id_ + 1 /\ frame_id_ <= scenario.frames
      /\ UNCHANGED <<scenario, run, receiverVars>>
  BY <1>1 DEF send_frame, NextId
<1>4. run \in 1..scenario.runs /\ frame_id_ \in 1..(scenario.frames + 1)
  BY DEF UdpInv, Numbers
<1>5. <<run, frame_id_>> \notin DOMAIN sizes
  BY <1>0, <1>4 DEF UdpInv, SentOK
<1>6. /\ DOMAIN sizes' = DOMAIN sizes \union {<<run, frame_id_>>}
      /\ sizes'[<<run, frame_id_>>] = count
      /\ \A f \in DOMAIN sizes : sizes'[f] = sizes[f]
  BY <1>1, <1>5
<1>7. Numbers'
  BY <1>0, <1>3, <1>4 DEF UdpInv, Numbers
<1>8. SentOK'
  <2>1. DOMAIN sizes' \subseteq (1..scenario.runs) \X (1..scenario.frames)
    BY <1>0, <1>3, <1>4, <1>6 DEF UdpInv, SentOK
  <2>2. \A f \in DOMAIN sizes' : sizes'[f] \in 1..scenario.chunks
    BY <1>6 DEF UdpInv, SentOK
  <2>3. ASSUME NEW r \in Nat, NEW id \in Nat, <<r, id>> \in DOMAIN sizes'
        PROVE  r <= run /\ (r = run => id < frame_id_ + 1)
    <3>1. CASE <<r, id>> \in DOMAIN sizes
      BY <1>0, <1>4, <3>1 DEF UdpInv, SentOK
    <3>2. CASE <<r, id>> = <<run, frame_id_>>
      BY <1>0, <1>4, <3>2
    <3> QED
      BY <1>6, <2>3, <3>1, <3>2
  <2>4. arrived' \subseteq DOMAIN sizes'
    BY <1>2, <1>6 DEF UdpInv, SentOK
  <2> QED
    BY <1>3, <2>1, <2>2, <2>3, <2>4 DEF SentOK
<1>9. ASSUME NEW d \in net' \ net
      PROVE  /\ d \in [header : {Headers}, run : {run}, frame_id : {frame_id_},
                       chunk_index : Nat, chunk_count : {count}]
             /\ d.chunk_index \in 1..count
  BY <1>0, <1>2, <1>9 DEF Datagram
<1>10. NetOK'
  <2> SUFFICES ASSUME NEW d \in net'
               PROVE  /\ d \in [header : {Headers}, run : 1..scenario.runs,
                                frame_id : 1..scenario.frames, chunk_index : Nat,
                                chunk_count : 1..scenario.chunks]
                      /\ <<d.run, d.frame_id>> \in DOMAIN sizes'
                      /\ d.chunk_count = sizes'[<<d.run, d.frame_id>>]
                      /\ d.chunk_index \in 1..d.chunk_count
    BY <1>3 DEF NetOK
  <2>1. CASE d \in net
    BY <1>6, <2>1 DEF UdpInv, NetOK
  <2>2. CASE d \notin net
    <3>1. d.run = run /\ d.frame_id = frame_id_ /\ d.chunk_count = count
      BY <1>9, <2>2
    <3>2. frame_id_ \in 1..scenario.frames
      BY <1>0, <1>3, <1>4
    <3> QED
      BY <1>4, <1>6, <1>9, <2>2, <3>1, <3>2
  <2> QED
    BY <2>1, <2>2
<1>11. CurrentOK' /\ ShownOK'
  BY <1>3, <1>6, MoreSent
<1>12. receiving' \in BOOLEAN
  BY <1>3 DEF UdpInv, receiverVars
<1> QED
  BY <1>6, <1>7, <1>8, <1>9, <1>10, <1>11, <1>12 DEF UdpInv

LEMMA RestartKept == ASSUME UdpInv, Restart PROVE UdpInv'
<1>0. scenario.runs \in Nat /\ scenario.frames \in Nat
  BY ScenarioFacts DEF UdpInv
<1>1. /\ run < scenario.runs /\ run' = run + 1 /\ frame_id_' = 1
      /\ UNCHANGED <<scenario, sizes, arrived, net, receiverVars>>
  BY DEF Restart
<1>2. Numbers'
  BY <1>0, <1>1 DEF UdpInv, Numbers
<1>3. SentOK'
  BY <1>0, <1>1 DEF UdpInv, Numbers, SentOK
<1>4. NetOK' /\ receiving' \in BOOLEAN
  BY <1>1 DEF UdpInv, NetOK, receiverVars
<1>5. CurrentOK' /\ ShownOK'
  BY <1>1, MoreSent
<1> QED
  BY <1>2, <1>3, <1>4, <1>5 DEF UdpInv

LEMMA LoseKept == ASSUME UdpInv, Lose PROVE UdpInv' /\ net' \subseteq net
<1>1. net' \subseteq net /\ UNCHANGED <<scenario, senderVars, receiverVars>>
  BY DEF Lose
<1>2. CurrentOK' /\ ShownOK'
  BY <1>1, MoreSent DEF senderVars
<1>3. Numbers' /\ SentOK' /\ NetOK' /\ receiving' \in BOOLEAN
  BY <1>1 DEF UdpInv, Numbers, SentOK, NetOK, senderVars, receiverVars
<1> QED
  BY <1>1, <1>2, <1>3 DEF UdpInv

-----------------------------------------------------------------------------
(* The receiver.                                                           *)

\* A set of as many indices as a frame has chunks is all of them.
LEMMA AllIndices ==
  ASSUME NEW n \in Nat, NEW chunks, chunks \subseteq 1..n, Cardinality(chunks) = n
  PROVE  chunks = 1..n
<1>1. IsFiniteSet(1..n) /\ Cardinality(1..n) = n
  BY FS_Interval
<1>2. chunks \in SUBSET (1..n)
  OBVIOUS
<1> QED
  BY <1>1, <1>2, FS_Subset

\* The image and the chunks with the datagram's chunk.
NewImage(d) == Store(FrameBefore(d), d)
NewChunks(d) == ChunksBefore(d) \union {d.chunk_index}

\* What storing a chunk does to the frame that is put together, whether or
\* not it is complete afterwards.
LEMMA Stored ==
  ASSUME UdpInv, NEW d \in net
  PROVE  /\ NewImage(d) \in Seq(FrameNo \union {Blank})
         /\ NewChunks(d) \subseteq 1..scenario.chunks
         /\ \A i \in 1..Len(NewImage(d)) : Part(NewImage(d)[i], d.frame_id)
         /\ \A r \in 1..scenario.runs : OnlyRun(r, d.frame_id) =>
              /\ Len(NewImage(d)) = sizes[<<r, d.frame_id>>]
              /\ NewChunks(d) \subseteq 1..sizes[<<r, d.frame_id>>]
              /\ d.chunk_count = sizes[<<r, d.frame_id>>]
              /\ \A i \in NewChunks(d) : NewImage(d)[i] = <<r, d.frame_id>>
<1>0. /\ scenario.runs \in Nat /\ scenario.frames \in Nat /\ scenario.chunks \in Nat
      /\ (1..scenario.runs) \X (1..scenario.frames) \subseteq FrameNo
  BY ScenarioFacts DEF UdpInv
<1> DEFINE id == d.frame_id
           image == NewImage(d)
           chunks == NewChunks(d)
           buf == FrameBefore(d)
           at == IF d.chunk_index <= Len(buf) THEN d.chunk_index ELSE Len(buf) + 1
           size == IF at > Len(buf) THEN at ELSE Len(buf)
<1>1. /\ d.run \in 1..scenario.runs /\ id \in 1..scenario.frames
      /\ d.chunk_count \in 1..scenario.chunks /\ d.chunk_index \in 1..d.chunk_count
      /\ <<d.run, id>> \in DOMAIN sizes /\ d.chunk_count = sizes[<<d.run, id>>]
  BY DEF UdpInv, NetOK
<1>2. /\ buf \in Seq(FrameNo \union {Blank})
      /\ \A i \in 1..Len(buf) : Part(buf[i], id)
      /\ \A r \in 1..scenario.runs : OnlyRun(r, id) =>
           /\ Len(buf) = sizes[<<r, id>>]
           /\ \A i \in ChunksBefore(d) : i \in 1..sizes[<<r, id>>] /\ buf[i] = <<r, id>>
      /\ ChunksBefore(d) \subseteq 1..scenario.chunks
  <2>1. CASE current_frame_id = id
    <3>1. buf = current_frame /\ ChunksBefore(d) = received_chunks /\ current_frame_id # 0
      BY <1>1, <2>1 DEF FrameBefore, ChunksBefore
    <3> HIDE DEF buf
    <3> QED
      BY <1>1, <2>1, <3>1 DEF UdpInv, CurrentOK
  <2>2. CASE current_frame_id # id
    <3>1. buf = [i \in 1..d.chunk_count |-> Blank] /\ ChunksBefore(d) = {}
      BY <2>2 DEF FrameBefore, ChunksBefore
    <3> HIDE DEF buf
    <3>2. buf \in Seq(FrameNo \union {Blank}) /\ Len(buf) = d.chunk_count
      BY <1>0, <1>1, <3>1
    <3>3. \A i \in 1..Len(buf) : Part(buf[i], id)
      BY <3>1, <3>2 DEF Part
    <3>4. \A r \in 1..scenario.runs : OnlyRun(r, id) => d.run = r
      BY <1>1 DEF OnlyRun
    <3> QED
      BY <1>1, <3>1, <3>2, <3>3, <3>4
  <2> QED
    BY <2>1, <2>2
<1> HIDE DEF buf, image
<1>3. Len(buf) \in Nat /\ at \in Nat /\ size \in Nat /\ at \in 1..size /\ Len(buf) <= size
  <2>1. Len(buf) \in Nat
    BY <1>2, LenProperties
  <2>2. d.chunk_index \in Nat /\ d.chunk_index >= 1
    BY <1>0, <1>1
  <2> QED
    BY <2>1, <2>2
<1>4. image = [i \in 1..size |-> IF i = at THEN <<d.run, id>> ELSE buf[i]]
  BY DEF Store, buf, image, NewImage
<1>5. /\ Part(<<d.run, id>>, id) /\ <<d.run, id>> \in FrameNo \union {Blank}
      /\ \A i \in 1..size : i # at => i \in 1..Len(buf)
  <2>1. Part(<<d.run, id>>, id) /\ <<d.run, id>> \in FrameNo \union {Blank}
    BY <1>0, <1>1 DEF Part
  <2> QED
    BY <1>3, <2>1
<1>6. \A i \in 1..Len(buf) : buf[i] \in FrameNo \union {Blank}
  BY <1>2, ElementOfSeq
<1> HIDE DEF size, at, id
<1>7. image \in Seq(FrameNo \union {Blank}) /\ Len(image) = size
  BY <1>3, <1>4, <1>5, <1>6
<1>8. \A i \in 1..Len(image) : Part(image[i], id)
  BY <1>2, <1>4, <1>5, <1>7
<1>9. ASSUME NEW r \in 1..scenario.runs, OnlyRun(r, id)
      PROVE  /\ Len(image) = sizes[<<r, id>>]
             /\ chunks \subseteq 1..sizes[<<r, id>>]
             /\ d.chunk_count = sizes[<<r, id>>]
             /\ \A i \in chunks : image[i] = <<r, id>>
  <2>1. d.run = r /\ d.chunk_count = sizes[<<r, id>>] /\ Len(buf) = sizes[<<r, id>>]
    BY <1>1, <1>2, <1>9 DEF OnlyRun
  <2>2. at = d.chunk_index /\ size = Len(buf)
    BY <1>0, <1>1, <1>3, <2>1 DEF at, size
  <2>3. chunks \subseteq 1..sizes[<<r, id>>]
    BY <1>1, <1>2, <1>9, <2>1 DEF NewChunks
  <2>4. \A i \in chunks : image[i] = <<r, id>>
    <3>1. \A i \in chunks : i = d.chunk_index \/ i \in ChunksBefore(d)
      BY DEF NewChunks
    <3>2. \A i \in chunks : i \in 1..size
      BY <1>7, <1>9, <2>1, <2>2, <2>3
    <3> QED
      BY <1>2, <1>4, <1>9, <2>1, <2>2, <3>1, <3>2
  <2> QED
    BY <1>7, <2>1, <2>2, <2>3, <2>4
<1>10. chunks \subseteq 1..scenario.chunks
  BY <1>0, <1>1, <1>2 DEF NewChunks
<1> QED
  BY <1>7, <1>8, <1>9, <1>10 DEF id, image, chunks

\* A stored chunk keeps the invariant.
LEMMA StoreChunkKept ==
  ASSUME UdpInv, NEW d \in net, net' \subseteq net, UNCHANGED <<scenario, senderVars>>,
         StoreChunk(d)
  PROVE  UdpInv'
<1> DEFINE image == NewImage(d)
           chunks == NewChunks(d)
<1>1. /\ current_frame_id' = d.frame_id /\ current_frame' = image
      /\ received_chunks' = chunks /\ UNCHANGED <<shown, receiving>>
      /\ since' = since \union {<<d.frame_id, d.chunk_index>>}
      /\ chunks = ChunksBefore(d) \union {d.chunk_index}
  BY DEF StoreChunk, NewImage, NewChunks
<1>2. /\ image \in Seq(FrameNo \union {Blank})
      /\ chunks \subseteq 1..scenario.chunks
      /\ \A i \in 1..Len(image) : Part(image[i], d.frame_id)
      /\ \A r \in 1..scenario.runs : OnlyRun(r, d.frame_id) =>
           /\ Len(image) = sizes[<<r, d.frame_id>>]
           /\ chunks \subseteq 1..sizes[<<r, d.frame_id>>]
           /\ \A i \in chunks : image[i] = <<r, d.frame_id>>
  BY Stored
<1> HIDE DEF image, chunks
<1>3. /\ d.run \in 1..scenario.runs /\ d.frame_id \in 1..scenario.frames
      /\ <<d.run, d.frame_id>> \in DOMAIN sizes
  BY DEF UdpInv, NetOK
<1>4. Numbers' /\ SentOK' /\ NetOK' /\ receiving' \in BOOLEAN
  BY <1>1 DEF UdpInv, Numbers, SentOK, NetOK, senderVars
<1>5. CurrentOK'
  <2>1. d.frame_id # 0 /\ d.frame_id \in 0..scenario.frames
    BY <1>3
  <2>2. \A part : Part(part, d.frame_id) => Part(part, d.frame_id)'
    BY DEF Part, senderVars
  <2>3. \A i \in chunks : <<d.frame_id, i>> \in since'
    BY <1>1 DEF ChunksBefore, UdpInv, CurrentOK
  <2>4. since' \subseteq (1..scenario.frames) \X (1..scenario.chunks)
    BY <1>1, <1>2, <1>3 DEF UdpInv, CurrentOK
  <2> QED
    BY <1>1, <1>2, <1>3, <2>1, <2>2, <2>3, <2>4 DEF CurrentOK, OnlyRun, senderVars
<1>6. ShownOK'
  <2>1. \A im, id : Image(im, id) => Image(im, id)'
    BY DEF Image, IsFrame, Part, senderVars
  <2> QED
    BY <1>1, <2>1 DEF UdpInv, ShownOK, senderVars
<1> QED
  BY <1>4, <1>5, <1>6 DEF UdpInv

\* The image of a complete frame is that frame, or several runs used its number.
LEMMA FinishedIsFrame ==
  ASSUME UdpInv, NEW d \in net, FinishFrame(d)
  PROVE  Image(NewImage(d), d.frame_id)
<1> DEFINE image == NewImage(d)
           chunks == NewChunks(d)
<1>1. Cardinality(chunks) = d.chunk_count
  BY DEF FinishFrame, Complete, NewChunks
<1>2. /\ image \in Seq(FrameNo \union {Blank})
      /\ \A i \in 1..Len(image) : Part(image[i], d.frame_id)
      /\ \A r \in 1..scenario.runs : OnlyRun(r, d.frame_id) =>
           /\ Len(image) = sizes[<<r, d.frame_id>>]
           /\ chunks \subseteq 1..sizes[<<r, d.frame_id>>]
           /\ d.chunk_count = sizes[<<r, d.frame_id>>]
           /\ \A i \in chunks : image[i] = <<r, d.frame_id>>
  BY Stored
<1> HIDE DEF image, chunks
<1>3. /\ d.run \in 1..scenario.runs /\ d.frame_id \in 1..scenario.frames
      /\ <<d.run, d.frame_id>> \in DOMAIN sizes
      /\ d.chunk_count \in 1..scenario.chunks
  BY DEF UdpInv, NetOK
<1>4. DOMAIN image = 1..Len(image)
  BY <1>2
<1>5. CASE OnlyRun(d.run, d.frame_id)
  <2>1. d.chunk_count \in Nat
    BY <1>3, ScenarioFacts DEF UdpInv
  <2>2. chunks = 1..d.chunk_count
    BY <1>1, <1>2, <1>3, <1>5, <2>1, AllIndices
  <2>3. IsFrame(image, <<d.run, d.frame_id>>)
    BY <1>2, <1>3, <1>4, <1>5, <2>2 DEF IsFrame
  <2> QED
    BY <1>2, <1>3, <1>4, <2>3 DEF Image, image
<1>6. CASE ~OnlyRun(d.run, d.frame_id)
  BY <1>2, <1>3, <1>4, <1>6 DEF Image, OnlyRun, image
<1> QED
  BY <1>5, <1>6

LEMMA FinishFrameKept ==
  ASSUME UdpInv, NEW d \in net, net' \subseteq net, UNCHANGED <<scenario, senderVars>>,
         Len(shown) < MaxShown, FinishFrame(d)
  PROVE  UdpInv'
<1> DEFINE image == NewImage(d)
<1>1. /\ shown' = Append(shown, image) \/ UNCHANGED shown
      /\ current_frame_id' = 0 /\ current_frame' = <<>> /\ received_chunks' = {}
      /\ since' \subseteq since
  BY DEF FinishFrame, Forget, NewImage
<1>2. receiving' \in BOOLEAN
  BY DEF FinishFrame, UdpInv
<1>3. image \in Seq(FrameNo \union {Blank}) /\ Image(image, d.frame_id)
  BY Stored, FinishedIsFrame
<1> HIDE DEF image
<1>4. d.frame_id \in 1..scenario.frames
  BY DEF UdpInv, NetOK
<1>5. Numbers' /\ SentOK' /\ NetOK'
  BY DEF UdpInv, Numbers, SentOK, NetOK, senderVars
<1>6. CurrentOK'
  BY <1>1, ScenarioFacts DEF UdpInv, CurrentOK
<1>7. ShownOK'
  <2>1. \A im, id : Image(im, id) => Image(im, id)'
    BY DEF Image, IsFrame, Part, senderVars
  <2>2. CASE UNCHANGED shown
    BY <2>1, <2>2 DEF UdpInv, ShownOK
  <2>3. CASE shown' = Append(shown, image)
    <3>1. /\ shown \in Seq(Seq(FrameNo \union {Blank})) /\ Len(shown) \in Nat
          /\ Len(shown') = Len(shown) + 1 /\ MaxShown \in Nat
          /\ shown' \in Seq(Seq(FrameNo \union {Blank}))
          /\ \A k \in 1..Len(shown) : shown'[k] = shown[k]
          /\ shown'[Len(shown) + 1] = image
      BY <1>3, <2>3, BoundsAssumption, AppendProperties, LenProperties DEF UdpInv, ShownOK
    <3>2. ASSUME NEW k \in 1..Len(shown')
          PROVE  (\E id \in 1..scenario.frames : Image(shown[k], id))'
      <4>1. CASE k \in 1..Len(shown)
        BY <2>1, <3>1, <4>1 DEF UdpInv, ShownOK
      <4>2. CASE k = Len(shown) + 1
        BY <1>3, <1>4, <2>1, <3>1, <4>2
      <4> QED
        BY <3>1, <4>1, <4>2
    <3> QED
      BY <3>1, <3>2 DEF ShownOK
  <2> QED
    BY <1>1, <2>2, <2>3
<1> QED
  BY <1>2, <1>5, <1>6, <1>7 DEF UdpInv

\* A turn of the receiver's loop: what it takes from the network, and what it does.
LEMMA ReceiveCases ==
  ASSUME Receive
  PROVE  \E d \in Deliverable :
           /\ d \in net /\ net' \subseteq net
           /\ ~scenario.duplicating => net' = net \ {d}
           /\ Len(shown) < MaxShown /\ UNCHANGED <<scenario, senderVars>>
           /\ StoreChunk(d) \/ FinishFrame(d) \/ UNCHANGED receiverVars
<1>1. PICK d \in Deliverable :
        /\ net' = net \ {d} \/ (scenario.duplicating /\ UNCHANGED net)
        /\ IF Valid(d) THEN StoreChunk(d) \/ FinishFrame(d) ELSE UNCHANGED receiverVars
  BY DEF Receive
<1>2. d \in net
  BY DEF Deliverable
<1>3. Len(shown) < MaxShown /\ UNCHANGED <<scenario, senderVars>>
  BY DEF Receive
<1> QED
  BY <1>1, <1>2, <1>3

LEMMA IgnoredKept ==
  ASSUME UdpInv, net' \subseteq net, UNCHANGED <<scenario, senderVars, receiverVars>>
  PROVE  UdpInv'
<1>1. CurrentOK' /\ ShownOK'
  BY MoreSent DEF senderVars
<1>2. Numbers' /\ SentOK' /\ NetOK' /\ receiving' \in BOOLEAN
  BY DEF UdpInv, Numbers, SentOK, NetOK, senderVars, receiverVars
<1> QED
  BY <1>1, <1>2 DEF UdpInv

LEMMA UdpKept == ASSUME UdpInv, [Next]_vars PROVE UdpInv'
<1>1. CASE send_frame
  BY <1>1, SenderKept
<1>2. CASE Restart
  BY <1>2, RestartKept
<1>3. CASE Lose
  BY <1>3, LoseKept
<1>4. CASE Receive
  BY <1>4, ReceiveCases, StoreChunkKept, FinishFrameKept, IgnoredKept
<1>5. CASE UNCHANGED vars
  BY <1>5, IgnoredKept DEF vars
<1> QED
  BY <1>1, <1>2, <1>3, <1>4, <1>5 DEF Next, Quiet

LEMMA UdpAlways == FairSpec => []UdpInv
<1>1. Init => UdpInv
  BY UdpStarts DEF OrderInv
<1> QED
  BY <1>1, UdpKept, PTL DEF FairSpec, Spec

\* Sender, network and receiver keep their variables in their kinds: above
\* all, no frame number, chunk index or image grows beyond what was sent.
THEOREM TypesOfStream == FairSpec => []TypeOK
<1>1. ASSUME UdpInv PROVE TypeOK
  <2>1. /\ scenario \in Scenarios /\ run \in 1..scenario.runs
        /\ frame_id_ \in 1..(scenario.frames + 1)
    BY <1>1 DEF UdpInv, Numbers
  <2>2. DOMAIN sizes \subseteq FrameNo /\ arrived \subseteq DOMAIN sizes
    BY <1>1, ScenarioFacts DEF UdpInv, SentOK
  <2>3. \A f \in DOMAIN sizes : sizes[f] \in 1..scenario.chunks
    BY <1>1 DEF UdpInv, SentOK
  <2>4. \A d \in net : /\ <<d.run, d.frame_id>> \in DOMAIN sizes
                       /\ d.chunk_index \in 1..d.chunk_count
                       /\ d.header = Headers
    BY <1>1 DEF UdpInv, NetOK
  <2>5. /\ current_frame_id \in 0..scenario.frames
        /\ received_chunks \subseteq 1..scenario.chunks
        /\ since \subseteq (1..scenario.frames) \X (1..scenario.chunks)
        /\ current_frame \in Seq(FrameNo \union {Blank})
    BY <1>1 DEF UdpInv, CurrentOK
  <2>6. \A i \in DOMAIN current_frame : current_frame[i] \in FrameNo \union {Blank}
    BY <2>5, ElementOfSeq, LenProperties
  <2>7. Len(shown) <= MaxShown
    BY <1>1 DEF UdpInv, ShownOK
  <2>8. receiving \in BOOLEAN
    BY <1>1, Zenon DEF UdpInv
  <2> QED
    BY Zenon, <2>1, <2>2, <2>3, <2>4, <2>5, <2>6, <2>7, <2>8 DEF TypeOK
<1> QED
  BY <1>1, UdpAlways, PTL

\* What is not blank has the number of the image it is part of.
LEMMA PartId ==
  ASSUME NEW part, NEW id, Part(part, id), part # Blank
  PROVE  part[2] = id
<1>1. PICK r \in 1..scenario.runs : part = <<r, id>>
  BY DEF Part
<1> QED
  BY <1>1

\* Two runs are more than one.
LEMMA TwoRuns ==
  ASSUME NEW n \in Nat, NEW S, S \subseteq 1..n, NEW r \in S, NEW q \in S, r # q
  PROVE  Cardinality(S) > 1
<1>1. IsFiniteSet(S)
  <2>1. IsFiniteSet(1..n) /\ S \in SUBSET (1..n)
    BY FS_Interval
  <2> QED
    BY <2>1, FS_Subset
<1>2. {r} \union {q} \in SUBSET S
  OBVIOUS
<1>3. Cardinality({r} \union {q}) = 2
  <2>1. IsFiniteSet({r}) /\ Cardinality({r}) = 1 /\ q \notin {r}
    BY FS_Singleton
  <2>2. Cardinality({r} \union {q})
          = IF q \in {r} THEN Cardinality({r}) ELSE Cardinality({r}) + 1
    BY Zenon, <2>1, FS_AddElement
  <2> QED
    BY <2>1, <2>2
<1>4. Cardinality({r} \union {q}) <= Cardinality(S)
  BY <1>1, <1>2, FS_Subset
<1>5. Cardinality(S) \in Nat
  BY <1>1, FS_CardinalityType
<1> QED
  BY <1>3, <1>4, <1>5

\* An image is one frame, or of a number that two runs of the sender have used.
LEMMA FrameOrMix ==
  ASSUME UdpInv, NEW k \in DOMAIN shown
  PROVE  \E id \in 1..scenario.frames :
           /\ \A i \in DOMAIN shown[k] : shown[k][i] # Blank => shown[k][i][2] = id
           /\ \/ \E r \in 1..scenario.runs : IsFrame(shown[k], <<r, id>>)
              \/ Cardinality({r \in 1..scenario.runs : <<r, id>> \in DOMAIN sizes}) > 1
<1>1. PICK id \in 1..scenario.frames : Image(shown[k], id)
  BY LenProperties DEF UdpInv, ShownOK
<1>2. \A i \in DOMAIN shown[k] : shown[k][i] # Blank => shown[k][i][2] = id
  BY <1>1, PartId DEF Image
<1>3. ASSUME NEW r \in 1..scenario.runs, NEW q \in 1..scenario.runs, r # q,
             <<r, id>> \in DOMAIN sizes, <<q, id>> \in DOMAIN sizes
      PROVE  Cardinality({p \in 1..scenario.runs : <<p, id>> \in DOMAIN sizes}) > 1
  <2> DEFINE users == {p \in 1..scenario.runs : <<p, id>> \in DOMAIN sizes}
  <2>1. r \in users /\ q \in users /\ users \subseteq 1..scenario.runs
    BY <1>3
  <2>2. scenario.runs \in Nat
    BY ScenarioFacts DEF UdpInv
  <2> HIDE DEF users
  <2>3. Cardinality(users) > 1
    BY <1>3, <2>1, <2>2, TwoRuns
  <2> QED
    BY <2>3 DEF users
<1> QED
  BY <1>1, <1>2, <1>3 DEF Image

-----------------------------------------------------------------------------
(* In order: how many images a restart may spoil.                          *)

\* The frame that is put together is of run q alone.
OfRun(q) ==
  /\ <<q, current_frame_id>> \in DOMAIN sizes
  /\ Len(current_frame) = sizes[<<q, current_frame_id>>]
  /\ received_chunks \subseteq 1..sizes[<<q, current_frame_id>>]
  /\ \A i \in received_chunks : current_frame[i] = <<q, current_frame_id>>

\* Run q is the last one that anything came from: earlier ones are over, and a
\* frame with parts of them is the one mix that its first datagram made.
Reached(q) ==
  /\ \A d \in net : d.run >= q
  /\ Cardinality(Mixes) < q
  /\ current_frame_id = 0 \/ OfRun(q) \/ Cardinality(Mixes) + 1 < q

MixInv == UdpInv /\ (scenario.in_order => \E q \in 1..run : Reached(q))

\* Mixes are counted.
LEMMA MixesFinite ==
  ASSUME UdpInv
  PROVE  IsFiniteSet(Mixes) /\ Cardinality(Mixes) \in Nat
<1>1. DOMAIN shown = 1..Len(shown) /\ Len(shown) \in Nat
  BY LenProperties DEF UdpInv, ShownOK
<1>2. Mixes \in SUBSET (1..Len(shown))
  BY <1>1 DEF Mixes
<1>3. IsFiniteSet(1..Len(shown))
  BY <1>1, FS_Interval
<1> QED
  BY <1>2, <1>3, FS_Subset, FS_CardinalityType

\* A frame that was sent stays one: mixes do not become more by sending.
LEMMA MixesFewer ==
  ASSUME UdpInv, UNCHANGED <<scenario, shown>>, DOMAIN sizes \subseteq DOMAIN sizes',
         \A f \in DOMAIN sizes : sizes'[f] = sizes[f]
  PROVE  Cardinality(Mixes') <= Cardinality(Mixes) /\ Cardinality(Mixes') \in Nat
<1>1. Mixes' \in SUBSET Mixes
  BY DEF Mixes, IsFrame
<1> QED
  BY <1>1, MixesFinite, FS_Subset, FS_CardinalityType

\* The receiver has not moved, and what is on its way is not of earlier runs.
LEMMA StaysReached ==
  ASSUME UdpInv, UNCHANGED <<scenario, receiverVars>>,
         DOMAIN sizes \subseteq DOMAIN sizes',
         \A f \in DOMAIN sizes : sizes'[f] = sizes[f],
         NEW q \in Nat, Reached(q), \A d \in net' : d.run >= q
  PROVE  Reached(q)'
<1>1. Cardinality(Mixes') <= Cardinality(Mixes) /\ Cardinality(Mixes') \in Nat
  BY MixesFewer DEF receiverVars
<1>2. Cardinality(Mixes) \in Nat
  BY MixesFinite
<1>3. OfRun(q) => OfRun(q)'
  BY DEF OfRun, receiverVars
<1> QED
  BY <1>1, <1>2, <1>3 DEF Reached, receiverVars

\* A chunk of run r in a frame of run r alone, or in a new one.
LEMMA StoredOfRun ==
  ASSUME UdpInv, NEW d \in net, current_frame_id = d.frame_id => OfRun(d.run)
  PROVE  /\ Len(NewImage(d)) = d.chunk_count
         /\ d.chunk_count = sizes[<<d.run, d.frame_id>>]
         /\ NewChunks(d) \subseteq 1..d.chunk_count
         /\ \A i \in NewChunks(d) : NewImage(d)[i] = <<d.run, d.frame_id>>
<1> DEFINE n == d.chunk_count
           buf == FrameBefore(d)
<1>1. /\ d.frame_id \in 1..scenario.frames /\ n \in 1..scenario.chunks
      /\ d.chunk_index \in 1..n
      /\ <<d.run, d.frame_id>> \in DOMAIN sizes /\ n = sizes[<<d.run, d.frame_id>>]
  BY DEF UdpInv, NetOK
<1>2. scenario.chunks \in Nat /\ scenario.frames \in Nat
  BY ScenarioFacts DEF UdpInv
<1>3. n \in Nat /\ d.chunk_index \in Nat
  BY <1>1, <1>2
<1>4. /\ buf \in Seq(FrameNo \union {Blank}) /\ Len(buf) = n
      /\ ChunksBefore(d) \subseteq 1..n
      /\ \A i \in ChunksBefore(d) : buf[i] = <<d.run, d.frame_id>>
  <2>1. CASE current_frame_id = d.frame_id
    <3>1. buf = current_frame /\ ChunksBefore(d) = received_chunks
      BY <2>1 DEF FrameBefore, ChunksBefore
    <3> HIDE DEF buf
    <3> QED
      BY <1>1, <2>1, <3>1 DEF OfRun, UdpInv, CurrentOK
  <2>2. CASE current_frame_id # d.frame_id
    <3>1. buf = [i \in 1..n |-> Blank] /\ ChunksBefore(d) = {}
      BY <2>2 DEF FrameBefore, ChunksBefore
    <3> HIDE DEF buf
    <3> QED
      BY <1>3, <3>1
  <2> QED
    BY <2>1, <2>2
<1> HIDE DEF buf
<1>5. NewImage(d) = [i \in 1..n |-> IF i = d.chunk_index THEN <<d.run, d.frame_id>> ELSE buf[i]]
  BY <1>1, <1>3, <1>4 DEF NewImage, Store, buf
<1> HIDE DEF n
<1>6. NewChunks(d) \subseteq 1..n
  BY <1>1, <1>4 DEF NewChunks
<1>7. \A i \in NewChunks(d) : NewImage(d)[i] = <<d.run, d.frame_id>>
  BY <1>4, <1>5, <1>6 DEF NewChunks
<1>8. Len(NewImage(d)) = n
  BY <1>3, <1>5
<1> QED
  BY <1>1, <1>6, <1>7, <1>8 DEF n

\* One image more is one mix more at most, and none if it is a whole frame.
LEMMA MixesAfter ==
  ASSUME UdpInv, NEW d \in net, UNCHANGED <<scenario, sizes>>, FinishFrame(d)
  PROVE  /\ Cardinality(Mixes') \in Nat /\ Cardinality(Mixes') <= Cardinality(Mixes) + 1
         /\ IsFrame(NewImage(d), <<d.run, d.frame_id>>) => Cardinality(Mixes') <= Cardinality(Mixes)
<1> DEFINE image == NewImage(d)
           last == Len(shown) + 1
           whole == IsFrame(image, <<d.run, d.frame_id>>)
<1>0. IsFiniteSet(Mixes) /\ Cardinality(Mixes) \in Nat
  BY MixesFinite
<1>1. shown' = Append(shown, image) \/ UNCHANGED shown
  BY DEF FinishFrame, NewImage
<1>2. /\ d.run \in 1..scenario.runs /\ d.frame_id \in 1..scenario.frames
      /\ shown \in Seq(Seq(FrameNo \union {Blank}))
      /\ image \in Seq(FrameNo \union {Blank})
  BY Stored DEF UdpInv, NetOK, ShownOK
<1> HIDE DEF image
<1>3. \A im, f : IsFrame(im, f)' <=> IsFrame(im, f)
  BY DEF IsFrame
<1>4. Mixes' \subseteq Mixes \union {last} /\ (whole => Mixes' \subseteq Mixes)
  <2>1. CASE UNCHANGED shown
    BY <2>1 DEF Mixes, IsFrame
  <2>2. CASE shown' = Append(shown, image)
    <3>1. /\ DOMAIN shown' = 1..last /\ DOMAIN shown = 1..Len(shown) /\ Len(shown) \in Nat
          /\ \A k \in 1..Len(shown) : shown'[k] = shown[k]
          /\ shown'[last] = image
      BY <1>2, <2>2, AppendProperties, LenProperties
    <3>2. ASSUME NEW k \in Mixes'
          PROVE  /\ k \in Mixes \/ k = last
                 /\ whole => k # last
      <4>1. /\ k \in DOMAIN shown'
            /\ \A r \in 1..scenario.runs, id \in 1..scenario.frames :
                 ~IsFrame(shown'[k], <<r, id>>)
        BY <1>3 DEF Mixes
      <4>2. k \in 1..Len(shown) => k \in Mixes
        BY <3>1, <4>1 DEF Mixes
      <4>3. whole => k # last
        BY <1>2, <3>1, <4>1
      <4> QED
        BY <3>1, <4>1, <4>2, <4>3
    <3> QED
      BY <3>2
  <2> QED
    BY <1>1, <2>1, <2>2
<1>5. /\ IsFiniteSet(Mixes \union {last})
      /\ Cardinality(Mixes \union {last}) <= Cardinality(Mixes) + 1
      /\ Cardinality(Mixes \union {last}) \in Nat
  <2>1. last \in Mixes => Mixes \union {last} = Mixes
    OBVIOUS
  <2>2. last \notin Mixes => /\ IsFiniteSet(Mixes \union {last})
                            /\ Cardinality(Mixes \union {last}) = Cardinality(Mixes) + 1
    BY <1>0, FS_AddElement
  <2> HIDE DEF last
  <2> QED
    BY <1>0, <2>1, <2>2
<1> HIDE DEF last, whole
<1>6. /\ IsFiniteSet(Mixes') /\ Cardinality(Mixes') <= Cardinality(Mixes \union {last})
  <2>1. Mixes' \in SUBSET (Mixes \union {last})
    BY <1>4
  <2> QED
    BY <1>5, <2>1, FS_Subset
<1>7. Cardinality(Mixes') \in Nat
  BY <1>6, FS_CardinalityType
<1>8. whole => Cardinality(Mixes') <= Cardinality(Mixes)
  <2>1. whole => Mixes' \in SUBSET Mixes
    BY <1>4
  <2> QED
    BY <1>0, <2>1, FS_Subset
<1> QED
  BY <1>0, <1>5, <1>6, <1>7, <1>8 DEF whole, image

\* A datagram of run r taken in order ends the earlier runs: r is reached.
LEMMA ReceiveReaches ==
  ASSUME UdpInv, UdpInv', scenario.in_order, NEW q \in 1..run, Reached(q),
         NEW d \in Deliverable, d \in net, net' \subseteq net,
         UNCHANGED <<scenario, senderVars>>, StoreChunk(d) \/ FinishFrame(d)
  PROVE  d.run \in 1..run' /\ Reached(d.run)'
<1> DEFINE r == d.run
<1>0. /\ scenario.runs \in Nat /\ scenario.frames \in Nat /\ run \in 1..scenario.runs
      /\ q \in Nat /\ Cardinality(Mixes) \in Nat
  BY ScenarioFacts, MixesFinite DEF UdpInv, Numbers
<1>1. /\ r \in 1..scenario.runs /\ d.frame_id \in 1..scenario.frames
      /\ <<r, d.frame_id>> \in DOMAIN sizes /\ r >= q
  BY DEF UdpInv, NetOK, Reached
<1>2. r \in Nat /\ d.frame_id \in Nat /\ d.frame_id # 0 /\ r <= run
  BY <1>0, <1>1 DEF UdpInv, SentOK
<1>3. \A e \in net' : e.run >= r
  <2>1. \A e \in net : ~(e.run < r) /\ e.run \in 1..scenario.runs
    BY DEF Deliverable, Before, UdpInv, NetOK
  <2> QED
    BY <1>0, <1>2, <2>1
<1>4. Cardinality(Mixes) < r
  BY <1>0, <1>1, <1>2 DEF Reached
<1>5. \/ current_frame_id = d.frame_id => OfRun(r)
      \/ Cardinality(Mixes) + 1 < r
  <2>1. CASE r = q
    BY <1>2, <2>1 DEF Reached
  <2>2. CASE r > q
    BY <1>0, <1>2, <2>2 DEF Reached
  <2> QED
    BY <1>0, <1>1, <1>2, <2>1, <2>2
<1>6. CASE StoreChunk(d)
  <2>1. /\ current_frame_id' = d.frame_id /\ current_frame' = NewImage(d)
        /\ received_chunks' = NewChunks(d) /\ UNCHANGED shown
    BY <1>6 DEF StoreChunk, NewImage, NewChunks
  <2>2. Mixes' = Mixes
    BY <2>1 DEF Mixes, IsFrame, senderVars
  <2>3. (current_frame_id = d.frame_id => OfRun(r)) => OfRun(r)'
    BY <1>1, <2>1, StoredOfRun DEF OfRun, senderVars
  <2> QED
    BY <1>1, <1>2, <1>3, <1>4, <1>5, <2>2, <2>3 DEF Reached, senderVars
<1>7. CASE FinishFrame(d)
  <2>1. current_frame_id' = 0 /\ Cardinality(NewChunks(d)) = d.chunk_count
    BY <1>7 DEF FinishFrame, Forget, NewChunks, Complete
  <2>2. /\ Cardinality(Mixes') \in Nat /\ Cardinality(Mixes') <= Cardinality(Mixes) + 1
        /\ IsFrame(NewImage(d), <<r, d.frame_id>>) => Cardinality(Mixes') <= Cardinality(Mixes)
    BY <1>7, MixesAfter DEF senderVars
  <2>3. ASSUME current_frame_id = d.frame_id => OfRun(r)
        PROVE  IsFrame(NewImage(d), <<r, d.frame_id>>)
    <3>1. /\ Len(NewImage(d)) = d.chunk_count
          /\ d.chunk_count = sizes[<<r, d.frame_id>>]
          /\ NewChunks(d) \subseteq 1..d.chunk_count
          /\ \A i \in NewChunks(d) : NewImage(d)[i] = <<r, d.frame_id>>
      BY <2>3, StoredOfRun
    <3>2. d.chunk_count \in Nat
      <4>1. scenario.chunks \in Nat /\ d.chunk_count \in 1..scenario.chunks
        BY ScenarioFacts DEF UdpInv, NetOK
      <4> QED
        BY <4>1
    <3>3. NewChunks(d) = 1..d.chunk_count
      BY <2>1, <3>1, <3>2, AllIndices
    <3>4. NewImage(d) \in Seq(FrameNo \union {Blank})
      BY Stored
    <3> QED
      BY <1>1, <3>1, <3>3, <3>4, LenProperties DEF IsFrame
  <2>4. Cardinality(Mixes') < r
    BY <1>0, <1>2, <1>4, <1>5, <2>2, <2>3
  <2> QED
    BY <1>1, <1>2, <1>3, <2>1, <2>4 DEF Reached, senderVars
<1> QED
  BY <1>6, <1>7

LEMMA MixStarts == Init => MixInv
<1> SUFFICES ASSUME Init PROVE Reached(1) /\ run = 1
  BY UdpStarts DEF OrderInv, MixInv, Init
<1>1. Mixes = {}
  BY DEF Init, Mixes
<1> QED
  BY <1>1, FS_EmptySet DEF Init, Reached

LEMMA MixKept == ASSUME MixInv, [Next]_vars PROVE MixInv'
<1> SUFFICES ASSUME scenario'.in_order PROVE \E q \in 1..run' : Reached(q)'
  BY UdpKept DEF MixInv
<1>0. /\ UdpInv /\ UdpInv' /\ UNCHANGED scenario /\ scenario.in_order
      /\ scenario.runs \in Nat /\ run \in 1..scenario.runs
  BY UdpKept, ScenarioFacts
     DEF MixInv, UdpInv, Numbers, Next, send_frame, Restart, Lose, Receive, Quiet, vars
<1>1. PICK q \in 1..run : Reached(q)
  BY <1>0 DEF MixInv
<1>2. q \in Nat /\ q <= run
  BY <1>0
<1>3. CASE send_frame
  <2>1. \A d \in net' \ net : d.run = run
    BY <1>3 DEF send_frame, Datagram
  <2>2. \A d \in net' : d.run >= q
    BY <1>0, <1>1, <1>2, <2>1 DEF Reached
  <2>3. /\ UNCHANGED <<scenario, run, receiverVars>>
        /\ DOMAIN sizes \subseteq DOMAIN sizes'
    BY <1>3 DEF send_frame
  <2>4. <<run, frame_id_>> \notin DOMAIN sizes
    <3>1. frame_id_ \in Nat /\ run \in Nat
      BY <1>0, ScenarioFacts DEF UdpInv, Numbers
    <3> QED
      BY <1>0, <3>1 DEF UdpInv, SentOK
  <2>5. \A f \in DOMAIN sizes : sizes'[f] = sizes[f]
    BY <1>3, <2>4 DEF send_frame
  <2> QED
    BY <1>0, <1>1, <1>2, <2>2, <2>3, <2>5, StaysReached
<1>4. CASE Restart
  <2>1. Reached(q)'
    BY <1>0, <1>1, <1>2, <1>4, StaysReached DEF Restart, Reached
  <2>2. run' = run + 1
    BY <1>4 DEF Restart
  <2> QED
    BY <1>0, <1>1, <2>1, <2>2
<1>5. CASE Lose \/ UNCHANGED vars
  <2>1. net' \subseteq net /\ UNCHANGED <<scenario, senderVars, receiverVars>>
    BY <1>5 DEF Lose, vars
  <2> QED
    BY <1>0, <1>1, <1>2, <2>1, StaysReached DEF Reached, senderVars
<1>6. CASE Receive
  <2>1. PICK d \in Deliverable :
          /\ d \in net /\ net' \subseteq net
          /\ UNCHANGED <<scenario, senderVars>>
          /\ StoreChunk(d) \/ FinishFrame(d) \/ UNCHANGED receiverVars
    BY <1>6, ReceiveCases
  <2>2. CASE UNCHANGED receiverVars
    BY <1>0, <1>1, <1>2, <2>1, <2>2, StaysReached DEF Reached, senderVars
  <2> QED
    BY <1>0, <1>1, <2>1, <2>2, ReceiveReaches
<1> QED
  BY <1>3, <1>4, <1>5, <1>6 DEF Next, Quiet

\* Every image that is shown is one whole frame that was sent, for any number
\* and size of frames and whatever is lost, reordered or duplicated, unless
\* two runs of the sender have used its number; and on a network that keeps
\* the order a restart of the sender spoils one image at most.
THEOREM ImagesWereSent == FairSpec => []ShownWasSent
<1>1. ASSUME MixInv PROVE ShownWasSent
  <2>1. scenario.in_order => Cardinality(Mixes) < run
    <3> SUFFICES ASSUME scenario.in_order PROVE Cardinality(Mixes) < run
      OBVIOUS
    <3>1. PICK q \in 1..run : Cardinality(Mixes) < q
      BY <1>1 DEF MixInv, Reached
    <3>2. Cardinality(Mixes) \in Nat /\ scenario.runs \in Nat /\ run \in 1..scenario.runs
      BY <1>1, MixesFinite, ScenarioFacts DEF MixInv, UdpInv, Numbers
    <3> QED
      BY <3>1, <3>2
  <2> QED
    BY <1>1, <2>1, FrameOrMix DEF ShownWasSent, MixInv
<1> QED
  BY <1>1, MixStarts, MixKept, PTL DEF FairSpec, Spec

-----------------------------------------------------------------------------
(* Without duplicates and a restart.                                       *)

\* The scenario; its only run is the first.
Once == ~scenario.duplicating /\ scenario.runs = 1

\* Numbers of the frames of images, as images of one run have them.
LEMMA ImageIds ==
  ASSUME NEW image, NEW id, \A i \in DOMAIN image : Part(image[i], id)
  PROVE  IdsOf(image) \subseteq {id}
BY PartId DEF IdsOf

\* A sent frame is of the first run, and has a number below the next.
LEMMA OneRun ==
  ASSUME UdpInv, scenario.runs = 1
  PROVE  /\ \A d \in net : d.run = 1 /\ d.frame_id \in 1..scenario.frames
                           /\ d.frame_id < frame_id_
         /\ \A id \in Nat : <<1, id>> \in DOMAIN sizes => OnlyRun(1, id) /\ id < frame_id_
<1>0. scenario.frames \in Nat
  BY ScenarioFacts DEF UdpInv
<1>1. run = 1
  BY DEF UdpInv, Numbers
<1>2. \A id \in Nat : <<1, id>> \in DOMAIN sizes => OnlyRun(1, id) /\ id < frame_id_
  BY <1>1 DEF UdpInv, SentOK, OnlyRun
<1>3. ASSUME NEW d \in net
      PROVE  d.run = 1 /\ d.frame_id \in 1..scenario.frames /\ d.frame_id < frame_id_
  <2>1. /\ d.run \in 1..scenario.runs /\ d.frame_id \in 1..scenario.frames
        /\ <<d.run, d.frame_id>> \in DOMAIN sizes
    BY DEF UdpInv, NetOK
  <2>2. d.run = 1 /\ d.frame_id \in Nat
    BY <1>0, <2>1
  <2> QED
    BY <1>2, <2>1, <2>2
<1> QED
  BY <1>2, <1>3

LEMMA SenderLeavesNothing == ASSUME OrderInv, send_frame PROVE OrderInv'
<1>1. /\ UdpInv' /\ DOMAIN sizes \subseteq DOMAIN sizes'
      /\ \A d \in net' \ net : d.frame_id = frame_id_
  BY SenderKept DEF OrderInv
<1>2. UNCHANGED <<scenario, receiverVars>>
  BY DEF send_frame
<1>3. ShownDistinct'
  BY <1>2 DEF OrderInv, ShownDistinct, receiverVars, IdsOf
<1>4. LeftOver'
  <2> SUFFICES ASSUME Once PROVE
        /\ \A d \in net' : d.frame_id = current_frame_id => d.chunk_index \notin received_chunks
        /\ \A k \in 1..Len(shown) : \A a \in IdsOf(shown[k]) :
             /\ a \in 1..scenario.frames /\ <<1, a>> \in DOMAIN sizes'
             /\ a # current_frame_id
             /\ \A d \in net' : d.frame_id # a
    BY <1>2 DEF LeftOver, Once, receiverVars, IdsOf
  <2>0. UdpInv /\ scenario.frames \in Nat /\ frame_id_ \in Nat
    BY ScenarioFacts DEF OrderInv, UdpInv, Numbers
  <2>1. /\ \A d \in net : d.frame_id = current_frame_id => d.chunk_index \notin received_chunks
        /\ \A k \in 1..Len(shown) : \A a \in IdsOf(shown[k]) :
             /\ a \in 1..scenario.frames /\ <<1, a>> \in DOMAIN sizes
             /\ a # current_frame_id
             /\ \A d \in net : d.frame_id # a
    BY DEF OrderInv, LeftOver, Once
  <2>2. \A id \in Nat : <<1, id>> \in DOMAIN sizes => id < frame_id_
    BY <2>0, OneRun DEF Once
  <2>3. current_frame_id # frame_id_
    <3>1. CASE current_frame_id = 0
      BY <2>0, <3>1 DEF UdpInv, Numbers
    <3>2. CASE current_frame_id # 0
      <4>1. <<1, current_frame_id>> \in DOMAIN sizes /\ current_frame_id \in Nat
        BY <2>0, <3>2 DEF UdpInv, CurrentOK, Once
      <4> QED
        BY <2>0, <2>2, <4>1
    <3> QED
      BY <3>1, <3>2
  <2>4. \A d \in net' : d.frame_id = current_frame_id => d.chunk_index \notin received_chunks
    BY <1>1, <2>1, <2>3
  <2>5. ASSUME NEW k \in 1..Len(shown), NEW a \in IdsOf(shown[k])
        PROVE  /\ a \in 1..scenario.frames /\ <<1, a>> \in DOMAIN sizes'
               /\ a # current_frame_id
               /\ \A d \in net' : d.frame_id # a
    <3>0. a \in 1..scenario.frames /\ <<1, a>> \in DOMAIN sizes
      BY <2>1
    <3>1. a \in Nat /\ a < frame_id_
      BY <2>0, <2>2, <3>0
    <3> QED
      BY <1>1, <2>0, <2>1, <3>1
  <2> QED
    BY <2>4, <2>5
<1> QED
  BY <1>1, <1>3, <1>4 DEF OrderInv

\* Fewer datagrams are on their way, and the receiver has not moved.
LEMMA FewerLeaveNothing ==
  ASSUME OrderInv, UdpInv', net' \subseteq net, DOMAIN sizes \subseteq DOMAIN sizes',
         UNCHANGED <<scenario, receiverVars>>
  PROVE  OrderInv'
<1>1. ShownDistinct'
  BY DEF OrderInv, ShownDistinct, receiverVars, IdsOf
<1>2. LeftOver'
  BY DEF OrderInv, LeftOver, receiverVars, IdsOf
<1> QED
  BY <1>1, <1>2 DEF OrderInv

\* Without duplicates, a datagram is the only one of its place.
LEMMA SameDatagram ==
  ASSUME UdpInv, scenario.runs = 1, NEW d \in net, NEW e \in net,
         d.frame_id = e.frame_id, d.chunk_index = e.chunk_index
  PROVE  d = e
<1>1. d.run = e.run
  BY OneRun
<1>2. d.header = e.header /\ d.chunk_count = e.chunk_count
  BY <1>1 DEF UdpInv, NetOK
<1>3. /\ d = [header |-> d.header, run |-> d.run, frame_id |-> d.frame_id,
             chunk_index |-> d.chunk_index, chunk_count |-> d.chunk_count]
      /\ e = [header |-> e.header, run |-> e.run, frame_id |-> e.frame_id,
             chunk_index |-> e.chunk_index, chunk_count |-> e.chunk_count]
  BY DEF UdpInv, NetOK
<1> QED
  BY <1>1, <1>2, <1>3

\* When a datagram is taken, none is left of the chunks counted with it.
LEMMA CountedGone ==
  ASSUME OrderInv, Once, NEW d \in net, NEW e \in net, e # d, e.frame_id = d.frame_id
  PROVE  e.chunk_index \notin NewChunks(d)
<1>1. e.chunk_index # d.chunk_index
  BY SameDatagram DEF OrderInv, Once
<1>2. e.chunk_index \notin ChunksBefore(d)
  BY DEF ChunksBefore, OrderInv, LeftOver, Once
<1> QED
  BY <1>1, <1>2 DEF NewChunks

LEMMA StoredLeavesNothing ==
  ASSUME OrderInv, UdpInv', NEW d \in net, net' \subseteq net,
         ~scenario.duplicating => net' = net \ {d},
         UNCHANGED <<scenario, senderVars>>, StoreChunk(d)
  PROVE  OrderInv'
<1>1. /\ current_frame_id' = d.frame_id /\ received_chunks' = NewChunks(d)
      /\ UNCHANGED shown
  BY DEF StoreChunk, NewChunks
<1>2. ShownDistinct'
  BY <1>1 DEF OrderInv, ShownDistinct, IdsOf
<1>3. LeftOver'
  <2> SUFFICES ASSUME Once PROVE
        /\ \A e \in net' : e.frame_id = d.frame_id => e.chunk_index \notin NewChunks(d)
        /\ \A k \in 1..Len(shown) : \A a \in IdsOf(shown[k]) :
             /\ a \in 1..scenario.frames /\ <<1, a>> \in DOMAIN sizes
             /\ a # d.frame_id
             /\ \A e \in net' : e.frame_id # a
    BY <1>1 DEF LeftOver, Once, senderVars, IdsOf
  <2>1. \A e \in net' : e.frame_id = d.frame_id => e.chunk_index \notin NewChunks(d)
    BY CountedGone DEF Once
  <2>2. \A k \in 1..Len(shown) : \A a \in IdsOf(shown[k]) :
          /\ a \in 1..scenario.frames /\ <<1, a>> \in DOMAIN sizes
          /\ \A e \in net : e.frame_id # a
    BY DEF OrderInv, LeftOver, Once
  <2> QED
    BY <2>1, <2>2
<1> QED
  BY <1>2, <1>3 DEF OrderInv

\* A frame that is shown was not shown before, and nothing is left of it.
LEMMA FinishedLeavesNothing ==
  ASSUME OrderInv, UdpInv', NEW d \in Deliverable, d \in net, net' \subseteq net,
         ~scenario.duplicating => net' = net \ {d},
         UNCHANGED <<scenario, senderVars>>, FinishFrame(d)
  PROVE  OrderInv'
<1> DEFINE image == NewImage(d)
<1>1. /\ shown' = Append(shown, image) \/ UNCHANGED shown
      /\ current_frame_id' = 0 /\ received_chunks' = {}
      /\ Cardinality(NewChunks(d)) = d.chunk_count
  BY DEF FinishFrame, Forget, NewImage, NewChunks, Complete
<1> HIDE DEF image
<1>2. /\ UdpInv /\ shown \in Seq(Seq(FrameNo \union {Blank})) /\ Len(shown) \in Nat
      /\ scenario.runs \in Nat /\ scenario.frames \in Nat /\ scenario.chunks \in Nat
  BY ScenarioFacts, LenProperties DEF OrderInv, UdpInv, ShownOK
<1>3. image \in Seq(FrameNo \union {Blank}) /\ IdsOf(image) \subseteq {d.frame_id}
  <2>1. Image(image, d.frame_id)
    BY <1>2, FinishedIsFrame DEF image
  <2>2. image \in Seq(FrameNo \union {Blank})
    BY <1>2, Stored DEF image
  <2> QED
    BY <2>1, <2>2, ImageIds DEF Image
<1>4. CASE ~Once
  BY <1>4 DEF OrderInv, LeftOver, ShownDistinct, Once
<1>5. CASE Once
  <2>1. \A k \in 1..Len(shown) : \A a \in IdsOf(shown[k]) :
          /\ a \in 1..scenario.frames /\ <<1, a>> \in DOMAIN sizes
          /\ \A e \in net : e.frame_id # a
    BY <1>5 DEF OrderInv, LeftOver, Once
  <2>2. /\ d.frame_id \in 1..scenario.frames /\ <<1, d.frame_id>> \in DOMAIN sizes
        /\ d.chunk_count \in Nat /\ d.run = 1
    <3>1. /\ d.frame_id \in 1..scenario.frames /\ <<d.run, d.frame_id>> \in DOMAIN sizes
          /\ d.chunk_count \in 1..scenario.chunks
      BY <1>2 DEF UdpInv, NetOK
    <3>2. d.run = 1
      BY <1>2, <1>5, OneRun DEF Once
    <3> QED
      BY <1>2, <3>1, <3>2
  <2>3. NewChunks(d) = 1..d.chunk_count
    <3>1. OnlyRun(1, d.frame_id) /\ 1 \in 1..scenario.runs
      BY <1>2, <1>5, <2>2, OneRun DEF Once
    <3>2. NewChunks(d) \subseteq 1..d.chunk_count
      BY <1>2, <3>1, Stored
    <3> QED
      BY <1>1, <2>2, <3>2, AllIndices
  <2>4. ASSUME NEW e \in net'
        PROVE  e.frame_id # d.frame_id
    <3>1. e \in net /\ e # d
      BY <1>5 DEF Once
    <3>2. e.chunk_index \in 1..e.chunk_count /\ <<e.run, e.frame_id>> \in DOMAIN sizes
          /\ e.chunk_count = sizes[<<e.run, e.frame_id>>]
          /\ d.chunk_count = sizes[<<d.run, d.frame_id>>]
          /\ e.frame_id \in 1..scenario.frames
      BY <1>2, <3>1 DEF UdpInv, NetOK
    <3>3. e.run = 1
      BY <1>2, <1>5, <3>1, OneRun DEF Once
    <3>4. e.frame_id # d.frame_id
      BY <1>5, <2>2, <2>3, <3>1, <3>2, <3>3, CountedGone
    <3> QED
      BY <3>4
  <2>5. CASE UNCHANGED shown
    <3>1. ShownDistinct'
      BY <2>5 DEF OrderInv, ShownDistinct, IdsOf
    <3>2. LeftOver'
      <4>1. \A a \in 1..scenario.frames : a # 0
        BY <1>2
      <4> QED
        BY <1>1, <2>1, <2>5, <4>1 DEF LeftOver, senderVars, IdsOf
    <3> QED
      BY <3>1, <3>2 DEF OrderInv
  <2>6. CASE shown' = Append(shown, image)
    <3>1. /\ Len(shown') = Len(shown) + 1
          /\ DOMAIN shown = 1..Len(shown) /\ DOMAIN shown' = 1..(Len(shown) + 1)
          /\ \A k \in 1..Len(shown) : shown'[k] = shown[k]
          /\ shown'[Len(shown) + 1] = image
      BY <1>2, <1>3, <2>6, AppendProperties, LenProperties
    <3>2. \A k \in 1..Len(shown') : k \in 1..Len(shown) \/ k = Len(shown) + 1
      BY <1>2, <3>1
    <3>3. LeftOver'
      <4> SUFFICES ASSUME NEW k \in 1..Len(shown'), NEW a \in IdsOf(shown'[k])
                   PROVE  /\ a \in 1..scenario.frames /\ <<1, a>> \in DOMAIN sizes
                          /\ a # 0
                          /\ \A e \in net' :
                               e.frame_id # a
        BY <1>1 DEF LeftOver, senderVars, IdsOf
      <4>1. /\ a \in 1..scenario.frames /\ <<1, a>> \in DOMAIN sizes
            /\ \A e \in net' : e.frame_id # a
        <5>1. CASE k \in 1..Len(shown)
          BY <2>1, <3>1, <5>1
        <5>2. CASE k = Len(shown) + 1
          <6>1. a = d.frame_id
            BY <1>3, <3>1, <5>2
          <6> QED
            BY <2>2, <2>4, <6>1
        <5> QED
          BY <3>2, <5>1, <5>2
      <4>2. a # 0
        BY <1>2, <4>1
      <4> QED
        BY <4>1, <4>2
    <3>4. \A k \in 1..Len(shown) : \A a \in IdsOf(shown[k]) :
            a # d.frame_id
      BY <2>1
    <3>5. ShownDistinct'
      <4> SUFFICES ASSUME NEW j \in DOMAIN shown', NEW k \in DOMAIN shown', j # k
                   PROVE  IdsOf(shown'[j]) \intersect IdsOf(shown'[k]) = {}
        BY DEF ShownDistinct, IdsOf
      <4>1. CASE j \in 1..Len(shown) /\ k \in 1..Len(shown)
        BY <1>5, <3>1, <4>1 DEF OrderInv, ShownDistinct, Once
      <4>2. CASE j \in 1..Len(shown) /\ k = Len(shown) + 1
        BY <1>3, <3>1, <3>4, <4>2
      <4>3. CASE j = Len(shown) + 1 /\ k \in 1..Len(shown)
        BY <1>3, <3>1, <3>4, <4>3
      <4> QED
        BY <3>1, <3>2, <4>1, <4>2, <4>3
    <3> QED
      BY <3>3, <3>5 DEF OrderInv
  <2> QED
    BY <1>1, <2>5, <2>6
<1> QED
  BY <1>4, <1>5

LEMMA OrderKept == ASSUME OrderInv, [Next]_vars PROVE OrderInv'
<1>0. UdpInv'
  BY UdpKept DEF OrderInv
<1>1. CASE send_frame
  BY <1>1, SenderLeavesNothing
<1>2. CASE Restart
  BY <1>0, <1>2, FewerLeaveNothing DEF Restart
<1>3. CASE Lose
  BY <1>0, <1>3, FewerLeaveNothing DEF Lose, senderVars
<1>4. CASE Receive
  <2>1. PICK d \in Deliverable :
          /\ d \in net /\ net' \subseteq net
          /\ ~scenario.duplicating => net' = net \ {d}
          /\ Len(shown) < MaxShown /\ UNCHANGED <<scenario, senderVars>>
          /\ StoreChunk(d) \/ FinishFrame(d) \/ UNCHANGED receiverVars
    BY <1>4, ReceiveCases
  <2>2. CASE UNCHANGED receiverVars
    BY <1>0, <2>1, <2>2, FewerLeaveNothing DEF senderVars
  <2> QED
    BY <1>0, <2>1, <2>2, StoredLeavesNothing, FinishedLeavesNothing
<1>5. CASE UNCHANGED vars
  BY <1>0, <1>5, FewerLeaveNothing DEF vars, senderVars
<1> QED
  BY <1>1, <1>2, <1>3, <1>4, <1>5 DEF Next, Quiet

LEMMA OrderAlways == FairSpec => []OrderInv
  BY UdpStarts, OrderKept, PTL DEF FairSpec, Spec

-----------------------------------------------------------------------------
(* In order and without a restart, with duplicates or not.                 *)

\* The scenario; its only run is the first.
Ordered == scenario.in_order /\ scenario.runs = 1

\* Nothing earlier is on its way than what was counted or shown last: of a
\* frame that was shown, no chunk but a duplicate of its last.
Ahead ==
  Ordered =>
    /\ \A d \in net :
         /\ current_frame_id <= d.frame_id
         /\ d.frame_id = current_frame_id => \A i \in received_chunks : i <= d.chunk_index
    /\ \A k \in 1..Len(shown) : \A a \in IdsOf(shown[k]) :
         /\ a \in 1..scenario.frames /\ <<1, a>> \in DOMAIN sizes
         /\ \A d \in net : /\ a <= d.frame_id
                           /\ d.frame_id = a => d.chunk_index = sizes[<<1, a>>]
         /\ current_frame_id # 0 => a <= current_frame_id
         /\ current_frame_id = a => received_chunks \subseteq {sizes[<<1, a>>]}

\* Only a frame of one chunk is shown twice.
TwiceIfOne ==
  Ordered => \A j, k \in DOMAIN shown : j # k =>
    \A a \in IdsOf(shown[j]) \intersect IdsOf(shown[k]) : sizes[<<1, a>>] = 1

AheadInv == UdpInv /\ Ahead /\ TwiceIfOne /\ ShownInOrder

\* Frames of the only run.
LEMMA OrderedFacts ==
  ASSUME UdpInv, Ordered
  PROVE  /\ scenario.frames \in Nat /\ scenario.chunks \in Nat
         /\ frame_id_ \in Nat /\ current_frame_id \in Nat /\ run = 1
         /\ current_frame_id # 0 => /\ <<1, current_frame_id>> \in DOMAIN sizes
                                    /\ current_frame_id < frame_id_
         /\ \A d \in net :
              /\ d.run = 1 /\ d.frame_id \in Nat /\ d.frame_id # 0
              /\ d.frame_id \in 1..scenario.frames
              /\ <<1, d.frame_id>> \in DOMAIN sizes
              /\ d.chunk_count = sizes[<<1, d.frame_id>>] /\ d.chunk_count \in Nat
              /\ d.chunk_index \in Nat /\ d.chunk_index <= d.chunk_count
<1>1. /\ scenario.frames \in Nat /\ scenario.chunks \in Nat
      /\ frame_id_ \in Nat /\ current_frame_id \in Nat /\ run = 1
  BY ScenarioFacts DEF UdpInv, Numbers, CurrentOK, Ordered
<1>2. current_frame_id # 0 => /\ <<1, current_frame_id>> \in DOMAIN sizes
                              /\ current_frame_id < frame_id_
  <2>1. current_frame_id # 0 => <<1, current_frame_id>> \in DOMAIN sizes
    BY DEF UdpInv, CurrentOK, Ordered
  <2> QED
    BY <1>1, <2>1, OneRun DEF Ordered
<1>3. ASSUME NEW d \in net
      PROVE  /\ d.run = 1 /\ d.frame_id \in 1..scenario.frames
             /\ <<1, d.frame_id>> \in DOMAIN sizes
             /\ d.chunk_count = sizes[<<1, d.frame_id>>]
             /\ d.chunk_count \in 1..scenario.chunks
             /\ d.chunk_index \in 1..d.chunk_count
  <2>1. d.run = 1 /\ d.frame_id \in 1..scenario.frames
    BY OneRun DEF Ordered
  <2> QED
    BY <2>1 DEF UdpInv, NetOK
<1>4. \A d \in net : /\ d.frame_id \in Nat /\ d.frame_id # 0 /\ d.chunk_count \in Nat
                     /\ d.chunk_index \in Nat /\ d.chunk_index <= d.chunk_count
  <2> SUFFICES ASSUME NEW d \in net
               PROVE  /\ d.frame_id \in Nat /\ d.frame_id # 0 /\ d.chunk_count \in Nat
                      /\ d.chunk_index \in Nat /\ d.chunk_index <= d.chunk_count
    OBVIOUS
  <2>1. d.frame_id \in 1..scenario.frames /\ d.chunk_count \in 1..scenario.chunks
    BY <1>3
  <2>2. d.chunk_index \in 1..d.chunk_count
    BY <1>3
  <2> QED
    BY <1>1, <2>1, <2>2
<1> QED
  BY <1>1, <1>2, <1>3, <1>4

LEMMA AheadStarts == Init => AheadInv
<1> SUFFICES ASSUME Init PROVE Ahead /\ TwiceIfOne /\ ShownInOrder
  BY UdpStarts DEF OrderInv, AheadInv
<1> QED
  BY DEF Init, Ahead, TwiceIfOne, ShownInOrder

\* A frame that was sent is the newest.
LEMMA SenderAhead == ASSUME AheadInv, send_frame PROVE AheadInv'
<1>1. /\ UdpInv /\ UdpInv' /\ DOMAIN sizes \subseteq DOMAIN sizes'
      /\ \A d \in net' \ net : d.frame_id = frame_id_
  BY SenderKept DEF AheadInv
<1>2. UNCHANGED <<scenario, run, receiverVars>>
  BY DEF send_frame
<1>3. CASE ~Ordered
  BY <1>1, <1>2, <1>3 DEF AheadInv, Ahead, TwiceIfOne, ShownInOrder, Ordered
<1>4. CASE Ordered
  <2>1. /\ frame_id_ \in Nat /\ run = 1 /\ current_frame_id \in Nat
        /\ scenario.frames \in Nat
        /\ current_frame_id # 0 => current_frame_id < frame_id_
    BY <1>1, <1>4, OrderedFacts
  <2>2. <<1, frame_id_>> \notin DOMAIN sizes /\ frame_id_ # 0
    <3>1. frame_id_ # 0
      BY <1>1, <2>1, ScenarioFacts DEF UdpInv, Numbers
    <3> QED
      BY <1>1, <1>4, <2>1, <3>1, OneRun DEF Ordered
  <2>3. \A f \in DOMAIN sizes : sizes'[f] = sizes[f]
    BY <2>1, <2>2 DEF send_frame
  <2>4. \A k \in 1..Len(shown) : \A a \in IdsOf(shown[k]) :
          a \in Nat /\ <<1, a>> \in DOMAIN sizes /\ a < frame_id_
    <3>1. \A k \in 1..Len(shown) : \A a \in IdsOf(shown[k]) :
            a \in 1..scenario.frames /\ <<1, a>> \in DOMAIN sizes
      BY <1>4 DEF AheadInv, Ahead
    <3>2. \A a \in 1..scenario.frames : a \in Nat
      BY <2>1
    <3> QED
      BY <1>1, <1>4, <3>1, <3>2, OneRun DEF Ordered
  <2>5. \A d \in net' :
          /\ current_frame_id <= d.frame_id
          /\ d.frame_id = current_frame_id => \A i \in received_chunks : i <= d.chunk_index
    BY <1>1, <1>4, <2>1, <2>2 DEF AheadInv, Ahead
  <2>6. \A k \in 1..Len(shown) : \A a \in IdsOf(shown[k]) :
         /\ a \in 1..scenario.frames /\ <<1, a>> \in DOMAIN sizes'
         /\ current_frame_id # 0 => a <= current_frame_id
         /\ current_frame_id = a => received_chunks \subseteq {sizes'[<<1, a>>]}
    BY <1>1, <1>4, <2>3, <2>4 DEF AheadInv, Ahead
  <2>7. \A k \in 1..Len(shown) : \A a \in IdsOf(shown[k]) : \A d \in net' :
          a <= d.frame_id /\ (d.frame_id = a => d.chunk_index = sizes'[<<1, a>>])
    <3> SUFFICES ASSUME NEW k \in 1..Len(shown), NEW a \in IdsOf(shown[k]), NEW d \in net'
                 PROVE  a <= d.frame_id /\ (d.frame_id = a => d.chunk_index = sizes'[<<1, a>>])
      OBVIOUS
    <3>1. CASE d \in net
      BY <1>4, <2>3, <2>4, <3>1 DEF AheadInv, Ahead
    <3>2. CASE d \notin net
      BY <1>1, <2>1, <2>4, <3>2
    <3> QED
      BY <3>1, <3>2
  <2>8. Ahead'
    BY <1>2, <2>5, <2>6, <2>7 DEF Ahead, receiverVars, IdsOf
  <2>9. \A j \in DOMAIN shown : \A a \in IdsOf(shown[j]) : sizes'[<<1, a>>] = sizes[<<1, a>>]
    BY <1>1, <2>3, <2>4, LenProperties DEF UdpInv, ShownOK
  <2>10. TwiceIfOne' /\ ShownInOrder'
    BY <1>2, <1>4, <2>9 DEF AheadInv, TwiceIfOne, ShownInOrder, receiverVars, IdsOf, Ordered
  <2> QED
    BY <1>1, <2>8, <2>10 DEF AheadInv
<1> QED
  BY <1>3, <1>4

\* Fewer datagrams are on their way, and the receiver has not moved.
LEMMA FewerAhead ==
  ASSUME AheadInv, UdpInv', net' \subseteq net, UNCHANGED <<scenario, sizes, receiverVars>>
  PROVE  AheadInv'
<1>1. TwiceIfOne' /\ ShownInOrder'
  BY DEF AheadInv, TwiceIfOne, ShownInOrder, Ordered, receiverVars, IdsOf
<1>2. Ahead'
  BY DEF AheadInv, Ahead, Ordered, receiverVars, IdsOf
<1> QED
  BY <1>1, <1>2 DEF AheadInv

\* What is left when d is taken in order comes not before it.
LEMMA TakenInOrder ==
  ASSUME AheadInv, Ordered, NEW d \in Deliverable, d \in net, NEW e \in net
  PROVE  /\ d.frame_id <= e.frame_id
         /\ e.frame_id = d.frame_id =>
              /\ d.chunk_index <= e.chunk_index
              /\ \A i \in NewChunks(d) : i <= e.chunk_index
<1>1. /\ d.run = 1 /\ e.run = 1 /\ d.frame_id \in Nat /\ e.frame_id \in Nat
      /\ d.chunk_index \in Nat /\ e.chunk_index \in Nat
  BY OrderedFacts DEF AheadInv
<1>2. ~Before(e, d)
  BY DEF Deliverable, Ordered
<1>3. d.frame_id <= e.frame_id
      /\ (e.frame_id = d.frame_id => d.chunk_index <= e.chunk_index)
  BY <1>1, <1>2 DEF Before
<1>4. e.frame_id = d.frame_id => \A i \in ChunksBefore(d) : i <= e.chunk_index
  BY DEF AheadInv, Ahead, ChunksBefore
<1> QED
  BY <1>3, <1>4 DEF NewChunks

LEMMA StoredAhead ==
  ASSUME AheadInv, UdpInv', NEW d \in Deliverable, d \in net, net' \subseteq net,
         UNCHANGED <<scenario, senderVars>>, StoreChunk(d)
  PROVE  AheadInv'
<1>1. /\ current_frame_id' = d.frame_id /\ received_chunks' = NewChunks(d)
      /\ UNCHANGED shown
  BY DEF StoreChunk, NewChunks
<1>2. TwiceIfOne' /\ ShownInOrder'
  BY <1>1 DEF AheadInv, TwiceIfOne, ShownInOrder, Ordered, IdsOf, senderVars
<1>3. Ahead'
  <2> SUFFICES ASSUME Ordered PROVE
        /\ \A e \in net' :
             /\ d.frame_id <= e.frame_id
             /\ e.frame_id = d.frame_id => \A i \in NewChunks(d) : i <= e.chunk_index
        /\ \A k \in 1..Len(shown) : \A a \in IdsOf(shown[k]) :
             /\ a \in 1..scenario.frames /\ <<1, a>> \in DOMAIN sizes
             /\ \A e \in net' : /\ a <= e.frame_id
                                /\ e.frame_id = a => e.chunk_index = sizes[<<1, a>>]
             /\ a <= d.frame_id
             /\ d.frame_id = a => NewChunks(d) \subseteq {sizes[<<1, a>>]}
    BY <1>1 DEF Ahead, Ordered, senderVars, IdsOf
  <2>1. \A e \in net' :
          /\ d.frame_id <= e.frame_id
          /\ e.frame_id = d.frame_id => \A i \in NewChunks(d) : i <= e.chunk_index
    BY TakenInOrder
  <2>2. \A k \in 1..Len(shown) : \A a \in IdsOf(shown[k]) :
          /\ a \in 1..scenario.frames /\ <<1, a>> \in DOMAIN sizes
          /\ \A e \in net : /\ a <= e.frame_id
                            /\ e.frame_id = a => e.chunk_index = sizes[<<1, a>>]
          /\ current_frame_id = a => received_chunks \subseteq {sizes[<<1, a>>]}
    BY DEF AheadInv, Ahead
  <2>3. \A k \in 1..Len(shown) : \A a \in IdsOf(shown[k]) :
          d.frame_id = a => NewChunks(d) \subseteq {sizes[<<1, a>>]}
    BY <2>2 DEF NewChunks, ChunksBefore
  <2> QED
    BY <2>1, <2>2, <2>3
<1> QED
  BY <1>2, <1>3 DEF AheadInv

\* A frame is complete with its last chunk; of it only duplicates of that
\* chunk are left.
LEMMA FinishedAhead ==
  ASSUME AheadInv, UdpInv', NEW d \in Deliverable, d \in net, net' \subseteq net,
         UNCHANGED <<scenario, senderVars>>, FinishFrame(d)
  PROVE  AheadInv'
<1> DEFINE image == NewImage(d)
           f == d.frame_id
<1>1. /\ shown' = Append(shown, image) \/ UNCHANGED shown
      /\ current_frame_id' = 0 /\ received_chunks' = {}
      /\ Cardinality(NewChunks(d)) = d.chunk_count
  BY DEF FinishFrame, Forget, NewImage, NewChunks, Complete
<1> HIDE DEF image
<1>2. /\ UdpInv /\ shown \in Seq(Seq(FrameNo \union {Blank})) /\ Len(shown) \in Nat
  BY LenProperties DEF AheadInv, UdpInv, ShownOK
<1>3. image \in Seq(FrameNo \union {Blank}) /\ IdsOf(image) \subseteq {f}
  <2>1. Image(image, f)
    BY <1>2, FinishedIsFrame DEF image
  <2>2. image \in Seq(FrameNo \union {Blank})
    BY <1>2, Stored DEF image
  <2> QED
    BY <2>1, <2>2, ImageIds DEF Image
<1>4. CASE ~Ordered
  BY <1>4 DEF AheadInv, Ahead, TwiceIfOne, ShownInOrder, Ordered
<1>5. CASE Ordered
  <2>1. /\ f \in 1..scenario.frames /\ f \in Nat /\ f # 0 /\ scenario.frames \in Nat
        /\ <<1, f>> \in DOMAIN sizes /\ d.chunk_count = sizes[<<1, f>>]
        /\ d.chunk_count \in Nat /\ d.chunk_index \in Nat /\ d.chunk_index <= d.chunk_count
    BY <1>2, <1>5, OrderedFacts
  <2>2. NewChunks(d) = 1..d.chunk_count /\ d.chunk_count # 0
    <3>1. OnlyRun(1, f) /\ 1 \in 1..scenario.runs
      BY <1>2, <1>5, <2>1, OneRun DEF Ordered
    <3>2. NewChunks(d) \subseteq 1..d.chunk_count
      BY <1>2, <3>1, Stored
    <3>3. d.chunk_index \in NewChunks(d)
      BY DEF NewChunks
    <3> QED
      BY <1>1, <2>1, <3>2, <3>3, AllIndices
  <2>3. \A k \in 1..Len(shown) : \A a \in IdsOf(shown[k]) :
          /\ a \in 1..scenario.frames /\ a \in Nat /\ a # 0 /\ <<1, a>> \in DOMAIN sizes
          /\ \A e \in net : /\ a <= e.frame_id
                            /\ e.frame_id = a => e.chunk_index = sizes[<<1, a>>]
          /\ current_frame_id = a => received_chunks \subseteq {sizes[<<1, a>>]}
    <3>1. \A a \in 1..scenario.frames : a \in Nat /\ a # 0
      BY <2>1
    <3> QED
      BY <1>5, <3>1 DEF AheadInv, Ahead
  <2>4. ASSUME NEW e \in net'
        PROVE  /\ 0 <= e.frame_id /\ f <= e.frame_id
               /\ e.frame_id = f => e.chunk_index = sizes[<<1, f>>]
    <3>1. /\ f <= e.frame_id /\ e.frame_id \in Nat
          /\ e.frame_id = f => \A i \in NewChunks(d) : i <= e.chunk_index
      BY <1>2, <1>5, TakenInOrder, OrderedFacts
    <3>2. e.frame_id = f => e.chunk_index \in Nat /\ e.chunk_index <= d.chunk_count
      BY <1>2, <1>5, <2>1, OrderedFacts
    <3>3. d.chunk_count \in NewChunks(d)
      BY <2>1, <2>2
    <3> QED
      BY <2>1, <3>1, <3>2, <3>3
  <2>5. ASSUME NEW k \in 1..Len(shown), NEW a \in IdsOf(shown[k])
        PROVE  a <= f /\ (a = f => sizes[<<1, a>>] = 1)
    <3>1. a <= f /\ (a = f => d.chunk_index = sizes[<<1, a>>])
      BY <2>3
    <3>2. a = f => NewChunks(d) \subseteq {sizes[<<1, a>>]}
      BY <2>3, <3>1 DEF NewChunks, ChunksBefore
    <3>3. 1 \in NewChunks(d)
      BY <2>1, <2>2
    <3> QED
      BY <3>1, <3>2, <3>3
  <2>6. CASE UNCHANGED shown
    <3>1. TwiceIfOne' /\ ShownInOrder'
      BY <2>6 DEF AheadInv, TwiceIfOne, ShownInOrder, Ordered, IdsOf, senderVars
    <3>2. Ahead'
      BY <1>1, <2>3, <2>4, <2>6 DEF Ahead, senderVars, IdsOf
    <3> QED
      BY <3>1, <3>2 DEF AheadInv
  <2>7. CASE shown' = Append(shown, image)
    <3>1. /\ DOMAIN shown = 1..Len(shown) /\ DOMAIN shown' = 1..(Len(shown) + 1)
          /\ Len(shown') = Len(shown) + 1
          /\ \A k \in 1..Len(shown) : shown'[k] = shown[k]
          /\ shown'[Len(shown) + 1] = image
      BY <1>2, <1>3, <2>7, AppendProperties, LenProperties
    <3>2. \A k \in 1..(Len(shown) + 1) : k \in 1..Len(shown) \/ k = Len(shown) + 1
      BY <1>2
    <3>3. \A a \in IdsOf(shown'[Len(shown) + 1]) : a = f
      BY <1>3, <3>1
    <3>4. ASSUME NEW k \in 1..Len(shown'), NEW a \in IdsOf(shown'[k])
          PROVE  /\ a \in 1..scenario.frames /\ <<1, a>> \in DOMAIN sizes /\ a # 0
                 /\ \A e \in net' : /\ a <= e.frame_id
                                    /\ e.frame_id = a => e.chunk_index = sizes[<<1, a>>]
      <4>1. CASE k \in 1..Len(shown)
        BY <2>3, <3>1, <4>1
      <4>2. CASE k = Len(shown) + 1
        BY <2>1, <2>4, <3>3, <4>2
      <4> QED
        BY <3>1, <3>2, <4>1, <4>2
    <3>5. Ahead'
      BY <1>1, <2>4, <3>4 DEF Ahead, senderVars, IdsOf
    <3>6. TwiceIfOne'
      <4> SUFFICES ASSUME NEW j \in DOMAIN shown', NEW k \in DOMAIN shown', j # k,
                          NEW a \in IdsOf(shown'[j]), a \in IdsOf(shown'[k])
                   PROVE  sizes[<<1, a>>] = 1
        BY DEF TwiceIfOne, IdsOf, senderVars
      <4>1. CASE j \in 1..Len(shown) /\ k \in 1..Len(shown)
        BY <1>5, <3>1, <4>1 DEF AheadInv, TwiceIfOne
      <4>2. CASE j \in 1..Len(shown) /\ k = Len(shown) + 1
        BY <2>5, <3>1, <3>3, <4>2
      <4>3. CASE j = Len(shown) + 1 /\ k \in 1..Len(shown)
        BY <2>5, <3>1, <3>3, <4>3
      <4> QED
        BY <3>1, <3>2, <4>1, <4>2, <4>3
    <3>7. ShownInOrder'
      <4> SUFFICES ASSUME NEW j \in DOMAIN shown', NEW k \in DOMAIN shown', j < k,
                          NEW a \in IdsOf(shown'[j]), NEW b \in IdsOf(shown'[k])
                   PROVE  a <= b
        BY DEF ShownInOrder, IdsOf
      <4>1. CASE j \in 1..Len(shown) /\ k \in 1..Len(shown)
        BY <1>5, <3>1, <4>1 DEF AheadInv, ShownInOrder, Ordered
      <4>2. CASE j \in 1..Len(shown) /\ k = Len(shown) + 1
        BY <2>5, <3>1, <3>3, <4>2
      <4>3. ~(j = Len(shown) + 1)
        BY <1>2, <3>1
      <4> QED
        BY <3>1, <3>2, <4>1, <4>2, <4>3
    <3> QED
      BY <3>5, <3>6, <3>7 DEF AheadInv
  <2> QED
    BY <1>1, <2>6, <2>7
<1> QED
  BY <1>4, <1>5

LEMMA AheadKept == ASSUME AheadInv, [Next]_vars PROVE AheadInv'
<1>0. UdpInv'
  BY UdpKept DEF AheadInv
<1>1. CASE send_frame
  BY <1>1, SenderAhead
<1>2. CASE Restart \/ Lose \/ UNCHANGED vars
  BY <1>0, <1>2, FewerAhead DEF Restart, Lose, vars, senderVars
<1>3. CASE Receive
  <2>1. PICK d \in Deliverable :
          /\ d \in net /\ net' \subseteq net
          /\ UNCHANGED <<scenario, senderVars>>
          /\ StoreChunk(d) \/ FinishFrame(d) \/ UNCHANGED receiverVars
    BY <1>3, ReceiveCases
  <2>2. CASE UNCHANGED receiverVars
    BY <1>0, <2>1, <2>2, FewerAhead DEF senderVars
  <2> QED
    BY <1>0, <2>1, <2>2, StoredAhead, FinishedAhead
<1> QED
  BY <1>1, <1>2, <1>3 DEF Next, Quiet

LEMMA AheadAlways == FairSpec => []AheadInv
  BY AheadStarts, AheadKept, PTL DEF FairSpec, Spec

-----------------------------------------------------------------------------
(* What is shown, and what is shown again.                                 *)

\* Without a restart no frame is shown twice, for any number of frames and in
\* whatever order datagrams arrive, although the receiver forgets what it has
\* shown; with duplicates in order, none of more than one chunk.
THEOREM NoFrameTwice == FairSpec => []ShownOnce
<1>1. OrderInv /\ AheadInv => ShownOnce
  BY DEF OrderInv, AheadInv, ShownDistinct, TwiceIfOne, Ordered, ShownOnce
<1> QED
  BY <1>1, OrderAlways, AheadAlways, PTL

\* On a network that keeps the order, frames are shown in the order they were
\* taken in, whichever are lost or come twice.
THEOREM FramesInOrder == FairSpec => []ShownInOrder
  BY AheadAlways, PTL DEF AheadInv

\* Whatever the network does, a frame is not shown again before all of its
\* chunks have come again: late duplicates of some of them do not show it.
THEOREM DuplicatesShowNothing == FairSpec => [][ShowsWhatCame]_vars
<1>1. UdpInv /\ [Next]_vars => [ShowsWhatCame]_vars
  <2> SUFFICES ASSUME UdpInv, Next, scenario.runs = 1, shown' # shown
               PROVE  \E now \in DOMAIN shown'[Len(shown')] :
                        \A i \in DOMAIN shown'[Len(shown')] \ {now} :
                          \A id \in IdsOf(shown'[Len(shown')]) : <<id, i>> \in since
    BY DEF ShowsWhatCame
  <2>1. Receive
    BY DEF Next, send_frame, Restart, Lose, Quiet, vars, receiverVars
  <2>2. PICK d \in net : FinishFrame(d)
    BY <2>1, ReceiveCases DEF StoreChunk, receiverVars
  <2> DEFINE image == NewImage(d)
             f == d.frame_id
  <2>3. shown' = Append(shown, image) /\ Cardinality(NewChunks(d)) = d.chunk_count
    BY <2>2 DEF FinishFrame, NewImage, NewChunks, Complete
  <2>4. Image(image, f) /\ image \in Seq(FrameNo \union {Blank})
    BY <2>2, FinishedIsFrame, Stored
  <2> HIDE DEF image
  <2>5. /\ shown'[Len(shown')] = image
        /\ IdsOf(image) \subseteq {f}
    <3>1. shown \in Seq(Seq(FrameNo \union {Blank}))
      BY DEF UdpInv, ShownOK
    <3>2. shown'[Len(shown')] = image
      BY <2>3, <2>4, <3>1, AppendProperties, LenProperties
    <3>3. IdsOf(image) \subseteq {f}
      BY <2>4, ImageIds DEF Image
    <3> QED
      BY <3>2, <3>3
  <2>6. /\ f \in Nat /\ f # 0 /\ <<1, f>> \in DOMAIN sizes
        /\ d.chunk_count = sizes[<<1, f>>] /\ d.chunk_count \in Nat
        /\ d.chunk_index \in 1..d.chunk_count /\ OnlyRun(1, f) /\ 1 \in 1..scenario.runs
    <3>1. /\ d.run = 1 /\ f \in 1..scenario.frames /\ scenario.frames \in Nat
          /\ scenario.chunks \in Nat
      BY OneRun, ScenarioFacts DEF UdpInv
    <3>2. /\ <<1, f>> \in DOMAIN sizes /\ d.chunk_count = sizes[<<1, f>>]
          /\ d.chunk_count \in 1..scenario.chunks /\ d.chunk_index \in 1..d.chunk_count
      BY <3>1 DEF UdpInv, NetOK
    <3>3. f \in Nat /\ f # 0 /\ d.chunk_count \in Nat
      BY <3>1, <3>2
    <3> QED
      BY <3>2, <3>3, OneRun
  <2>7. NewChunks(d) = 1..d.chunk_count /\ Len(image) = d.chunk_count
    <3>1. NewChunks(d) \subseteq 1..d.chunk_count /\ Len(image) = d.chunk_count
      BY <2>6, Stored DEF image
    <3> QED
      BY <2>3, <2>6, <3>1, AllIndices
  <2>8. DOMAIN image = 1..d.chunk_count
    BY <2>4, <2>7, LenProperties
  <2>9. \A i \in ChunksBefore(d) : <<f, i>> \in since
    BY DEF ChunksBefore, UdpInv, CurrentOK
  <2>10. \A i \in DOMAIN image \ {d.chunk_index} : \A id \in IdsOf(image) : <<id, i>> \in since
    BY <2>5, <2>7, <2>8, <2>9 DEF NewChunks
  <2> QED
    BY <2>5, <2>6, <2>8, <2>10
<1> QED
  BY <1>1, UdpAlways, PTL DEF FairSpec, Spec

\* All three: the receiver shows frames one after the other, and none again
\* that did not come again.
THEOREM FramesInTurn == FairSpec => ShownOnceInOrder
  BY NoFrameTwice, FramesInOrder, DuplicatesShowNothing, PTL DEF ShownOnceInOrder

-----------------------------------------------------------------------------
(* On a network that keeps order and datagrams, which may come twice.      *)

\* Chunk idx of frame f is on its way, or counted.
Pending(f, idx) ==
  \/ \E d \in net : d.frame_id = f[2] /\ d.chunk_index = idx
  \/ current_frame_id = f[2] /\ idx \in received_chunks

\* What is on its way is not of an earlier frame than the current one, which
\* has chunks left to come; and of a frame that arrived and was not shown no
\* chunk is missing.
LosslessInv ==
  Headers /\ Lossless /\ receiving =>
    /\ \A d \in net : current_frame_id <= d.frame_id
    /\ current_frame_id # 0 => received_chunks # 1..sizes[<<1, current_frame_id>>]
    /\ \A f \in arrived : Shown(f) \/ \A idx \in 1..sizes[f] : Pending(f, idx)

\* Frames and datagrams of the only run.
LEMMA OneRunFacts ==
  ASSUME UdpInv, scenario.runs = 1
  PROVE  /\ \A f \in DOMAIN sizes : f = <<1, f[2]>> /\ f[2] \in Nat \ {0}
                                    /\ sizes[f] \in Nat \ {0}
         /\ \A d \in net : /\ d.run = 1 /\ d.frame_id \in Nat \ {0}
                           /\ <<1, d.frame_id>> \in DOMAIN sizes
                           /\ d.chunk_count = sizes[<<1, d.frame_id>>]
         /\ arrived \subseteq DOMAIN sizes
         /\ scenario.frames \in Nat /\ current_frame_id \in Nat /\ frame_id_ \in Nat
<1>0. scenario.frames \in Nat /\ scenario.chunks \in Nat
  BY ScenarioFacts DEF UdpInv
<1>1. \A f \in DOMAIN sizes : f = <<1, f[2]>> /\ f[2] \in Nat \ {0}
                              /\ sizes[f] \in Nat \ {0}
  <2> SUFFICES ASSUME NEW f \in DOMAIN sizes
               PROVE  f = <<1, f[2]>> /\ f[2] \in Nat \ {0}
                      /\ sizes[f] \in Nat \ {0}
    OBVIOUS
  <2>1. f \in (1..1) \X (1..scenario.frames)
    BY DEF UdpInv, SentOK
  <2>2. f = <<1, f[2]>> /\ f[2] \in Nat \ {0}
    BY <1>0, <2>1
  <2>3. sizes[f] \in 1..scenario.chunks
    BY DEF UdpInv, SentOK
  <2>4. sizes[f] \in Nat \ {0}
    BY <1>0, <2>3
  <2> QED
    BY <2>2, <2>4
<1>2. \A d \in net : /\ d.run = 1 /\ d.frame_id \in Nat \ {0}
                     /\ <<1, d.frame_id>> \in DOMAIN sizes
                     /\ d.chunk_count = sizes[<<1, d.frame_id>>]
  <2>1. \A d \in net : d.run = 1 /\ d.frame_id \in 1..scenario.frames
    BY OneRun
  <2>2. \A d \in net : d.frame_id \in Nat \ {0}
    BY <1>0, <2>1
  <2> QED
    BY <2>1, <2>2 DEF UdpInv, NetOK
<1>3. arrived \subseteq DOMAIN sizes
  BY DEF UdpInv, SentOK
<1>4. current_frame_id \in Nat /\ frame_id_ \in Nat
  BY <1>0 DEF UdpInv, CurrentOK, Numbers
<1> QED
  BY <1>0, <1>1, <1>2, <1>3, <1>4

\* A frame that was sent leaves all of its chunks on the network.
LEMMA SenderLossless ==
  ASSUME OrderInv, LosslessInv, send_frame, Headers, Lossless, receiving
  PROVE  LosslessInv'
<1>0. UdpInv /\ scenario.runs = 1 /\ scenario.in_order
  BY DEF OrderInv, Lossless
<1>1. PICK count \in 1..scenario.chunks :
        \E sent \in IF Headers THEN SentUntilError(count) ELSE SentRegardless(count) :
           /\ sizes' = [f \in DOMAIN sizes \union {<<run, frame_id_>>} |->
                          IF f = <<run, frame_id_>> THEN count ELSE sizes[f]]
           /\ net' = net \union {Datagram(frame_id_, idx, count) : idx \in 1..sent}
           /\ arrived' = IF sent = count THEN arrived \union {<<run, frame_id_>>}
                                         ELSE arrived
  BY DEF send_frame
<1>2. PICK sent : 
           /\ net' = net \union {Datagram(frame_id_, idx, count) : idx \in 1..sent}
           /\ arrived' = IF sent = count THEN arrived \union {<<run, frame_id_>>}
                                         ELSE arrived
  BY <1>1
<1>3. UNCHANGED <<scenario, run, receiverVars>>
  BY DEF send_frame
<1>4. run = 1 /\ <<1, frame_id_>> \notin DOMAIN sizes
  <2>1. run = 1
    BY <1>0 DEF UdpInv, Numbers
  <2>2. frame_id_ \in Nat
    BY <1>0, OneRunFacts
  <2> QED
    BY <1>0, <2>1, <2>2, OneRun
<1>5. /\ sizes'[<<1, frame_id_>>] = count
      /\ \A f \in DOMAIN sizes : f \in DOMAIN sizes' /\ sizes'[f] = sizes[f]
  BY <1>1, <1>4
<1>6. net \subseteq net' /\ \A d \in net' \ net : d.frame_id = frame_id_
  BY <1>2, SenderKept DEF OrderInv
<1>7. current_frame_id <= frame_id_
  <2>1. current_frame_id = 0 \/ (<<1, current_frame_id>> \in DOMAIN sizes)
    BY <1>0 DEF UdpInv, CurrentOK
  <2> QED
    BY <1>0, <2>1, OneRunFacts, OneRun
<1>8. \A d \in net' : current_frame_id <= d.frame_id
  BY <1>6, <1>7 DEF LosslessInv
<1>9. current_frame_id # 0 => received_chunks # 1..sizes'[<<1, current_frame_id>>]
  <2>1. current_frame_id # 0 => <<1, current_frame_id>> \in DOMAIN sizes
    BY <1>0 DEF UdpInv, CurrentOK
  <2> QED
    BY <1>5, <2>1 DEF LosslessInv
<1>10. ASSUME NEW f \in arrived'
       PROVE  Shown(f)' \/ \A idx \in 1..sizes'[f] : Pending(f, idx)'
  <2>1. CASE f \in arrived
    <3>1. sizes'[f] = sizes[f] /\ f \in DOMAIN sizes /\ f \in DOMAIN sizes'
      BY <1>0, <1>5, <2>1, OneRunFacts
    <3>2. Shown(f) => Shown(f)'
      BY <1>3, <3>1 DEF Shown, IsFrame, receiverVars
    <3>3. \A idx : Pending(f, idx) => Pending(f, idx)'
      BY <1>3, <1>6 DEF Pending, receiverVars
    <3> QED
      BY <2>1, <3>1, <3>2, <3>3 DEF LosslessInv
  <2>2. CASE f \notin arrived
    <3>1. f = <<1, frame_id_>> /\ sent = count
      BY <1>2, <1>4, <2>2
    <3>2. ASSUME NEW idx \in 1..count
          PROVE  Datagram(frame_id_, idx, count) \in net'
      BY <1>2, <3>1
    <3>3. \A idx \in 1..count : Pending(f, idx)'
      BY <3>1, <3>2 DEF Pending, Datagram
    <3> QED
      BY <1>5, <3>1, <3>3
  <2> QED
    BY <2>1, <2>2
<1> QED
  BY <1>3, <1>8, <1>9, <1>10 DEF LosslessInv, receiverVars

\* In order, the receiver never gives up a frame of which chunks are to come.
LEMMA KeepsCurrent ==
  ASSUME OrderInv, LosslessInv, Headers, Lossless, receiving, NEW d \in Deliverable,
         NEW f \in arrived, ~Shown(f), current_frame_id = f[2]
  PROVE  current_frame_id = d.frame_id
<1>0. UdpInv /\ scenario.runs = 1 /\ scenario.in_order /\ d \in net
  BY DEF OrderInv, Lossless, Deliverable
<1>1. /\ f = <<1, current_frame_id>> /\ f \in DOMAIN sizes /\ current_frame_id # 0
      /\ current_frame_id \in Nat /\ d.frame_id \in Nat /\ d.run = 1
  BY <1>0, OneRunFacts
<1>2. received_chunks \subseteq 1..sizes[f] /\ received_chunks # 1..sizes[f]
  <2>1. OnlyRun(1, current_frame_id)
    BY <1>0, <1>1, OneRun
  <2> QED
    BY <1>0, <1>1, <2>1 DEF UdpInv, CurrentOK, LosslessInv
<1>3. PICK idx \in 1..sizes[f] : idx \notin received_chunks
  BY <1>2
<1>4. PICK e \in net : e.frame_id = current_frame_id
  BY <1>3 DEF LosslessInv, Pending
<1>5. ~Before(e, d) /\ e.run = 1 /\ e.frame_id \in Nat
  BY <1>0, OneRunFacts DEF Deliverable
<1>6. ~(current_frame_id < d.frame_id)
  BY <1>1, <1>4, <1>5 DEF Before
<1>7. current_frame_id <= d.frame_id
  BY <1>0 DEF LosslessInv
<1> QED
  BY <1>1, <1>6, <1>7

\* A chunk that is not the last is counted, and the others stay where they are.
LEMMA StoreLossless ==
  ASSUME OrderInv, LosslessInv, Headers, Lossless, receiving, NEW d \in Deliverable,
         net \ {d} \subseteq net', net' \subseteq net, UNCHANGED <<scenario, senderVars>>, StoreChunk(d)
  PROVE  LosslessInv'
<1>0. UdpInv /\ scenario.runs = 1 /\ scenario.in_order /\ d \in net
  BY DEF OrderInv, Lossless, Deliverable
<1>1. /\ current_frame_id' = d.frame_id /\ received_chunks' = NewChunks(d)
      /\ Cardinality(NewChunks(d)) # d.chunk_count /\ UNCHANGED <<shown, receiving>>
  BY DEF StoreChunk, NewChunks, Complete
<1>2. /\ d.run = 1 /\ d.frame_id \in Nat /\ d.chunk_count = sizes[<<1, d.frame_id>>]
      /\ d.chunk_count \in Nat
  BY <1>0, OneRunFacts
<1>3. \A e \in net' : d.frame_id <= e.frame_id
  <2> SUFFICES ASSUME NEW e \in net PROVE d.frame_id <= e.frame_id
    OBVIOUS
  <2>1. ~Before(e, d) /\ e.run = 1 /\ e.frame_id \in Nat
    BY <1>0, OneRunFacts DEF Deliverable
  <2> QED
    BY <1>2, <2>1 DEF Before
<1>4. NewChunks(d) # 1..sizes[<<1, d.frame_id>>]
  <2>1. Cardinality(1..d.chunk_count) = d.chunk_count
    BY <1>2, FS_Interval
  <2> QED
    BY <1>1, <1>2, <2>1
<1>5. ASSUME NEW f \in arrived, ~Shown(f), NEW idx \in 1..sizes[f]
      PROVE  Pending(f, idx)'
  <2>1. Pending(f, idx)
    BY <1>5 DEF LosslessInv
  <2>2. CASE \E e \in net : e.frame_id = f[2] /\ e.chunk_index = idx
    BY <1>1, <2>2 DEF Pending, NewChunks
  <2>3. CASE current_frame_id = f[2] /\ idx \in received_chunks
    <3>1. current_frame_id = d.frame_id
      BY <1>5, <2>3, KeepsCurrent
    <3> QED
      BY <1>1, <2>3, <3>1 DEF Pending, NewChunks, ChunksBefore
  <2> QED
    BY <2>1, <2>2, <2>3 DEF Pending
<1>6. \A f : Shown(f) => Shown(f)'
  BY <1>1 DEF Shown, IsFrame, senderVars
<1> QED
  BY <1>1, <1>3, <1>4, <1>5, <1>6 DEF LosslessInv, senderVars

\* The last chunk makes the frame shown, and takes nothing from the others.
LEMMA FinishLossless ==
  ASSUME OrderInv, LosslessInv, Headers, Lossless, receiving, NEW d \in Deliverable,
         net \ {d} \subseteq net', net' \subseteq net, UNCHANGED <<scenario, senderVars>>, FinishFrame(d)
  PROVE  LosslessInv'
<1> DEFINE image == NewImage(d)
           F == <<1, d.frame_id>>
<1>0. UdpInv /\ scenario.runs = 1 /\ scenario.in_order /\ d \in net
  BY DEF OrderInv, Lossless, Deliverable
<1>1. IsFrame(image, F)
  <2>1. Image(image, d.frame_id)
    BY <1>0, FinishedIsFrame
  <2>2. \A r \in 1..scenario.runs : r = 1
    BY <1>0
  <2> QED
    BY <2>1, <2>2 DEF Image
<1>2. \A i, j \in DOMAIN image : image[i] = image[j]
  BY <1>1 DEF IsFrame
<1>3. /\ shown' = Append(shown, image)
      /\ current_frame_id' = 0 /\ received_chunks' = {}
  BY <1>2 DEF FinishFrame, Forget, NewImage
<1> HIDE DEF image
<1>4. image \in Seq(FrameNo \union {Blank}) /\ shown \in Seq(Seq(FrameNo \union {Blank}))
  BY <1>0, Stored DEF image, UdpInv, ShownOK
<1>5. /\ DOMAIN shown \subseteq DOMAIN shown'
      /\ \A k \in DOMAIN shown : shown'[k] = shown[k]
      /\ Len(shown) + 1 \in DOMAIN shown' /\ shown'[Len(shown) + 1] = image
  BY <1>3, <1>4, AppendProperties, LenProperties
<1>6. Shown(F)' /\ \A f : Shown(f) => Shown(f)'
  BY <1>1, <1>5 DEF Shown, IsFrame, senderVars
<1>7. \A e \in net' : 0 <= e.frame_id
  <2>1. \A e \in net : e.frame_id \in Nat
    BY <1>0, OneRunFacts
  <2> QED
    BY <2>1
<1>8. ASSUME NEW f \in arrived, ~Shown(f), f # F, NEW idx \in 1..sizes[f]
      PROVE  Pending(f, idx)'
  <2>1. Pending(f, idx) /\ f[2] # d.frame_id
    BY <1>0, <1>8, OneRunFacts DEF LosslessInv
  <2>2. ~(current_frame_id = f[2])
    BY <1>8, <2>1, KeepsCurrent
  <2> QED
    BY <2>1, <2>2 DEF Pending
<1> QED
  BY <1>3, <1>6, <1>7, <1>8 DEF LosslessInv, senderVars

LEMMA LosslessKept == ASSUME OrderInv, LosslessInv, [Next]_vars PROVE LosslessInv'
<1> SUFFICES ASSUME Headers, Lossless', receiving' PROVE LosslessInv'
  BY DEF LosslessInv
<1>0. Lossless /\ receiving
  <2>1. UNCHANGED scenario
    BY DEF Next, send_frame, Restart, Lose, Receive, Quiet, vars
  <2>2. receiving
    BY DEF Next, send_frame, Restart, Lose, Receive, Quiet, vars, receiverVars
  <2> QED
    BY <2>1, <2>2 DEF Lossless
<1>1. CASE send_frame
  BY <1>0, <1>1, SenderLossless
<1>2. CASE Restart
  BY <1>0, <1>2 DEF Restart, Lossless, OrderInv, UdpInv, Numbers
<1>3. CASE Lose
  BY <1>0, <1>3 DEF Lose, Lossless
<1>4. CASE Receive
  <2>1. PICK d \in Deliverable :
          /\ net \ {d} \subseteq net' /\ net' \subseteq net
          /\ UNCHANGED <<scenario, senderVars>>
          /\ StoreChunk(d) \/ FinishFrame(d)
    <3>1. \A d \in Deliverable : Valid(d)
      BY DEF Deliverable, Valid, OrderInv, UdpInv, NetOK
    <3> QED
      BY <1>0, <1>4, <3>1 DEF Receive, Lossless
  <2> QED
    BY <1>0, <2>1, StoreLossless, FinishLossless
<1>5. CASE UNCHANGED vars
  BY <1>0, <1>5 DEF vars, senderVars, receiverVars, LosslessInv, Pending, Shown, IsFrame, Lossless
<1> QED
  BY <1>1, <1>2, <1>3, <1>4, <1>5 DEF Next, Quiet

\* On a network that keeps order and datagrams, a frame is shown or its next
\* chunk is on its way, for any number and size of frames: all of SentIsShown
\* that does not speak of fairness.
THEOREM NothingIsLeftBehind == FairSpec => []NothingLeftBehind
<1>1. Init => LosslessInv
  BY DEF Init, LosslessInv
<1>2. OrderInv /\ LosslessInv => NothingLeftBehind
  <2> SUFFICES ASSUME OrderInv, LosslessInv, Headers, Lossless, receiving,
                      NEW f \in arrived, ~Shown(f)
               PROVE  OnItsWay(f)
    BY DEF NothingLeftBehind
  <2>0. UdpInv /\ scenario.runs = 1
    BY DEF OrderInv, Lossless
  <2>1. f = <<1, f[2]>> /\ f \in DOMAIN sizes /\ f[2] # 0
    BY <2>0, OneRunFacts
  <2>2. PICK idx \in 1..sizes[f] : \E d \in net : d.frame_id = f[2] /\ d.chunk_index = idx
    <3>1. CASE current_frame_id = f[2]
      <4>1. OnlyRun(1, current_frame_id)
        BY <2>0, <2>1, <3>1, OneRunFacts, OneRun
      <4>2. received_chunks \subseteq 1..sizes[f]
        BY <2>0, <2>1, <3>1, <4>1 DEF UdpInv, CurrentOK
      <4>3. received_chunks # 1..sizes[f]
        BY <2>1, <3>1 DEF LosslessInv
      <4> QED
        BY <4>2, <4>3 DEF LosslessInv, Pending
    <3>2. CASE current_frame_id # f[2]
      <4>1. 1 \in 1..sizes[f]
        BY <2>0, <2>1, OneRunFacts
      <4> QED
        BY <3>2, <4>1 DEF LosslessInv, Pending
    <3> QED
      BY <3>1, <3>2
  <2>3. \A d \in net : d.run = 1
    BY <2>0, OneRunFacts
  <2> QED
    BY <2>1, <2>2, <2>3 DEF OnItsWay
<1> QED
  BY <1>1, <1>2, LosslessKept, UdpStarts, OrderKept, PTL DEF FairSpec, Spec
=============================================================================
