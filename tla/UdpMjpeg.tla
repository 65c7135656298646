------------------------------ MODULE UdpMjpeg ------------------------------
(***************************************************************************)
(* The MJPEG stream over UDP of examples/rknn_yolo: UdpMjpegSender on the   *)
(* camera and udp_receiver.py on the viewer's machine.                      *)
(*                                                                         *)
(* A JPEG frame is cut into chunks of one datagram each.  In main.cpp.orig  *)
(* every datagram has a header that names its frame and its place in it; in *)
(* main.cpp the chunks are sent bare.  The receiver puts one frame together *)
(* at a time and shows it when it counted all of its chunks.  UDP may lose, *)
(* reorder and duplicate datagrams, and the sender may be restarted, which  *)
(* starts its frame numbers again.                                          *)
(*                                                                         *)
(* The content of a chunk is the frame it was cut from, as <<run, id>>: its *)
(* sender's incarnation, which no header tells, and its number.  Sizes and  *)
(* offsets count chunks.                                                    *)
(***************************************************************************)
EXTENDS Naturals, Sequences, FiniteSets

CONSTANTS
  Scenarios,   \* what the network does and how much is sent, see Scenario
  MaxShown,    \* images shown; bounds the model
  Headers,     \* main.cpp.orig if TRUE, main.cpp if FALSE
  Blank        \* content of a part of the image that nothing was copied to

\* A scenario of the model: whether datagrams arrive in the order they are
\* sent in, may be lost and may arrive more than once, and, to bound the
\* model, the runs of the sender, the frames of a run, and the chunks of the
\* largest frame.
Scenario == [in_order : BOOLEAN, lossy : BOOLEAN, duplicating : BOOLEAN,
             runs : Nat \ {0}, frames : Nat \ {0}, chunks : Nat \ {0}]

ASSUME BoundsAssumption ==
  /\ \A s \in Scenarios : s \in Scenario
  /\ MaxShown \in Nat \ {0}
  /\ Headers \in BOOLEAN

VARIABLES
  scenario,          \* what the network does; it never changes
  run,               \* the sender's incarnation
  frame_id_,         \* the sender's next frame number
  sizes,             \* chunks of each frame that was sent
  arrived,           \* frames all of whose chunks sendto() accepted
  net,               \* datagrams on their way
  current_frame_id,  \* frame the receiver puts together, 0 for None
  current_frame,     \* the bytearray it is put together in
  received_chunks,   \* chunk indices counted so far
  since,             \* chunks received since their frame was last finished
  shown,             \* images shown, in order
  receiving          \* the viewer has not pressed ESC

senderVars   == <<run, frame_id_, sizes, arrived>>
receiverVars == <<current_frame_id, current_frame, received_chunks, since,
                  shown, receiving>>
vars == <<scenario, senderVars, net, receiverVars>>

\* Numbers of the frames of all scenarios.
FrameNo == UNION {(1..s.runs) \X (1..s.frames) : s \in Scenarios}

Init ==
  /\ scenario \in Scenarios
  /\ run = 1 /\ frame_id_ = 1 /\ arrived = {}
  /\ sizes = [f \in {} |-> 0]
  /\ net = {}
  /\ current_frame_id = 0 /\ current_frame = <<>> /\ received_chunks = {}
  /\ since = {} /\ shown = <<>> /\ receiving = TRUE

-----------------------------------------------------------------------------
(* The sender.                                                             *)

\* Variant: the index in the header starts at 0 where the others start at 1.
DatagramFromZero(id, idx, count) ==
  [header |-> Headers, run |-> run, frame_id |-> id,
   chunk_index |-> idx - 1, chunk_count |-> count]
Datagram(id, idx, count) ==
  [header |-> Headers, run |-> run, frame_id |-> id,
   chunk_index |-> idx, chunk_count |-> count]

NextId == frame_id_ + 1

\* How many of the chunks of a frame go out.  In main.cpp.orig the first error
\* of sendto() gives the frame up; main.cpp does not look at errors, and a
\* chunk that had one is like a chunk that is lost.
SentUntilError(count) == 0..count
SentRegardless(count) == {count}

\* send_frame(): the chunks go out in order.
send_frame ==
  /\ frame_id_ <= scenario.frames
  /\ \E count \in 1..scenario.chunks : 
       \E sent \in IF Headers THEN SentUntilError(count) ELSE SentRegardless(count) :
       /\ frame_id_' = NextId
       /\ sizes' = [f \in DOMAIN sizes \union {<<run, frame_id_>>} |->
                      IF f = <<run, frame_id_>> THEN count ELSE sizes[f]]
       /\ net' = net \union {Datagram(frame_id_, idx, count) : idx \in 1..sent}
       /\ arrived' = IF sent = count THEN arrived \union {<<run, frame_id_>>}
                                     ELSE arrived
  /\ UNCHANGED <<scenario, run, receiverVars>>

\* The program is started again: a new UdpMjpegSender.
Restart ==
  /\ run < scenario.runs
  /\ run' = run + 1
  /\ frame_id_' = 1
  /\ UNCHANGED <<scenario, sizes, arrived, net, receiverVars>>

-----------------------------------------------------------------------------
(* The network.                                                            *)

\* d was sent before e.
Before(d, e) ==
  \/ d.run < e.run
  \/ d.run = e.run /\ d.frame_id < e.frame_id
  \/ d.run = e.run /\ d.frame_id = e.frame_id /\ d.chunk_index < e.chunk_index

Deliverable == {d \in net : scenario.in_order => ~ \E e \in net : Before(e, d)}

Lose ==
  /\ scenario.lossy
  /\ \E d \in net : net' = net \ {d}
  /\ UNCHANGED <<scenario, senderVars, receiverVars>>

-----------------------------------------------------------------------------
(* The receiver.                                                           *)

\* Magic, version, sizes and offset are those of a chunk: the header is
\* there.  The first bytes of a JPEG are not the magic.
Valid(d) == d.header

\* Variant: the indices counted for the last frame are kept.
ChunksBeforeKept(d) == received_chunks
\* Variant: every chunk starts the count again.
ChunksBeforeNone(d) == {}
ChunksBefore(d) ==
  IF current_frame_id = d.frame_id THEN received_chunks ELSE {}

\* A chunk of another frame than the current one starts a new bytearray.
FrameBefore(d) ==
  IF current_frame_id = d.frame_id THEN current_frame
                                   ELSE [i \in 1..d.chunk_count |-> Blank]

\* current_frame[offset:offset + chunk_size] = payload; a slice beyond the
\* end of a bytearray appends to it.
Store(buf, d) ==
  LET at == IF d.chunk_index <= Len(buf) THEN d.chunk_index ELSE Len(buf) + 1
  IN [i \in 1..(IF at > Len(buf) THEN at ELSE Len(buf)) |->
        IF i = at THEN <<d.run, d.frame_id>> ELSE buf[i]]

\* Variant: an image is shown at its first chunk already.
CompleteAny(chunks, d) == chunks # {}
\* Variant: the count starts at 0, as the indices do.
CompleteOffByOne(chunks, d) == Cardinality(chunks) = d.chunk_count + 1
Complete(chunks, d) == Cardinality(chunks) = d.chunk_count

\* A chunk is stored and counted; the frame is not complete.
StoreChunk(d) ==
  LET chunks == ChunksBefore(d) \union {d.chunk_index} IN
  /\ ~Complete(chunks, d)
  /\ current_frame_id' = d.frame_id
  /\ current_frame' = Store(FrameBefore(d), d)
  /\ received_chunks' = chunks
  /\ since' = since \union {<<d.frame_id, d.chunk_index>>}
  /\ UNCHANGED <<shown, receiving>>

\* Variant: the receiver keeps the frame it has finished.
ForgetNot == UNCHANGED <<current_frame_id, current_frame, received_chunks>>
\* The receiver is without a frame.
Forget == /\ current_frame_id' = 0 /\ current_frame' = <<>>
          /\ received_chunks' = {}

\* The last chunk: the image is shown if it can be decoded, which a mix of
\* frames may not be, and ESC ends the program; the receiver is without a
\* frame again.
FinishFrame(d) ==
  LET chunks == ChunksBefore(d) \union {d.chunk_index}
      image  == Store(FrameBefore(d), d)
  IN
  /\ Complete(chunks, d)
  /\ \/ shown' = Append(shown, image) /\ receiving' \in BOOLEAN
     \/ /\ \E i, j \in DOMAIN image : image[i] # image[j]
        /\ UNCHANGED <<shown, receiving>>
  /\ Forget
  /\ since' = {c \in since : c[1] # d.frame_id}

\* One turn of the loop: a datagram is received, and ignored, stored or
\* completes its frame.
Receive ==
  /\ receiving /\ Len(shown) < MaxShown
  /\ \E d \in Deliverable :
       /\ net' = net \ {d} \/ (scenario.duplicating /\ UNCHANGED net)
       /\ IF Valid(d) THEN StoreChunk(d) \/ FinishFrame(d)
                      ELSE UNCHANGED receiverVars
  /\ UNCHANGED <<scenario, senderVars>>

\* The bounds of the model are reached, or the receiver has ended.
Quiet ==
  /\ frame_id_ > scenario.frames /\ run = scenario.runs
  /\ net = {} \/ ~receiving \/ Len(shown) = MaxShown
  /\ UNCHANGED vars

Next == send_frame \/ Restart \/ Lose \/ Receive \/ Quiet

Spec == Init /\ [][Next]_vars

\* The receiver reads its socket.  Nothing makes the sender send.
FairSpec == Spec /\ WF_vars(Receive)

-----------------------------------------------------------------------------
(* Properties.                                                             *)

\* Every variable has a value of its kind.
TypeOK ==
  /\ scenario \in Scenarios
  /\ run \in 1..scenario.runs /\ frame_id_ \in 1..(scenario.frames + 1)
  /\ DOMAIN sizes \subseteq FrameNo
  /\ \A f \in DOMAIN sizes : sizes[f] \in 1..scenario.chunks
  /\ arrived \subseteq DOMAIN sizes
  /\ \A d \in net : /\ <<d.run, d.frame_id>> \in DOMAIN sizes
                    /\ d.chunk_index \in 1..d.chunk_count
                    /\ d.header = Headers
  /\ current_frame_id \in 0..scenario.frames
  /\ \A i \in DOMAIN current_frame : current_frame[i] \in FrameNo \union {Blank}
  /\ received_chunks \subseteq 1..scenario.chunks
  /\ since \subseteq (1..scenario.frames) \X (1..scenario.chunks)
  /\ Len(shown) <= MaxShown
  /\ receiving \in BOOLEAN

\* The image is frame f and nothing else.
IsFrame(image, f) ==
  /\ f \in DOMAIN sizes
  /\ image = [i \in 1..sizes[f] |-> f]

\* Images that are not one whole frame.
Mixes == {k \in DOMAIN shown :
            ~ \E r \in 1..scenario.runs, id \in 1..scenario.frames :
                IsFrame(shown[k], <<r, id>>)}

\* What is shown was sent: an image is one whole frame, whatever the network
\* lost, reordered or duplicated.  Only a frame number that two runs of the
\* sender used may give a mix of their two frames, and when the network keeps
\* the order no more than one image for each restart of the sender is such a
\* mix: the next frame puts the receiver right.
ShownWasSent ==
  /\ \A k \in DOMAIN shown :
       \E id \in 1..scenario.frames :
         /\ \A i \in DOMAIN shown[k] : shown[k][i] # Blank => shown[k][i][2] = id
         /\ \/ \E r \in 1..scenario.runs : IsFrame(shown[k], <<r, id>>)
            \/ Cardinality({r \in 1..scenario.runs : <<r, id>> \in DOMAIN sizes}) > 1
  /\ scenario.in_order => Cardinality(Mixes) < run

\* Numbers of the frames an image has parts of.
IdsOf(image) == {image[i][2] : i \in {i \in DOMAIN image : image[i] # Blank}}

\* Without a restart no frame is shown twice, although the receiver forgets a
\* frame it has shown: not without duplicates, and not with duplicates that
\* come in order, but for a frame of one chunk.
ShownOnce ==
  scenario.runs = 1 /\ (scenario.in_order \/ ~scenario.duplicating) =>
    \A j, k \in DOMAIN shown : j # k =>
      \A a \in IdsOf(shown[j]) \intersect IdsOf(shown[k]) :
        scenario.duplicating /\ sizes[<<1, a>>] = 1

\* Without reordering and a restart, the frames are shown in the order they
\* were taken in, although some are lost and chunks come twice.
ShownInOrder ==
  scenario.in_order /\ scenario.runs = 1 =>
    \A j, k \in DOMAIN shown : j < k =>
      \A a \in IdsOf(shown[j]), b \in IdsOf(shown[k]) : a <= b

\* An image takes all its chunks: each has come since the frame was finished
\* last, the one chunk received now apart.  Duplicates of a few chunks of a
\* frame that was shown do not show it again, in whatever order they come.
ShowsWhatCame ==
  scenario.runs = 1 /\ shown' # shown =>
    LET image == shown'[Len(shown')] IN
    \E now \in DOMAIN image :
      \A i \in DOMAIN image \ {now} : \A id \in IdsOf(image) : <<id, i>> \in since

\* No frame is shown twice, in order as far as the network keeps it, and on
\* any network not before all of it has come again.
ShownOnceInOrder == []ShownOnce /\ []ShownInOrder /\ [][ShowsWhatCame]_vars

\* The network keeps order and datagrams, which may come twice, and the sender
\* is not restarted.
Lossless == scenario.in_order /\ ~scenario.lossy /\ scenario.runs = 1

\* Nothing happens to datagrams at all.
Perfect == Lossless /\ ~scenario.duplicating

\* A frame has chunks on the network.
OnItsWay(f) == \E d \in net : <<d.run, d.frame_id>> = f

\* Shown(f): frame f was shown, whole.
Shown(f) == \E k \in DOMAIN shown : IsFrame(shown[k], f)

\* On a network that delivers in order and loses nothing, the receiver never
\* leaves a frame behind: whatever it starts, drops, shows or is sent again, a
\* frame that sendto() took in is shown or has chunks still to come.
NothingLeftBehind ==
  Headers /\ Lossless /\ receiving => \A f \in arrived : Shown(f) \/ OnItsWay(f)

\* On a network to which nothing happens, a frame that was
\* sent is shown, unless the viewer has ended the program.  It is what
\* udp_receiver.py:13 says of itself, "listening ... to receive the MJPEG
\* stream of fragments".
SentIsShown ==
  \A f \in FrameNo :
    f \in arrived /\ Perfect ~> Shown(f) \/ ~receiving
=============================================================================
