------------------------------- MODULE MCUdp --------------------------------
(* Scenarios of UdpMjpeg for TLC: what goes wrong on the network is combined *)
(* with as many frames, chunks and runs of the sender as it takes to matter. *)
EXTENDS UdpMjpeg

Short  == [in_order |-> FALSE, lossy |-> TRUE, duplicating |-> TRUE,
           runs |-> 1, frames |-> 2, chunks |-> 2]
Restarted == [Short EXCEPT !.runs = 2, !.frames = 1]
Reordered == [Short EXCEPT !.duplicating = FALSE, !.frames = 3]
LossyInOrder == [Reordered EXCEPT !.in_order = TRUE, !.frames = 4]
NothingHappens == [LossyInOrder EXCEPT !.lossy = FALSE, !.frames = 3, !.chunks = 3]
TwiceInOrder == [NothingHappens EXCEPT !.duplicating = TRUE]
RestartedInOrder == [LossyInOrder EXCEPT !.runs = 2, !.frames = 2]

MCScenarios == {Short, Restarted, Reordered, LossyInOrder, NothingHappens,
                TwiceInOrder, RestartedInOrder}
MCNothingHappens == {NothingHappens}
=============================================================================
