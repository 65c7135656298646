---------------------------- MODULE LatestMailbox ----------------------------
(***************************************************************************)
(* What the frame hand-over of a detection pipeline promises: a mailbox of  *)
(* one place.  The producer overwrites the place with newer and newer       *)
(* items; the consumer takes the newest item whole, and each item at most   *)
(* once.  An item may be overwritten before it is taken, but an item that   *)
(* stays the newest is not forgotten.                                       *)
(***************************************************************************)
EXTENDS Naturals

VARIABLES latest,   \* number of the newest item put, 0 before the first
          fresh,    \* the newest item has not been taken yet
          taken     \* number of the last item taken, 0 before the first

mailboxVars == <<latest, fresh, taken>>

Init == /\ latest = 0
        /\ fresh = FALSE
        /\ taken = 0

\* The producer puts a newer item; items may be skipped on its side.
Put == /\ latest' \in Nat
       /\ latest' > latest
       /\ fresh' = TRUE
       /\ UNCHANGED taken

\* The consumer takes the newest item.
Take == /\ fresh
        /\ taken' = latest
        /\ fresh' = FALSE
        /\ UNCHANGED latest

Next == Put \/ Take

Spec == Init /\ [][Next]_mailboxVars
=============================================================================
