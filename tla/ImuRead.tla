------------------------------- MODULE ImuRead -------------------------------
(***************************************************************************)
(* examples/imu_read: reads a hundred samples of the motion sensor, or less *)
(* when Ctrl+C comes or a reading fails, and prints the least, the greatest *)
(* and the mean value of each of seven channels.  The channels are updated  *)
(* together; the model has one of them.                                     *)
(*                                                                         *)
(* A reading is an integer.  The mean is kept as the sum and the count it   *)
(* is computed from.                                                        *)
(***************************************************************************)
EXTENDS Integers, Sequences

CONSTANTS
  TARGET_SAMPLES,  \* 100 in the program
  Readings,        \* what the channel may show
  Extreme          \* std::numeric_limits<double>::max()

Bounds ==
  /\ TARGET_SAMPLES \in Nat /\ Extreme \in Nat \ {0}
  /\ Readings \subseteq (-Extreme)..Extreme

VARIABLES
  main,     \* where the program is
  g_stop,   \* Ctrl+C was pressed
  sample,   \* readings taken
  channel,  \* Stats: min_val, max_val, sum and count
  values,   \* the readings, in order
  broken    \* a reading failed

vars == <<main, g_stop, sample, channel, values, broken>>

Init ==
  /\ main = "open" /\ g_stop = FALSE
  /\ sample = 0 /\ values = <<>> /\ broken = FALSE
  /\ channel = [min_val |-> Extreme, max_val |-> -Extreme, sum |-> 0, count |-> 0]

\* imu.init().
InitImu ==
  /\ main = "open"
  /\ main' \in {"test", "failed"}
  /\ UNCHANGED <<g_stop, sample, channel, values, broken>>

\* The condition of the loop.
TestLoop ==
  /\ main = "test"
  /\ main' = IF sample < TARGET_SAMPLES /\ ~g_stop THEN "read" ELSE "summary"
  /\ UNCHANGED <<g_stop, sample, channel, values, broken>>

\* Stats::update().
update(s, v) ==
  [min_val |-> IF v < s.min_val THEN v ELSE s.min_val,
   max_val |-> IF v > s.max_val THEN v ELSE s.max_val,
   sum     |-> s.sum + v,
   count   |-> s.count + 1]

\* imu.read(), and the rest of the 20 ms.
Read ==
  /\ main = "read"
  /\ \E v \in Readings :
       /\ channel' = update(channel, v)
       /\ values' = Append(values, v)
  /\ sample' = sample + 1
  /\ main' = "test"
  /\ UNCHANGED <<g_stop, broken>>

\* An error of it ends the loop.
ReadFails ==
  /\ main = "read"
  /\ broken' = TRUE
  /\ main' = "summary"
  /\ UNCHANGED <<g_stop, sample, channel, values>>

\* The summary; the program returns success in any case.
PrintSummary ==
  /\ main = "summary"
  /\ main' = "done"
  /\ UNCHANGED <<g_stop, sample, channel, values, broken>>

\* SIGINT or SIGTERM.
signal_handler ==
  /\ ~g_stop /\ main \notin {"done", "failed"}
  /\ g_stop' = TRUE
  /\ UNCHANGED <<main, sample, channel, values, broken>>

MainStep == InitImu \/ TestLoop \/ Read \/ ReadFails \/ PrintSummary

Terminated == main \in {"done", "failed"} /\ UNCHANGED vars

Next == MainStep \/ signal_handler \/ Terminated

\* Fairness is stated in Programs.
Spec == Init /\ [][Next]_vars

-----------------------------------------------------------------------------
(* Properties.                                                             *)

TypeOK ==
  /\ main \in {"open", "test", "read", "summary", "done", "failed"}
  /\ {g_stop, broken} \subseteq BOOLEAN
  /\ sample \in 0..TARGET_SAMPLES
  /\ values \in Seq(Readings) /\ Len(values) = sample
  /\ channel \in [min_val : Int, max_val : Int, sum : Int, count : {sample}]

\* The summary is that of the readings, however many there were: its extremes
\* are readings, no reading lies outside of them, and neither does the mean.
\* Without a reading it shows the values the statistics start from (a minimum
\* above the maximum, main.cpp:30).  There are fewer than a hundred only
\* after Ctrl+C or a failed reading.
SummaryTrue ==
  main = "done" =>
    /\ \A i \in DOMAIN values : values[i] \in channel.min_val..channel.max_val
    /\ IF sample = 0
         THEN channel.min_val > channel.max_val
         ELSE /\ \E i, j \in DOMAIN values : /\ channel.min_val = values[i]
                                             /\ channel.max_val = values[j]
              /\ channel.min_val * sample <= channel.sum
              /\ channel.sum <= channel.max_val * sample
    /\ sample = TARGET_SAMPLES \/ g_stop \/ broken

\* How many steps main has left at most, two for every reading.
MainLeft == 2 * (TARGET_SAMPLES - sample)
            + [open |-> 4, test |-> 3, read |-> 2, summary |-> 1, done |-> 0,
               failed |-> 0][main]

\* The program ends by itself.
EndsByItself == <>(main \in {"done", "failed"})
=============================================================================
