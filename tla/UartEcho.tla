------------------------------- MODULE UartEcho ------------------------------
(***************************************************************************)
(* examples/uart_echo: reads what has come in over a serial line and writes *)
(* it back, until Ctrl+C or an error, and prints how much it received and   *)
(* sent.  The class UART is in the prebuilt library: read() returns some of *)
(* the bytes that have come, none or a time-out, and write() says how many  *)
(* of the bytes it sent.                                                    *)
(*                                                                         *)
(* A byte is its number in the order of arrival.                            *)
(***************************************************************************)
EXTENDS Naturals, Sequences

CONSTANTS
  BufferSize,  \* rx_buf.size(), 256 in the program
  MaxFrames    \* bytes that arrive; bounds the model

Bounds == BufferSize \in Nat \ {0} /\ MaxFrames \in Nat

VARIABLES
  main,          \* where the program is
  g_stop,        \* Ctrl+C was pressed
  is_open,       \* the device is open
  arrived,       \* bytes that have come over the line
  rx_buf,        \* bytes of the last read()
  total_rx, total_tx,
  sent           \* bytes on the line back

totals == <<total_rx, total_tx>>
vars == <<main, g_stop, is_open, arrived, rx_buf, totals, sent>>

Init ==
  /\ main = "open" /\ g_stop = FALSE /\ is_open = FALSE
  /\ arrived = 0 /\ rx_buf = <<>> /\ total_rx = 0 /\ total_tx = 0 /\ sent = <<>>

\* A byte comes in.
Arrive ==
  /\ arrived < MaxFrames
  /\ arrived' = arrived + 1
  /\ UNCHANGED <<main, g_stop, is_open, rx_buf, totals, sent>>

OpenDevice ==
  /\ main = "open"
  /\ \/ main' = "test" /\ is_open' = TRUE
     \/ main' = "failed" /\ UNCHANGED is_open
  /\ UNCHANGED <<g_stop, arrived, rx_buf, totals, sent>>

TestStop ==
  /\ main = "test"
  /\ main' = IF g_stop THEN "close" ELSE "read"
  /\ UNCHANGED <<g_stop, is_open, arrived, rx_buf, totals, sent>>

\* read() delivers bytes, which are those after the last read() ...
ReadBytes ==
  /\ main = "read"
  /\ \E n \in 1..BufferSize :
       /\ total_rx + n <= arrived
       /\ rx_buf' = [i \in 1..n |-> total_rx + i]
       /\ total_rx' = total_rx + n
  /\ main' = "write"
  /\ UNCHANGED <<g_stop, is_open, arrived, total_tx, sent>>

\* ... or nothing, by a time-out or a length of 0, or fails.
ReadNothing ==
  /\ main = "read"
  /\ main' \in {"test", "close"}
  /\ UNCHANGED <<g_stop, is_open, arrived, rx_buf, totals, sent>>

\* Variant: what was read is counted, not what was written.
WrittenAll(n) == Len(rx_buf)
Written(n) == n

\* write() sends all of the bytes or the first of them; the rest is dropped.
WriteBytes ==
  /\ main = "write"
  /\ \E n \in 0..Len(rx_buf) :
       /\ sent' = sent \o SubSeq(rx_buf, 1, n)
       /\ total_tx' = total_tx + Written(n)
  /\ main' = "test"
  /\ UNCHANGED <<g_stop, is_open, arrived, rx_buf, total_rx>>

WriteFails ==
  /\ main = "write"
  /\ main' = "close"
  /\ UNCHANGED <<g_stop, is_open, arrived, rx_buf, totals, sent>>

\* close(), the totals and the return.
CloseDevice ==
  /\ main = "close"
  /\ is_open' = FALSE
  /\ main' = "done"
  /\ UNCHANGED <<g_stop, arrived, rx_buf, totals, sent>>

\* SIGINT or SIGTERM.
signal_handler ==
  /\ ~g_stop /\ main \notin {"done", "failed"}
  /\ g_stop' = TRUE
  /\ UNCHANGED <<main, is_open, arrived, rx_buf, totals, sent>>

MainStep == \/ OpenDevice \/ TestStop \/ ReadBytes \/ ReadNothing
            \/ WriteBytes \/ WriteFails \/ CloseDevice

Terminated == main \in {"done", "failed"} /\ UNCHANGED vars

Next == MainStep \/ Arrive \/ signal_handler \/ Terminated

\* Fairness is stated in Programs.
Spec == Init /\ [][Next]_vars

-----------------------------------------------------------------------------
(* Properties.                                                             *)

TypeOK ==
  /\ main \in {"open", "test", "read", "write", "close", "done", "failed"}
  /\ {g_stop, is_open} \subseteq BOOLEAN
  /\ arrived \in 0..MaxFrames /\ {total_rx, total_tx} \subseteq 0..arrived
  /\ rx_buf \in Seq(1..MaxFrames) /\ Len(rx_buf) <= BufferSize
  /\ sent \in Seq(1..MaxFrames)

\* The totals that are printed are those of the line, nothing is sent twice
\* or out of order, although write() may send a part only, and the device is
\* closed at the end.
TotalsTrue ==
  /\ total_tx = Len(sent)
  /\ \A i \in DOMAIN sent : sent[i] <= total_rx
  /\ \A i, j \in DOMAIN sent : i < j => sent[i] < sent[j]
  /\ main = "done" => ~is_open

\* How many steps main has left at most, once Ctrl+C was pressed.
MainLeft == [open |-> 5, read |-> 4, write |-> 3, test |-> 2, close |-> 1,
             done |-> 0, failed |-> 0][main]

\* Ctrl+C ends the program, also on a line that is never quiet.
CtrlCEnds == g_stop ~> main \in {"done", "failed"}
=============================================================================
