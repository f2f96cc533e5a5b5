--------------------------------- MODULE Tty ---------------------------------
(***************************************************************************)
(* What the console promises: a line of input that can be edited until it  *)
(* is ended, ended input that is read in order, and output that is sent in *)
(* the order it was written.                                               *)
(***************************************************************************)
EXTENDS Naturals, Sequences

CONSTANTS
  INPUT_BUF_SIZE,     \* bytes of input that are kept
  UART_TX_BUF_SIZE,   \* bytes of output that are kept
  Keys,               \* what can be part of a line
  Ends,               \* those that end it
  Bytes               \* what is written

VARIABLES
  line,     \* the line being edited
  ready,    \* input that can be read
  out       \* output that has not been sent

ttyVars == <<line, ready, out>>

(* A key ends the line if it is an end of line or if nothing else fits.    *)
Key(c) ==
  LET l == Append(line, c)
  IN /\ Len(ready \o line) < INPUT_BUF_SIZE
     /\ IF c \in Ends \/ Len(ready \o l) = INPUT_BUF_SIZE
        THEN ready' = ready \o l /\ line' = <<>>
        ELSE line' = l /\ UNCHANGED ready
     /\ UNCHANGED out

Erase ==
  /\ line # <<>>
  /\ line' = SubSeq(line, 1, Len(line) - 1)
  /\ UNCHANGED <<ready, out>>

Read ==
  /\ ready # <<>>
  /\ ready' = Tail(ready)
  /\ UNCHANGED <<line, out>>

Write(b) ==
  /\ Len(out) < UART_TX_BUF_SIZE
  /\ out' = Append(out, b)
  /\ UNCHANGED <<line, ready>>

Send ==
  /\ out # <<>>
  /\ out' = Tail(out)
  /\ UNCHANGED <<line, ready>>

TtyInit == line = <<>> /\ ready = <<>> /\ out = <<>>

TtyNext == (\E c \in Keys : Key(c)) \/ Erase \/ Read \/ (\E b \in Bytes : Write(b)) \/ Send

TtySpec == TtyInit /\ [][TtyNext]_ttyVars
=============================================================================
