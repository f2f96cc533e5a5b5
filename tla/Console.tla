------------------------------- MODULE Console -------------------------------
(***************************************************************************)
(* The console: kernel/console.c and kernel/uart.c.                        *)
(*                                                                         *)
(* Readers and writers are processes in consoleread() and consolewrite();  *)
(* one CPU at a time handles the UART's interrupt, because the PLIC hands  *)
(* it out once.  cons.lock and uart_tx_lock are held over several actions  *)
(* wherever something can happen on another CPU or in the device meanwhile:*)
(* uartputc_sync() uses no lock, so its write to the UART may fall between *)
(* another CPU's test of the transmitter and that CPU's write.  A slot of  *)
(* a ring that is not in use holds None: the code does not look at it.     *)
(***************************************************************************)
EXTENDS Integers, Sequences, FiniteSets

CONSTANTS
  Readers, Writers,   \* processes
  INPUT_BUF_SIZE, UART_TX_BUF_SIZE,
  Wrap,               \* the range of the unsigned indices
  Sessions,           \* who uses the console: [users, typed], processes and the characters
                      \* that arrive
  MaxN,               \* the largest read()
  Handler, None

ASSUME ConsoleAssumption ==
  /\ {INPUT_BUF_SIZE, UART_TX_BUF_SIZE, MaxN} \subseteq Nat \ {0}
  /\ Wrap % INPUT_BUF_SIZE = 0 /\ Wrap % UART_TX_BUF_SIZE = 0
  /\ Wrap > INPUT_BUF_SIZE /\ Wrap > UART_TX_BUF_SIZE

Typed == UNION {s.typed : s \in Sessions}
Stored == (Typed \cup {"\n"}) \ {"\r", "^U", "^H", "^P"}

VARIABLES
  buf, r, w, e,       \* cons
  consLock,
  txBuf, txW, txR,    \* uart_tx_buf, uart_tx_w, uart_tx_r
  txLock,
  thr,                \* how many bytes the UART is sending
  rhr,                \* input that has arrived
  irq,                \* the UART's interrupt is pending
  hpc, hc, hecho,     \* the handler, its character, and how many bytes to echo
  rpc, n, got, killed,  \* readers: what is left to read, and whether any has been read
  wpc,                \* writers
  session             \* chosen once

consVars == <<buf, r, w, e, consLock>>
txVars == <<txBuf, txW, txR, txLock>>
devVars == <<thr, rhr, irq>>
hVars == <<hpc, hc, hecho>>
rVars == <<rpc, n, got, killed>>
conVars == <<consVars, txVars, devVars, hVars, rVars, wpc, session>>

Minus(i, j) == (i - j) % Wrap
Slot(i) == i % INPUT_BUF_SIZE
TxIdle == thr = 0

Wakeup(pcs) == [p \in DOMAIN pcs |-> IF pcs[p] = "sleep" THEN "woken" ELSE pcs[p]]

-----------------------------------------------------------------------------
(* consoleread().                                                          *)

SysRead(p) ==
  /\ rpc[p] = "user" /\ p \in session.users \ killed
  /\ \E k \in 1 .. MaxN : n' = [n EXCEPT ![p] = k]
  /\ rpc' = [rpc EXCEPT ![p] = "acquire"]
  /\ UNCHANGED <<consVars, txVars, devVars, hVars, got, killed, wpc, session>>

(* sleep() returns with the lock taken again.                              *)
ReadAcquire(p) ==
  /\ rpc[p] \in {"acquire", "woken"}
  /\ consLock = None
  /\ consLock' = p
  /\ rpc' = [rpc EXCEPT ![p] = "loop"]
  /\ UNCHANGED <<buf, r, w, e, txVars, devVars, hVars, n, got, killed, wpc, session>>

ReadReturn(p) ==
  /\ consLock' = None
  /\ rpc' = [rpc EXCEPT ![p] = "user"]
  /\ n' = [n EXCEPT ![p] = 0]
  /\ got' = [got EXCEPT ![p] = FALSE]

(* Nothing to read: give up if killed, or sleep.  (A kill() between the    *)
(* two is the race that Proc has in wait().)                               *)
ReadEmpty(p) ==
  /\ rpc[p] = "loop" /\ r = w
  /\ IF p \in killed THEN ReadReturn(p)
     ELSE consLock' = None /\ rpc' = [rpc EXCEPT ![p] = "sleep"] /\ UNCHANGED <<n, got>>
  /\ UNCHANGED <<buf, r, w, e, txVars, devVars, hVars, killed, wpc, session>>

(* One byte.  An end of file that follows other bytes is left for the next *)
(* read(); a failed copy to the user loses the byte.                       *)
ReadByte(p) ==
  LET c == buf[Slot(r)]
  IN /\ rpc[p] = "loop" /\ r # w
     /\ r' = IF c = "^D" /\ got[p] THEN r ELSE (r + 1) % Wrap
     /\ buf' = IF c = "^D" /\ got[p] THEN buf ELSE [buf EXCEPT ![Slot(r)] = None]
     /\ \/ ReadReturn(p)
        \/ /\ c \notin {"^D", "\n"} /\ n[p] > 1
           /\ n' = [n EXCEPT ![p] = @ - 1]
           /\ got' = [got EXCEPT ![p] = TRUE]
           /\ UNCHANGED <<consLock, rpc>>
     /\ UNCHANGED <<w, e, txVars, devVars, hVars, killed, wpc, session>>

(* kill() wakes a process that sleeps.                                     *)
Kill(p) ==
  /\ p \in session.users \ killed
  /\ killed' = killed \cup {p}
  /\ rpc' = [rpc EXCEPT ![p] = IF @ = "sleep" THEN "woken" ELSE @]
  /\ UNCHANGED <<consVars, txVars, devVars, hVars, n, got, wpc, session>>

-----------------------------------------------------------------------------
(* uartputc() and uartstart(), in writers and in the handler.              *)

WriteAcquire(p) ==
  /\ wpc[p] \in {"user", "woken"} /\ p \in session.users
  /\ txLock = None
  /\ IF txW = (txR + UART_TX_BUF_SIZE) % Wrap
     THEN /\ wpc' = [wpc EXCEPT ![p] = "sleep"]
          /\ UNCHANGED <<txBuf, txW, txLock>>
     ELSE /\ txBuf' = [txBuf EXCEPT ![txW % UART_TX_BUF_SIZE] = p]
          /\ txW' = (txW + 1) % Wrap
          /\ txLock' = p
          /\ wpc' = [wpc EXCEPT ![p] = "start"]
  /\ UNCHANGED <<consVars, txR, devVars, hVars, rVars, session>>

(* The loop of uartstart() by who holds the lock, at "start": done when    *)
(* nothing is left or the UART is busy; else a byte and a wakeup ...       *)
StartDone == txW = txR \/ ~TxIdle

StartTake ==
  /\ ~StartDone
  /\ txR' = (txR + 1) % Wrap

(* ... and the write to the UART.                                          *)
StartWrite ==
  LET i == (txR - 1) % UART_TX_BUF_SIZE
  IN /\ thr' = thr + 1
     /\ txBuf' = [txBuf EXCEPT ![i] = None]

WriterStart(p) ==
  /\ wpc[p] = "start"
  /\ \/ /\ StartDone
        /\ txLock' = None
        /\ wpc' = [wpc EXCEPT ![p] = "user"]
        /\ UNCHANGED txR
     \/ /\ StartTake
        /\ wpc' = [Wakeup(wpc) EXCEPT ![p] = "thr"]
        /\ UNCHANGED txLock
  /\ UNCHANGED <<consVars, txBuf, txW, devVars, hVars, rVars, session>>

WriterThr(p) ==
  /\ wpc[p] = "thr"
  /\ StartWrite
  /\ wpc' = [wpc EXCEPT ![p] = "start"]
  /\ UNCHANGED <<consVars, txW, txR, txLock, rhr, irq, hVars, rVars, session>>

-----------------------------------------------------------------------------
(* The UART.                                                               *)

(* A byte has been sent; the UART interrupts when it can take more.        *)
UartSent ==
  /\ ~TxIdle
  /\ thr' = thr - 1
  /\ irq' = (irq \/ thr = 1)
  /\ UNCHANGED <<consVars, txVars, rhr, hVars, rVars, wpc, session>>

UartReceive ==
  /\ rhr = <<>>
  /\ \E c \in session.typed : rhr' = <<c>>
  /\ irq' = TRUE
  /\ UNCHANGED <<consVars, txVars, thr, hVars, rVars, wpc, session>>

-----------------------------------------------------------------------------
(* uartintr() and consoleintr().                                           *)

(* plic_claim().                                                           *)
IntrClaim ==
  /\ hpc = "idle" /\ irq
  /\ irq' = FALSE
  /\ hpc' = "getc"
  /\ UNCHANGED <<consVars, txVars, thr, rhr, hc, hecho, rVars, wpc, session>>

(* uartgetc(): a character for consoleintr(), which takes cons.lock ...    *)
IntrGetc ==
  /\ hpc = "getc" /\ rhr # <<>>
  /\ consLock = None
  /\ consLock' = Handler
  /\ rhr' = Tail(rhr)
  /\ hc' = IF Head(rhr) = "\r" THEN "\n" ELSE Head(rhr)
  /\ hpc' = "switch"
  /\ UNCHANGED <<buf, r, w, e, txVars, thr, irq, hecho, rVars, wpc, session>>

(* Mutant: uartintr() does not call uartstart().                           *)
IntrNoStart ==
  /\ hpc = "getc" /\ rhr = <<>>
  /\ hpc' = "idle"
  /\ UNCHANGED <<consVars, txVars, devVars, hc, hecho, rVars, wpc, session>>

(* ... or no more.                                                         *)
IntrNoInput ==
  /\ hpc = "getc" /\ rhr = <<>>
  /\ txLock = None
  /\ txLock' = Handler
  /\ hpc' = "start"
  /\ UNCHANGED <<consVars, txBuf, txW, txR, devVars, hc, hecho, rVars, wpc, session>>

IntrNextChar == hpc' = "getc" /\ hc' = None /\ consLock' = None

(* ^U and ^H take a byte off the line and erase it with three bytes of     *)
(* output; a character that fits is echoed; everything else is ignored.    *)
CanErase == e # w /\ (hc = "^U" => buf[Slot(e - 1)] # "\n")

IntrErase ==
  /\ hpc = "switch" /\ hc \in {"^U", "^H"}
  /\ IF CanErase
     THEN /\ e' = (e - 1) % Wrap
          /\ buf' = [buf EXCEPT ![Slot(e - 1)] = None]
          /\ hecho' = 3 /\ hpc' = "spin"
          /\ UNCHANGED <<consLock, hc>>
     ELSE IntrNextChar /\ UNCHANGED <<buf, e, hecho>>
  /\ UNCHANGED <<r, w, txVars, devVars, rVars, wpc, session>>

(* Mutant: one byte too many.                                              *)
FitsOneMore == Minus(e, r) <= INPUT_BUF_SIZE

Fits == Minus(e, r) < INPUT_BUF_SIZE

IntrKey ==
  /\ hpc = "switch" /\ hc \notin {"^U", "^H"}
  /\ IF hc \in Stored /\ Fits
     THEN hecho' = 1 /\ hpc' = "spin" /\ UNCHANGED <<consLock, hc>>
     ELSE IntrNextChar /\ UNCHANGED hecho
  /\ UNCHANGED <<buf, r, w, e, txVars, devVars, rVars, wpc, session>>

(* uartputc_sync(): spin until the UART is idle, then write.               *)
IntrSpin ==
  /\ hpc = "spin" /\ TxIdle
  /\ hpc' = "sync"
  /\ UNCHANGED <<consVars, txVars, devVars, hc, hecho, rVars, wpc, session>>

IntrSync ==
  /\ hpc = "sync"
  /\ thr' = thr + 1
  /\ hecho' = hecho - 1
  /\ hpc' = IF hecho > 1 THEN "spin" ELSE IF hc = "^U" THEN "switch" ELSE "store"
  /\ UNCHANGED <<consVars, txVars, rhr, irq, hc, rVars, wpc, session>>

(* Store what was echoed; wake the readers if it completes the input.      *)
IntrStore ==
  /\ hpc = "store"
  /\ IF hc = "^H" THEN UNCHANGED <<buf, w, e, rpc>>
     ELSE /\ buf' = [buf EXCEPT ![Slot(e)] = hc]
          /\ e' = (e + 1) % Wrap
          /\ IF hc \in {"\n", "^D"} \/ Minus(e + 1, r) = INPUT_BUF_SIZE
             THEN w' = e' /\ rpc' = Wakeup(rpc)
             ELSE UNCHANGED <<w, rpc>>
  /\ IntrNextChar
  /\ UNCHANGED <<r, txVars, devVars, hecho, n, got, killed, wpc, session>>

(* uartstart() in the handler, and plic_complete().                        *)
IntrStart ==
  /\ hpc = "start"
  /\ \/ /\ StartDone
        /\ txLock' = None
        /\ hpc' = "idle"
        /\ UNCHANGED <<txR, wpc>>
     \/ /\ StartTake
        /\ wpc' = Wakeup(wpc)
        /\ hpc' = "thr"
        /\ UNCHANGED txLock
  /\ UNCHANGED <<consVars, txBuf, txW, thr, rhr, irq, hc, hecho, rVars, session>>

IntrThr ==
  /\ hpc = "thr"
  /\ StartWrite
  /\ hpc' = "start"
  /\ UNCHANGED <<consVars, txW, txR, txLock, rhr, irq, hc, hecho, rVars, wpc, session>>

-----------------------------------------------------------------------------
ConsInit ==
  /\ buf = [i \in 0 .. INPUT_BUF_SIZE - 1 |-> None]
  /\ r = 0 /\ w = 0 /\ e = 0 /\ consLock = None
  /\ txBuf = [i \in 0 .. UART_TX_BUF_SIZE - 1 |-> None]
  /\ txW = 0 /\ txR = 0 /\ txLock = None
  /\ thr = 0 /\ rhr = <<>> /\ irq = FALSE
  /\ hpc = "idle" /\ hc = None /\ hecho = 0
  /\ rpc = [p \in Readers |-> "user"] /\ killed = {}
  /\ n = [p \in Readers |-> 0] /\ got = [p \in Readers |-> FALSE]
  /\ wpc = [p \in Writers |-> "user"]
  /\ session \in Sessions

ReadStep(p) == ReadAcquire(p) \/ ReadEmpty(p) \/ ReadByte(p)
WriteStep(p) == WriterStart(p) \/ WriterThr(p)
IntrStep ==
  \/ IntrClaim \/ IntrGetc \/ IntrNoInput \/ IntrErase \/ IntrKey \/ IntrSpin
  \/ IntrSync \/ IntrStore \/ IntrStart \/ IntrThr

ConsNext ==
  \/ \E p \in Readers : SysRead(p) \/ ReadStep(p) \/ Kill(p)
  \/ \E p \in Writers : WriteAcquire(p) \/ WriteStep(p)
  \/ IntrStep \/ UartSent \/ UartReceive

(* Processes are scheduled and interrupts are taken while there is         *)
(* something for them to do, and the UART sends what it has been given; no *)
(* one has to type or to start a write.                                    *)
ConsFair ==
  /\ \A p \in Readers : WF_conVars(ReadStep(p))
  /\ \A p \in Writers : WF_conVars(WriteStep(p))
  /\ WF_conVars(IntrStep) /\ WF_conVars(UartSent)

ConsSpec == ConsInit /\ [][ConsNext]_conVars /\ ConsFair

-----------------------------------------------------------------------------
(* Properties.                                                             *)

Between(b, size, i, j) == [k \in 1 .. Minus(j, i) |-> b[(i + k - 1) % size]]

T == INSTANCE Tty WITH
  Keys <- Stored, Ends <- {"\n", "^D"}, Bytes <- Writers,
  line <- Between(buf, INPUT_BUF_SIZE, w, e),
  ready <- Between(buf, INPUT_BUF_SIZE, r, w),
  out <- Between(txBuf, UART_TX_BUF_SIZE, txR, txW)

(* The rings of the console and of the UART, whose unsigned indices wrap,  *)
(* are the queues of module Tty: consoleintr() and consoleread() on one,   *)
(* and uartputc() and uartstart() on the other, never overwrite, lose,     *)
(* repeat or reorder a byte, and erasing never reaches what was ended.     *)
TtySpec == T!TtySpec

(* A reader that sleeps while there is ended input is woken.  Unless       *)
(* characters keep arriving for ever, whose echo then may keep the UART    *)
(* busy whenever uartstart() looks, output in the ring moves on, although  *)
(* nothing but the UART's interrupt restarts it, and the writers that      *)
(* sleep because the ring is full are woken.                               *)
Moving == txW = txR \/ hpc = "thr" \/ \E p \in Writers : wpc[p] = "thr"

ConsProgress ==
  /\ \A p \in Readers : (rpc[p] = "sleep" /\ r # w) ~> rpc[p] # "sleep"
  /\ []<>(rhr # <<>>) \/ ([]<>Moving /\ []<>(\A p \in Writers : wpc[p] # "sleep"))
=============================================================================
