------------------------------ MODULE Console -------------------------------
(***************************************************************************)
(* The console (kernel/console.c) and the UART driver (kernel/uart.c):     *)
(* typed characters go through uartintr() and consoleintr() to the lines   *)
(* that consoleread() returns; consolewrite() goes through the transmit    *)
(* buffer; echo and printf() write to the UART directly.  A test of the    *)
(* UART's status and the write that follows are two steps.                 *)
(***************************************************************************)
EXTENDS Integers, FiniteSets

CONSTANTS
  Reader, Writer,       \* threads in consoleread(), in consolewrite()
  Byte,                 \* what is written
  INPUT_BUF, UART_TX_BUF_SIZE,
  Word,                 \* the indices are modulo Word (2^32 or 2^64)
  MaxN,                 \* bound on the size of a read or a write
  FifoSize,             \* characters the UART's transmit FIFO holds
  None,
  Loads                 \* [keys, threads, killable, printf]: what happens

ASSUME ConsoleAssumption ==
  /\ {INPUT_BUF, UART_TX_BUF_SIZE, Word, MaxN, FifoSize} \subseteq Nat \ {0}
  /\ 0 \in Byte /\ INPUT_BUF < Word /\ Word % INPUT_BUF = 0
  /\ UART_TX_BUF_SIZE < Word /\ Word % UART_TX_BUF_SIZE = 0

Thread == Reader \cup Writer

\* Classes of characters: "a" is an ordinary one.
Key == {"a", "nl", "cr", "eof", "bs", "kill", "dump", "nul"}
Char == {"a", "nl", "eof"}

VARIABLES
  load,
  rx,                   \* the UART's receive register
  fifo,                 \* characters in its transmit FIFO
  irq,                  \* it has become empty: interrupt
  ipc, key, echo,       \* uartintr(): place, character, characters to echo
  ppc,                  \* printf(): place
  conslock, buf, r, w, e,               \* struct cons
  txlock, txbuf, txr, txw, start,       \* the transmit buffer; uartstart()
  pc, left,             \* per thread: place, characters to go
  fresh,                \* the read has not returned a character yet
  killed

inVars == <<conslock, buf, r, w, e>>
txVars == <<txlock, txbuf, txr, txw, start>>
intrVars == <<ipc, key, echo>>
thrVars == <<pc, left, fresh, killed>>
vars == <<load, rx, fifo, irq, intrVars, ppc, inVars, txVars, thrVars>>

\* Every variable has its type.
TypeOK ==
  /\ load \in Loads /\ rx \in Key \cup {None} /\ fifo \in Nat /\ irq \in BOOLEAN
  /\ ipc \in {"idle", "getc", "cons", "spin", "send", "txacquire", "start"}
  /\ key \in Key \cup {None} /\ echo \in 0..(3 * INPUT_BUF)
  /\ ppc \in {"idle", "send"}
  /\ conslock \in Reader \cup {None, "intr"}
  /\ buf \in [0..(INPUT_BUF - 1) -> Char]
  /\ {r, w, e, txr, txw} \subseteq 0..(Word - 1)
  /\ txlock \in Writer \cup {None, "intr"}
  /\ txbuf \in [0..(UART_TX_BUF_SIZE - 1) -> Byte]
  /\ start \in {"none", "check", "send"}
  /\ pc \in [Thread -> {"idle", "acquire", "loop", "asleep", "start"}]
  /\ left \in [Thread -> 0..MaxN]
  /\ fresh \in [Reader -> BOOLEAN] /\ killed \in [Reader -> BOOLEAN]

\* After consoleinit() and uartinit().
Init ==
  /\ load \in Loads
  /\ rx = None /\ fifo = 0 /\ irq = FALSE
  /\ ipc = "idle" /\ key = None /\ echo = 0 /\ ppc = "idle"
  /\ conslock = None /\ buf = [i \in 0..(INPUT_BUF - 1) |-> "a"]
  /\ r = 0 /\ w = 0 /\ e = 0
  /\ txlock = None /\ start = "none" /\ txr = 0 /\ txw = 0
  /\ txbuf = [i \in 0..(UART_TX_BUF_SIZE - 1) |-> 0]
  /\ pc = [t \in Thread |-> "idle"] /\ left = [t \in Thread |-> 0]
  /\ fresh = [t \in Reader |-> TRUE] /\ killed = [t \in Reader |-> FALSE]

\* wakeup() of the sleepers of S, in the places p of the threads.
Wakeup(p, S) ==
  [t \in Thread |-> IF t \in S /\ p[t] = "asleep" THEN "acquire" ELSE p[t]]

\* The distance from index i to index j.
Dist(i, j) == (j - i) % Word

-----------------------------------------------------------------------------
(* The UART and the interrupt *)

\* A key is hit; the next one comes when this one has been handled.
Type(c) ==
  /\ rx = None /\ key = None /\ c \in load.keys
  /\ rx' = c
  /\ UNCHANGED <<load, fifo, irq, intrVars, ppc, inVars, txVars, thrVars>>

Transmit ==
  /\ fifo > 0
  /\ fifo' = fifo - 1
  /\ irq' = (irq \/ fifo = 1)
  /\ UNCHANGED <<load, rx, intrVars, ppc, inVars, txVars, thrVars>>

\* The PLIC gives the interrupt to one CPU at a time.
Interrupt ==
  /\ ipc = "idle" /\ (rx # None \/ irq)
  /\ irq' = FALSE
  /\ ipc' = "getc"
  /\ UNCHANGED <<load, rx, fifo, key, echo, ppc, inVars, txVars, thrVars>>

\* Mutant of uartgetc: the handler is done when there is no input.
UartgetcLeaves ==
  /\ ipc = "getc"
  /\ key' = rx /\ rx' = None
  /\ ipc' = IF rx = None THEN "idle" ELSE "cons"
  /\ UNCHANGED <<load, fifo, irq, echo, ppc, inVars, txVars, thrVars>>

uartgetc ==
  /\ ipc = "getc"
  /\ key' = rx /\ rx' = None
  /\ ipc' = IF rx = None THEN "txacquire" ELSE "cons"
  /\ UNCHANGED <<load, fifo, irq, echo, ppc, inVars, txVars, thrVars>>

-----------------------------------------------------------------------------
(* consoleintr *)

Accepted(c) == c \in Char \cup {"cr"} /\ Dist(r, e) < INPUT_BUF

\* How far ^U goes back: to the last newline, or to cons.w.
LineLength ==
  Cardinality({k \in 1..Dist(w, e) :
                 \A j \in 1..k : buf[(e - j) % INPUT_BUF] # "nl"})

\* Mutant of Erased: the line that was entered can be erased too.
ErasedFromRead(c) ==
  CASE c = "bs" /\ e # r -> 1 [] c = "kill" -> LineLength [] OTHER -> 0

\* How many characters are erased.
Erased(c) ==
  CASE c = "bs" /\ e # w -> 1 [] c = "kill" -> LineLength [] OTHER -> 0

\* The handler takes cons.lock and knows what it has to echo: a character,
\* "\b \b" for each erased one, or the process list.
ConsAcquire ==
  /\ ipc = "cons" /\ conslock = None
  /\ conslock' = "intr"
  /\ echo' = IF Accepted(key) \/ key = "dump" THEN 1 ELSE 3 * Erased(key)
  /\ ipc' = "spin"
  /\ UNCHANGED <<load, rx, fifo, irq, key, ppc, buf, r, w, e, txVars, thrVars>>

\* uartputc_sync() spins until the UART is idle, and then writes.
EchoSpin ==
  /\ ipc = "spin" /\ echo > 0 /\ fifo = 0
  /\ ipc' = "send"
  /\ UNCHANGED <<load, rx, fifo, irq, key, echo, ppc, inVars, txVars, thrVars>>

EchoSend ==
  /\ ipc = "send"
  /\ fifo' = fifo + 1 /\ echo' = echo - 1
  /\ ipc' = "spin"
  /\ UNCHANGED <<load, rx, irq, key, ppc, inVars, txVars, thrVars>>

\* The character c ends a line, or fills the buffer.
Entered(c) ==
  c \in {"nl", "eof"} \/ (e + 1) % Word = (r + INPUT_BUF) % Word

Translated(c) == IF c = "cr" THEN "nl" ELSE c

\* Mutant of consoleintr: wakeup(&cons.r) is missing.
ConsoleintrQuiet ==
  /\ ipc = "spin" /\ echo = 0
  /\ LET c == Translated(key) IN
       IF Accepted(key)
         THEN /\ buf' = [buf EXCEPT ![e % INPUT_BUF] = c]
              /\ e' = (e + 1) % Word
              /\ w' = IF Entered(c) THEN e' ELSE w
         ELSE e' = (e - Erased(key)) % Word /\ UNCHANGED <<buf, w>>
  /\ conslock' = None /\ key' = None /\ ipc' = "getc"
  /\ UNCHANGED <<load, rx, fifo, irq, echo, ppc, r, txVars, thrVars>>

\* The echo is out: the buffer is changed, a reader of a whole line woken,
\* and cons.lock released.
consoleintr ==
  /\ ipc = "spin" /\ echo = 0
  /\ LET c == Translated(key) IN
       IF Accepted(key)
         THEN /\ buf' = [buf EXCEPT ![e % INPUT_BUF] = c]
              /\ e' = (e + 1) % Word
              /\ w' = IF Entered(c) THEN e' ELSE w
              /\ pc' = IF Entered(c) THEN Wakeup(pc, Reader) ELSE pc
         ELSE e' = (e - Erased(key)) % Word /\ UNCHANGED <<buf, w, pc>>
  /\ conslock' = None /\ key' = None /\ ipc' = "getc"
  /\ UNCHANGED <<load, rx, fifo, irq, echo, ppc, r, txVars, left, fresh, killed>>

-----------------------------------------------------------------------------
(* consoleread *)

\* A read or a write of n characters enters the kernel.
Call(t, n) ==
  /\ pc[t] = "idle" /\ t \in load.threads
  /\ pc' = [pc EXCEPT ![t] = "acquire"]
  /\ left' = [left EXCEPT ![t] = n]
  /\ UNCHANGED <<load, rx, fifo, irq, intrVars, ppc, inVars, txVars, fresh,
                 killed>>

ReadAcquire(t) ==
  /\ pc[t] = "acquire" /\ conslock = None
  /\ conslock' = t
  /\ pc' = [pc EXCEPT ![t] = "loop"]
  /\ UNCHANGED <<load, rx, fifo, irq, intrVars, ppc, buf, r, w, e, txVars,
                 left, fresh, killed>>

\* t releases cons.lock and goes to l.
ReadLeave(t, l) ==
  /\ conslock' = None
  /\ pc' = [pc EXCEPT ![t] = l]
  /\ left' = [left EXCEPT ![t] = IF l = "idle" THEN 0 ELSE @]
  /\ fresh' = [fresh EXCEPT ![t] = @ \/ l = "idle"]

\* Nothing to read: return -1 when killed, sleep otherwise.
ReadWait(t) ==
  /\ pc[t] = "loop" /\ left[t] > 0 /\ r = w
  /\ ReadLeave(t, IF killed[t] THEN "idle" ELSE "asleep")
  /\ UNCHANGED <<load, rx, fifo, irq, intrVars, ppc, buf, r, w, e, txVars,
                 killed>>

\* A ^D ends the read; it stays for the next read when this one has
\* returned something.
ReadEof(t) ==
  /\ pc[t] = "loop" /\ left[t] > 0 /\ r # w /\ buf[r % INPUT_BUF] = "eof"
  /\ r' = IF fresh[t] THEN (r + 1) % Word ELSE r
  /\ ReadLeave(t, "idle")
  /\ UNCHANGED <<load, rx, fifo, irq, intrVars, ppc, buf, w, e, txVars,
                 killed>>

\* A character is read; the read ends after a line, or when either_copyout()
\* fails.
ReadChar(t) ==
  /\ pc[t] = "loop" /\ left[t] > 0 /\ r # w /\ buf[r % INPUT_BUF] # "eof"
  /\ r' = (r + 1) % Word
  /\ \/ ReadLeave(t, "idle")
     \/ /\ buf[r % INPUT_BUF] # "nl"
        /\ left' = [left EXCEPT ![t] = @ - 1]
        /\ fresh' = [fresh EXCEPT ![t] = FALSE]
        /\ UNCHANGED <<conslock, pc>>
  /\ UNCHANGED <<load, rx, fifo, irq, intrVars, ppc, buf, w, e, txVars, killed>>

ReadDone(t) ==
  /\ pc[t] = "loop" /\ left[t] = 0
  /\ ReadLeave(t, "idle")
  /\ UNCHANGED <<load, rx, fifo, irq, intrVars, ppc, buf, r, w, e, txVars,
                 killed>>

Kill(t) ==
  /\ ~killed[t] /\ t \in load.killable
  /\ killed' = [killed EXCEPT ![t] = TRUE]
  /\ UNCHANGED <<load, rx, fifo, irq, intrVars, ppc, inVars, txVars, pc, left,
                 fresh>>

consoleread(t) ==
  ReadAcquire(t) \/ ReadWait(t) \/ ReadEof(t) \/ ReadChar(t) \/ ReadDone(t)

-----------------------------------------------------------------------------
(* consolewrite, uartputc, uartstart *)

\* Mutant of TxFull: one character too many fits.
TxFullLate == Dist(txr, txw) = UART_TX_BUF_SIZE + 1

TxFull == Dist(txr, txw) = UART_TX_BUF_SIZE

\* All is written, or either_copyin() fails.
WriteDone(t) ==
  /\ pc[t] = "acquire"
  /\ pc' = [pc EXCEPT ![t] = "idle"]
  /\ left' = [left EXCEPT ![t] = 0]
  /\ UNCHANGED <<load, rx, fifo, irq, intrVars, ppc, inVars, txVars, fresh,
                 killed>>

\* The rest of uartputc() while the buffer is full.
TxSleep(t) ==
  /\ pc[t] = "acquire" /\ left[t] > 0 /\ txlock = None /\ TxFull
  /\ pc' = [pc EXCEPT ![t] = "asleep"]
  /\ UNCHANGED <<load, rx, fifo, irq, intrVars, ppc, inVars, txVars, left,
                 fresh, killed>>

\* uartputc() up to its call of uartstart().
uartputc(t) ==
  /\ pc[t] = "acquire" /\ left[t] > 0 /\ txlock = None /\ ~TxFull
  /\ txlock' = t
  /\ \E c \in Byte : txbuf' = [txbuf EXCEPT ![txw % UART_TX_BUF_SIZE] = c]
  /\ txw' = (txw + 1) % Word
  /\ left' = [left EXCEPT ![t] = @ - 1]
  /\ pc' = [pc EXCEPT ![t] = "start"]
  /\ start' = "check"
  /\ UNCHANGED <<load, rx, fifo, irq, intrVars, ppc, inVars, txr, fresh, killed>>

\* uartintr() goes on to uartstart().
TxAcquire ==
  /\ ipc = "txacquire" /\ txlock = None
  /\ txlock' = "intr"
  /\ start' = "check"
  /\ ipc' = "start"
  /\ UNCHANGED <<load, rx, fifo, irq, key, echo, ppc, inVars, txbuf, txr, txw,
                 thrVars>>

\* Nothing to send, or the UART is busy.
CannotSend == txw = txr \/ fifo # 0

\* uartstart() returns and its caller releases uart_tx_lock.
StartReturn ==
  /\ start = "check" /\ CannotSend
  /\ start' = "none" /\ txlock' = None
  /\ ipc' = IF txlock = "intr" THEN "idle" ELSE ipc
  /\ pc' = [t \in Thread |-> IF t = txlock THEN "acquire" ELSE pc[t]]
  /\ UNCHANGED <<load, rx, fifo, irq, key, echo, ppc, inVars, txbuf, txr, txw,
                 left, fresh, killed>>

\* The next character leaves the buffer, and writers are woken.
uartstart ==
  /\ start = "check" /\ ~CannotSend
  /\ txr' = (txr + 1) % Word
  /\ pc' = Wakeup(pc, Writer)
  /\ start' = "send"
  /\ UNCHANGED <<load, rx, fifo, irq, intrVars, ppc, inVars, txlock, txbuf,
                 txw, left, fresh, killed>>

StartSend ==
  /\ start = "send"
  /\ fifo' = fifo + 1
  /\ start' = "check"
  /\ UNCHANGED <<load, rx, irq, intrVars, ppc, inVars, txlock, txbuf, txr, txw,
                 thrVars>>

\* A kernel printf(), under its own lock: it spins, and then writes.
PrintfSpin ==
  /\ load.printf /\ ppc = "idle" /\ fifo = 0
  /\ ppc' = "send"
  /\ UNCHANGED <<load, rx, fifo, irq, intrVars, inVars, txVars, thrVars>>

PrintfSend ==
  /\ ppc = "send"
  /\ fifo' = fifo + 1
  /\ ppc' = "idle"
  /\ UNCHANGED <<load, rx, irq, intrVars, inVars, txVars, thrVars>>

uartintr ==
  \/ Interrupt \/ uartgetc \/ ConsAcquire \/ EchoSpin \/ EchoSend
  \/ consoleintr \/ TxAcquire

consolewrite(t) == WriteDone(t) \/ TxSleep(t) \/ uartputc(t)

Next ==
  \/ \E c \in Key : Type(c)
  \/ Transmit \/ uartintr \/ StartReturn \/ uartstart \/ StartSend
  \/ PrintfSpin \/ PrintfSend
  \/ \E t \in Thread, n \in 0..MaxN : Call(t, n)
  \/ \E t \in Reader : consoleread(t) \/ Kill(t)
  \/ \E t \in Writer : consolewrite(t)

Spec == Init /\ [][Next]_vars

-----------------------------------------------------------------------------
(* Properties *)

\* What the n characters from index i on are, in the buffer b of size m.
Stored(b, m, i, n) == [k \in 1..n |-> b[(i + k - 1) % m]]

Input == INSTANCE LineInput WITH
  line <- Stored(buf, INPUT_BUF, r, Dist(r, w)),
  edit <- Stored(buf, INPUT_BUF, w, Dist(w, e))

\* Readers get the lines as they were typed and edited: nothing that was
\* entered is erased, overwritten or read twice, also when indices wrap.
ImplementsLineInput == Input!InputSpec

Output == INSTANCE ByteQueue WITH
  q <- Stored(txbuf, UART_TX_BUF_SIZE, txr, Dist(txr, txw)),
  PIPESIZE <- UART_TX_BUF_SIZE

\* The transmit buffer is a FIFO queue, shared by writers and the interrupt.
ImplementsTxQueue == Output!QueueSpec

\* A reader sleeps only while no line is there, a writer only while the
\* transmit buffer is full.
SleepersMustWait ==
  \A t \in Thread :
    pc[t] = "asleep" => IF t \in Reader THEN r = w ELSE TxFull

\* Output does not stall: while there is something to send, the UART is
\* busy, or its interrupt is to come, or uartintr() is on its way to
\* uartstart().
OutputGoesOn ==
  txr # txw /\ txlock = None => fifo > 0 \/ irq \/ ipc # "idle"

=============================================================================
