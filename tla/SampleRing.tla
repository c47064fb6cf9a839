---------------------------- MODULE SampleRing ----------------------------
(***************************************************************************)
(* The sample buffer of project/src/ina219/ina219drv.c: a timer interrupt  *)
(* writes samples into a ring, websocket commands (tcpip thread) read      *)
(* blocks from it, and both the websocket and the console task start and   *)
(* stop the driver.  adc_ws.c has the same buffer and the same commands.   *)
(*                                                                         *)
(* Grain.  The interrupt handler runs to completion, and may come between  *)
(* any two steps of a task.  Whether taskDISABLE_INTERRUPTS in the reader  *)
(* keeps it out is the constant Masked: it raises BASEPRI to 5             *)
(* (FreeRTOSConfig.h:197), adc_ws.c's interrupt has priority 5 and is      *)
(* masked, gtimer_init gives ina219drv.c's timer priority 0                *)
(* (timer_api.c:67), which BASEPRI does not mask.  The console task has a  *)
(* lower priority than the tcpip thread, so a websocket command may come   *)
(* between two steps of a console command, never the other way round.      *)
(***************************************************************************)
EXTENDS Integers, Sequences, FiniteSets

CONSTANTS
  Client,    \* websockets that ask for data
  BufIdx,    \* buf_idx, the last index of the ring
  CountMod,  \* 2^16: count and overrun are unsigned short
  Masked,    \* does the reader's critical section keep the handler out?
  MaxTaken   \* bound: samples in one session

ASSUME RingAssumption ==
  /\ BufIdx \in Nat \ {0}
  /\ CountMod \in Nat \ {0}
  /\ Masked \in BOOLEAN
  /\ MaxTaken \in Nat

VARIABLES
  init,     \* -1, 0: stopped; 1: running
  status,   \* the state of the I2C sequence in ina_tick_handler
  timer,    \* does the timer interrupt fire?
  pbuf,     \* "null", "alloc", "freed" (dangling)
  buf,      \* the ring's memory
  tx, rx,   \* buf_tx, buf_rx
  count, overrun,
  ws,       \* the websocket command at work
  con,      \* the console command at work
  taken,    \* history: samples written in this session
  block,    \* history: the last block each client received in this session
  overlap,  \* history: a websocket command ran inside a console command
  wild      \* freed or NULL memory was used or freed: the model stops

ringVars == <<buf, tx, rx, overrun, taken>>
vars == <<init, status, timer, pbuf, ringVars, count, ws, con, block, overlap, wild>>

Slot == 0..BufIdx
Idle == [at |-> "idle"]
NoBlock == [idx |-> 0, data |-> <<>>]
ConStates == {"idle", "alloc", "reset", "timer", "up", "stop", "null", "off"}

Init ==
  /\ init = 0 /\ status = 0 /\ timer = FALSE /\ pbuf = "null"
  /\ buf = [s \in Slot |-> 0] /\ tx = 0 /\ rx = 0
  /\ count = 0 /\ overrun = 0
  /\ ws = Idle /\ con = "idle"
  /\ taken = 0 /\ block = [w \in Client |-> NoBlock]
  /\ overlap = FALSE /\ wild = FALSE

(***************************************************************************)
(* Operators marked "mutant" are plausible bugs in the operator that       *)
(* follows them.  No action uses them; PROJECT.json says which property    *)
(* notices which.                                                          *)
(***************************************************************************)
\* mutant: the comparison is > where the code has >=
StepOffByOne(s) == IF s > BufIdx THEN 0 ELSE s + 1

Step(s) == IF s >= BufIdx THEN 0 ELSE s + 1

\* the i-th slot from s on
At(s, i) == IF s + i > BufIdx THEN s + i - (BufIdx + 1) ELSE s + i

\* ina219_chkdata without its cap
Avail == IF tx < rx THEN tx - rx + BufIdx + 1 ELSE tx - rx

\* mutant: a full ring counts the overrun and keeps buf_rx
PushKeepsRx ==
  /\ buf' = [buf EXCEPT ![tx] = taken]
  /\ tx' = Step(tx)
  /\ overrun' = IF rx = Step(tx) THEN (overrun + 1) % CountMod ELSE overrun
  /\ rx' = rx
  /\ taken' = taken + 1

Push ==
  /\ buf' = [buf EXCEPT ![tx] = taken]
  /\ tx' = Step(tx)
  /\ IF rx = Step(tx)
     THEN overrun' = (overrun + 1) % CountMod /\ rx' = Step(rx)
     ELSE UNCHANGED <<overrun, rx>>
  /\ taken' = taken + 1

\* ina_tick_handler, state 4 without a transmit abort
Sample ==
  /\ status = 4 /\ status' = 4
  /\ \/ pbuf = "alloc" /\ taken < MaxTaken /\ Push /\ wild' = wild
     \/ pbuf = "null" /\ UNCHANGED <<ringVars, wild>>
     \/ pbuf = "freed" /\ wild' = TRUE /\ UNCHANGED ringVars

Tick ==
  /\ timer
  /\ \/ status < 4 /\ status' = status + 1 /\ UNCHANGED <<ringVars, wild>>
     \/ status = 4 /\ status' = 0 /\ UNCHANGED <<ringVars, wild>>   \* TX_ABRT
     \/ Sample
  /\ UNCHANGED <<init, timer, pbuf, count, ws, con, block, overlap>>

----------------------------------------------------------------------------
(* Websocket commands: ina219_ws in the tcpip thread.                      *)

Arrives == ws = Idle /\ overlap' = (overlap \/ con # "idle")

\* A new session: a zeroed ring; blocks sent before say nothing of it.
EmptyRing ==
  /\ buf' = [s \in Slot |-> 0]
  /\ tx' = 0 /\ rx' = 0 /\ taken' = 0
  /\ block' = [w \in Client |-> NoBlock]

\* any letter that is no command of its own, while the driver is stopped
WsStart(w) ==
  /\ Arrives /\ init <= 0
  /\ status' = 0 /\ count' = 0 /\ overrun' = 0
  /\ IF pbuf = "null"
     THEN \/ EmptyRing /\ pbuf' = "alloc" /\ timer' = TRUE /\ init' = 1
             /\ ws' = [at |-> "check", client |-> w]
          \/ UNCHANGED <<buf, tx, rx, taken, block, pbuf, timer, init, ws>>  \* zalloc fails
     ELSE /\ timer' = TRUE /\ init' = 1 /\ ws' = [at |-> "check", client |-> w]
          /\ UNCHANGED <<buf, tx, rx, taken, block, pbuf>>
  /\ UNCHANGED <<con, wild>>

\* how many samples the block is to hold: all that wait, or what msgbuf takes
Chosen(w) ==
  IF init <= 0 \/ Avail = 0
  THEN ws' = Idle
  ELSE \E n \in 1..Avail : ws' = [at |-> "get", client |-> w, cnt |-> n]

WsCheck(w) ==
  /\ \/ Arrives
     \/ ws = [at |-> "check", client |-> w] /\ overlap' = overlap
  /\ Chosen(w)
  /\ UNCHANGED <<init, status, timer, pbuf, ringVars, count, con, block, wild>>

\* mutant: the index of a block leaves the lost samples out
HeadIndexCountOnly == count % CountMod

HeadIndex == (count + overrun) % CountMod

Advance(from, n) == IF from + n > BufIdx THEN from + n - (BufIdx + 1) ELSE from + n

\* mutant: the part that wrapped is copied first
ReadSwapped(from, n) ==
  LET lend == IF from + n > BufIdx THEN from + n - (BufIdx + 1) ELSE 0
  IN  [i \in 1..n |-> IF i <= lend THEN buf[i - 1] ELSE buf[from + i - lend - 1]]

\* the n samples that the two memcpy take
Read(from, n) == [i \in 1..n |-> buf[At(from, i - 1)]]

\* ina219_getdata once it has read buf_rx and the index, and websock_tx_frame
Copy(from, idx) ==
  /\ ws' = Idle
  /\ IF pbuf = "alloc"
     THEN /\ count' = (count + ws.cnt) % CountMod
          /\ rx' = Advance(from, ws.cnt)
          /\ \/ block' = [block EXCEPT ![ws.client] = [idx |-> idx, data |-> Read(from, ws.cnt)]]
             \/ block' = [block EXCEPT ![ws.client] = NoBlock]    \* not sent: disconnected
          /\ wild' = wild
     ELSE wild' = TRUE /\ UNCHANGED <<count, rx, block>>
  /\ UNCHANGED <<init, status, timer, pbuf, buf, tx, overrun, taken, con, overlap>>

\* the handler is kept out: one step
WsGet == Masked /\ ws.at = "get" /\ Copy(rx, HeadIndex)

\* the handler may come between
WsEnter ==
  /\ ~Masked /\ ws.at = "get"
  /\ ws' = [at |-> "copy", client |-> ws.client, cnt |-> ws.cnt, from |-> rx, idx |-> HeadIndex]
  /\ UNCHANGED <<init, status, timer, pbuf, ringVars, count, con, block, overlap, wild>>

WsLeave == ~Masked /\ ws.at = "copy" /\ Copy(ws.from, ws.idx)

\* mutant: the buffer is freed and the timer left running
WsStopLeavesTimer ==
  /\ Arrives /\ init > 0
  /\ init' = -1
  /\ pbuf' = IF pbuf = "null" THEN "null" ELSE "freed"
  /\ UNCHANGED <<timer, status, ringVars, count, ws, con, block, wild>>

\* 'd'
WsStop ==
  /\ Arrives /\ init > 0
  /\ timer' = FALSE /\ pbuf' = "null" /\ init' = -1
  /\ wild' = (pbuf = "freed")    \* freed twice
  /\ UNCHANGED <<status, ringVars, count, ws, con, block>>

----------------------------------------------------------------------------
(* Console commands: ATINA=1 (ina219_init), ATINA=0 (ina219_deinit).       *)

\* the console task runs only while no websocket command does
ConStep(from, to) == ws = Idle /\ con = from /\ con' = to

ConInit ==
  /\ init <= 0
  /\ ConStep("idle", IF pbuf = "null" THEN "alloc" ELSE "timer")
  /\ status' = 0 /\ count' = 0
  /\ UNCHANGED <<init, timer, pbuf, ringVars, ws, block, overlap, wild>>

ConAlloc ==
  /\ \/ ConStep("alloc", "reset") /\ pbuf' = "alloc" /\ buf' = [s \in Slot |-> 0]
     \/ ConStep("alloc", "idle") /\ UNCHANGED <<pbuf, buf>>   \* zalloc fails
  /\ UNCHANGED <<init, status, timer, tx, rx, overrun, taken, count, ws, block, overlap, wild>>

\* buf_tx and buf_rx; overrun keeps its value
ConReset ==
  /\ ConStep("reset", "timer")
  /\ tx' = 0 /\ rx' = 0 /\ taken' = 0
  /\ block' = [w \in Client |-> NoBlock]
  /\ UNCHANGED <<init, status, timer, pbuf, buf, overrun, count, ws, overlap, wild>>

ConTimer ==
  /\ ConStep("timer", "up") /\ timer' = TRUE
  /\ UNCHANGED <<init, status, pbuf, ringVars, count, ws, block, overlap, wild>>

ConUp ==
  /\ ConStep("up", "idle") /\ init' = 1
  /\ UNCHANGED <<status, timer, pbuf, ringVars, count, ws, block, overlap, wild>>

ConDeinit ==
  /\ IF init > 0
     THEN ConStep("idle", "stop") /\ timer' = FALSE /\ init' = init
     ELSE ConStep("idle", "idle") /\ init' = 0 /\ timer' = timer
  /\ UNCHANGED <<status, pbuf, ringVars, count, ws, block, overlap, wild>>

\* free(pbuf)
ConFree ==
  /\ ConStep("stop", IF pbuf = "null" THEN "off" ELSE "null")
  /\ pbuf' = IF pbuf = "null" THEN "null" ELSE "freed"
  /\ UNCHANGED <<init, status, timer, ringVars, count, ws, block, overlap, wild>>

\* pbuf = NULL
ConNull ==
  /\ ConStep("null", "off") /\ pbuf' = "null"
  /\ UNCHANGED <<init, status, timer, ringVars, count, ws, block, overlap, wild>>

ConOff ==
  /\ ConStep("off", "idle") /\ init' = 0
  /\ UNCHANGED <<status, timer, pbuf, ringVars, count, ws, block, overlap, wild>>

----------------------------------------------------------------------------
Websocket == WsGet \/ WsEnter \/ WsLeave \/ WsStop \/ \E w \in Client : WsStart(w) \/ WsCheck(w)
Console == ConInit \/ ConAlloc \/ ConReset \/ ConTimer \/ ConUp \/ ConDeinit \/ ConFree \/ ConNull \/ ConOff

Next == ~wild /\ (Tick \/ Websocket \/ Console)

Spec == Init /\ [][Next]_vars

----------------------------------------------------------------------------
WsStates ==
  {Idle} \union [at : {"check"}, client : Client]
         \union [at : {"get"}, client : Client, cnt : 1..BufIdx]
         \union [at : {"copy"}, client : Client, cnt : 1..BufIdx, from : Slot, idx : 0..(CountMod - 1)]

\* Whatever overlaps, both indices stay inside the ring, and no block is
\* asked for that is longer than it.
TypeOK ==
  /\ init \in {-1, 0, 1} /\ status \in 0..4 /\ timer \in BOOLEAN
  /\ pbuf \in {"null", "alloc", "freed"}
  /\ buf \in [Slot -> Nat] /\ tx \in Slot /\ rx \in Slot
  /\ count \in 0..(CountMod - 1) /\ overrun \in 0..(CountMod - 1)
  /\ ws \in WsStates /\ con \in ConStates
  /\ taken \in Nat
  /\ block \in [Client -> [idx : 0..(CountMod - 1), data : Seq(Nat)]]
  /\ overlap \in BOOLEAN /\ wild \in BOOLEAN

\* The buffer is touched only while it is allocated, unless a websocket
\* command came inside a console command (ina219_deinit frees the buffer
\* first and clears init last).
FreedOnlyOnOverlap == wild => overlap

\* A block that a client receives is a run of consecutive samples: nothing
\* the interrupt does between the count and the copy tears it.
BlockIsRun ==
  ~overlap => \A w \in Client : LET d == block[w].data IN
                \A i \in 1..(Len(d) - 1) : d[i + 1] = d[i] + 1

\* "sample index for the analysis of gaps at the receiver" (ina219drv.c:173):
\* between two blocks of a session the index grows by the length of the
\* first and the number of samples this client did not get, modulo 2^16.
GapIsShown ==
  [][\A w \in Client :
       LET old == block[w]
           new == block'[w]
       IN  ~overlap' /\ old.data # <<>> /\ new.data # <<>> /\ new # old
             => (new.idx - old.idx) % CountMod = (new.data[1] - old.data[1]) % CountMod]_vars

\* The refinement mapping: the samples that wait, as a reader sees them.
Session == pbuf = "alloc" /\ con # "reset"
Queue == IF Session THEN Read(rx, Avail) ELSE <<>>
NextSample == IF Session THEN taken ELSE 0

Fifo == INSTANCE LossyFifo WITH
  Cap <- BufIdx, queue <- Queue, next <- NextSample, broken <- overlap

\* The ring keeps the promise of a lossy queue of buf_idx samples.
ImplementsFifo == Fifo!FifoSpec
=============================================================================
