----------------------------- MODULE LossyFifo -----------------------------
(***************************************************************************)
(* What the sample buffer of a measuring driver (ina219drv.c, adc_ws.c)    *)
(* promises its reader: a queue of at most Cap samples, in the order they  *)
(* were taken, from which only the oldest are lost and only when it is     *)
(* full.  A sample is its number, counted from the start of the session.   *)
(*                                                                         *)
(* The promise ends when broken becomes TRUE.                              *)
(***************************************************************************)
EXTENDS Naturals, Sequences

CONSTANT Cap   \* the most samples that can wait, at least 1

VARIABLES
  queue,   \* the samples that wait, oldest first
  next,    \* the number of the next sample
  broken

fifoVars == <<queue, next, broken>>

FifoInit == queue = <<>> /\ next = 0 /\ broken = FALSE

\* A sample is taken; a full queue gives up its oldest.
Put ==
  /\ queue' = IF Len(queue) = Cap THEN Append(Tail(queue), next) ELSE Append(queue, next)
  /\ next' = next + 1
  /\ broken' = broken

\* The reader takes n samples.
Take(n) ==
  /\ n <= Len(queue)
  /\ queue' = SubSeq(queue, n + 1, Len(queue))
  /\ UNCHANGED <<next, broken>>

\* The driver is stopped or started.
Reset == queue' = <<>> /\ next' = 0 /\ broken' = broken

FifoNext ==
  \/ Put
  \/ \E n \in 1..Cap : Take(n)
  \/ Reset
  \/ broken'

FifoSpec == FifoInit /\ [][FifoNext]_fifoVars
=============================================================================
