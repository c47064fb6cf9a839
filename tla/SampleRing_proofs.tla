------------------------- MODULE SampleRing_proofs -------------------------
(***************************************************************************)
(* Proofs about SampleRing, for a ring of any size and any number of       *)
(* clients.  The indices stay in range whatever handler and commands do to *)
(* each other.  As long as no websocket command comes inside a console     *)
(* command the ring implements LossyFifo, touches the buffer only while it *)
(* is allocated, and hands out runs of consecutive samples whose index     *)
(* shows what was missed: the argument is the invariant RingInv, which     *)
(* phase of which command goes with which state of the buffer and the      *)
(* timer, RunInv, what the ring holds, and GapInv, that the index and the  *)
(* oldest sample move on together.                                         *)
(***************************************************************************)
EXTENDS SampleRing, SequenceTheorems, TLAPS

----------------------------------------------------------------------------
(* Arithmetic of the ring.                                                 *)

\* BufIdx is at least 1.
LEMMA BufIdxNat == BufIdx \in Nat /\ BufIdx >= 1
  BY RingAssumption

\* The slots are closed under Step and At.
LEMMA StepSlot == ASSUME NEW s \in Slot PROVE Step(s) \in Slot
  BY BufIdxNat DEF Step, Slot

LEMMA AtSlot == ASSUME NEW s \in Slot, NEW i \in Slot PROVE At(s, i) \in Slot
  BY BufIdxNat DEF At, Slot

\* Whatever the indices are, at most buf_idx samples wait.
LEMMA AvailRange ==
  ASSUME tx \in Slot, rx \in Slot
  PROVE  Avail \in 0..BufIdx
  BY BufIdxNat DEF Avail, Slot

\* A reduced counter is in range.
LEMMA ModRange ==
  ASSUME NEW a \in Nat
  PROVE  a % CountMod \in 0..(CountMod - 1)
  BY RingAssumption

----------------------------------------------------------------------------
(* Type correctness.                                                       *)

\* What a reader takes is a sequence of samples.
LEMMA ReadType ==
  ASSUME TypeOK, NEW from \in Slot, NEW n \in 0..BufIdx
  PROVE  Read(from, n) \in Seq(Nat)
<1>1. ASSUME NEW i \in 1..n PROVE buf[At(from, i - 1)] \in Nat
  <2>1. i - 1 \in Slot
    BY <1>1, BufIdxNat DEF Slot
  <2>2. At(from, i - 1) \in Slot
    BY <2>1, AtSlot
  <2>3. QED
    BY <2>2 DEF TypeOK
<1>2. Read(from, n) \in [1..n -> Nat]
  BY <1>1 DEF Read
<1>3. n \in Nat
  BY BufIdxNat
<1>4. QED
  BY <1>2, <1>3

\* The ring takes a sample and keeps its types.
LEMMA PushType ==
  ASSUME TypeOK, Push
  PROVE  /\ buf' \in [Slot -> Nat] /\ tx' \in Slot /\ rx' \in Slot
         /\ overrun' \in 0..(CountMod - 1) /\ taken' \in Nat
<1>1. overrun + 1 \in Nat
  BY RingAssumption DEF TypeOK
<1>2. (overrun + 1) % CountMod \in 0..(CountMod - 1)
  BY <1>1, ModRange
<1>3. Step(tx) \in Slot /\ Step(rx) \in Slot
  BY StepSlot DEF TypeOK
<1>4. QED
  BY <1>2, <1>3 DEF TypeOK, Push

\* A zeroed ring has the right type.
LEMMA EmptyType ==
  ASSUME TypeOK
  PROVE  /\ [s \in Slot |-> 0] \in [Slot -> Nat]
         /\ 0 \in Slot /\ 0 \in Nat /\ 0 \in 0..(CountMod - 1)
         /\ [w \in Client |-> NoBlock] \in [Client -> [idx : 0..(CountMod - 1), data : Seq(Nat)]]
<1>1. 0 \in Slot /\ 0 \in 0..(CountMod - 1)
  BY BufIdxNat, RingAssumption DEF Slot
<1>2. <<>> \in Seq(Nat)
  OBVIOUS
<1>3. NoBlock \in [idx : 0..(CountMod - 1), data : Seq(Nat)]
  BY <1>1, <1>2 DEF NoBlock
<1>4. QED
  BY <1>1, <1>3

LEMMA TypeInit == Init => TypeOK
<1>1. SUFFICES ASSUME Init PROVE TypeOK
  OBVIOUS
<1>2. 0 \in Slot /\ 0 \in 0..(CountMod - 1)
  BY BufIdxNat, RingAssumption DEF Slot
<1>3. <<>> \in Seq(Nat)
  OBVIOUS
<1>4. NoBlock \in [idx : 0..(CountMod - 1), data : Seq(Nat)]
  BY <1>2, <1>3 DEF NoBlock
<1>5. [w \in Client |-> NoBlock] \in [Client -> [idx : 0..(CountMod - 1), data : Seq(Nat)]]
  BY <1>4
<1>6. Idle \in WsStates
  BY DEF WsStates
<1>7. [s \in Slot |-> 0] \in [Slot -> Nat]
  OBVIOUS
<1>8. /\ init \in {-1, 0, 1} /\ status \in 0..4
      /\ pbuf \in {"null", "alloc", "freed"} /\ con \in ConStates
  BY <1>1 DEF Init, ConStates
<1>9. timer \in BOOLEAN /\ overlap \in BOOLEAN /\ wild \in BOOLEAN
  BY <1>1 DEF Init
<1>10. /\ buf \in [Slot -> Nat] /\ tx \in Slot /\ rx \in Slot /\ taken \in Nat
      /\ count \in 0..(CountMod - 1) /\ overrun \in 0..(CountMod - 1)
  BY <1>1, <1>2, <1>7 DEF Init, Slot
<1>11. ws \in WsStates /\ block \in [Client -> [idx : 0..(CountMod - 1), data : Seq(Nat)]]
  BY <1>1, <1>5, <1>6 DEF Init
<1>12. QED
  BY <1>8, <1>9, <1>10, <1>11 DEF TypeOK

LEMMA TypeTick == ASSUME TypeOK, Tick PROVE TypeOK'
<1>1. CASE UNCHANGED ringVars /\ wild' \in BOOLEAN /\ status' \in 0..4
  BY <1>1 DEF TypeOK, Tick, ringVars
<1>2. CASE Push /\ wild' = wild /\ status' = 4
  <2>1. /\ buf' \in [Slot -> Nat] /\ tx' \in Slot /\ rx' \in Slot
        /\ overrun' \in 0..(CountMod - 1) /\ taken' \in Nat
    BY <1>2, PushType
  <2>2. QED
    BY <2>1, <1>2 DEF TypeOK, Tick
<1>3. status \in 0..4 /\ wild \in BOOLEAN
  BY DEF TypeOK
<1>4. CASE status < 4 /\ status' = status + 1 /\ UNCHANGED <<ringVars, wild>>
  BY <1>1, <1>3, <1>4
<1>5. CASE status = 4 /\ status' = 0 /\ UNCHANGED <<ringVars, wild>>
  BY <1>1, <1>3, <1>5
<1>6. CASE Sample
  BY <1>1, <1>2, <1>3, <1>6 DEF Sample
<1>7. QED
  BY <1>4, <1>5, <1>6 DEF Tick

LEMMA TypeWsStart ==
  ASSUME TypeOK, NEW w \in Client, WsStart(w)
  PROVE  TypeOK'
<1>1. [at |-> "check", client |-> w] \in WsStates
  BY DEF WsStates
<1>2. ws' \in WsStates
  BY <1>1 DEF TypeOK, WsStart
<1>3. overlap' \in BOOLEAN
  BY DEF TypeOK, WsStart, Arrives
<1>4. /\ [s \in Slot |-> 0] \in [Slot -> Nat]
      /\ 0 \in Slot /\ 0 \in Nat /\ 0 \in 0..(CountMod - 1)
      /\ [v \in Client |-> NoBlock] \in [Client -> [idx : 0..(CountMod - 1), data : Seq(Nat)]]
  BY EmptyType
<1>5. /\ buf' \in [Slot -> Nat] /\ tx' \in Slot /\ rx' \in Slot /\ taken' \in Nat
      /\ block' \in [Client -> [idx : 0..(CountMod - 1), data : Seq(Nat)]]
  BY <1>4 DEF TypeOK, WsStart, EmptyRing
<1>6. /\ init' \in {-1, 0, 1} /\ timer' \in BOOLEAN /\ pbuf' \in {"null", "alloc", "freed"}
  <2>1. init \in {-1, 0, 1} /\ timer \in BOOLEAN /\ pbuf \in {"null", "alloc", "freed"}
    BY DEF TypeOK
  <2>2. init' = 1 \/ init' = init
    BY DEF WsStart
  <2>3. timer' = TRUE \/ timer' = timer
    BY DEF WsStart
  <2>4. pbuf' = "alloc" \/ pbuf' = pbuf
    BY DEF WsStart
  <2>5. QED
    BY <2>1, <2>2, <2>3, <2>4
<1>7. status' \in 0..4 /\ con' \in ConStates /\ wild' \in BOOLEAN
  BY DEF TypeOK, WsStart
<1>8. count' \in 0..(CountMod - 1) /\ overrun' \in 0..(CountMod - 1)
  BY <1>4 DEF WsStart
<1>9. QED
  BY <1>2, <1>3, <1>5, <1>6, <1>7, <1>8 DEF TypeOK

LEMMA TypeWsCheck ==
  ASSUME TypeOK, NEW w \in Client, WsCheck(w)
  PROVE  TypeOK'
<1>1. Avail \in 0..BufIdx
  BY AvailRange DEF TypeOK
<1>2. ASSUME NEW n \in 1..Avail
      PROVE  [at |-> "get", client |-> w, cnt |-> n] \in WsStates
  <2>1. n \in 1..BufIdx
    BY <1>1, <1>2, BufIdxNat
  <2>2. QED
    BY <2>1 DEF WsStates
<1>3. Idle \in WsStates
  BY DEF WsStates
<1>4. ws' \in WsStates
  BY <1>2, <1>3 DEF WsCheck, Chosen
<1>5. overlap' \in BOOLEAN
  BY DEF TypeOK, WsCheck, Arrives
<1>6. QED
  BY <1>4, <1>5 DEF TypeOK, WsCheck, ringVars

\* A command that waits for its data has a client and a length; one that
\* copies has an index and a place to copy from, too.
LEMMA GetShape ==
  ASSUME TypeOK, ws.at \in {"get", "copy"}
  PROVE  /\ ws.client \in Client /\ ws.cnt \in 1..BufIdx
         /\ ws.at = "copy" => ws.from \in Slot /\ ws.idx \in 0..(CountMod - 1)
<1>1. CASE ws \in [at : {"get"}, client : Client, cnt : 1..BufIdx]
  BY <1>1
<1>2. CASE ws \in [at : {"copy"}, client : Client, cnt : 1..BufIdx, from : Slot, idx : 0..(CountMod - 1)]
  BY <1>2
<1>3. QED
  BY <1>1, <1>2 DEF TypeOK, WsStates, Idle

\* The read index stays inside the ring.
LEMMA AdvanceSlot ==
  ASSUME NEW from \in Slot, NEW n \in 1..BufIdx
  PROVE  Advance(from, n) \in Slot
  BY BufIdxNat DEF Advance, Slot

LEMMA HeadIndexRange == TypeOK => HeadIndex \in 0..(CountMod - 1)
<1>1. TypeOK => count + overrun \in Nat
  BY RingAssumption DEF TypeOK
<1>2. QED
  BY <1>1, ModRange DEF HeadIndex

LEMMA TypeCopy ==
  ASSUME TypeOK, NEW from \in Slot, NEW idx \in 0..(CountMod - 1),
         ws.at \in {"get", "copy"}, Copy(from, idx)
  PROVE  TypeOK'
<1>1. ws.client \in Client /\ ws.cnt \in 1..BufIdx
  BY GetShape
<1>2. Advance(from, ws.cnt) \in Slot
  BY <1>1, AdvanceSlot
<1>3. ws.cnt \in Nat /\ ws.cnt \in 0..BufIdx
  BY <1>1, BufIdxNat
<1>4. count + ws.cnt \in Nat
  BY <1>3, RingAssumption DEF TypeOK
<1>5. (count + ws.cnt) % CountMod \in 0..(CountMod - 1)
  BY <1>4, ModRange
<1>6. Read(from, ws.cnt) \in Seq(Nat)
  BY <1>3, ReadType
<1>7. [idx |-> idx, data |-> Read(from, ws.cnt)] \in [idx : 0..(CountMod - 1), data : Seq(Nat)]
  BY <1>6
<1>8. NoBlock \in [idx : 0..(CountMod - 1), data : Seq(Nat)]
  <2>1. 0 \in 0..(CountMod - 1)
    BY RingAssumption
  <2>2. <<>> \in Seq(Nat)
    OBVIOUS
  <2>3. QED
    BY <2>1, <2>2 DEF NoBlock
<1>9. block' \in [Client -> [idx : 0..(CountMod - 1), data : Seq(Nat)]]
  BY <1>7, <1>8 DEF Copy, TypeOK
<1>10. Idle \in WsStates
  BY DEF WsStates
<1>11. /\ count' \in 0..(CountMod - 1) /\ rx' \in Slot /\ wild' \in BOOLEAN
  BY <1>2, <1>5 DEF Copy, TypeOK
<1>12. QED
  BY <1>9, <1>10, <1>11 DEF Copy, TypeOK

LEMMA TypeWsGet == ASSUME TypeOK, WsGet \/ WsLeave PROVE TypeOK'
<1>1. CASE WsGet
  <2>1. rx \in Slot /\ HeadIndex \in 0..(CountMod - 1)
    BY HeadIndexRange DEF TypeOK
  <2>2. QED
    BY <1>1, <2>1, TypeCopy DEF WsGet
<1>2. CASE WsLeave
  <2>1. ws.from \in Slot /\ ws.idx \in 0..(CountMod - 1)
    BY <1>2, GetShape DEF WsLeave
  <2>2. QED
    BY <1>2, <2>1, TypeCopy DEF WsLeave
<1>3. QED
  BY <1>1, <1>2

LEMMA TypeWsEnter == ASSUME TypeOK, WsEnter PROVE TypeOK'
<1>1. rx \in Slot /\ HeadIndex \in 0..(CountMod - 1)
  BY HeadIndexRange DEF TypeOK
<1>2. ws.client \in Client /\ ws.cnt \in 1..BufIdx
  BY GetShape DEF WsEnter
<1>3. ws' \in WsStates
  BY <1>1, <1>2 DEF WsEnter, WsStates
<1>4. QED
  BY <1>3 DEF WsEnter, TypeOK, ringVars

LEMMA TypeWsStop == ASSUME TypeOK, WsStop PROVE TypeOK'
<1>1. overlap' \in BOOLEAN
  BY DEF TypeOK, WsStop, Arrives
<1>2. QED
  BY <1>1 DEF TypeOK, WsStop, ringVars

LEMMA TypeConsole == ASSUME TypeOK, Console PROVE TypeOK'
<1>0. 0 \in Slot /\ 0 \in Nat /\ 0 \in 0..(CountMod - 1)
  BY EmptyType
<1>1. CASE ConInit
  BY <1>0, <1>1 DEF TypeOK, ConInit, ConStep, ConStates, ringVars
<1>2. CASE ConAlloc
  BY <1>2, EmptyType DEF TypeOK, ConAlloc, ConStep, ConStates
<1>3. CASE ConReset
  BY <1>3, EmptyType DEF TypeOK, ConReset, ConStep, ConStates
<1>4. CASE ConTimer \/ ConUp \/ ConDeinit
  BY <1>4 DEF TypeOK, ConTimer, ConUp, ConDeinit, ConStep, ConStates, ringVars
<1>5. CASE ConFree \/ ConNull \/ ConOff
  BY <1>5 DEF TypeOK, ConFree, ConNull, ConOff, ConStep, ConStates, ringVars
<1>6. QED
  BY <1>1, <1>2, <1>3, <1>4, <1>5 DEF Console

\* Every step keeps the types.
LEMMA TypeStep == TypeOK /\ [Next]_vars => TypeOK'
<1>1. SUFFICES ASSUME TypeOK, [Next]_vars PROVE TypeOK'
  OBVIOUS
<1>2. CASE UNCHANGED vars
  BY <1>1, <1>2 DEF vars, ringVars, TypeOK
<1>3. CASE Tick
  BY <1>1, <1>3, TypeTick
<1>4. CASE Websocket
  BY <1>1, <1>4, TypeWsStart, TypeWsCheck, TypeWsGet, TypeWsEnter, TypeWsStop DEF Websocket
<1>5. CASE Console
  BY <1>1, <1>5, TypeConsole
<1>6. QED
  BY <1>1, <1>2, <1>3, <1>4, <1>5 DEF Next

\* Whatever console, websocket and handler do to each other, both indices of
\* the ring stay inside it and no block is longer than it.
THEOREM TypeCorrect == Spec => []TypeOK
  BY TypeInit, TypeStep, PTL DEF Spec

----------------------------------------------------------------------------
(* The ring as a sequence.                                                 *)

Waiting(t, r) == IF t < r THEN t - r + BufIdx + 1 ELSE t - r
Forward(r, n) == IF r + n > BufIdx THEN r + n - (BufIdx + 1) ELSE r + n
ReadOf(b, r, n) == [i \in 1..n |-> b[At(r, i - 1)]]

\* Two different distances from a slot lead to two different slots.
LEMMA AtInjective ==
  ASSUME NEW r \in Slot, NEW i \in Slot, NEW j \in Slot, i # j
  PROVE  At(r, i) # At(r, j)
  BY BufIdxNat DEF At, Slot

\* The slot behind the last waiting sample is buf_tx.
LEMMA AtEnd ==
  ASSUME NEW t \in Slot, NEW r \in Slot
  PROVE  Waiting(t, r) \in Slot /\ At(r, Waiting(t, r)) = t
  BY BufIdxNat DEF At, Slot, Waiting

\* A ring with room holds one sample more after a push.
LEMMA WaitingGrows ==
  ASSUME NEW t \in Slot, NEW r \in Slot, r # Step(t)
  PROVE  /\ Waiting(t, r) \in 0..(BufIdx - 1)
         /\ Waiting(Step(t), r) = Waiting(t, r) + 1
  BY BufIdxNat DEF Step, Slot, Waiting

\* A full ring stays full.
LEMMA WaitingFull ==
  ASSUME NEW t \in Slot
  PROVE  /\ Waiting(t, Step(t)) = BufIdx
         /\ Waiting(Step(t), Step(Step(t))) = BufIdx
  BY BufIdxNat DEF Step, Slot, Waiting

\* Distances from the next slot.
LEMMA AtFromNext ==
  ASSUME NEW r \in Slot, NEW i \in 0..(BufIdx - 1)
  PROVE  At(Step(r), i) = At(r, i + 1)
  BY BufIdxNat DEF At, Step, Slot

\* Reading n samples brings buf_rx n slots forward.
LEMMA ForwardRange ==
  ASSUME NEW t \in Slot, NEW r \in Slot, NEW n \in 1..Waiting(t, r)
  PROVE  /\ Forward(r, n) \in Slot
         /\ Waiting(t, Forward(r, n)) = Waiting(t, r) - n
  BY BufIdxNat DEF Forward, Slot, Waiting

LEMMA AtForward ==
  ASSUME NEW r \in Slot, NEW n \in Nat, NEW i \in Nat, n + i <= BufIdx
  PROVE  At(Forward(r, n), i) = At(r, n + i)
  BY BufIdxNat DEF Forward, Slot, At

\* What is read from a ring is a sequence of the asked length.
LEMMA ReadOfSeq ==
  ASSUME NEW b \in [Slot -> Nat], NEW r \in Slot, NEW n \in 0..BufIdx
  PROVE  /\ ReadOf(b, r, n) \in Seq(Nat)
         /\ Len(ReadOf(b, r, n)) = n
         /\ \A i \in 1..n : ReadOf(b, r, n)[i] = b[At(r, i - 1)]
<1>1. ASSUME NEW i \in 1..n PROVE b[At(r, i - 1)] \in Nat
  <2>1. i - 1 \in Slot
    BY <1>1, BufIdxNat DEF Slot
  <2>2. QED
    BY <2>1, AtSlot
<1>2. ReadOf(b, r, n) \in [1..n -> Nat]
  BY <1>1 DEF ReadOf
<1>3. n \in Nat
  BY BufIdxNat
<1>4. QED
  BY <1>2, <1>3 DEF ReadOf

\* Sequences are equal when their lengths and their elements are.
LEMMA SameSeq ==
  ASSUME NEW S, NEW s \in Seq(S), NEW u \in Seq(S), Len(s) = Len(u),
         \A i \in 1..Len(s) : s[i] = u[i]
  PROVE  s = u
  OBVIOUS

\* One element more than s: an Append.
LEMMA IsAppend ==
  ASSUME NEW s \in Seq(Nat), NEW u \in Seq(Nat), NEW v \in Nat,
         Len(u) = Len(s) + 1,
         \A i \in 1..Len(s) : u[i] = s[i],
         u[Len(s) + 1] = v
  PROVE  u = Append(s, v)
  OBVIOUS

\* All but the first of s and one element more.
LEMMA IsShift ==
  ASSUME NEW s \in Seq(Nat), NEW u \in Seq(Nat), NEW v \in Nat,
         Len(s) >= 1, Len(u) = Len(s),
         \A i \in 1..(Len(s) - 1) : u[i] = s[i + 1],
         u[Len(s)] = v
  PROVE  u = Append(Tail(s), v)
<1>1. Tail(s) \in Seq(Nat) /\ Len(Tail(s)) = Len(s) - 1
  OBVIOUS
<1>2. ASSUME NEW i \in 1..(Len(s) - 1) PROVE u[i] = Tail(s)[i]
  OBVIOUS
<1>3. PICK x \in Seq(Nat) : x = Tail(s)
  BY <1>1
<1>4. Len(u) = Len(x) + 1 /\ u[Len(x) + 1] = v /\ \A i \in 1..Len(x) : u[i] = x[i]
  BY <1>1, <1>2, <1>3
<1>5. QED
  BY <1>3, <1>4, IsAppend

\* All but the first k of s.
LEMMA SuffixIs ==
  ASSUME NEW S, NEW s \in Seq(S), NEW k \in 1..Len(s)
  PROVE  /\ SubSeq(s, k + 1, Len(s)) \in Seq(S)
         /\ Len(SubSeq(s, k + 1, Len(s))) = Len(s) - k
         /\ \A i \in 1..(Len(s) - k) : SubSeq(s, k + 1, Len(s))[i] = s[k + i]
  OBVIOUS

LEMMA IsSuffix ==
  ASSUME NEW s \in Seq(Nat), NEW u \in Seq(Nat), NEW k \in 1..Len(s),
         Len(u) = Len(s) - k,
         \A i \in 1..(Len(s) - k) : u[i] = s[k + i]
  PROVE  u = SubSeq(s, k + 1, Len(s))
<1>1. PICK x : x = SubSeq(s, k + 1, Len(s))
  OBVIOUS
<1>2. /\ x \in Seq(Nat) /\ Len(x) = Len(s) - k
      /\ \A i \in 1..(Len(s) - k) : x[i] = s[k + i]
  BY <1>1, SuffixIs
<1>3. QED
  BY <1>1, <1>2, SameSeq

\* A push into a ring with room appends.
LEMMA PushAppends ==
  ASSUME NEW b \in [Slot -> Nat], NEW t \in Slot, NEW r \in Slot, NEW v \in Nat,
         r # Step(t)
  PROVE  ReadOf([b EXCEPT ![t] = v], r, Waiting(Step(t), r))
           = Append(ReadOf(b, r, Waiting(t, r)), v)
<1>1. PICK n \in 0..(BufIdx - 1) : n = Waiting(t, r) /\ Waiting(Step(t), r) = n + 1
  BY WaitingGrows
<1>2. PICK c \in [Slot -> Nat] : c = [b EXCEPT ![t] = v]
  OBVIOUS
<1>3. n \in 0..BufIdx /\ n + 1 \in 0..BufIdx /\ n \in Slot
  BY BufIdxNat DEF Slot
<1>4. PICK s \in Seq(Nat) : /\ s = ReadOf(b, r, n) /\ Len(s) = n
                            /\ \A i \in 1..n : s[i] = b[At(r, i - 1)]
  BY <1>3, ReadOfSeq
<1>5. PICK u \in Seq(Nat) : /\ u = ReadOf(c, r, n + 1) /\ Len(u) = n + 1
                            /\ \A i \in 1..(n + 1) : u[i] = c[At(r, i - 1)]
  BY <1>3, ReadOfSeq
<1>6. At(r, n) = t
  BY <1>1, AtEnd
<1>7. u[n + 1] = v
  <2>1. n + 1 \in 1..(n + 1) /\ (n + 1) - 1 = n
    BY <1>3
  <2>2. QED
    BY <1>2, <1>5, <1>6, <2>1
<1>8. ASSUME NEW i \in 1..n PROVE u[i] = s[i]
  <2>1. i - 1 \in Slot /\ i - 1 # n /\ i \in 1..(n + 1)
    BY <1>3, BufIdxNat DEF Slot
  <2>2. At(r, i - 1) # t /\ At(r, i - 1) \in Slot
    BY <1>3, <1>6, <2>1, AtInjective, AtSlot
  <2>3. c[At(r, i - 1)] = b[At(r, i - 1)]
    BY <1>2, <2>2
  <2>4. QED
    BY <1>4, <1>5, <2>1, <2>3
<1>9. u = Append(s, v)
  BY <1>4, <1>5, <1>7, <1>8, IsAppend, SMTT(30)
<1>10. QED
  BY <1>1, <1>2, <1>4, <1>5, <1>9

\* A push into a full ring appends and loses the oldest.
LEMMA PushDropsOldest ==
  ASSUME NEW b \in [Slot -> Nat], NEW t \in Slot, NEW v \in Nat
  PROVE  ReadOf([b EXCEPT ![t] = v], Step(Step(t)), BufIdx)
           = Append(Tail(ReadOf(b, Step(t), BufIdx)), v)
<1>1. PICK r \in Slot : r = Step(t) /\ Step(r) \in Slot
  BY StepSlot
<1>2. PICK c \in [Slot -> Nat] : c = [b EXCEPT ![t] = v]
  OBVIOUS
<1>3. BufIdx \in 0..BufIdx /\ BufIdx \in Slot /\ BufIdx \in Nat /\ BufIdx >= 1
  BY BufIdxNat DEF Slot
<1>4. PICK s \in Seq(Nat) : /\ s = ReadOf(b, r, BufIdx) /\ Len(s) = BufIdx
                            /\ \A i \in 1..BufIdx : s[i] = b[At(r, i - 1)]
  BY <1>3, ReadOfSeq
<1>5. PICK u \in Seq(Nat) : /\ u = ReadOf(c, Step(r), BufIdx) /\ Len(u) = BufIdx
                            /\ \A i \in 1..BufIdx : u[i] = c[At(Step(r), i - 1)]
  BY <1>1, <1>3, ReadOfSeq
<1>6. At(r, BufIdx) = t
  BY <1>1, WaitingFull, AtEnd
<1>7. u[BufIdx] = v
  <2>1. BufIdx \in 1..BufIdx /\ BufIdx - 1 \in 0..(BufIdx - 1) /\ (BufIdx - 1) + 1 = BufIdx
    BY <1>3
  <2>2. u[BufIdx] = c[At(r, BufIdx)]
    BY <1>1, <1>5, <2>1, AtFromNext
  <2>3. QED
    BY <1>2, <1>6, <2>2
<1>8. ASSUME NEW i \in 1..(BufIdx - 1) PROVE u[i] = s[i + 1]
  <2>1. /\ i \in 1..BufIdx /\ i - 1 \in 0..(BufIdx - 1) /\ (i - 1) + 1 = i
        /\ i \in Slot /\ i # BufIdx /\ i + 1 \in 1..BufIdx /\ (i + 1) - 1 = i
    BY <1>3 DEF Slot
  <2>2. u[i] = c[At(r, i)]
    BY <1>1, <1>5, <2>1, AtFromNext
  <2>3. At(r, i) # t /\ At(r, i) \in Slot
    BY <1>3, <1>6, <2>1, AtInjective, AtSlot
  <2>4. c[At(r, i)] = b[At(r, i)]
    BY <1>2, <2>3
  <2>5. s[i + 1] = b[At(r, i)]
    BY <1>4, <2>1
  <2>6. QED
    BY <2>2, <2>4, <2>5
<1>9. u = Append(Tail(s), v)
  BY <1>3, <1>4, <1>5, <1>7, <1>8, IsShift
<1>10. QED
  BY <1>1, <1>2, <1>4, <1>5, <1>9

\* Reading takes a prefix.
LEMMA TakeLeavesSuffix ==
  ASSUME NEW b \in [Slot -> Nat], NEW t \in Slot, NEW r \in Slot,
         NEW k \in 1..Waiting(t, r)
  PROVE  ReadOf(b, Forward(r, k), Waiting(t, Forward(r, k)))
           = SubSeq(ReadOf(b, r, Waiting(t, r)), k + 1, Len(ReadOf(b, r, Waiting(t, r))))
<1>1. PICK n \in 0..BufIdx : n = Waiting(t, r)
  BY AtEnd DEF Slot
<1>2. Forward(r, k) \in Slot /\ Waiting(t, Forward(r, k)) = n - k
  BY <1>1, ForwardRange
<1>3. n - k \in 0..BufIdx /\ k \in 1..n /\ k \in Nat
  BY <1>1, BufIdxNat
<1>4. PICK s \in Seq(Nat) : /\ s = ReadOf(b, r, n) /\ Len(s) = n
                            /\ \A i \in 1..n : s[i] = b[At(r, i - 1)]
  BY ReadOfSeq
<1>5. PICK u \in Seq(Nat) : /\ u = ReadOf(b, Forward(r, k), n - k) /\ Len(u) = n - k
                            /\ \A i \in 1..(n - k) : u[i] = b[At(Forward(r, k), i - 1)]
  BY <1>2, <1>3, ReadOfSeq
<1>6. ASSUME NEW i \in 1..(n - k) PROVE u[i] = s[k + i]
  <2>1. i - 1 \in Nat /\ k + (i - 1) <= BufIdx /\ k + i \in 1..n /\ (k + i) - 1 = k + (i - 1)
    BY <1>3, BufIdxNat
  <2>2. At(Forward(r, k), i - 1) = At(r, k + (i - 1))
    BY <1>3, <2>1, AtForward
  <2>3. QED
    BY <1>4, <1>5, <2>1, <2>2
<1>7. u = SubSeq(s, k + 1, n)
  BY <1>3, <1>4, <1>5, <1>6, IsSuffix, SMTT(30)
<1>8. QED
  BY <1>1, <1>2, <1>4, <1>5, <1>7

----------------------------------------------------------------------------
(* The inductive invariant.                                                *)

\* Which phase of a command goes with which state of buffer and timer.
Phase ==
  /\ con = "idle" => IF init = 1 THEN pbuf = "alloc" /\ timer ELSE pbuf = "null" /\ ~timer
  /\ con = "alloc" => pbuf = "null" /\ ~timer /\ init # 1
  /\ con \in {"reset", "timer"} => pbuf = "alloc" /\ ~timer /\ init # 1
  /\ con = "up" => pbuf = "alloc" /\ timer /\ init # 1
  /\ con = "stop" => pbuf = "alloc" /\ ~timer /\ init = 1
  /\ con = "null" => pbuf = "freed" /\ ~timer /\ init = 1
  /\ con = "off" => pbuf = "null" /\ ~timer /\ init = 1
  /\ ws # Idle => con = "idle" /\ init = 1

\* The block that is asked for waits in the ring.  (While the handler can
\* come into the critical section it may not: rx moves on.)
Asked == ws.at = "get" => ws.cnt <= Avail

RingInv == ~overlap => Phase /\ (Masked => Asked) /\ ~wild

LEMMA RingInit == Init => RingInv
  BY DEF Init, RingInv, Phase, Asked, Idle

\* Only a websocket command that comes inside a console command sets
\* overlap, and nothing clears it.
LEMMA OverlapStays ==
  ASSUME TypeOK, Next, ~overlap'
  PROVE  ~overlap
  BY DEF Next, Tick, Websocket, WsStart, WsCheck, Arrives, WsGet, WsEnter, WsLeave, Copy, WsStop,
         Console, ConInit,
         ConAlloc, ConReset, ConTimer, ConUp, ConDeinit, ConFree, ConNull, ConOff, TypeOK

\* A push leaves at least as many samples as there were.
LEMMA PushAvail ==
  ASSUME TypeOK, Push
  PROVE  Avail' >= Avail
<1>1. tx \in Slot /\ rx \in Slot
  BY DEF TypeOK
<1>2. Avail = Waiting(tx, rx) /\ Avail' = Waiting(tx', rx')
  BY DEF Avail, Waiting
<1>3. CASE rx # Step(tx)
  <2>1. tx' = Step(tx) /\ rx' = rx
    BY <1>3 DEF Push
  <2>2. Waiting(tx', rx') = Waiting(tx, rx) + 1 /\ Waiting(tx, rx) \in 0..(BufIdx - 1)
    BY <1>1, <1>3, <2>1, WaitingGrows
  <2>3. QED
    BY <1>2, <2>2, BufIdxNat
<1>4. CASE rx = Step(tx)
  <2>1. tx' = Step(tx) /\ rx' = Step(Step(tx))
    BY <1>4 DEF Push
  <2>2. Waiting(tx, rx) = BufIdx /\ Waiting(tx', rx') = BufIdx
    BY <1>1, <1>4, <2>1, WaitingFull
  <2>3. QED
    BY <1>2, <2>2, BufIdxNat
<1>5. QED
  BY <1>3, <1>4

LEMMA RingTick ==
  ASSUME TypeOK, RingInv, ~overlap, Tick
  PROVE  RingInv'
<1>1. pbuf = "alloc"
  BY DEF RingInv, Phase, Tick, TypeOK, ConStates
<1>2. wild' = wild
  BY <1>1 DEF Tick, Sample
<1>3. Phase'
  BY DEF RingInv, Phase, Tick
<1>4. ASSUME Masked PROVE Asked'
  <2>1. CASE UNCHANGED ringVars
    BY <1>4, <2>1 DEF RingInv, Asked, Avail, Tick, ringVars
  <2>2. CASE Push
    <3>1. SUFFICES ASSUME ws.at = "get" PROVE ws.cnt <= Avail'
      BY DEF Asked, Tick
    <3>2. ws.cnt \in 1..BufIdx
      BY <3>1, GetShape
    <3>3. ws.cnt <= Avail
      BY <1>4, <3>1 DEF RingInv, Asked
    <3>4. Avail' >= Avail /\ Avail \in 0..BufIdx /\ Avail' \in 0..BufIdx
      <4>1. tx' \in Slot /\ rx' \in Slot
        BY <2>2, PushType
      <4>2. Avail' \in 0..BufIdx
        BY <4>1, AtEnd DEF Avail, Waiting, Slot
      <4>3. QED
        BY <2>2, <4>2, PushAvail, AvailRange DEF TypeOK
    <3>5. QED
      BY <3>2, <3>3, <3>4, BufIdxNat
  <2>3. QED
    BY <2>1, <2>2 DEF Tick, Sample, ringVars
<1>5. QED
  BY <1>2, <1>3, <1>4 DEF RingInv

LEMMA RingWsStart ==
  ASSUME TypeOK, RingInv, ~overlap', NEW w \in Client, WsStart(w), ~overlap
  PROVE  RingInv'
<1>1. con = "idle" /\ ws = Idle /\ init # 1
  <2>1. init \in {-1, 0, 1} /\ init <= 0
    BY DEF WsStart, TypeOK
  <2>2. con = "idle" /\ ws = Idle
    BY DEF WsStart, Arrives
  <2>3. QED
    BY <2>1, <2>2
<1>2. pbuf = "null" /\ ~timer
  BY <1>1 DEF RingInv, Phase
<1>3. Phase'
  BY <1>1, <1>2 DEF WsStart, Phase
<1>4. Asked'
  BY <1>1, <1>2 DEF WsStart, Asked, Idle
<1>5. QED
  BY <1>3, <1>4 DEF RingInv, WsStart

LEMMA RingWsCheck ==
  ASSUME TypeOK, RingInv, ~overlap', NEW w \in Client, WsCheck(w), ~overlap
  PROVE  RingInv'
<1>1. con = "idle"
  <2>1. CASE Arrives
    BY <2>1 DEF Arrives
  <2>2. CASE ws = [at |-> "check", client |-> w]
    <3>1. ws # Idle
      <4>1. ws.at = "check"
        BY <2>2
      <4>2. QED
        BY <4>1 DEF Idle
    <3>2. QED
      BY <3>1 DEF RingInv, Phase
  <2>3. QED
    BY <2>1, <2>2 DEF WsCheck
<1>2. ws' = Idle \/ (init = 1 /\ \E n \in 1..Avail : ws' = [at |-> "get", client |-> w, cnt |-> n])
  <2>1. ~(init <= 0) => init = 1
    BY DEF TypeOK
  <2>2. QED
    BY <2>1 DEF WsCheck, Chosen
<1>3. Phase'
  BY <1>1, <1>2 DEF WsCheck, Phase, RingInv
<1>4. Avail' = Avail /\ Avail \in Nat
  BY AvailRange, BufIdxNat DEF WsCheck, Avail, ringVars, TypeOK
<1>5. Asked'
  <2>1. CASE ws' = Idle
    BY <2>1 DEF Asked, Idle
  <2>2. CASE \E n \in 1..Avail : ws' = [at |-> "get", client |-> w, cnt |-> n]
    <3>1. PICK n \in 1..Avail : ws' = [at |-> "get", client |-> w, cnt |-> n]
      BY <2>2
    <3>2. (ws').cnt = n /\ n <= Avail
      BY <1>4, <3>1
    <3>3. QED
      BY <1>4, <3>2 DEF Asked
  <2>3. QED
    BY <1>2, <2>1, <2>2
<1>6. QED
  BY <1>3, <1>5 DEF RingInv, WsCheck

LEMMA RingWsGet ==
  ASSUME TypeOK, RingInv, ~overlap, WsGet \/ WsLeave
  PROVE  RingInv'
<1>1. con = "idle" /\ init = 1 /\ pbuf = "alloc"
  BY DEF WsGet, WsLeave, RingInv, Phase, Idle
<1>2. PICK from, idx : Copy(from, idx)
  BY DEF WsGet, WsLeave
<1>3. Phase'
  BY <1>1, <1>2 DEF Copy, Phase, RingInv
<1>4. Asked'
  BY <1>2 DEF Copy, Asked, Idle
<1>5. QED
  BY <1>1, <1>2, <1>3, <1>4 DEF Copy, RingInv

LEMMA RingWsEnter ==
  ASSUME TypeOK, RingInv, ~overlap, WsEnter
  PROVE  RingInv'
<1>1. con = "idle" /\ init = 1 /\ pbuf = "alloc"
  BY DEF WsEnter, RingInv, Phase, Idle
<1>2. Phase'
  BY <1>1 DEF WsEnter, Phase, RingInv
<1>3. QED
  BY <1>2 DEF WsEnter, RingInv

LEMMA RingWsStop ==
  ASSUME TypeOK, RingInv, ~overlap', WsStop, ~overlap
  PROVE  RingInv'
<1>1. con = "idle" /\ ws = Idle
  BY DEF WsStop, Arrives, TypeOK
<1>2. Phase'
  BY <1>1 DEF WsStop, Phase
<1>3. Asked'
  BY <1>1 DEF WsStop, Asked, Idle
<1>4. pbuf # "freed"
  BY <1>1 DEF RingInv, Phase
<1>5. QED
  BY <1>2, <1>3, <1>4 DEF WsStop, RingInv

LEMMA RingConsole ==
  ASSUME TypeOK, RingInv, ~overlap, Console
  PROVE  RingInv'
<1>1. ws = Idle /\ ws' = Idle /\ wild' = wild
  BY DEF Console, ConStep, ConInit, ConAlloc, ConReset, ConTimer, ConUp, ConDeinit, ConFree,
         ConNull, ConOff
<1>2. Asked'
  BY <1>1 DEF Asked, Idle
<1>3. Phase
  BY DEF RingInv
<1>4. Phase'
  <2>1. CASE ConInit
    BY <1>1, <1>3, <2>1 DEF ConInit, ConStep, Phase, TypeOK
  <2>2. CASE ConAlloc
    BY <1>1, <1>3, <2>2 DEF ConAlloc, ConStep, Phase
  <2>3. CASE ConReset \/ ConTimer \/ ConUp
    BY <1>1, <1>3, <2>3 DEF ConReset, ConTimer, ConUp, ConStep, Phase
  <2>4. CASE ConDeinit
    BY <1>1, <1>3, <2>4 DEF ConDeinit, ConStep, Phase, TypeOK
  <2>5. CASE ConFree \/ ConNull \/ ConOff
    BY <1>1, <1>3, <2>5 DEF ConFree, ConNull, ConOff, ConStep, Phase
  <2>6. QED
    BY <2>1, <2>2, <2>3, <2>4, <2>5 DEF Console
<1>5. QED
  BY <1>1, <1>2, <1>4 DEF RingInv

LEMMA RingStep == TypeOK /\ RingInv /\ [Next]_vars => RingInv'
<1>1. SUFFICES ASSUME TypeOK, RingInv, [Next]_vars PROVE RingInv'
  OBVIOUS
<1>2. CASE UNCHANGED vars
  BY <1>1, <1>2 DEF vars, ringVars, RingInv, Phase, Asked, Avail
<1>3. CASE Next
  <2>1. SUFFICES ASSUME ~overlap' PROVE RingInv'
    BY DEF RingInv
  <2>2. ~overlap
    BY <1>1, <1>3, <2>1, OverlapStays
  <2>3. CASE Tick
    BY <1>1, <2>2, <2>3, RingTick
  <2>4. CASE Websocket
    BY <1>1, <2>1, <2>2, <2>4, RingWsStart, RingWsCheck, RingWsGet, RingWsEnter, RingWsStop
       DEF Websocket
  <2>5. CASE Console
    BY <1>1, <2>2, <2>5, RingConsole
  <2>6. QED
    BY <1>3, <2>3, <2>4, <2>5 DEF Next
<1>4. QED
  BY <1>1, <1>2, <1>3

\* The buffer is touched only while it is allocated, unless a websocket
\* command came inside a console command.
THEOREM FreedNeverTouched == Spec => []FreedOnlyOnOverlap
<1>1. Init => TypeOK /\ RingInv
  BY TypeInit, RingInit
<1>2. TypeOK /\ RingInv /\ [Next]_vars => (TypeOK /\ RingInv)'
  BY TypeStep, RingStep
<1>3. TypeOK /\ RingInv => FreedOnlyOnOverlap
  BY DEF TypeOK, RingInv, FreedOnlyOnOverlap
<1>4. QED
  BY <1>1, <1>2, <1>3, PTL DEF Spec

----------------------------------------------------------------------------
(* The ring implements the lossy queue.                                    *)

LEMMA QueueIs ==
  /\ Queue = IF Session THEN ReadOf(buf, rx, Waiting(tx, rx)) ELSE <<>>
  /\ Queue' = IF Session' THEN ReadOf(buf', rx', Waiting(tx', rx')) ELSE <<>>
  BY DEF Queue, Read, ReadOf, Avail, Waiting

\* An empty ring is an empty queue.
LEMMA EmptyQueue ==
  ASSUME NEW b \in [Slot -> Nat]
  PROVE  ReadOf(b, 0, Waiting(0, 0)) = <<>>
<1>1. 0 \in Slot /\ 0 \in 0..BufIdx /\ Waiting(0, 0) = 0
  BY BufIdxNat DEF Slot, Waiting
<1>2. PICK s \in Seq(Nat) : s = ReadOf(b, 0, 0) /\ Len(s) = 0
  BY <1>1, ReadOfSeq
<1>3. s = <<>>
  BY <1>2
<1>4. QED
  BY <1>1, <1>2, <1>3

\* The queue is as long as the ring is full.
LEMMA QueueLength ==
  ASSUME TypeOK, Session
  PROVE  /\ Queue \in Seq(Nat)
         /\ Len(Queue) = Waiting(tx, rx)
         /\ Waiting(tx, rx) \in 0..BufIdx
<1>1. tx \in Slot /\ rx \in Slot /\ buf \in [Slot -> Nat]
  BY DEF TypeOK
<1>2. PICK n \in 0..BufIdx : n = Waiting(tx, rx)
  BY <1>1, AtEnd DEF Slot
<1>3. Queue = ReadOf(buf, rx, n)
  BY <1>2, QueueIs
<1>4. QED
  BY <1>1, <1>2, <1>3, ReadOfSeq

\* Steps that leave the session, the ring and overlap alone.
LEMMA QueueStutters ==
  ASSUME UNCHANGED <<buf, tx, rx, taken, overlap>>, Session' <=> Session
  PROVE  UNCHANGED <<Queue, NextSample, overlap>>
  BY QueueIs DEF NextSample

\* A sample taken is a Put.
LEMMA PushIsPut ==
  ASSUME TypeOK, Session, Session', Push, overlap' = overlap
  PROVE  Fifo!Put
<1>1. tx \in Slot /\ rx \in Slot /\ buf \in [Slot -> Nat] /\ taken \in Nat
  BY DEF TypeOK
<1>2. Queue = ReadOf(buf, rx, Waiting(tx, rx)) /\ Queue' = ReadOf(buf', rx', Waiting(tx', rx'))
  BY QueueIs
<1>3. buf' = [buf EXCEPT ![tx] = taken] /\ tx' = Step(tx) /\ taken' = taken + 1
  BY DEF Push
<1>4. Len(Queue) = Waiting(tx, rx)
  BY QueueLength
<1>5. Queue' = IF Len(Queue) = BufIdx THEN Append(Tail(Queue), taken) ELSE Append(Queue, taken)
  <2>1. CASE rx # Step(tx)
    <3>1. rx' = rx
      BY <2>1 DEF Push
    <3>2. Len(Queue) # BufIdx
      BY <1>1, <1>4, <2>1, WaitingGrows, BufIdxNat
    <3>3. Queue' = Append(Queue, taken)
      BY <1>1, <1>2, <1>3, <2>1, <3>1, PushAppends
    <3>4. QED
      BY <3>2, <3>3
  <2>2. CASE rx = Step(tx)
    <3>1. rx' = Step(Step(tx))
      BY <2>2 DEF Push
    <3>2. Waiting(tx, rx) = BufIdx /\ Waiting(tx', rx') = BufIdx
      BY <1>1, <1>3, <2>2, <3>1, WaitingFull
    <3>3. Queue' = Append(Tail(Queue), taken)
      BY <1>1, <1>2, <1>3, <2>2, <3>1, <3>2, PushDropsOldest
    <3>4. QED
      BY <1>4, <3>2, <3>3
  <2>3. QED
    BY <2>1, <2>2
<1>6. NextSample = taken /\ NextSample' = taken + 1
  BY <1>3 DEF NextSample
<1>7. QED
  BY <1>5, <1>6 DEF Fifo!Put

\* A block read is a Take.
LEMMA GetIsTake ==
  ASSUME TypeOK, Session, Session', Asked, ws.at = "get",
         rx' = Advance(rx, ws.cnt), UNCHANGED <<buf, tx, taken, overlap>>
  PROVE  \E n \in 1..BufIdx : Fifo!Take(n)
<1>1. tx \in Slot /\ rx \in Slot /\ buf \in [Slot -> Nat]
  BY DEF TypeOK
<1>2. ws.cnt \in 1..BufIdx /\ ws.cnt <= Waiting(tx, rx)
  BY GetShape DEF Asked, Avail, Waiting
<1>3. PICK k \in 1..BufIdx : k = ws.cnt
  BY <1>2
<1>4. k \in 1..Waiting(tx, rx)
  <2>1. k <= Waiting(tx, rx) /\ k \in 1..BufIdx
    BY <1>2, <1>3
  <2>2. PICK n \in 0..BufIdx : n = Waiting(tx, rx)
    BY QueueLength
  <2>3. k \in 1..n
    BY <2>1, <2>2, BufIdxNat
  <2>4. QED
    BY <2>2, <2>3
<1>5. rx' = Forward(rx, k)
  BY <1>3 DEF Advance, Forward
<1>6. Queue = ReadOf(buf, rx, Waiting(tx, rx)) /\ Queue' = ReadOf(buf, Forward(rx, k), Waiting(tx, Forward(rx, k)))
  BY <1>5, QueueIs
<1>7. Queue' = SubSeq(Queue, k + 1, Len(Queue))
  BY <1>1, <1>4, <1>6, TakeLeavesSuffix
<1>8. k <= Len(Queue)
  BY <1>2, <1>3, QueueLength
<1>9. NextSample' = NextSample
  BY DEF NextSample
<1>10. Fifo!Take(k)
  BY <1>7, <1>8, <1>9 DEF Fifo!Take
<1>11. QED
  BY <1>10

\* A step that ends with an empty queue and no sample taken is a Reset.
LEMMA EmptyIsReset ==
  ASSUME Queue' = <<>>, NextSample' = 0, overlap' = overlap
  PROVE  Fifo!Reset
  BY DEF Fifo!Reset

Refines == Fifo!FifoNext \/ UNCHANGED <<Queue, NextSample, overlap>>

LEMMA RefinesTick ==
  ASSUME TypeOK, RingInv, ~overlap, Tick
  PROVE  Refines
<1>1. pbuf = "alloc" /\ con # "reset"
  BY DEF RingInv, Phase, Tick, TypeOK, ConStates
<1>2. Session /\ Session' /\ overlap' = overlap
  BY <1>1 DEF Session, Tick
<1>3. CASE Push
  BY <1>2, <1>3, PushIsPut DEF Refines, Fifo!FifoNext
<1>4. CASE UNCHANGED ringVars
  BY <1>2, <1>4, QueueStutters DEF Refines, ringVars
<1>5. QED
  BY <1>3, <1>4 DEF Tick, Sample, ringVars

LEMMA RefinesWsStart ==
  ASSUME TypeOK, RingInv, ~overlap', NEW w \in Client, WsStart(w), ~overlap
  PROVE  Refines
<1>1. con = "idle" /\ init # 1
  <2>1. init \in {-1, 0, 1} /\ init <= 0
    BY DEF WsStart, TypeOK
  <2>2. con = "idle"
    BY DEF WsStart, Arrives
  <2>3. QED
    BY <2>1, <2>2
<1>2. pbuf = "null" /\ con' = con /\ overlap' = overlap
  <2>1. pbuf = "null"
    BY <1>1 DEF RingInv, Phase
  <2>2. con' = con /\ overlap' = overlap
    BY <1>1 DEF WsStart, Arrives, TypeOK
  <2>3. QED
    BY <2>1, <2>2
<1>3. CASE EmptyRing /\ pbuf' = "alloc"
  <2>1. [s \in Slot |-> 0] \in [Slot -> Nat]
    OBVIOUS
  <2>2. Queue' = <<>> /\ NextSample' = 0
    BY <1>1, <1>2, <1>3, <2>1, QueueIs, EmptyQueue DEF Session, NextSample, EmptyRing
  <2>3. QED
    BY <1>2, <2>2, EmptyIsReset DEF Refines, Fifo!FifoNext
<1>4. CASE UNCHANGED <<buf, tx, rx, taken, pbuf>>
  BY <1>2, <1>4, QueueStutters DEF Refines, Session
<1>5. QED
  BY <1>2, <1>3, <1>4 DEF WsStart

LEMMA RefinesWsGet ==
  ASSUME TypeOK, RingInv, ~overlap, WsGet
  PROVE  Refines
<1>1. con = "idle" /\ pbuf = "alloc"
  BY DEF WsGet, RingInv, Phase, Idle
<1>2. Session /\ Session' /\ Asked
  BY <1>1 DEF Session, WsGet, Copy, RingInv
<1>3. rx' = Advance(rx, ws.cnt) /\ UNCHANGED <<buf, tx, taken, overlap>> /\ ws.at = "get"
  BY <1>1 DEF WsGet, Copy
<1>4. QED
  BY <1>2, <1>3, GetIsTake DEF Refines, Fifo!FifoNext

LEMMA RefinesWsStop ==
  ASSUME TypeOK, RingInv, ~overlap', WsStop, ~overlap
  PROVE  Refines
<1>1. overlap' = overlap /\ ~Session'
  BY DEF WsStop, Arrives, TypeOK, Session
<1>2. Queue' = <<>> /\ NextSample' = 0
  BY <1>1, QueueIs DEF NextSample
<1>3. QED
  BY <1>1, <1>2, EmptyIsReset DEF Refines, Fifo!FifoNext

LEMMA RefinesConsole ==
  ASSUME TypeOK, RingInv, ~overlap, Console
  PROVE  Refines
<1>1. overlap' = overlap /\ Phase
  BY DEF RingInv, Console, ConInit, ConAlloc, ConReset, ConTimer, ConUp, ConDeinit, ConFree,
         ConNull, ConOff
<1>2. CASE ConInit
  <2>1. Session' <=> Session
    BY <1>2 DEF ConInit, ConStep, Session
  <2>2. QED
    BY <1>2, <2>1, QueueStutters DEF ConInit, Refines, ringVars
<1>3. CASE ConAlloc
  <2>1. ~Session /\ (Session' => FALSE)
    BY <1>1, <1>3 DEF ConAlloc, ConStep, Session, Phase
  <2>2. QED
    BY <1>1, <2>1, QueueIs DEF Refines, NextSample
<1>4. CASE ConReset
  <2>1. pbuf = "alloc" /\ ~Session
    BY <1>1, <1>4 DEF ConReset, ConStep, Session, Phase
  <2>2. Session' /\ rx' = 0 /\ tx' = 0 /\ taken' = 0 /\ buf' = buf
    BY <1>4, <2>1 DEF ConReset, ConStep, Session
  <2>3. Queue' = <<>> /\ NextSample' = 0
    BY <2>2, QueueIs, EmptyQueue DEF TypeOK, NextSample
  <2>4. QED
    BY <1>1, <2>3, EmptyIsReset DEF Refines, Fifo!FifoNext
<1>5. CASE ConTimer \/ ConUp \/ ConDeinit \/ ConOff
  <2>1. Session' <=> Session
    BY <1>5 DEF ConTimer, ConUp, ConDeinit, ConOff, ConStep, Session
  <2>2. UNCHANGED <<buf, tx, rx, taken, overlap>>
    BY <1>1, <1>5 DEF ConTimer, ConUp, ConDeinit, ConOff, ringVars
  <2>3. QED
    BY <2>1, <2>2, QueueStutters DEF Refines
<1>6. CASE ConFree \/ ConNull
  <2>1. ~Session'
    BY <1>6 DEF ConFree, ConNull, ConStep, Session
  <2>2. Queue' = <<>> /\ NextSample' = 0
    BY <2>1, QueueIs DEF NextSample
  <2>3. QED
    BY <1>1, <2>2, EmptyIsReset DEF Refines, Fifo!FifoNext
<1>7. QED
  BY <1>2, <1>3, <1>4, <1>5, <1>6 DEF Console

\* Every step of the ring is a step of the queue or leaves it as it is.
LEMMA RefinesStep ==
  ASSUME Masked
  PROVE  TypeOK /\ RingInv /\ [Next]_vars => [Fifo!FifoNext]_<<Queue, NextSample, overlap>>
<1>1. SUFFICES ASSUME TypeOK, RingInv, [Next]_vars
               PROVE  Refines
  BY DEF Refines
<1>2. CASE UNCHANGED vars
  <2>1. UNCHANGED <<buf, tx, rx, taken, overlap>> /\ (Session' <=> Session)
    BY <1>2 DEF vars, ringVars, Session
  <2>2. QED
    BY <2>1, QueueStutters DEF Refines
<1>3. CASE Next
  <2>1. CASE overlap'
    BY <2>1 DEF Refines, Fifo!FifoNext
  <2>2. CASE ~overlap'
    <3>1. ~overlap
      BY <1>1, <1>3, <2>2, OverlapStays
    <3>2. CASE Tick
      BY <1>1, <3>1, <3>2, RefinesTick
    <3>3. ASSUME NEW w \in Client, WsStart(w) PROVE Refines
      BY <1>1, <2>2, <3>1, <3>3, RefinesWsStart
    <3>4. ASSUME NEW w \in Client, WsCheck(w) PROVE Refines
      <4>1. UNCHANGED <<buf, tx, rx, taken>> /\ (Session' <=> Session) /\ overlap' = overlap
        BY <1>1, <2>2, <3>1, <3>4 DEF WsCheck, Arrives, Session, ringVars, TypeOK
      <4>2. QED
        BY <4>1, QueueStutters DEF Refines
    <3>5. CASE WsGet
      BY <1>1, <3>1, <3>5, RefinesWsGet
    <3>6. ~WsEnter /\ ~WsLeave
      BY DEF WsEnter, WsLeave
    <3>7. CASE WsStop
      BY <1>1, <2>2, <3>1, <3>7, RefinesWsStop
    <3>8. CASE Console
      BY <1>1, <3>1, <3>8, RefinesConsole
    <3>9. QED
      BY <1>3, <3>2, <3>3, <3>4, <3>5, <3>6, <3>7, <3>8 DEF Next, Websocket
  <2>3. QED
    BY <2>1, <2>2
<1>4. QED
  BY <1>1, <1>2, <1>3

LEMMA RefinesInit == Init => Fifo!FifoInit
<1>1. SUFFICES ASSUME Init PROVE Fifo!FifoInit
  OBVIOUS
<1>2. ~Session
  BY <1>1 DEF Init, Session
<1>3. Queue = <<>> /\ NextSample = 0
  BY <1>2 DEF Queue, NextSample
<1>4. overlap = FALSE
  BY <1>1 DEF Init
<1>5. QED
  BY <1>3, <1>4 DEF Fifo!FifoInit

\* The ring keeps the promise of a lossy queue of buf_idx samples: samples
\* reach the reader in order, and only the oldest of a full ring are lost,
\* if the reader's critical section keeps the handler out.
THEOREM RingImplementsFifo ==
  ASSUME Masked
  PROVE  Spec => ImplementsFifo
<1>1. Init => TypeOK /\ RingInv
  BY TypeInit, RingInit
<1>2. TypeOK /\ RingInv /\ [Next]_vars => (TypeOK /\ RingInv)'
  BY TypeStep, RingStep
<1>3. QED
  BY <1>1, <1>2, RefinesInit, RefinesStep, PTL DEF Spec, ImplementsFifo, Fifo!FifoSpec, Fifo!fifoVars

----------------------------------------------------------------------------
(* The blocks that clients receive.                                        *)

\* q is the run of consecutive samples that ends before v.
RunUpTo(q, v) == \A i \in 1..Len(q) : q[i] = v - Len(q) + i - 1

LEMMA RunAppend ==
  ASSUME NEW s \in Seq(Nat), NEW v \in Nat, RunUpTo(s, v)
  PROVE  RunUpTo(Append(s, v), v + 1)
<1>1. /\ Append(s, v) \in Seq(Nat) /\ Len(Append(s, v)) = Len(s) + 1
      /\ \A i \in 1..Len(s) : Append(s, v)[i] = s[i]
      /\ Append(s, v)[Len(s) + 1] = v
  OBVIOUS
<1>2. Len(s) \in Nat
  OBVIOUS
<1>3. SUFFICES ASSUME NEW i \in 1..(Len(s) + 1)
               PROVE  Append(s, v)[i] = (v + 1) - (Len(s) + 1) + i - 1
  BY <1>1 DEF RunUpTo
<1>4. CASE i = Len(s) + 1
  BY <1>1, <1>2, <1>4
<1>5. CASE i # Len(s) + 1
  <2>1. i \in 1..Len(s)
    BY <1>2, <1>5
  <2>2. s[i] = v - Len(s) + i - 1
    BY <2>1 DEF RunUpTo
  <2>3. QED
    BY <1>1, <1>2, <2>1, <2>2
<1>6. QED
  BY <1>4, <1>5

LEMMA RunTail ==
  ASSUME NEW s \in Seq(Nat), NEW v \in Nat, Len(s) >= 1, RunUpTo(s, v)
  PROVE  Tail(s) \in Seq(Nat) /\ RunUpTo(Tail(s), v)
<1>1. /\ Tail(s) \in Seq(Nat) /\ Len(Tail(s)) = Len(s) - 1
      /\ \A i \in 1..(Len(s) - 1) : Tail(s)[i] = s[i + 1]
  OBVIOUS
<1>2. Len(s) \in Nat
  OBVIOUS
<1>3. ASSUME NEW i \in 1..(Len(s) - 1) PROVE Tail(s)[i] = v - (Len(s) - 1) + i - 1
  <2>1. i + 1 \in 1..Len(s)
    BY <1>2
  <2>2. s[i + 1] = v - Len(s) + (i + 1) - 1
    BY <2>1 DEF RunUpTo
  <2>3. QED
    BY <1>1, <1>2, <2>2
<1>4. QED
  BY <1>1, <1>3 DEF RunUpTo

LEMMA RunSuffix ==
  ASSUME NEW s \in Seq(Nat), NEW v \in Nat, NEW k \in 1..Len(s), RunUpTo(s, v)
  PROVE  RunUpTo(SubSeq(s, k + 1, Len(s)), v)
<1>1. PICK x : x = SubSeq(s, k + 1, Len(s))
  OBVIOUS
<1>2. /\ x \in Seq(Nat) /\ Len(x) = Len(s) - k
      /\ \A i \in 1..(Len(s) - k) : x[i] = s[k + i]
  BY <1>1, SuffixIs
<1>3. Len(s) \in Nat
  OBVIOUS
<1>4. ASSUME NEW i \in 1..(Len(s) - k) PROVE x[i] = v - (Len(s) - k) + i - 1
  <2>1. k + i \in 1..Len(s)
    BY <1>3
  <2>2. s[k + i] = v - Len(s) + (k + i) - 1
    BY <2>1 DEF RunUpTo
  <2>3. QED
    BY <1>2, <1>3, <2>2
<1>5. QED
  BY <1>1, <1>2, <1>4 DEF RunUpTo

RunInv == ~overlap => RunUpTo(Queue, NextSample)

LEMMA RunInit == Init => RunInv
<1>1. SUFFICES ASSUME Init PROVE RunInv
  OBVIOUS
<1>2. Queue = <<>> /\ NextSample = 0
  BY <1>1, RefinesInit DEF Fifo!FifoInit
<1>3. QED
  BY <1>2 DEF RunInv, RunUpTo

LEMMA RunStep ==
  ASSUME Masked
  PROVE  TypeOK /\ RingInv /\ RunInv /\ [Next]_vars => RunInv'
<1>1. SUFFICES ASSUME TypeOK, RingInv, RunInv, [Next]_vars, ~overlap'
               PROVE  RunUpTo(Queue', NextSample')
  BY DEF RunInv
<1>2. Fifo!FifoNext \/ UNCHANGED <<Queue, NextSample, overlap>>
  BY <1>1, RefinesStep
<1>3. ~overlap
  <2>1. CASE UNCHANGED vars
    BY <1>1, <2>1 DEF vars
  <2>2. QED
    BY <1>1, <2>1, OverlapStays
<1>4. RunUpTo(Queue, NextSample)
  BY <1>1, <1>3 DEF RunInv
<1>5. Queue \in Seq(Nat) /\ NextSample \in Nat
  <2>1. CASE Session
    BY <1>1, <2>1, QueueLength DEF NextSample, TypeOK
  <2>2. CASE ~Session
    <3>1. Queue = <<>> /\ NextSample = 0
      BY <2>2 DEF Queue, NextSample
    <3>2. QED
      BY <3>1
  <2>3. QED
    BY <2>1, <2>2
<1>6. CASE Fifo!Put
  <2>1. PICK q \in Seq(Nat) : q = Queue
    BY <1>5
  <2>2. CASE Len(q) = BufIdx
    <3>1. Tail(q) \in Seq(Nat) /\ RunUpTo(Tail(q), NextSample)
      BY <1>4, <1>5, <2>1, <2>2, RunTail, BufIdxNat
    <3>2. Queue' = Append(Tail(q), NextSample) /\ NextSample' = NextSample + 1
      BY <1>6, <2>1, <2>2 DEF Fifo!Put
    <3>3. QED
      BY <1>5, <3>1, <3>2, RunAppend
  <2>3. CASE Len(q) # BufIdx
    <3>1. Queue' = Append(q, NextSample) /\ NextSample' = NextSample + 1
      BY <1>6, <2>1, <2>3 DEF Fifo!Put
    <3>2. QED
      BY <1>4, <1>5, <2>1, <3>1, RunAppend
  <2>4. QED
    BY <2>2, <2>3
<1>7. ASSUME NEW n \in 1..BufIdx, Fifo!Take(n) PROVE RunUpTo(Queue', NextSample')
  <2>1. PICK q \in Seq(Nat) : q = Queue
    BY <1>5
  <2>2. n \in 1..Len(q) /\ Queue' = SubSeq(q, n + 1, Len(q)) /\ NextSample' = NextSample
    BY <1>7, <2>1, BufIdxNat DEF Fifo!Take
  <2>3. QED
    BY <1>4, <1>5, <2>1, <2>2, RunSuffix
<1>8. CASE Fifo!Reset
  <2>1. Queue' = <<>>
    BY <1>8 DEF Fifo!Reset
  <2>2. QED
    BY <2>1 DEF RunUpTo
<1>9. CASE UNCHANGED <<Queue, NextSample, overlap>>
  BY <1>4, <1>9
<1>10. QED
  BY <1>1, <1>2, <1>6, <1>7, <1>8, <1>9 DEF Fifo!FifoNext

\* A block that is handed over is the front of the queue.
LEMMA BlockStep ==
  ASSUME Masked
  PROVE  TypeOK /\ RingInv /\ RunInv /\ BlockIsRun /\ [Next]_vars => BlockIsRun'
<1>1. SUFFICES ASSUME TypeOK, RingInv, RunInv, BlockIsRun, [Next]_vars, ~overlap',
                      NEW w \in Client,
                      NEW i \in 1..(Len(block'[w].data) - 1)
               PROVE  block'[w].data[i + 1] = block'[w].data[i] + 1
  BY DEF BlockIsRun
<1>2. ~overlap
  <2>1. CASE UNCHANGED vars
    BY <1>1, <2>1 DEF vars
  <2>2. QED
    BY <1>1, <2>1, OverlapStays
<1>3. CASE block' = block
  BY <1>1, <1>2, <1>3 DEF BlockIsRun
<1>4. CASE block'[w] = NoBlock
  BY <1>1, <1>4 DEF NoBlock
<1>5. CASE WsGet
  <2>1. con = "idle" /\ pbuf = "alloc" /\ Asked /\ ws.at = "get"
    BY <1>1, <1>2, <1>5 DEF WsGet, RingInv, Phase, Idle
  <2>2. Session
    BY <2>1 DEF Session
  <2>3. PICK n \in 1..BufIdx : n = ws.cnt
    BY <1>1, <2>1, GetShape
  <2>4. PICK m \in 0..BufIdx : m = Waiting(tx, rx) /\ Len(Queue) = m /\ Queue = ReadOf(buf, rx, m)
    BY <1>1, <2>2, QueueLength, QueueIs
  <2>5. n <= m
    BY <2>1, <2>3, <2>4 DEF Asked, Avail, Waiting
  <2>6. CASE block' = [block EXCEPT ![ws.client] = [idx |-> HeadIndex, data |-> Read(rx, n)]]
    <3>1. CASE w = ws.client
      <4>1. block'[w].data = Read(rx, n)
        BY <1>1, <2>6, <3>1 DEF TypeOK
      <4>2. Read(rx, n) = [j \in 1..n |-> buf[At(rx, j - 1)]]
        BY DEF Read
      <4>3. Len(Read(rx, n)) = n
        BY <2>3, <4>2, BufIdxNat
      <4>4. i \in 1..n /\ i + 1 \in 1..n /\ i \in 1..m /\ i + 1 \in 1..m /\ i \in 1..(m - 1)
        BY <1>1, <2>3, <2>4, <2>5, <4>1, <4>3, BufIdxNat
      <4>5. Read(rx, n)[i] = Queue[i] /\ Read(rx, n)[i + 1] = Queue[i + 1]
        BY <2>4, <4>2, <4>4 DEF ReadOf
      <4>6. Queue[i + 1] = Queue[i] + 1
        <5>1. /\ Queue[i] = NextSample - m + i - 1
              /\ Queue[i + 1] = NextSample - m + (i + 1) - 1
          BY <1>1, <1>2, <2>4, <4>4 DEF RunInv, RunUpTo
        <5>2. NextSample \in Nat
          BY <1>1, <2>2 DEF NextSample, TypeOK
        <5>3. QED
          BY <4>4, <5>1, <5>2
      <4>7. QED
        BY <4>1, <4>5, <4>6
    <3>2. CASE w # ws.client
      <4>1. block'[w] = block[w]
        BY <1>1, <2>6, <3>2 DEF TypeOK
      <4>2. QED
        BY <1>1, <1>2, <4>1 DEF BlockIsRun
    <3>3. QED
      BY <3>1, <3>2
  <2>7. CASE block' = [block EXCEPT ![ws.client] = NoBlock]
    <3>1. block'[w] = block[w] \/ block'[w] = NoBlock
      BY <1>1, <2>7 DEF TypeOK
    <3>2. QED
      BY <1>1, <1>2, <1>4, <3>1 DEF BlockIsRun
  <2>8. QED
    BY <1>5, <2>1, <2>3, <2>6, <2>7 DEF WsGet, Copy
<1>6. block' = block \/ block'[w] = NoBlock \/ WsGet
  <2>1. CASE UNCHANGED vars
    BY <2>1 DEF vars
  <2>2. CASE Next
    BY <2>2 DEF Next, Tick, Websocket, WsEnter, WsLeave, WsStart, EmptyRing, WsCheck, WsStop, Console, ConInit,
       ConAlloc, ConReset, ConTimer, ConUp, ConDeinit, ConFree, ConNull, ConOff
  <2>3. QED
    BY <1>1, <2>1, <2>2
<1>7. QED
  BY <1>3, <1>4, <1>5, <1>6

\* A client receives runs of consecutive samples, for every size of the ring
\* and wherever the interrupt falls outside the critical section.
THEOREM BlocksAreRuns ==
  ASSUME Masked
  PROVE  Spec => []BlockIsRun
<1>1. Init => BlockIsRun
  BY DEF Init, BlockIsRun, NoBlock
<1>2. Init => TypeOK /\ RingInv /\ RunInv /\ BlockIsRun
  BY <1>1, TypeInit, RingInit, RunInit
<1>3. TypeOK /\ RingInv /\ RunInv /\ BlockIsRun /\ [Next]_vars
        => (TypeOK /\ RingInv /\ RunInv /\ BlockIsRun)'
  BY TypeStep, RingStep, RunStep, BlockStep
<1>4. QED
  BY <1>2, <1>3, PTL DEF Spec
----------------------------------------------------------------------------
(* The index of a block shows what its client did not get.                 *)

\* Counting modulo CountMod.
Congruent(a, b) == \E k \in Int : a = b + k * CountMod

LEMMA CountModNat == CountMod \in Nat /\ CountMod >= 1
  BY RingAssumption

LEMMA ModCongruent ==
  ASSUME NEW a \in Int
  PROVE  a % CountMod \in Int /\ Congruent(a % CountMod, a)
<1>1. /\ a = CountMod * (a \div CountMod) + (a % CountMod)
      /\ a \div CountMod \in Int /\ a % CountMod \in Int
  BY CountModNat
<1>2. a % CountMod = a + (-(a \div CountMod)) * CountMod /\ -(a \div CountMod) \in Int
  BY <1>1, CountModNat
<1>3. QED
  BY <1>1, <1>2 DEF Congruent

\* Congruent numbers can be added and subtracted.
LEMMA CongruentSum ==
  ASSUME NEW a \in Int, NEW b \in Int, NEW c \in Int, NEW d \in Int,
         Congruent(a, b), Congruent(c, d)
  PROVE  Congruent(a + c, b + d) /\ Congruent(a - c, b - d)
<1>1. PICK k \in Int : a = b + k * CountMod
  BY DEF Congruent
<1>2. PICK l \in Int : c = d + l * CountMod
  BY DEF Congruent
<1>3. a + c = (b + d) + (k + l) * CountMod /\ k + l \in Int
  BY <1>1, <1>2, CountModNat
<1>4. a - c = (b - d) + (k - l) * CountMod /\ k - l \in Int
  BY <1>1, <1>2, CountModNat
<1>5. QED
  BY <1>3, <1>4 DEF Congruent

LEMMA CongruentItself == ASSUME NEW a \in Int PROVE Congruent(a, a)
<1>1. a = a + 0 * CountMod /\ 0 \in Int
  BY CountModNat
<1>2. QED
  BY <1>1 DEF Congruent

\* Numbers in the range of the counters are congruent only if they are equal.
LEMMA CongruentInRange ==
  ASSUME NEW r \in 0..(CountMod - 1), NEW s \in 0..(CountMod - 1), Congruent(r, s)
  PROVE  r = s
<1>1. PICK k \in Int : r = s + k * CountMod
  BY DEF Congruent
<1>2. CASE k >= 1
  <2>1. k * CountMod >= CountMod
    BY <1>2, CountModNat
  <2>2. QED
    BY <1>1, <2>1, CountModNat
<1>3. CASE k <= -1
  <2>1. (-k) * CountMod >= CountMod
    BY <1>3, CountModNat
  <2>2. QED
    BY <1>1, <2>1, CountModNat
<1>4. CASE k = 0
  BY <1>1, <1>4, CountModNat
<1>5. QED
  BY <1>2, <1>3, <1>4

LEMMA CongruentMod ==
  ASSUME NEW a \in Int, NEW b \in Int, Congruent(a, b)
  PROVE  a % CountMod = b % CountMod
<1>1. PICK r \in 0..(CountMod - 1) : r = a % CountMod /\ Congruent(r, a)
  BY ModCongruent, CountModNat
<1>2. PICK s \in 0..(CountMod - 1) : s = b % CountMod /\ Congruent(s, b)
  BY ModCongruent, CountModNat
<1>3. Congruent(r - s, a - b)
  BY <1>1, <1>2, CongruentSum, CountModNat
<1>4. PICK k \in Int : r - s = (a - b) + k * CountMod
  BY <1>3 DEF Congruent
<1>5. PICK l \in Int : a = b + l * CountMod
  BY DEF Congruent
<1>6. r = s + (k + l) * CountMod /\ k + l \in Int
  BY <1>4, <1>5, CountModNat
<1>7. Congruent(r, s)
  BY <1>6 DEF Congruent
<1>8. QED
  BY <1>1, <1>2, <1>7, CongruentInRange

\* The sample that the next block begins with.
Oldest == taken - Avail

\* How far the index has moved on since the last block of a client, and how far
\* the samples have.
Drift(w) ==
  block[w].data # <<>> => Congruent((count + overrun) - block[w].idx, Oldest - block[w].data[1])

GapInv == ~overlap /\ Session => \A w \in Client : Drift(w)

\* Types of what GapInv is about.
LEMMA DriftTypes ==
  ASSUME TypeOK
  PROVE  count \in Int /\ overrun \in Int /\ taken \in Int /\ Avail \in Int /\ Oldest \in Int
<1>1. count \in Int /\ overrun \in Int /\ taken \in Int
  BY CountModNat DEF TypeOK
<1>2. Avail \in Int
  BY AvailRange, BufIdxNat DEF TypeOK
<1>3. QED
  BY <1>1, <1>2 DEF Oldest

LEMMA BlockTypes ==
  ASSUME TypeOK, NEW w \in Client, block[w].data # <<>>
  PROVE  block[w].idx \in Int /\ block[w].data[1] \in Int
<1>1. block[w].idx \in 0..(CountMod - 1) /\ block[w].data \in Seq(Nat)
  BY DEF TypeOK
<1>2. ASSUME NEW q \in Seq(Nat), q # <<>> PROVE q[1] \in Int
  <2>1. Len(q) \in Nat /\ Len(q) # 0
    BY <1>2
  <2>2. 1 \in 1..Len(q)
    BY <2>1
  <2>3. QED
    BY <2>2
<1>3. block[w].data[1] \in Int
  BY <1>1, <1>2
<1>4. block[w].idx \in Int
  BY <1>1, CountModNat
<1>5. QED
  BY <1>3, <1>4

\* A sample that is taken leaves the oldest where it is, or drops it and counts it.
LEMMA PushDrifts ==
  ASSUME TypeOK, Push
  PROVE  \/ overrun' = overrun /\ Oldest' = Oldest
         \/ overrun' = (overrun + 1) % CountMod /\ Oldest' = Oldest + 1
<1>1. tx \in Slot /\ rx \in Slot /\ taken \in Nat /\ tx' = Step(tx) /\ taken' = taken + 1
  BY DEF TypeOK, Push
<1>2. Avail = Waiting(tx, rx) /\ Avail' = Waiting(tx', rx')
  BY DEF Avail, Waiting
<1>3. CASE rx # Step(tx)
  <2>1. rx' = rx /\ overrun' = overrun
    BY <1>3 DEF Push
  <2>2. Waiting(tx', rx') = Waiting(tx, rx) + 1 /\ Waiting(tx, rx) \in 0..(BufIdx - 1)
    BY <1>1, <1>3, <2>1, WaitingGrows
  <2>3. QED
    BY <1>1, <1>2, <2>1, <2>2, BufIdxNat DEF Oldest
<1>4. CASE rx = Step(tx)
  <2>1. rx' = Step(Step(tx)) /\ overrun' = (overrun + 1) % CountMod
    BY <1>4 DEF Push
  <2>2. Waiting(tx, rx) = BufIdx /\ Waiting(tx', rx') = BufIdx
    BY <1>1, <1>4, <2>1, WaitingFull
  <2>3. QED
    BY <1>1, <1>2, <2>1, <2>2, BufIdxNat DEF Oldest
<1>5. QED
  BY <1>3, <1>4

LEMMA GapPush ==
  ASSUME TypeOK, Push, UNCHANGED <<count, block>>, NEW w \in Client, Drift(w)
  PROVE  Drift(w)'
<1>1. SUFFICES ASSUME block[w].data # <<>>
               PROVE  Congruent((count + overrun') - block[w].idx, Oldest' - block[w].data[1])
  BY DEF Drift
<1>2. PICK c \in Int, o \in Int, i \in Int, d \in Int, old \in Int :
        c = count /\ o = overrun /\ i = block[w].idx /\ d = block[w].data[1] /\ old = Oldest
  <2>1. block[w].idx \in Int /\ block[w].data[1] \in Int
    BY <1>1, BlockTypes
  <2>2. count \in Int /\ overrun \in Int /\ Oldest \in Int
    BY DriftTypes
  <2>3. QED
    BY <2>1, <2>2
<1>3. Congruent((c + o) - i, old - d)
  BY <1>1, <1>2 DEF Drift
<1>4. CASE overrun' = overrun /\ Oldest' = Oldest
  BY <1>2, <1>3, <1>4
<1>5. CASE overrun' = (overrun + 1) % CountMod /\ Oldest' = Oldest + 1
  <2>1. PICK m \in Int : m = overrun' /\ Congruent(m, o + 1)
    BY <1>2, <1>5, ModCongruent
  <2>2. Congruent(m - o, 1)
    <3>1. Congruent(m - o, (o + 1) - o)
      BY <2>1, CongruentSum, CongruentItself
    <3>2. (o + 1) - o = 1
      OBVIOUS
    <3>3. QED
      BY <3>1, <3>2
  <2>3. Congruent(((c + o) - i) + (m - o), (old - d) + 1)
    BY <1>3, <2>2, CongruentSum
  <2>4. ((c + o) - i) + (m - o) = (c + m) - i /\ (old - d) + 1 = (old + 1) - d
    OBVIOUS
  <2>5. QED
    BY <1>2, <1>5, <2>1, <2>3, <2>4
<1>6. QED
  BY <1>4, <1>5, PushDrifts

\* What a block read does when it belongs to a session.
LEMMA GetIs ==
  ASSUME TypeOK, RingInv, RunInv, Masked, ~overlap, WsGet
  PROVE  /\ Session /\ Session' /\ UNCHANGED <<overrun, taken>>
         /\ \E n \in Int :
              /\ count' = (count + n) % CountMod
              /\ Oldest' = Oldest + n
         /\ \A w \in Client :
              \/ block'[w] = block[w]
              \/ block'[w] = NoBlock
              \/ block'[w].idx = HeadIndex /\ block'[w].data[1] = Oldest
<1>1. con = "idle" /\ pbuf = "alloc" /\ Asked /\ ws.at = "get"
  BY DEF WsGet, RingInv, Phase, Idle
<1>2. Session /\ Session'
  BY <1>1 DEF Session, WsGet, Copy
<1>3. /\ tx' = tx /\ rx' = Advance(rx, ws.cnt) /\ UNCHANGED <<overrun, taken>>
      /\ count' = (count + ws.cnt) % CountMod
      /\ \/ block' = [block EXCEPT ![ws.client] = [idx |-> HeadIndex, data |-> Read(rx, ws.cnt)]]
         \/ block' = [block EXCEPT ![ws.client] = NoBlock]
  BY <1>1 DEF WsGet, Copy
<1>4. PICK n \in 1..BufIdx : n = ws.cnt
  BY <1>1, GetShape
<1>5. tx \in Slot /\ rx \in Slot /\ taken \in Nat
  BY DEF TypeOK
<1>6. PICK m \in 0..BufIdx : m = Waiting(tx, rx) /\ Len(Queue) = m /\ Queue = ReadOf(buf, rx, m)
  BY <1>2, QueueLength, QueueIs
<1>7. n \in 1..m
  BY <1>1, <1>4, <1>6, BufIdxNat DEF Asked, Avail, Waiting
<1>8. Oldest = taken - m /\ Oldest' = Oldest + n
  <2>1. Avail = m /\ Avail' = Waiting(tx, Forward(rx, n))
    BY <1>3, <1>4, <1>6 DEF Avail, Waiting, Advance, Forward
  <2>2. Waiting(tx, Forward(rx, n)) = m - n
    BY <1>5, <1>6, <1>7, ForwardRange
  <2>3. QED
    BY <1>3, <1>5, <1>6, <1>7, <2>1, <2>2, BufIdxNat DEF Oldest
<1>9. Read(rx, n)[1] = Oldest
  <2>1. 1 \in 1..n /\ 1 \in 1..m
    BY <1>6, <1>7, BufIdxNat
  <2>2. Read(rx, n)[1] = Queue[1]
    BY <1>6, <2>1 DEF Read, ReadOf
  <2>3. Queue[1] = taken - m + 1 - 1
    BY <1>2, <1>6, <2>1 DEF RunInv, RunUpTo, NextSample
  <2>4. QED
    BY <1>5, <1>6, <1>8, <2>2, <2>3
<1>10. ASSUME NEW w \in Client
       PROVE  \/ block'[w] = block[w]
              \/ block'[w] = NoBlock
              \/ block'[w].idx = HeadIndex /\ block'[w].data[1] = Oldest
  <2>1. CASE block' = [block EXCEPT ![ws.client] = [idx |-> HeadIndex, data |-> Read(rx, n)]]
    BY <1>9, <2>1 DEF TypeOK
  <2>2. CASE block' = [block EXCEPT ![ws.client] = NoBlock]
    BY <2>2 DEF TypeOK
  <2>3. QED
    BY <1>3, <1>4, <2>1, <2>2
<1>11. QED
  BY <1>2, <1>3, <1>4, <1>8, <1>10

LEMMA GapGet ==
  ASSUME TypeOK, RingInv, RunInv, Masked, ~overlap, WsGet, NEW w \in Client, Drift(w)
  PROVE  Drift(w)'
<1>1. SUFFICES ASSUME block'[w].data # <<>>
               PROVE  Congruent((count' + overrun') - block'[w].idx, Oldest' - block'[w].data[1])
  BY DEF Drift
<1>2. PICK n \in Int : count' = (count + n) % CountMod /\ Oldest' = Oldest + n
  BY GetIs
<1>3. PICK c \in Int, o \in Int, old \in Int : c = count /\ o = overrun /\ old = Oldest
  BY DriftTypes
<1>4. PICK m \in Int : m = count' /\ Congruent(m, c + n)
  BY <1>2, <1>3, ModCongruent
<1>5. overrun' = o
  BY <1>3, GetIs
<1>6. CASE block'[w] = block[w]
  <2>1. block[w].data # <<>>
    BY <1>1, <1>6
  <2>2. PICK i \in Int, d \in Int : i = block[w].idx /\ d = block[w].data[1]
    <3>1. block[w].idx \in Int /\ block[w].data[1] \in Int
      BY <2>1, BlockTypes
    <3>2. QED
      BY <3>1
  <2>3. Congruent((c + o) - i, old - d)
    BY <1>3, <2>1, <2>2 DEF Drift
  <2>4. Congruent(m - c, (c + n) - c)
    BY <1>4, CongruentSum, CongruentItself
  <2>5. Congruent(((c + o) - i) + (m - c), (old - d) + ((c + n) - c))
    BY <2>3, <2>4, CongruentSum
  <2>6. ((c + o) - i) + (m - c) = (m + o) - i /\ (old - d) + ((c + n) - c) = (old + n) - d
    OBVIOUS
  <2>7. QED
    BY <1>2, <1>3, <1>4, <1>5, <1>6, <2>2, <2>5, <2>6
<1>7. CASE block'[w].idx = HeadIndex /\ block'[w].data[1] = Oldest
  <2>1. PICK h \in Int : h = HeadIndex /\ Congruent(h, c + o)
    BY <1>3, ModCongruent DEF HeadIndex
  <2>2. Congruent((m + o) - h, ((c + n) + o) - (c + o))
    BY <1>4, <2>1, CongruentSum, CongruentItself
  <2>3. ((c + n) + o) - (c + o) = (old + n) - old
    OBVIOUS
  <2>4. QED
    BY <1>2, <1>3, <1>4, <1>5, <1>7, <2>1, <2>2, <2>3
<1>8. CASE block'[w] = NoBlock
  BY <1>1, <1>8 DEF NoBlock
<1>9. QED
  BY <1>6, <1>7, <1>8, GetIs

\* The other steps end outside a session, forget the blocks, take a sample or
\* leave alone what the invariant is about.
LEMMA GapOther ==
  ASSUME TypeOK, RingInv, Masked, ~overlap, ~overlap', Next, ~WsGet
  PROVE  \/ ~Session'
         \/ \A w \in Client : block'[w] = NoBlock
         \/ Session /\ Push /\ UNCHANGED <<count, block>>
         \/ Session /\ UNCHANGED <<count, overrun, tx, rx, taken, block>>
<1> DEFINE Alone == UNCHANGED <<count, overrun, tx, rx, taken, block>> /\ (Session' => Session)
           Goal == \/ ~Session'
                   \/ \A w \in Client : block'[w] = NoBlock
                   \/ Session /\ Push /\ UNCHANGED <<count, block>>
                   \/ Alone
<1>1. CASE Tick
  <2>1. pbuf = "alloc" /\ con # "reset"
    BY <1>1 DEF Tick, RingInv, Phase, TypeOK, ConStates
  <2>2. Session
    BY <2>1 DEF Session
  <2>3. CASE UNCHANGED ringVars
    BY <1>1, <2>2, <2>3 DEF Tick, ringVars
  <2>4. CASE Push
    BY <1>1, <2>2, <2>4 DEF Tick
  <2>5. QED
    BY <1>1, <2>1, <2>3, <2>4 DEF Tick, Sample
<1>2. ASSUME NEW w \in Client, WsStart(w) PROVE Goal
  <2>1. con = "idle" /\ init # 1
    <3>1. init \in {-1, 0, 1} /\ init <= 0 /\ con = "idle"
      BY <1>2 DEF WsStart, Arrives, TypeOK
    <3>2. QED
      BY <3>1
  <2>2. pbuf = "null"
    BY <2>1 DEF RingInv, Phase
  <2>3. EmptyRing \/ pbuf' = pbuf
    BY <1>2, <2>2 DEF WsStart
  <2>4. QED
    BY <2>2, <2>3 DEF EmptyRing, Session
<1>3. ASSUME NEW w \in Client, WsCheck(w) PROVE Goal
  BY <1>3 DEF WsCheck, ringVars, Session
<1>4. CASE WsStop
  BY <1>4 DEF WsStop, Session
<1>5. CASE ConInit
  <2>1. con = "idle" /\ init # 1
    <3>1. init \in {-1, 0, 1} /\ init <= 0 /\ con = "idle"
      BY <1>5 DEF ConInit, ConStep, TypeOK
    <3>2. QED
      BY <3>1
  <2>2. pbuf = "null" /\ pbuf' = pbuf
    BY <1>5, <2>1 DEF ConInit, RingInv, Phase
  <2>3. QED
    BY <2>2 DEF Session
<1>6. CASE ConAlloc
  <2>1. con = "alloc" /\ pbuf = "null"
    BY <1>6 DEF ConAlloc, ConStep, RingInv, Phase
  <2>2. QED
    BY <1>6, <2>1 DEF ConAlloc, ConStep, Session
<1>7. CASE ConReset
  BY <1>7 DEF ConReset
<1>8. CASE ConTimer \/ ConUp \/ ConDeinit \/ ConOff
  BY <1>8 DEF ConTimer, ConUp, ConDeinit, ConOff, ConStep, ringVars, Session
<1>9. CASE ConFree \/ ConNull
  BY <1>9 DEF ConFree, ConNull, Session
<1>10. Goal
  BY <1>1, <1>2, <1>3, <1>4, <1>5, <1>6, <1>7, <1>8, <1>9
     DEF Next, Websocket, WsEnter, WsLeave, Console
<1>11. QED
  BY <1>10

LEMMA GapStep ==
  ASSUME Masked
  PROVE  TypeOK /\ RingInv /\ RunInv /\ GapInv /\ [Next]_vars => GapInv'
<1>1. SUFFICES ASSUME TypeOK, RingInv, RunInv, GapInv, [Next]_vars, ~overlap', Session',
                      NEW w \in Client
               PROVE  Drift(w)'
  BY DEF GapInv
<1>2. CASE UNCHANGED vars
  BY <1>1, <1>2 DEF vars, ringVars, GapInv, Session, Drift, Oldest, Avail
<1>3. CASE Next
  <2>1. ~overlap
    BY <1>1, <1>3, OverlapStays
  <2>2. CASE WsGet
    <3>1. Session
      BY <1>1, <2>1, <2>2, GetIs
    <3>2. Drift(w)
      BY <1>1, <2>1, <3>1 DEF GapInv
    <3>3. QED
      BY <1>1, <2>1, <2>2, <3>2, GapGet
  <2>3. CASE block'[w] = NoBlock
    BY <2>3 DEF Drift, NoBlock
  <2>4. CASE Session /\ Push /\ UNCHANGED <<count, block>>
    BY <1>1, <2>1, <2>4, GapPush DEF GapInv
  <2>5. CASE Session /\ UNCHANGED <<count, overrun, tx, rx, taken, block>>
    BY <1>1, <2>1, <2>5 DEF GapInv, Drift, Oldest, Avail
  <2>6. QED
    BY <1>1, <1>3, <2>1, <2>2, <2>3, <2>4, <2>5, GapOther
<1>4. QED
  BY <1>1, <1>2, <1>3

\* The index that is written into the head of a block.
LEMMA GapShows ==
  ASSUME TypeOK, RingInv, RunInv, GapInv, Masked, WsGet, ~overlap, NEW w \in Client,
         block[w].data # <<>>, block'[w].data # <<>>, block'[w] # block[w]
  PROVE  (block'[w].idx - block[w].idx) % CountMod
           = (block'[w].data[1] - block[w].data[1]) % CountMod
<1>1. Session /\ block'[w].idx = HeadIndex /\ block'[w].data[1] = Oldest
  BY GetIs DEF NoBlock
<1>2. PICK c \in Int, o \in Int, i \in Int, d \in Int, old \in Int :
        c = count /\ o = overrun /\ i = block[w].idx /\ d = block[w].data[1] /\ old = Oldest
  <2>1. block[w].idx \in Int /\ block[w].data[1] \in Int
    BY BlockTypes
  <2>2. count \in Int /\ overrun \in Int /\ Oldest \in Int
    BY DriftTypes
  <2>3. QED
    BY <2>1, <2>2
<1>3. Congruent((c + o) - i, old - d)
  BY <1>1, <1>2 DEF GapInv, Drift
<1>4. PICK h \in Int : h = HeadIndex /\ Congruent(h, c + o)
  BY <1>2, ModCongruent DEF HeadIndex
<1>5. Congruent(h - (c + o), (c + o) - (c + o))
  BY <1>4, CongruentSum, CongruentItself
<1>6. Congruent(((c + o) - i) + (h - (c + o)), (old - d) + ((c + o) - (c + o)))
  BY <1>3, <1>5, CongruentSum
<1>7. ((c + o) - i) + (h - (c + o)) = h - i /\ (old - d) + ((c + o) - (c + o)) = old - d
  OBVIOUS
<1>8. (h - i) % CountMod = (old - d) % CountMod
  BY <1>6, <1>7, CongruentMod
<1>9. QED
  BY <1>1, <1>2, <1>4, <1>8

\* The index shows the gap between two blocks of a client, modulo 2^16, for
\* every size of the ring and every width of the counters.
THEOREM GapIsAlwaysShown ==
  ASSUME Masked
  PROVE  Spec => GapIsShown
<1>1. Init => TypeOK /\ RingInv /\ RunInv /\ GapInv
  <2>1. Init => GapInv
    BY DEF Init, GapInv, Session
  <2>2. QED
    BY <2>1, TypeInit, RingInit, RunInit
<1>2. TypeOK /\ RingInv /\ RunInv /\ GapInv /\ [Next]_vars
        => (TypeOK /\ RingInv /\ RunInv /\ GapInv)'
  BY TypeStep, RingStep, RunStep, GapStep
<1>3. TypeOK /\ RingInv /\ RunInv /\ GapInv /\ [Next]_vars
        => [\A w \in Client :
              LET old == block[w]
                  new == block'[w]
              IN  ~overlap' /\ old.data # <<>> /\ new.data # <<>> /\ new # old
                    => (new.idx - old.idx) % CountMod = (new.data[1] - old.data[1]) % CountMod]_vars
  <2>1. SUFFICES ASSUME TypeOK, RingInv, RunInv, GapInv, Next, ~overlap', NEW w \in Client,
                        block[w].data # <<>>, block'[w].data # <<>>, block'[w] # block[w]
                 PROVE  (block'[w].idx - block[w].idx) % CountMod
                          = (block'[w].data[1] - block[w].data[1]) % CountMod
    OBVIOUS
  <2>2. ~overlap
    BY <2>1, OverlapStays
  <2>3. WsGet
    <3>1. block' # block /\ block'[w] # NoBlock
      BY <2>1 DEF NoBlock
    <3>2. QED
      BY <2>1, <3>1 DEF Next, Tick, Websocket, WsEnter, WsLeave, WsStart, EmptyRing, WsCheck, WsStop,
         Console, ConInit, ConAlloc, ConReset, ConTimer, ConUp, ConDeinit, ConFree, ConNull, ConOff
  <2>4. QED
    BY <2>1, <2>2, <2>3, GapShows
<1>4. QED
  BY <1>1, <1>2, <1>3, PTL DEF Spec, GapIsShown
=============================================================================
