--------------------------- MODULE TcpSrv_proofs ---------------------------
(***************************************************************************)
(* Theorems of TcpSrv and their proofs.                                    *)
(***************************************************************************)
EXTENDS TcpSrv, FiniteSetTheorems, TLAPS

\* The thread enters this connection's code through a callback other than poll.
Hooked(p) == arg[p] # NoConn /\ ("recv" \in cb[p] \/ "sent" \in cb[p] \/ "err" \in cb[p])

\* Such a callback leads back to an open connection, whose pcb it is.
CallbacksMeetOwner ==
  \A p \in Pcb : tcp[p] \in Active /\ Hooked(p) =>
    arg[p] \in live /\ cpcb[arg[p]] = p /\ Open(arg[p])

\* A connection in state CLOSED has lost its pcb, or is about to.
ClosedHasNone ==
  \A c \in live : state[c] = "CLOSED" => cpcb[c] = NoPcb \/ (c = ts /\ at = "discon")

\* where ts_conn, if it is still allocated, is the head of conn_links
OnHead == {"find", "arg", "recv", "err", "poll", "sent", "close", "forget", "state", "discon", "unlink", "store"}
\* where the pcb has been found and lost its argument
Cleared == {"recv", "err", "poll", "sent", "close"}
\* where no callback but poll leads to ts_conn any more
Past == Cleared \union {"forget", "state", "discon", "unlink", "store", "count", "dec", "free"}

(***************************************************************************)
(* What the task in tcpsrv_close may rely on at each of its statements,    *)
(* whatever the thread has done since the one before.                      *)
(***************************************************************************)
TaskInv ==
  /\ (srv = "closing") <=> (at # "idle")
  /\ alone => at # "idle"
  /\ (at \in {"idle", "head"}) <=> (ts = NoConn)
  /\ (tp \in Pcb) <=> (at \in Cleared \union {"arg"})
  /\ at \in OnHead /\ ts \in live => links # <<>> /\ Head(links) = ts
  /\ at \in Past => \A p \in Pcb : tcp[p] \in Active /\ Hooked(p) => arg[p] # ts
  /\ at = "arg" => arg[tp] \in {ts, NoConn}
  /\ at = "arg" /\ ts \in live => cpcb[ts] \in {tp, NoPcb}
  /\ at \in Cleared => arg[tp] = NoConn
  /\ at \in {"discon", "unlink", "store"} /\ ts \in live => state[ts] = "CLOSED"
  /\ at \in {"count", "dec", "free"} => ts \in live /\ cpcb[ts] = NoPcb
  /\ at = "dec" => Len(links) < num /\ num <= MaxConn

\* The inductive invariant whatever fails.
ListInv == TypeOK /\ ListMatchesHeap /\ CallbacksMeetOwner /\ ClosedHasNone /\ TaskInv

-----------------------------------------------------------------------------
Distinct(seq) == \A i, j \in 1 .. Len(seq) : seq[i] = seq[j] => i = j

(***************************************************************************)
(* Cutting an element out of a sequence: what is before it stays where it  *)
(* is, what is behind it moves up by one.                                  *)
(***************************************************************************)
LEMMA SubSeqAround ==
  ASSUME NEW S, NEW seq \in Seq(S), NEW k \in 1 .. Len(seq)
  PROVE  /\ SubSeq(seq, 1, k - 1) \in Seq(S)
         /\ Len(SubSeq(seq, 1, k - 1)) = k - 1
         /\ \A i \in 1 .. k - 1 : SubSeq(seq, 1, k - 1)[i] = seq[i]
         /\ SubSeq(seq, k + 1, Len(seq)) \in Seq(S)
         /\ Len(SubSeq(seq, k + 1, Len(seq))) = Len(seq) - k
         /\ \A i \in 1 .. Len(seq) - k : SubSeq(seq, k + 1, Len(seq))[i] = seq[k + i]
  OBVIOUS

LEMMA RemoveAtIs ==
  ASSUME NEW S, NEW seq \in Seq(S), NEW k \in 1 .. Len(seq)
  PROVE  /\ RemoveAt(seq, k) \in Seq(S)
         /\ Len(RemoveAt(seq, k)) = Len(seq) - 1
         /\ \A i \in 1 .. k - 1 : RemoveAt(seq, k)[i] = seq[i]
         /\ \A i \in k .. Len(seq) - 1 : RemoveAt(seq, k)[i] = seq[i + 1]
<1>1. PICK front \in Seq(S), back \in Seq(S) :
        /\ RemoveAt(seq, k) = front \o back
        /\ Len(front) = k - 1 /\ Len(back) = Len(seq) - k
        /\ \A i \in 1 .. k - 1 : front[i] = seq[i]
        /\ \A i \in 1 .. Len(seq) - k : back[i] = seq[k + i]
  <2> DEFINE f == SubSeq(seq, 1, k - 1)
             b == SubSeq(seq, k + 1, Len(seq))
  <2>1. /\ f \in Seq(S) /\ b \in Seq(S)
        /\ Len(f) = k - 1 /\ Len(b) = Len(seq) - k
        /\ \A i \in 1 .. k - 1 : f[i] = seq[i]
        /\ \A i \in 1 .. Len(seq) - k : b[i] = seq[k + i]
    BY SubSeqAround
  <2>2. RemoveAt(seq, k) = f \o b
    BY DEF RemoveAt
  <2> HIDE DEF f, b
  <2> QED
    BY <2>1, <2>2
<1>2. front \o back \in Seq(S) /\ Len(front \o back) = Len(seq) - 1
  BY <1>1
<1>3. \A i \in 1 .. k - 1 : (front \o back)[i] = seq[i]
  BY <1>1
<1>4. ASSUME NEW i \in k .. Len(seq) - 1
      PROVE  (front \o back)[i] = seq[i + 1]
  <2>1. (front \o back)[i] = back[i - (k - 1)]
    BY <1>1
  <2>2. i - (k - 1) \in 1 .. Len(seq) - k /\ k + (i - (k - 1)) = i + 1
    OBVIOUS
  <2> QED
    BY <1>1, <2>1, <2>2
<1> QED
  BY <1>1, <1>2, <1>3, <1>4

\* what is left when element k of a sequence of distinct elements is cut out
LEMMA CutOut ==
  ASSUME NEW S, NEW seq \in Seq(S), NEW k \in 1 .. Len(seq), Distinct(seq),
         NEW u \in Seq(S), Len(u) = Len(seq) - 1,
         \A i \in 1 .. k - 1 : u[i] = seq[i],
         \A i \in k .. Len(seq) - 1 : u[i] = seq[i + 1]
  PROVE  Distinct(u) /\ Range(u) = Range(seq) \ {seq[k]}
<1>1. Distinct(u)
  BY DEF Distinct
<1>2. Range(u) \subseteq Range(seq) \ {seq[k]}
  BY DEF Range, Distinct
<1>3. ASSUME NEW x \in Range(seq) \ {seq[k]}
      PROVE  x \in Range(u)
  <2>1. PICK i \in 1 .. Len(seq) : x = seq[i]
    BY DEF Range
  <2>2. CASE i < k
    BY <2>1, <2>2 DEF Range
  <2>3. CASE i > k
    <3>1. i - 1 \in 1 .. Len(u) /\ u[i - 1] = x
      BY <2>1, <2>3
    <3> QED
      BY <3>1 DEF Range
  <2> QED
    BY <2>1, <2>2, <2>3
<1> QED
  BY <1>1, <1>2, <1>3

(***************************************************************************)
(* Unlinking a listed element removes it and nothing else.                 *)
(***************************************************************************)
LEMMA UnlinkRemoves ==
  ASSUME NEW S, NEW seq \in Seq(S), NEW c \in Range(seq), Distinct(seq)
  PROVE  /\ Unlink(seq, c) \in Seq(S)
         /\ Len(Unlink(seq, c)) = Len(seq) - 1
         /\ Distinct(Unlink(seq, c))
         /\ Range(Unlink(seq, c)) = Range(seq) \ {c}
<1>1. PICK k \in 1 .. Len(seq) : seq[k] = c /\ Unlink(seq, c) = RemoveAt(seq, k)
  <2> DEFINE j == CHOOSE i \in DOMAIN seq : seq[i] = c
  <2>1. \E i \in DOMAIN seq : seq[i] = c
    BY DEF Range
  <2>2. j \in 1 .. Len(seq) /\ seq[j] = c
    BY <2>1
  <2>3. Unlink(seq, c) = RemoveAt(seq, j)
    BY DEF Unlink
  <2> HIDE DEF j
  <2> QED
    BY <2>2, <2>3
<1>2. PICK u \in Seq(S) :
        /\ u = RemoveAt(seq, k)
        /\ Len(u) = Len(seq) - 1
        /\ \A i \in 1 .. k - 1 : u[i] = seq[i]
        /\ \A i \in k .. Len(seq) - 1 : u[i] = seq[i + 1]
  BY RemoveAtIs
<1>3. Distinct(u) /\ Range(u) = Range(seq) \ {seq[k]}
  BY <1>2, CutOut
<1> QED
  BY <1>1, <1>2, <1>3

\* and leaves the head of the list where it is, unless that is the element
LEMMA UnlinkKeepsHead ==
  ASSUME NEW S, NEW seq \in Seq(S), NEW c \in Range(seq), Distinct(seq), Head(seq) # c
  PROVE  Unlink(seq, c) # <<>> /\ Head(Unlink(seq, c)) = Head(seq)
<1>1. PICK k \in 1 .. Len(seq) : seq[k] = c /\ Unlink(seq, c) = RemoveAt(seq, k)
  <2> DEFINE j == CHOOSE i \in DOMAIN seq : seq[i] = c
  <2>1. \E i \in DOMAIN seq : seq[i] = c
    BY DEF Range
  <2>2. j \in 1 .. Len(seq) /\ seq[j] = c
    BY <2>1
  <2>3. Unlink(seq, c) = RemoveAt(seq, j)
    BY DEF Unlink
  <2> HIDE DEF j
  <2> QED
    BY <2>2, <2>3
<1>2. PICK u \in Seq(S) :
        /\ u = RemoveAt(seq, k)
        /\ Len(u) = Len(seq) - 1
        /\ \A i \in 1 .. k - 1 : u[i] = seq[i]
  BY RemoveAtIs
<1>3. Head(seq) = seq[1] /\ 1 \in 1 .. Len(seq) /\ k # 1
  BY <1>1
<1>4. 1 \in 1 .. k - 1 /\ Len(u) \in Nat /\ Len(u) >= 1
  BY <1>2, <1>3
<1>5. u # <<>> /\ Head(u) = u[1]
  BY <1>4
<1> QED
  BY <1>1, <1>2, <1>3, <1>4, <1>5

\* the same for the head of the list
LEMMA TailRemoves ==
  ASSUME NEW S, NEW seq \in Seq(S), seq # <<>>, Distinct(seq)
  PROVE  /\ Tail(seq) \in Seq(S)
         /\ Len(Tail(seq)) = Len(seq) - 1
         /\ Distinct(Tail(seq))
         /\ Range(Tail(seq)) = Range(seq) \ {Head(seq)}
         /\ Head(seq) \in Range(seq)
<1> DEFINE u == Tail(seq)
<1>1. /\ u \in Seq(S) /\ Len(u) = Len(seq) - 1
      /\ \A i \in 1 .. Len(seq) - 1 : u[i] = seq[i + 1]
      /\ Head(seq) = seq[1] /\ 1 \in 1 .. Len(seq)
  OBVIOUS
<1> HIDE DEF u
<1>2. \A i \in 1 .. 1 - 1 : u[i] = seq[i]
  OBVIOUS
<1>3. Distinct(u) /\ Range(u) = Range(seq) \ {seq[1]}
  BY <1>1, <1>2, CutOut
<1>4. Head(seq) \in Range(seq)
  BY <1>1 DEF Range
<1> QED
  BY <1>1, <1>3, <1>4 DEF u

(***************************************************************************)
(* Putting a new element before the list.                                  *)
(***************************************************************************)
LEMMA PrependAdds ==
  ASSUME NEW S, NEW seq \in Seq(S), NEW c \in S, c \notin Range(seq), Distinct(seq)
  PROVE  /\ <<c>> \o seq \in Seq(S)
         /\ Len(<<c>> \o seq) = Len(seq) + 1
         /\ Distinct(<<c>> \o seq)
         /\ Range(<<c>> \o seq) = Range(seq) \union {c}
<1> DEFINE u == <<c>> \o seq
<1>1. /\ u \in Seq(S) /\ Len(u) = Len(seq) + 1 /\ u[1] = c
      /\ \A i \in 2 .. Len(seq) + 1 : u[i] = seq[i - 1]
  OBVIOUS
<1> HIDE DEF u
<1>2. \A i \in 1 .. Len(seq) : seq[i] \in Range(seq)
  BY DEF Range
<1>3. Distinct(u)
  BY <1>1, <1>2, SMTT(30) DEF Distinct
<1>4. Range(u) \subseteq Range(seq) \union {c}
  <2> SUFFICES ASSUME NEW i \in 1 .. Len(u)
               PROVE  u[i] = c \/ u[i] \in Range(seq)
    BY <1>1 DEF Range
  <2>1. CASE i = 1
    BY <2>1, <1>1
  <2>2. CASE i # 1
    <3>1. i - 1 \in 1 .. Len(seq) /\ u[i] = seq[i - 1]
      BY <2>2, <1>1
    <3> QED
      BY <3>1, <1>2
  <2> QED
    BY <2>1, <2>2
<1>5. ASSUME NEW x \in Range(seq) \union {c}
      PROVE  x \in Range(u)
  <2>1. CASE x = c
    BY <2>1, <1>1 DEF Range
  <2>2. CASE x \in Range(seq)
    <3>1. PICK i \in 1 .. Len(seq) : x = seq[i]
      BY <2>2 DEF Range
    <3>2. i + 1 \in 1 .. Len(u) /\ u[i + 1] = x
      BY <3>1, <1>1
    <3> QED
      BY <3>2, <1>1 DEF Range
  <2> QED
    BY <2>1, <2>2
<1> QED
  BY <1>1, <1>3, <1>4, <1>5 DEF u

-----------------------------------------------------------------------------
\* TypeOK's conjuncts about the list of connections, the pcbs, and the task
ConnTypeOK ==
  /\ links \in Seq(Conn)
  /\ count \in Nat
  /\ live \subseteq Conn /\ rxnull \subseteq Conn /\ txnull \subseteq Conn
  /\ state \in [Conn -> ConnStates]
  /\ check \in [Conn -> 0 .. RecvCheckMod - 1]
  /\ cpcb \in [Conn -> Pcb \union {NoPcb}]

PcbTypeOK ==
  /\ tcp \in [Pcb -> TcpStates]
  /\ arg \in [Pcb -> Conn \union {NoConn}]
  /\ cb \in [Pcb -> SUBSET Callbacks]

TaskTypeOK ==
  /\ at \in Points
  /\ ts \in Conn \union {NoConn}
  /\ tp \in Pcb \union {NoPcb}
  /\ next \in Conn \union {NoConn}
  /\ num \in Nat
  /\ alone \in BOOLEAN
  /\ overtaken \in BOOLEAN

LEMMA TypeParts ==
  TypeOK <=> ConnTypeOK /\ PcbTypeOK /\ TaskTypeOK /\ srv \in SrvStates /\ wild \in Wilds
  BY DEF TypeOK, ConnTypeOK, PcbTypeOK, TaskTypeOK

LEMMA CheckModNat == RecvCheckMod \in Nat \ {0}
  BY DEF RecvCheckMod

LEMMA ModRange == \A m \in Nat \ {0}, k \in Nat : k % m \in 0 .. m - 1
  OBVIOUS

\* recv_check stays inside its 16 bits.
LEMMA CheckCounts ==
  ASSUME NEW n \in 0 .. RecvCheckMod - 1
  PROVE  (n + 1) % RecvCheckMod \in 0 .. RecvCheckMod - 1
<1>1. n + 1 \in Nat
  BY CheckModNat
<1> QED
  BY <1>1, CheckModNat, ModRange

LEMMA ZeroCheck == 0 \in 0 .. RecvCheckMod - 1
  BY DEF RecvCheckMod

-----------------------------------------------------------------------------
(* What the thread does: it leaves the task where it is.                   *)

Beside == UNCHANGED taskVars /\ overtaken' \in BOOLEAN /\ srv' = srv

\* no pcb gets a callback other than poll, or an argument, that it has not had
NoNewHook ==
  \A q \in Pcb :
    /\ arg'[q] \in {arg[q], NoConn}
    /\ tcp'[q] \in Active => tcp[q] \in Active
    /\ \A x \in {"recv", "sent", "err"} : x \in cb'[q] => x \in cb[q]

LEMMA HookKept ==
  ASSUME NoNewHook, NEW q \in Pcb, tcp'[q] \in Active, Hooked(q)'
  PROVE  tcp[q] \in Active /\ Hooked(q) /\ arg'[q] = arg[q]
  BY DEF NoNewHook, Hooked

\* The task finds what it relies on as long as connections only go.
LEMMA TaskKept ==
  ASSUME ListInv, Beside, NoNewHook, links' \in Seq(Conn), Len(links') <= Len(links),
         \A c \in live' : /\ c \in live /\ cpcb'[c] \in {cpcb[c], NoPcb}
                          /\ state[c] = "CLOSED" => state'[c] = "CLOSED",
         Unlinked \subseteq live',
         at \in OnHead /\ ts \in live' => links' # <<>> /\ Head(links') = ts
  PROVE  TaskInv'
<1>1. /\ srv' = srv /\ at' = at /\ ts' = ts /\ tp' = tp /\ next' = next /\ num' = num /\ alone' = alone
      /\ ConnTypeOK /\ TaskTypeOK /\ TaskInv
  BY TypeParts DEF Beside, taskVars, ListInv
<1>2. at' \in Past => \A p \in Pcb : tcp'[p] \in Active /\ Hooked(p)' => arg'[p] # ts'
  <2> SUFFICES ASSUME at \in Past, NEW p \in Pcb, tcp'[p] \in Active, Hooked(p)'
               PROVE  arg'[p] # ts
    BY <1>1
  <2>1. tcp[p] \in Active /\ Hooked(p) /\ arg'[p] = arg[p]
    BY HookKept
  <2> QED
    BY <1>1, <2>1 DEF TaskInv
<1>3. /\ at' = "arg" => arg'[tp'] \in {ts', NoConn}
      /\ at' \in Cleared => arg'[tp'] = NoConn
  BY <1>1 DEF TaskInv, NoNewHook, Cleared
<1>4. at' = "arg" /\ ts' \in live' => cpcb'[ts'] \in {tp', NoPcb}
  BY <1>1 DEF TaskInv
<1>5. /\ at' \in {"discon", "unlink", "store"} /\ ts' \in live' => state'[ts'] = "CLOSED"
      /\ at' \in {"count", "dec", "free"} => ts' \in live' /\ cpcb'[ts'] = NoPcb
  BY <1>1 DEF TaskInv, Unlinked
<1>6. at' = "dec" => Len(links') < num' /\ num' <= MaxConn
  <2>1. at = "dec" => Len(links) < num
    BY <1>1 DEF TaskInv
  <2>2. Len(links) \in Nat /\ Len(links') \in Nat /\ num \in Nat
    BY <1>1 DEF ConnTypeOK, TaskTypeOK
  <2>3. at = "dec" => Len(links') < num
    BY <2>1, <2>2
  <2> QED
    BY <1>1, <2>3 DEF TaskInv
<1>7. at' \in OnHead /\ ts' \in live' => links' # <<>> /\ Head(links') = ts'
  BY <1>1
<1>8. /\ (srv' = "closing") <=> (at' # "idle")
      /\ alone' => at' # "idle"
      /\ (at' \in {"idle", "head"}) <=> (ts' = NoConn)
      /\ (tp' \in Pcb) <=> (at' \in Cleared \union {"arg"})
  BY <1>1 DEF TaskInv
<1> QED
  BY <1>2, <1>3, <1>4, <1>5, <1>6, <1>7, <1>8 DEF TaskInv

\* While the server is not being closed there is no task.
LEMMA NoTask ==
  ASSUME ListInv, srv # "closing"
  PROVE  /\ at = "idle" /\ ts = NoConn /\ ~alone /\ Unlinked = {} /\ Uncounted = 0
         /\ Listed = live /\ count = Len(links) /\ tp \notin Pcb
  BY DEF ListInv, TaskInv, Unlinked, Uncounted, ListMatchesHeap, Cleared

LEMMA NoTaskKept ==
  ASSUME ListInv, Beside, srv # "closing"
  PROVE  TaskInv'
<1>1. /\ srv' = srv /\ at' = "idle" /\ ts' = NoConn /\ tp' = tp /\ ~alone' /\ tp \notin Pcb
  BY NoTask DEF Beside, taskVars, ListInv, TaskInv
<1> QED
  BY <1>1 DEF TaskInv, OnHead, Cleared, Past

\* The connection tcpsrv_close has unlinked has no pcb.
LEMMA LinkedByPcb ==
  ASSUME ListInv, NEW c \in live, cpcb[c] # NoPcb
  PROVE  c \notin Unlinked
  BY DEF ListInv, TaskInv, Unlinked

\* a step that leaves the connections where they are
LEMMA SameStep ==
  ASSUME ListInv, Beside, UNCHANGED <<links, count, live, cpcb>>,
         ConnTypeOK', PcbTypeOK', wild' \in Wilds, NoNewHook,
         \A c \in live : state'[c] = state[c] \/ (Open(c) /\ state'[c] \in {"CONNECT", "CLOSEWAIT"}),
         \A q \in Pcb : tcp'[q] \in Active /\ Hooked(q)' => state'[arg[q]] \in {"LISTEN", "CONNECT"}
  PROVE  ListInv'
<1>1. /\ TypeOK /\ ListMatchesHeap /\ CallbacksMeetOwner /\ ClosedHasNone /\ TaskInv
      /\ ConnTypeOK /\ TaskTypeOK
  BY TypeParts DEF ListInv
<1>2. srv' = srv /\ at' = at /\ ts' = ts
  BY DEF Beside, taskVars
<1>3. TypeOK'
  BY <1>1, TypeParts DEF TypeOK, ConnTypeOK, PcbTypeOK, TaskTypeOK, Beside, taskVars
<1>4. ListMatchesHeap'
  BY <1>1, <1>2 DEF ListMatchesHeap, Listed, Unlinked, Uncounted
<1>5. CallbacksMeetOwner'
  <2> SUFFICES ASSUME NEW q \in Pcb, tcp'[q] \in Active, Hooked(q)'
               PROVE  /\ arg'[q] \in live' /\ cpcb'[arg'[q]] = q
                      /\ state'[arg'[q]] \in {"LISTEN", "CONNECT"}
    BY DEF CallbacksMeetOwner, Open
  <2>1. tcp[q] \in Active /\ Hooked(q) /\ arg'[q] = arg[q]
    BY HookKept
  <2> QED
    BY <1>1, <2>1 DEF CallbacksMeetOwner, Open
<1>6. ClosedHasNone'
  BY <1>1, <1>2 DEF ClosedHasNone
<1>7. TaskInv'
  <2>1. \A c \in live' : /\ c \in live /\ cpcb'[c] \in {cpcb[c], NoPcb}
                         /\ state[c] = "CLOSED" => state'[c] = "CLOSED"
    BY DEF Open
  <2>2. links' \in Seq(Conn) /\ Len(links') <= Len(links)
    BY <1>1 DEF ConnTypeOK
  <2>3. Unlinked \subseteq live'
    BY <1>1 DEF TaskInv, Unlinked
  <2>4. at \in OnHead /\ ts \in live' => links' # <<>> /\ Head(links') = ts
    BY <1>1 DEF TaskInv
  <2> QED
    BY <2>1, <2>2, <2>3, <2>4, TaskKept
<1> QED
  BY <1>3, <1>4, <1>5, <1>6, <1>7 DEF ListInv

(***************************************************************************)
(* tcpsrv_list_delete keeps the list, the counter and the heap in step and *)
(* leaves the other connections alone.                                     *)
(***************************************************************************)
LEMMA ListDeleteKeeps ==
  ASSUME ConnTypeOK, ListMatchesHeap, NEW c \in live, c \notin Unlinked, ListDelete(c), Beside
  PROVE  /\ ConnTypeOK'
         /\ ListMatchesHeap'
         /\ \A d \in live \ {c} : d \in live' /\ state'[d] = state[d] /\ cpcb'[d] = cpcb[d]
         /\ live' \subseteq live
         /\ c \in live' => state'[c] = "CLOSED" /\ cpcb'[c] = NoPcb
         /\ Len(links') <= Len(links)
         /\ links # <<>> /\ Head(links) # c => links' # <<>> /\ Head(links') = Head(links)
<1>1. c \in Conn /\ c \in Range(links) /\ Distinct(links)
  BY DEF ConnTypeOK, ListMatchesHeap, Distinct, Listed
<1>2. srv' = srv /\ Unlinked' = Unlinked /\ Uncounted' = Uncounted /\ Uncounted \in {0, 1}
  BY DEF Beside, taskVars, Unlinked, Uncounted
<1>3. Len(links) \in Nat /\ Len(links) + Uncounted <= count /\ count <= MaxConn /\ count \in Nat /\ MaxConn \in Nat
  BY ConstantsAssumption DEF ConnTypeOK, ListMatchesHeap
<1>4. CASE LosePcb(c) /\ count' = count
  <2>1. Len(links') <= Len(links)
    BY <1>3, <1>4 DEF LosePcb
  <2>2. ListMatchesHeap'
    BY <1>2, <1>4 DEF LosePcb, ListMatchesHeap, Listed
  <2> QED
    BY <1>1, <1>4, <2>1, <2>2 DEF LosePcb, ConnTypeOK, ConnStates
<1>5. CASE FreeConn(c)
  <2>1. /\ links' \in Seq(Conn) /\ Len(links') = Len(links) - 1
        /\ Distinct(links') /\ Range(links') = Range(links) \ {c}
    BY <1>1, <1>5, UnlinkRemoves DEF FreeConn, ConnTypeOK
  <2>2. Len(links') \in Nat /\ count' = count - 1
    BY <1>5, <2>1 DEF FreeConn
  <2>3. count' \in Nat /\ count' <= MaxConn /\ Len(links') + Uncounted <= count' /\ Len(links') <= Len(links)
    BY <1>2, <1>3, <2>1, <2>2
  <2>4. srv' # "closing" => count' = Len(links')
    BY <1>2, <2>1, <2>2 DEF ListMatchesHeap
  <2>5. ListMatchesHeap'
    BY <1>2, <1>5, <2>1, <2>3, <2>4 DEF FreeConn, ListMatchesHeap, Listed, Distinct
  <2>6. ConnTypeOK'
    BY <1>1, <1>5, <2>1, <2>3, ZeroCheck DEF FreeConn, ConnTypeOK, ConnStates
  <2>7. /\ \A d \in live \ {c} : d \in live' /\ state'[d] = state[d] /\ cpcb'[d] = cpcb[d]
        /\ live' = live \ {c}
    BY <1>5 DEF FreeConn, ConnTypeOK
  <2>8. Head(links) # c => links' # <<>> /\ Head(links') = Head(links)
    BY <1>1, <1>5, UnlinkKeepsHead DEF FreeConn, ConnTypeOK
  <2> QED
    BY <2>3, <2>5, <2>6, <2>7, <2>8
<1> QED
  BY <1>4, <1>5 DEF ListDelete

\* a step that deletes connection c and hands out none of its callbacks again
LEMMA DeleteStep ==
  ASSUME ListInv, NEW c \in live, c \notin Unlinked, ListDelete(c), Beside,
         PcbTypeOK', wild' \in Wilds, NoNewHook,
         \A q \in Pcb : tcp'[q] \in Active /\ Hooked(q)' => arg[q] # c
  PROVE  ListInv'
<1>1. /\ ConnTypeOK /\ TaskTypeOK /\ ListMatchesHeap /\ CallbacksMeetOwner /\ ClosedHasNone /\ TaskInv
      /\ srv \in SrvStates
  BY TypeParts DEF ListInv
<1>2. /\ ConnTypeOK' /\ ListMatchesHeap'
      /\ \A d \in live \ {c} : d \in live' /\ state'[d] = state[d] /\ cpcb'[d] = cpcb[d]
      /\ live' \subseteq live
      /\ c \in live' => state'[c] = "CLOSED" /\ cpcb'[c] = NoPcb
      /\ Len(links') <= Len(links)
      /\ links # <<>> /\ Head(links) # c => links' # <<>> /\ Head(links') = Head(links)
  BY <1>1, ListDeleteKeeps
<1>3. srv' = srv /\ at' = at /\ ts' = ts
  BY DEF Beside, taskVars
<1>4. TypeOK'
  BY <1>1, <1>2 DEF TypeOK, ConnTypeOK, PcbTypeOK, TaskTypeOK, Beside, taskVars
<1>5. CallbacksMeetOwner'
  <2> SUFFICES ASSUME NEW q \in Pcb, tcp'[q] \in Active, Hooked(q)'
               PROVE  /\ arg'[q] \in live' /\ cpcb'[arg'[q]] = q
                      /\ state'[arg'[q]] \in {"LISTEN", "CONNECT"}
    BY DEF CallbacksMeetOwner, Open
  <2>1. tcp[q] \in Active /\ Hooked(q) /\ arg'[q] = arg[q] /\ arg[q] # c
    BY HookKept
  <2> QED
    BY <1>1, <1>2, <2>1 DEF CallbacksMeetOwner, Open
<1>6. ClosedHasNone'
  BY <1>1, <1>2, <1>3 DEF ClosedHasNone
<1>7. TaskInv'
  <2>1. \A d \in live' : /\ d \in live /\ cpcb'[d] \in {cpcb[d], NoPcb}
                         /\ state[d] = "CLOSED" => state'[d] = "CLOSED"
    BY <1>2
  <2>2. Unlinked \subseteq live'
    BY <1>1, <1>2 DEF TaskInv, Unlinked
  <2>3. at \in OnHead /\ ts \in live' => links' # <<>> /\ Head(links') = ts
    <3>1. CASE ts # c
      BY <1>1, <1>2, <3>1 DEF TaskInv
    <3>2. CASE ts = c
      <4>1. at \in OnHead /\ ts \in live' => links # <<>> /\ Head(links) = ts /\ links' = links
        BY <1>1, <1>2, <3>2 DEF TaskInv, ListDelete, LosePcb, FreeConn
      <4> QED
        BY <4>1
    <3> QED
      BY <3>1, <3>2
  <2>4. links' \in Seq(Conn)
    BY <1>2 DEF ConnTypeOK
  <2> QED
    BY <1>2, <2>1, <2>2, <2>3, <2>4, TaskKept
<1> QED
  BY <1>2, <1>4, <1>5, <1>6, <1>7 DEF ListInv

\* the connection that a callback other than poll is about
LEMMA CallbackOwner ==
  ASSUME ListInv, NEW p \in Pcb, tcp[p] \in Active, Hooked(p)
  PROVE  /\ arg[p] \in live /\ arg[p] \in Conn /\ cpcb[arg[p]] = p /\ Open(arg[p])
         /\ arg[p] \notin Unlinked
<1>1. arg[p] \in live /\ arg[p] \in Conn /\ cpcb[arg[p]] = p /\ Open(arg[p])
  BY DEF ListInv, TypeOK, CallbacksMeetOwner
<1> QED
  BY <1>1, LinkedByPcb, ConstantsAssumption

\* a step inside lwIP: the connections keep still
LEMMA PcbStep ==
  ASSUME ListInv, Beside, UNCHANGED connVars, PcbTypeOK', wild' \in Wilds, NoNewHook
  PROVE  ListInv'
<1>1. ConnTypeOK' /\ UNCHANGED <<links, count, live, cpcb, state>>
  BY TypeParts DEF ListInv, connVars, ConnTypeOK
<1>2. ASSUME NEW q \in Pcb, tcp'[q] \in Active, Hooked(q)'
      PROVE  state'[arg[q]] \in {"LISTEN", "CONNECT"}
  <2>1. tcp[q] \in Active /\ Hooked(q)
    BY <1>2, HookKept
  <2> QED
    BY <1>1, <2>1, CallbackOwner DEF Open
<1> QED
  BY <1>1, <1>2, SameStep

LEMMA SamePcbs == ASSUME UNCHANGED pcbVars PROVE NoNewHook /\ (PcbTypeOK => PcbTypeOK')
  BY DEF pcbVars, NoNewHook, PcbTypeOK

LEMMA TouchFreedStep ==
  ASSUME ListInv, UNCHANGED taskVars, overtaken' \in BOOLEAN, NEW who \in Wilds, TouchFreed(who)
  PROVE  ListInv'
<1>1. UNCHANGED <<srv, connVars, pcbVars>> /\ wild' \in Wilds
  BY DEF TouchFreed
<1> QED
  BY <1>1, PcbStep, SamePcbs, TypeParts DEF Beside, ListInv

(***************************************************************************)
(* tcpsrv_server_close, on a connection that has a pcb.                    *)
(***************************************************************************)
LEMMA ServerCloseStep ==
  ASSUME ListInv, Beside, NEW c \in live, cpcb[c] \in Pcb,
         NEW s \in TcpStates, s \in Active => tcp[cpcb[c]] \in Active,
         ServerClose(c, s), wild' \in Wilds
  PROVE  ListInv'
<1> DEFINE p == cpcb[c]
<1>1. /\ ConnTypeOK /\ PcbTypeOK /\ CallbacksMeetOwner
      /\ c \in Conn /\ NoConn \notin Conn /\ NoPcb \notin Pcb /\ c \notin Unlinked
  BY TypeParts, ConstantsAssumption, LinkedByPcb DEF ListInv, ConnTypeOK
<1>2. \A q \in Pcb \ {p} : tcp[q] \in Active /\ Hooked(q) => arg[q] # c
  BY <1>1 DEF CallbacksMeetOwner
<1>3. ~Open(c) /\ tcp[p] \in Active /\ Hooked(p) => arg[p] # c
  BY <1>1 DEF CallbacksMeetOwner
<1>4. CASE Abandon(c)
  <2>1. PcbTypeOK'
    BY <1>1, <1>4 DEF Abandon, PcbTypeOK, TcpStates
  <2>2. NoNewHook /\ (p \in Pcb => tcp'[p] \notin Active)
    BY <1>1, <1>4 DEF Abandon, PcbTypeOK, NoNewHook, Active
  <2>3. \A q \in Pcb : tcp'[q] \in Active /\ Hooked(q)' => arg[q] # c
    BY <1>2, <2>2, HookKept
  <2> QED
    BY <1>1, <1>4, <2>1, <2>2, <2>3, DeleteStep DEF Abandon
<1>5. CASE CloseSucceeds(c, s)
  <2>1. PICK after \in Closed(s) :
          /\ tcp' = [tcp EXCEPT ![p] = after]
          /\ cb' = [cb EXCEPT ![p] = IF Open(c) \/ after # "CLOSING" THEN {} ELSE @]
          /\ arg' = [arg EXCEPT ![p] = IF after = "CLOSING" THEN @ ELSE NoConn]
    BY <1>5 DEF CloseSucceeds
  <2>2. after \in TcpStates /\ (after \in Active => s \in Active)
    BY <2>1 DEF Closed, TcpStates, Active
  <2>3. PcbTypeOK'
    BY <1>1, <2>1, <2>2 DEF PcbTypeOK
  <2>4. NoNewHook
    BY <1>1, <2>1, <2>2 DEF PcbTypeOK, NoNewHook
  <2>5. ASSUME NEW q \in Pcb, tcp'[q] \in Active, Hooked(q)'
        PROVE  arg[q] # c
    <3>1. tcp[q] \in Active /\ Hooked(q)
      BY <2>4, <2>5, HookKept
    <3>2. q = p => ~Open(c)
      BY <1>1, <2>1, <2>5 DEF PcbTypeOK, Hooked
    <3> QED
      BY <1>2, <1>3, <3>1, <3>2
  <2> QED
    BY <1>1, <1>5, <2>3, <2>4, <2>5, DeleteStep DEF CloseSucceeds
<1>6. CASE CloseFails(c, s)
  <2>1. /\ s \in {"ESTABLISHED", "CLOSE_WAIT"}
        /\ tcp' = [tcp EXCEPT ![p] = s]
        /\ cb' = [cb EXCEPT ![p] = (IF Open(c) THEN {} ELSE @) \union {"poll"}]
        /\ UNCHANGED <<links, count, live, cpcb, arg>>
    BY <1>6 DEF CloseFails
  <2>2. /\ ConnTypeOK' /\ \A d \in live \ {c} : state'[d] = state[d]
        /\ IF Open(c) THEN state'[c] = "CLOSEWAIT" ELSE state'[c] = state[c]
    <3>1. CASE Open(c)
      <4>1. /\ state' = [state EXCEPT ![c] = "CLOSEWAIT"]
            /\ check' = [check EXCEPT ![c] = 0]
            /\ rxnull' = rxnull \union {c} /\ txnull' = txnull \union {c}
        BY <1>6, <3>1 DEF CloseFails
      <4> QED
        BY <1>1, <2>1, <3>1, <4>1, ZeroCheck DEF ConnTypeOK, ConnStates
    <3>2. CASE ~Open(c)
      BY <1>1, <1>6, <2>1, <3>2 DEF CloseFails, ConnTypeOK
    <3> QED
      BY <3>1, <3>2
  <2>3. PcbTypeOK'
    BY <1>1, <2>1 DEF PcbTypeOK, TcpStates, Callbacks
  <2>4. NoNewHook
    BY <1>1, <2>1 DEF PcbTypeOK, NoNewHook, Active
  <2>5. ASSUME NEW q \in Pcb, tcp'[q] \in Active, Hooked(q)'
        PROVE  state'[arg[q]] \in {"LISTEN", "CONNECT"}
    <3>1. tcp[q] \in Active /\ Hooked(q)
      BY <2>4, <2>5, HookKept
    <3>2. q = p => ~Open(c)
      BY <1>1, <2>1, <2>5 DEF PcbTypeOK, Hooked
    <3>3. arg[q] # c /\ arg[q] \in live /\ Open(arg[q])
      BY <1>2, <1>3, <3>1, <3>2, CallbackOwner
    <3> QED
      BY <2>2, <3>3 DEF Open
  <2> QED
    BY <2>1, <2>2, <2>3, <2>4, <2>5, SameStep
<1> QED
  BY <1>4, <1>5, <1>6 DEF ServerClose

LEMMA CallServerCloseStep ==
  ASSUME ListInv, Beside, NEW c \in live, NEW s \in TcpStates, NEW who \in Wilds,
         cpcb[c] \in Pcb /\ s \in Active => tcp[cpcb[c]] \in Active,
         CallServerClose(c, s, who)
  PROVE  ListInv'
<1>1. CASE cpcb[c] = NoPcb
  <2>1. UNCHANGED <<connVars, pcbVars, wild>>
    BY <1>1 DEF CallServerClose, coreVars
  <2> QED
    BY <2>1, PcbStep, SamePcbs, TypeParts DEF ListInv
<1>2. CASE cpcb[c] # NoPcb /\ tcp[cpcb[c]] = "FREE"
  BY <1>2, TouchFreedStep DEF CallServerClose, Beside
<1>3. CASE cpcb[c] # NoPcb /\ tcp[cpcb[c]] # "FREE"
  <2>1. ServerClose(c, s) /\ UNCHANGED <<srv, wild>>
    BY <1>3 DEF CallServerClose
  <2>2. cpcb[c] \in Pcb /\ wild' \in Wilds
    BY <1>3, <2>1, TypeParts DEF ListInv, ConnTypeOK
  <2> QED
    BY <2>1, <2>2, ServerCloseStep
<1> QED
  BY <1>1, <1>2, <1>3

(***************************************************************************)
(* tspsrv_delete_pcb, called by the thread.                                *)
(***************************************************************************)
LEMMA DroppedIsState ==
  ASSUME NEW s \in TcpStates
  PROVE  Dropped(s) \subseteq TcpStates /\ \A after \in Dropped(s) : after \in Active => s \in Active
  BY DEF Dropped, Closed, TcpStates, Active

LEMMA DeletePcbStep ==
  ASSUME ListInv, Beside, NEW c \in live, c \notin Unlinked, DeletePcb(c)
  PROVE  ListInv'
<1>1. CASE StalePcb(c)
  BY <1>1, TouchFreedStep DEF DeletePcb, Beside, Wilds
<1>2. CASE ~StalePcb(c)
  <2>1. ListDelete(c) /\ UNCHANGED <<srv, wild>>
    BY <1>2 DEF DeletePcb
  <2>2. wild' \in Wilds /\ PcbTypeOK /\ CallbacksMeetOwner
    BY <2>1, TypeParts DEF ListInv
  <2>3. \A q \in Pcb : tcp[q] \in Active /\ Hooked(q) /\ arg[q] = c => q \in Found(c)
    BY <2>2 DEF CallbacksMeetOwner, Found
  <2>4. CASE Found(c) = {}
    <3>1. UNCHANGED pcbVars
      BY <1>2, <2>4 DEF DeletePcb
    <3>2. PcbTypeOK' /\ NoNewHook
      BY <2>2, <3>1, SamePcbs
    <3>3. \A q \in Pcb : tcp'[q] \in Active /\ Hooked(q)' => arg[q] # c
      BY <2>3, <2>4, <3>2, HookKept
    <3> QED
      BY <2>1, <2>2, <3>2, <3>3, DeleteStep
  <2>5. CASE Found(c) # {}
    <3>1. PICK p \in Found(c) : \E after \in Dropped(tcp[p]) :
            /\ tcp' = [tcp EXCEPT ![p] = after]
            /\ arg' = [arg EXCEPT ![p] = NoConn]
            /\ cb' = [cb EXCEPT ![p] = {}]
      BY <1>2, <2>5 DEF DeletePcb
    <3>2. PICK after \in Dropped(tcp[p]) :
            /\ tcp' = [tcp EXCEPT ![p] = after]
            /\ arg' = [arg EXCEPT ![p] = NoConn]
            /\ cb' = [cb EXCEPT ![p] = {}]
      BY <3>1
    <3>3. /\ p \in Pcb /\ cpcb[c] = p
          /\ after \in TcpStates /\ (after \in Active => tcp[p] \in Active)
      BY <2>2, DroppedIsState DEF Found, PcbTypeOK
    <3>4. PcbTypeOK' /\ NoNewHook
      BY <2>2, <3>2, <3>3 DEF PcbTypeOK, NoNewHook
    <3>5. ASSUME NEW q \in Pcb, tcp'[q] \in Active, Hooked(q)'
          PROVE  arg[q] # c
      <4>1. q # p
        BY <2>2, <3>2, <3>3, <3>5 DEF PcbTypeOK, Hooked
      <4>2. tcp[q] \in Active /\ Hooked(q)
        BY <3>4, <3>5, HookKept
      <4> QED
        BY <2>3, <3>3, <4>1, <4>2 DEF Found
    <3> QED
      BY <2>1, <2>2, <3>4, <3>5, DeleteStep
  <2> QED
    BY <2>4, <2>5
<1> QED
  BY <1>1, <1>2

(***************************************************************************)
(* tcpsrv_server_accept.                                                   *)
(***************************************************************************)
LEMMA EvictedIs ==
  ASSUME ListInv, srv = "up"
  PROVE  /\ Evicted = {} => Len(links) < MaxConn
         /\ Evicted # {} => links # <<>> /\ Evicted = {Head(links)} /\ Head(links) \in live
<1>1. links \in Seq(Conn) /\ Distinct(links) /\ count = Len(links) /\ Range(links) = live
  BY NoTask DEF ListInv, TypeOK, ListMatchesHeap, Listed, Distinct
<1>2. links # <<>> => Head(links) \in live
  BY <1>1, TailRemoves
<1>3. MaxConn \in Nat \ {0} /\ (links = <<>> => Len(links) = 0) /\ Len(links) \in Nat
  BY <1>1, ConstantsAssumption
<1> QED
  BY <1>1, <1>2, <1>3 DEF Evicted

LEMMA InsertStep ==
  ASSUME ListInv, Beside, srv = "up", NEW p \in Pcb, NEW c \in Conn, c \notin live \ Evicted,
         NEW t \in [Pcb -> TcpStates], NEW kill \in SUBSET Pcb,
         \A q \in Pcb : t[q] = tcp[q] \/ q \in UNION {Found(v) : v \in Evicted},
         Insert(p, c, Evicted, t, kill)
  PROVE  ListInv'
<1> DEFINE gone == Evicted
           left == kill \union UNION {Found(v) : v \in gone}
<1>1. /\ ConnTypeOK /\ PcbTypeOK /\ TaskTypeOK /\ ListMatchesHeap /\ CallbacksMeetOwner /\ ClosedHasNone
      /\ srv \in SrvStates /\ wild \in Wilds /\ NoConn \notin Conn
  BY TypeParts, ConstantsAssumption DEF ListInv
<1>2. /\ links' = <<c>> \o (IF gone = {} THEN links ELSE Tail(links))
      /\ count' = IF gone = {} THEN count + 1 ELSE count
      /\ live' = (live \ gone) \union {c}
      /\ rxnull' = rxnull \ ({c} \union gone)
      /\ txnull' = txnull \ ({c} \union gone)
      /\ state' = [d \in Conn |-> IF d = c THEN "LISTEN" ELSE IF d \in gone THEN "NONE" ELSE state[d]]
      /\ check' = [d \in Conn |-> IF d = c THEN 0 ELSE IF d \in gone THEN 0 ELSE check[d]]
      /\ cpcb' = [d \in Conn |-> IF d = c THEN p ELSE IF d \in gone THEN NoPcb ELSE cpcb[d]]
      /\ UNCHANGED <<srv, wild>>
  BY DEF Insert
<1>3. /\ tcp' = [q \in Pcb |-> IF q = p THEN "ESTABLISHED" ELSE IF q \in kill THEN "FREE" ELSE t[q]]
      /\ arg' = [q \in Pcb |-> IF q = p THEN c ELSE IF q \in left THEN NoConn ELSE arg[q]]
      /\ cb' = [q \in Pcb |-> IF q = p THEN Callbacks ELSE IF q \in left THEN {} ELSE cb[q]]
  BY DEF Insert
<1> DEFINE rest == IF gone = {} THEN links ELSE Tail(links)
<1>4. Distinct(links) /\ Range(links) = live /\ count = Len(links) /\ count <= MaxConn
  BY <1>1, NoTask DEF ListMatchesHeap, Distinct, Listed
<1>5. /\ rest \in Seq(Conn) /\ Distinct(rest) /\ Range(rest) = live \ gone
      /\ Len(rest) = (IF gone = {} THEN count ELSE count - 1)
      /\ Len(rest) < MaxConn
  <2>1. CASE gone = {}
    BY <2>1, <1>1, <1>4, EvictedIs DEF ConnTypeOK
  <2>2. CASE gone # {}
    <3>1. /\ Tail(links) \in Seq(Conn) /\ Distinct(Tail(links))
          /\ Range(Tail(links)) = live \ gone /\ Len(Tail(links)) = Len(links) - 1
      BY <2>2, <1>1, <1>4, EvictedIs, TailRemoves DEF ConnTypeOK
    <3>2. Len(links) \in Nat /\ MaxConn \in Nat
      BY <1>1, ConstantsAssumption DEF ConnTypeOK
    <3> QED
      BY <2>2, <3>1, <3>2, <1>4
  <2> QED
    BY <2>1, <2>2
<1>6. links' = <<c>> \o rest
  BY <1>2
<1> HIDE DEF rest
<1>7. /\ links' \in Seq(Conn) /\ Len(links') = Len(rest) + 1
      /\ Distinct(links') /\ Range(links') = Range(rest) \union {c}
  <2>1. c \notin Range(rest)
    BY <1>5
  <2> QED
    BY <1>5, <1>6, <2>1, PrependAdds
<1>8. Len(rest) \in Nat /\ MaxConn \in Nat /\ count \in Nat
  BY <1>1, <1>5, ConstantsAssumption DEF ConnTypeOK
<1>9. count' = Len(rest) + 1 /\ count' \in Nat /\ count' <= MaxConn
  BY <1>2, <1>5, <1>8
<1>10. ListMatchesHeap'
  <2>1. Unlinked' = {} /\ Uncounted' = 0
    BY NoTask DEF Beside, taskVars, Unlinked, Uncounted
  <2>2. Range(links') = live' /\ Len(links') + 0 <= count'
    BY <1>2, <1>5, <1>7, <1>8, <1>9
  <2> QED
    BY <1>7, <1>9, <2>1, <2>2 DEF ListMatchesHeap, Listed, Distinct
<1>11. ConnTypeOK'
  BY <1>1, <1>2, <1>7, <1>9, ZeroCheck DEF ConnTypeOK, ConnStates
<1>12. PcbTypeOK'
  BY <1>1, <1>3 DEF PcbTypeOK, TcpStates
<1>13. CallbacksMeetOwner'
  <2> SUFFICES ASSUME NEW q \in Pcb, tcp'[q] \in Active, Hooked(q)'
               PROVE  /\ arg'[q] \in live' /\ cpcb'[arg'[q]] = q
                      /\ state'[arg'[q]] \in {"LISTEN", "CONNECT"}
    BY DEF CallbacksMeetOwner, Open
  <2>1. CASE q = p
    BY <2>1, <1>2, <1>3
  <2>2. CASE q # p
    <3>1. q \notin left
      BY <2>2, <1>3 DEF Hooked
    <3>2. Hooked(q) /\ tcp[q] \in Active /\ arg'[q] = arg[q]
      BY <2>2, <3>1, <1>3 DEF Active, Hooked
    <3> DEFINE d == arg[q]
    <3>3. d \in live /\ cpcb[d] = q /\ state[d] \in {"LISTEN", "CONNECT"}
      BY <1>1, <3>2 DEF CallbacksMeetOwner, Open
    <3>4. d \notin gone
      BY <3>1, <3>3 DEF Found
    <3>5. d \in Conn /\ d # c
      BY <1>1, <3>3, <3>4 DEF ConnTypeOK
    <3> QED
      BY <1>2, <3>2, <3>3, <3>4, <3>5
  <2> QED
    BY <2>1, <2>2
<1>14. ClosedHasNone'
  <2>1. \A d \in live : state[d] = "CLOSED" => cpcb[d] = NoPcb
    BY <1>1, NoTask DEF ClosedHasNone
  <2> QED
    BY <1>1, <1>2, <2>1 DEF ClosedHasNone, ConnTypeOK
<1>15. TaskInv' /\ TaskTypeOK'
  BY <1>1, NoTaskKept DEF Beside, taskVars, TaskTypeOK
<1> QED
  BY <1>1, <1>2, <1>10, <1>11, <1>12, <1>13, <1>14, <1>15 DEF ListInv, TypeOK, ConnTypeOK, PcbTypeOK, TaskTypeOK

LEMMA AcceptStep ==
  ASSUME ListInv, Beside, NEW p \in Pcb, NEW c \in Conn, Accept(p, c)
  PROVE  ListInv'
<1>1. CASE \E v \in Evicted : StalePcb(v)
  BY <1>1, TouchFreedStep DEF Accept, Beside, Wilds
<1>2. CASE ~\E v \in Evicted : StalePcb(v)
  <2> DEFINE found == UNION {Found(v) : v \in Evicted}
  <2>1. found \subseteq Pcb
    BY DEF Found
  <2>2. PICK after \in [found -> TcpStates] :
          \E kill \in SUBSET TimeWait([q \in Pcb |-> IF q \in DOMAIN after THEN after[q] ELSE tcp[q]]) :
            Insert(p, c, Evicted, [q \in Pcb |-> IF q \in DOMAIN after THEN after[q] ELSE tcp[q]], kill)
    BY <1>2 DEF Accept
  <2> DEFINE t == [q \in Pcb |-> IF q \in DOMAIN after THEN after[q] ELSE tcp[q]]
  <2>3. PICK kill \in SUBSET TimeWait(t) : Insert(p, c, Evicted, t, kill)
    BY <2>2
  <2>4. t \in [Pcb -> TcpStates] /\ \A q \in Pcb : t[q] = tcp[q] \/ q \in found
    BY <2>1, TypeParts DEF ListInv, PcbTypeOK
  <2>5. kill \in SUBSET Pcb
    BY DEF TimeWait
  <2>6. c \notin live \ Evicted /\ srv = "up"
    BY <1>2 DEF Accept
  <2> HIDE DEF t
  <2> QED
    BY <2>3, <2>4, <2>5, <2>6, InsertStep
<1> QED
  BY <1>1, <1>2

LEMMA AcceptNoMemStep == ASSUME ListInv, Beside, AcceptNoMem PROVE ListInv'
<1>1. PICK v \in Evicted : DeletePcb(v)
  BY DEF AcceptNoMem
<1>2. v \in live /\ v \notin Unlinked
  BY EvictedIs, NoTask DEF AcceptNoMem
<1> QED
  BY <1>1, <1>2, DeletePcbStep

(***************************************************************************)
(* The callbacks.                                                          *)
(***************************************************************************)
LEMMA KeepStep == ASSUME ListInv, Beside, NEW c \in live, Open(c), Keep(c) PROVE ListInv'
<1>1. ConnTypeOK /\ PcbTypeOK /\ c \in Conn
  BY TypeParts DEF ListInv, ConnTypeOK
<1>2. /\ state' = [state EXCEPT ![c] = "CONNECT"]
      /\ check' = [check EXCEPT ![c] = 0]
      /\ UNCHANGED <<links, count, live, cpcb, pcbVars, wild>>
  BY DEF Keep
<1>3. rxnull' \subseteq Conn /\ txnull' \subseteq Conn
  BY <1>1 DEF Keep, ConnTypeOK
<1>4. ConnTypeOK' /\ PcbTypeOK' /\ NoNewHook /\ wild' \in Wilds
  <2>1. ConnTypeOK'
    BY <1>1, <1>2, <1>3, ZeroCheck DEF ConnTypeOK, ConnStates
  <2> QED
    BY <1>1, <1>2, <2>1, SamePcbs, TypeParts DEF ListInv
<1>5. \A d \in live : state'[d] = state[d] \/ (d = c /\ state'[d] = "CONNECT")
  BY <1>1, <1>2 DEF ConnTypeOK
<1>6. ASSUME NEW q \in Pcb, tcp'[q] \in Active, Hooked(q)'
      PROVE  state'[arg[q]] \in {"LISTEN", "CONNECT"}
  BY <1>4, <1>5, <1>6, HookKept, CallbackOwner DEF Open
<1> QED
  BY <1>2, <1>4, <1>5, <1>6, SameStep

LEMMA CloseInCallbackStep ==
  ASSUME ListInv, Beside, NEW c \in live, cpcb[c] \in Pcb, NEW touches \in BOOLEAN, CloseInCallback(c, touches)
  PROVE  ListInv'
<1>1. ServerClose(c, tcp[cpcb[c]]) /\ wild' \in Wilds
  BY DEF CloseInCallback, Wilds
<1>2. tcp[cpcb[c]] \in TcpStates
  BY TypeParts DEF ListInv, PcbTypeOK
<1> QED
  BY <1>1, <1>2, ServerCloseStep

LEMMA RecvStep == ASSUME ListInv, Beside, NEW p \in Pcb, Recv(p) PROVE ListInv'
<1>1. tcp[p] \in Active /\ Hooked(p)
  BY DEF Recv, Active, Hooked
<1>2. Keep(arg[p]) \/ CloseInCallback(arg[p], TRUE)
  BY DEF Recv
<1> QED
  BY <1>1, <1>2, CallbackOwner, KeepStep, CloseInCallbackStep

LEMMA SentStep == ASSUME ListInv, Beside, NEW p \in Pcb, Sent(p) PROVE ListInv'
<1> DEFINE c == arg[p]
<1>1. tcp[p] \in Active /\ Hooked(p)
  BY DEF Sent, Active, Hooked
<1>2. c \in live /\ c \in Conn /\ cpcb[c] = p /\ Open(c)
  BY <1>1, CallbackOwner
<1>3. CASE c \in txnull
  <2>1. {} \in SUBSET {"rx", "tx"} /\ "rx" \notin {} /\ "tx" \notin {}
    OBVIOUS
  <2>2. \E mute \in SUBSET {"rx", "tx"} :
          /\ rxnull = IF "rx" \in mute THEN rxnull \union {c} ELSE rxnull
          /\ txnull = IF "tx" \in mute THEN txnull \union {c} ELSE txnull
    BY <2>1
  <2>3. /\ state' = [state EXCEPT ![c] = "CONNECT"]
        /\ check' = [check EXCEPT ![c] = 0]
        /\ UNCHANGED <<srv, links, count, live, cpcb, rxnull, txnull, pcbVars, wild>>
    BY <1>3 DEF Sent
  <2>4. Keep(c)
    BY <2>2, <2>3 DEF Keep
  <2> QED
    BY <1>2, <2>4, KeepStep
<1>4. CASE c \notin txnull
  BY <1>2, <1>4, KeepStep, CloseInCallbackStep DEF Sent
<1> QED
  BY <1>3, <1>4

LEMMA FinStep == ASSUME ListInv, Beside, NEW p \in Pcb, Fin(p) PROVE ListInv'
<1>1. CASE tcp' = [tcp EXCEPT ![p] = "CLOSE_WAIT"] /\ UNCHANGED <<srv, connVars, arg, cb, wild>>
  <2>1. PcbTypeOK' /\ wild' \in Wilds /\ PcbTypeOK
    BY <1>1, TypeParts DEF ListInv, PcbTypeOK, TcpStates
  <2>2. NoNewHook
    BY <1>1, <2>1 DEF Fin, Active, PcbTypeOK, NoNewHook
  <2> QED
    BY <1>1, <2>1, <2>2, PcbStep
<1>2. CASE "recv" \in cb[p] /\ arg[p] # NoConn /\ CallServerClose(arg[p], "CLOSE_WAIT", "fin")
  <2>1. tcp[p] \in Active /\ "CLOSE_WAIT" \in TcpStates /\ Hooked(p) /\ "fin" \in Wilds
    BY <1>2 DEF Fin, Active, TcpStates, Hooked, Wilds
  <2>2. arg[p] \in live /\ cpcb[arg[p]] = p
    BY <2>1, CallbackOwner
  <2> QED
    BY <1>2, <2>1, <2>2, CallServerCloseStep
<1> QED
  BY <1>1, <1>2 DEF Fin

LEMMA PollStep == ASSUME ListInv, Beside, NEW p \in Pcb, Poll(p) PROVE ListInv'
<1> DEFINE c == arg[p]
<1>1. CASE AbandonPcb(p)
  <2>1. PcbTypeOK' /\ wild' \in Wilds /\ PcbTypeOK
    BY <1>1, TypeParts DEF AbandonPcb, ListInv, PcbTypeOK, TcpStates
  <2>2. NoNewHook
    BY <1>1, <2>1 DEF AbandonPcb, Active, PcbTypeOK, NoNewHook
  <2> QED
    BY <1>1, <2>1, <2>2, PcbStep DEF AbandonPcb
<1>2. CASE TouchFreed("poll")
  BY <1>2, TouchFreedStep DEF Beside, Wilds
<1>3. CASE c \in live /\ cpcb[c] # NoPcb /\ state[c] # "CLOSEWAIT" /\ ~Expired(c, p)
           /\ check' = [check EXCEPT ![c] = Count(c)]
           /\ UNCHANGED <<srv, links, count, live, state, cpcb, rxnull, txnull, pcbVars, wild>>
  <2>1. c \in Conn /\ ConnTypeOK /\ PcbTypeOK
    BY <1>3, TypeParts DEF ListInv, ConnTypeOK
  <2>2. Count(c) \in 0 .. RecvCheckMod - 1
    <3>1. check[c] \in 0 .. RecvCheckMod - 1
      BY <2>1 DEF ConnTypeOK
    <3> QED
      BY <3>1, CheckCounts DEF Count
  <2>3. check' \in [Conn -> 0 .. RecvCheckMod - 1]
    BY <1>3, <2>1, <2>2 DEF ConnTypeOK
  <2>4. ConnTypeOK'
    BY <1>3, <2>1, <2>3 DEF ConnTypeOK
  <2>5. PcbTypeOK' /\ NoNewHook /\ wild' \in Wilds
    BY <1>3, <2>1, SamePcbs, TypeParts DEF ListInv
  <2>6. \A q \in Pcb : tcp'[q] \in Active /\ Hooked(q)' => state'[arg[q]] \in {"LISTEN", "CONNECT"}
    BY <1>3, <2>5, HookKept, CallbackOwner DEF Open
  <2> QED
    BY <1>3, <2>4, <2>5, <2>6, SameStep
<1>4. CASE c \in live /\ CallServerClose(c, tcp[cpcb[c]], "poll")
  <2>1. CASE cpcb[c] = NoPcb
    <3>1. UNCHANGED <<connVars, pcbVars, wild>>
      BY <1>4, <2>1 DEF CallServerClose, coreVars
    <3> QED
      BY <3>1, PcbStep, SamePcbs, TypeParts DEF ListInv
  <2>2. CASE cpcb[c] # NoPcb
    <3>1. cpcb[c] \in Pcb /\ tcp[cpcb[c]] \in TcpStates /\ "poll" \in Wilds
      BY <1>4, <2>2, TypeParts DEF ListInv, ConnTypeOK, PcbTypeOK, Wilds
    <3> QED
      BY <1>4, <3>1, CallServerCloseStep
  <2> QED
    BY <2>1, <2>2
<1> QED
  BY <1>1, <1>2, <1>3, <1>4 DEF Poll

LEMMA PcbLostStep == ASSUME ListInv, Beside, NEW p \in Pcb, PcbLost(p) PROVE ListInv'
<1> DEFINE c == arg[p]
<1>1. /\ tcp[p] \in Active
      /\ tcp' = [tcp EXCEPT ![p] = "FREE"]
      /\ cb' = [cb EXCEPT ![p] = {}]
      /\ arg' = [arg EXCEPT ![p] = NoConn]
      /\ UNCHANGED <<srv, wild>>
  BY DEF PcbLost
<1>2. PcbTypeOK /\ PcbTypeOK' /\ wild' \in Wilds /\ CallbacksMeetOwner
  BY <1>1, TypeParts DEF ListInv, PcbTypeOK, TcpStates
<1>3. NoNewHook /\ tcp'[p] \notin Active
  BY <1>1, <1>2 DEF PcbTypeOK, NoNewHook, Active
<1>4. CASE "err" \in cb[p] /\ c # NoConn /\ ListDelete(c)
  <2>1. c \in live /\ cpcb[c] = p /\ c \notin Unlinked
    BY <1>1, <1>4, CallbackOwner DEF Hooked
  <2>2. \A q \in Pcb : tcp'[q] \in Active /\ Hooked(q)' => arg[q] # c
    BY <1>2, <1>3, <2>1, HookKept DEF CallbacksMeetOwner
  <2> QED
    BY <1>2, <1>3, <1>4, <2>1, <2>2, DeleteStep
<1>5. CASE UNCHANGED connVars
  BY <1>2, <1>3, <1>5, PcbStep
<1> QED
  BY <1>4, <1>5 DEF PcbLost

LEMMA PcbDoneStep == ASSUME ListInv, Beside, NEW p \in Pcb, PcbDone(p) PROVE ListInv'
<1>1. PICK s \in {"TIME_WAIT", "FREE"} : tcp' = [tcp EXCEPT ![p] = s]
  BY DEF PcbDone
<1>2. /\ cb' = [cb EXCEPT ![p] = {}]
      /\ arg' = [arg EXCEPT ![p] = NoConn]
      /\ UNCHANGED <<srv, connVars, wild>>
  BY DEF PcbDone
<1>3. PcbTypeOK /\ PcbTypeOK' /\ wild' \in Wilds
  BY <1>1, <1>2, TypeParts DEF ListInv, PcbTypeOK, TcpStates
<1>4. NoNewHook
  BY <1>1, <1>2, <1>3 DEF PcbTypeOK, NoNewHook, Active
<1> QED
  BY <1>2, <1>3, <1>4, PcbStep

LEMMA ThreadKeepsServer == ASSUME Thread PROVE srv' = srv
<1>1. ASSUME NEW p \in Pcb, NEW c \in Conn, Accept(p, c) PROVE srv' = srv
  BY <1>1 DEF Accept, TouchFreed, Insert
<1>2. CASE AcceptNoMem
  BY <1>2 DEF AcceptNoMem, DeletePcb, TouchFreed
<1>3. ASSUME NEW p \in Pcb, Recv(p) \/ Sent(p) PROVE srv' = srv
  BY <1>3 DEF Recv, Sent, Keep, CloseInCallback
<1>4. ASSUME NEW p \in Pcb, Fin(p) PROVE srv' = srv
  BY <1>4 DEF Fin, CallServerClose, TouchFreed, coreVars
<1>5. ASSUME NEW p \in Pcb, Poll(p) PROVE srv' = srv
  BY <1>5 DEF Poll, AbandonPcb, CallServerClose, TouchFreed, coreVars
<1>6. ASSUME NEW p \in Pcb, PcbLost(p) \/ PcbDone(p) PROVE srv' = srv
  BY <1>6 DEF PcbLost, PcbDone
<1> QED
  BY <1>1, <1>2, <1>3, <1>4, <1>5, <1>6 DEF Thread

LEMMA ThreadStep == ASSUME ListInv, Thread, ComesIn PROVE ListInv'
<1> Beside
  BY ThreadKeepsServer, TypeParts DEF Beside, ComesIn, Overtakes, ListInv, TaskTypeOK
<1>1. ASSUME NEW p \in Pcb, NEW c \in Conn, Accept(p, c) PROVE ListInv'
  BY <1>1, AcceptStep
<1>2. CASE AcceptNoMem
  BY <1>2, AcceptNoMemStep
<1>3. ASSUME NEW p \in Pcb, Recv(p) \/ Sent(p) PROVE ListInv'
  BY <1>3, RecvStep, SentStep
<1>4. ASSUME NEW p \in Pcb, Fin(p) PROVE ListInv'
  BY <1>4, FinStep
<1>5. ASSUME NEW p \in Pcb, Poll(p) PROVE ListInv'
  BY <1>5, PollStep
<1>6. ASSUME NEW p \in Pcb, PcbLost(p) \/ PcbDone(p) PROVE ListInv'
  BY <1>6, PcbLostStep, PcbDoneStep
<1> QED
  BY <1>1, <1>2, <1>3, <1>4, <1>5, <1>6 DEF Thread

-----------------------------------------------------------------------------
(* What the task does, a statement at a time.                              *)

LEMMA Parts ==
  ListInv =>  /\ ConnTypeOK /\ PcbTypeOK /\ TaskTypeOK /\ srv \in SrvStates /\ wild \in Wilds
              /\ ListMatchesHeap /\ CallbacksMeetOwner /\ ClosedHasNone /\ TaskInv
  BY TypeParts DEF ListInv

LEMMA Whole ==
  ASSUME ConnTypeOK', PcbTypeOK', TaskTypeOK', srv' \in SrvStates, wild' \in Wilds,
         ListMatchesHeap', CallbacksMeetOwner', ClosedHasNone', TaskInv'
  PROVE  ListInv'
  BY DEF ListInv, TypeOK, ConnTypeOK, PcbTypeOK, TaskTypeOK

\* a step that changes only what the task has in its hands, or takes from a pcb
LEMMA HandStep ==
  ASSUME ListInv, UNCHANGED <<srv, connVars, wild>>, PcbTypeOK', NoNewHook,
         TaskTypeOK', TaskInv', Unlinked' = Unlinked, Uncounted' = Uncounted, at # "discon"
  PROVE  ListInv'
<1>1. /\ ConnTypeOK /\ ListMatchesHeap /\ CallbacksMeetOwner /\ ClosedHasNone
      /\ srv \in SrvStates /\ wild \in Wilds
  BY Parts
<1>2. ConnTypeOK' /\ srv' \in SrvStates /\ wild' \in Wilds
  BY <1>1 DEF connVars, ConnTypeOK
<1>3. ListMatchesHeap' /\ ClosedHasNone'
  BY <1>1 DEF connVars, ListMatchesHeap, Listed, ClosedHasNone
<1>4. CallbacksMeetOwner'
  <2> SUFFICES ASSUME NEW q \in Pcb, tcp'[q] \in Active, Hooked(q)'
               PROVE  /\ arg'[q] \in live' /\ cpcb'[arg'[q]] = q
                      /\ state'[arg'[q]] \in {"LISTEN", "CONNECT"}
    BY DEF CallbacksMeetOwner, Open
  <2> QED
    BY HookKept, CallbackOwner DEF connVars, Open
<1> QED
  BY <1>2, <1>3, <1>4, Whole

\* a step that changes the connection the task has in its hands, when no
\* callback leads to it any more
LEMMA OwnConnStep ==
  ASSUME ListInv, at \in Past, UNCHANGED <<srv, pcbVars, wild>>,
         ConnTypeOK', TaskTypeOK', ListMatchesHeap', ClosedHasNone', TaskInv',
         \A c \in live \ {ts} : c \in live' /\ cpcb'[c] = cpcb[c] /\ state'[c] = state[c]
  PROVE  ListInv'
<1>1. PcbTypeOK /\ srv \in SrvStates /\ wild \in Wilds /\ TaskInv
  BY Parts
<1>2. PcbTypeOK' /\ srv' \in SrvStates /\ wild' \in Wilds
  BY <1>1, SamePcbs
<1>3. CallbacksMeetOwner'
  <2> SUFFICES ASSUME NEW q \in Pcb, tcp'[q] \in Active, Hooked(q)'
               PROVE  /\ arg'[q] \in live' /\ cpcb'[arg'[q]] = q
                      /\ state'[arg'[q]] \in {"LISTEN", "CONNECT"}
    BY DEF CallbacksMeetOwner, Open
  <2>1. tcp[q] \in Active /\ Hooked(q) /\ arg'[q] = arg[q]
    BY SamePcbs, HookKept
  <2>2. arg[q] # ts
    BY <1>1, <2>1 DEF TaskInv
  <2> QED
    BY <2>1, <2>2, CallbackOwner DEF Open
<1> QED
  BY <1>2, <1>3, Whole

LEMMA CloseTouchesStep ==
  ASSUME ListInv, TouchFreed("close"), UNCHANGED <<taskVars, overtaken>>
  PROVE  ListInv'
<1>1. overtaken' \in BOOLEAN /\ "close" \in Wilds
  BY Parts DEF TaskTypeOK, Wilds
<1> QED
  BY <1>1, TouchFreedStep

\* the server when no task is in tcpsrv_close
LEMMA StartStep == ASSUME ListInv, Start PROVE ListInv'
<1>1. /\ ConnTypeOK' /\ PcbTypeOK' /\ TaskTypeOK' /\ srv' \in SrvStates /\ wild' \in Wilds
  BY Parts DEF Start, connVars, pcbVars, taskVars, ConnTypeOK, PcbTypeOK, TaskTypeOK, SrvStates
<1>2. ListMatchesHeap' /\ CallbacksMeetOwner' /\ ClosedHasNone'
  BY Parts DEF Start, connVars, pcbVars, taskVars, ListMatchesHeap, Listed, Unlinked, Uncounted,
               CallbacksMeetOwner, Hooked, Open, ClosedHasNone
<1>3. TaskInv'
  BY NoTask, Parts DEF Start, taskVars, TaskInv, OnHead, Cleared, Past
<1> QED
  BY <1>1, <1>2, <1>3, Whole

LEMMA CloseBeginStep == ASSUME ListInv, CloseBegin PROVE ListInv'
<1>1. /\ at = "idle" /\ ts = NoConn /\ tp \notin Pcb /\ Unlinked = {} /\ Uncounted = 0
  BY NoTask DEF CloseBegin
<1>2. /\ ConnTypeOK' /\ PcbTypeOK' /\ TaskTypeOK' /\ srv' \in SrvStates /\ wild' \in Wilds
  BY Parts DEF CloseBegin, connVars, pcbVars, ConnTypeOK, PcbTypeOK, TaskTypeOK, SrvStates, Points
<1>3. Unlinked' = {} /\ Uncounted' = 0
  BY DEF CloseBegin, Unlinked, Uncounted
<1>4. ListMatchesHeap' /\ CallbacksMeetOwner' /\ ClosedHasNone'
  BY <1>1, <1>3, Parts DEF CloseBegin, connVars, pcbVars, ListMatchesHeap, Listed,
               CallbacksMeetOwner, Hooked, Open, ClosedHasNone
<1>5. TaskInv'
  BY <1>1 DEF CloseBegin, TaskInv, OnHead, Cleared, Past
<1> QED
  BY <1>2, <1>4, <1>5, Whole

LEMMA CloseHeadStep == ASSUME ListInv, CloseHead PROVE ListInv'
<1>1. ConnTypeOK /\ PcbTypeOK /\ TaskTypeOK /\ TaskInv
  BY Parts
<1>2. Head(links) \in Conn
  BY <1>1 DEF CloseHead, ConnTypeOK
<1>3. PcbTypeOK' /\ NoNewHook
  BY <1>1, SamePcbs DEF CloseHead, coreVars
<1>4. TaskTypeOK'
  BY <1>1, <1>2 DEF CloseHead, TaskTypeOK, Points
<1>5. TaskInv'
  BY <1>1, <1>2, ConstantsAssumption DEF CloseHead, coreVars, connVars, TaskInv, OnHead, Cleared, Past
<1>6. Unlinked' = Unlinked /\ Uncounted' = Uncounted
  BY DEF CloseHead, Unlinked, Uncounted
<1> QED
  BY <1>3, <1>4, <1>5, <1>6, HandStep DEF CloseHead, coreVars

LEMMA CloseEndStep == ASSUME ListInv, CloseEnd PROVE ListInv'
<1>1. /\ ConnTypeOK /\ PcbTypeOK /\ TaskTypeOK /\ TaskInv /\ wild \in Wilds
      /\ ListMatchesHeap /\ CallbacksMeetOwner /\ ClosedHasNone
  BY Parts
<1>2. /\ ConnTypeOK' /\ PcbTypeOK' /\ TaskTypeOK' /\ srv' \in SrvStates /\ wild' \in Wilds
  BY <1>1, SamePcbs DEF CloseEnd, ConnTypeOK, TaskTypeOK, SrvStates, Points
<1>3. Len(links) = 0 /\ Unlinked = {} /\ Unlinked' = {} /\ Uncounted' = 0 /\ 0 <= MaxConn
  BY ConstantsAssumption DEF CloseEnd, Unlinked, Uncounted
<1>4. ListMatchesHeap'
  BY <1>1, <1>3 DEF CloseEnd, ListMatchesHeap, Listed
<1>5. CallbacksMeetOwner' /\ ClosedHasNone'
  BY <1>1 DEF CloseEnd, pcbVars, CallbacksMeetOwner, Hooked, Open, ClosedHasNone
<1>6. TaskInv'
  BY <1>1 DEF CloseEnd, TaskInv, OnHead, Cleared, Past
<1> QED
  BY <1>2, <1>4, <1>5, <1>6, Whole

LEMMA CloseFindStep == ASSUME ListInv, CloseFind PROVE ListInv'
<1>1. CASE TouchFreed("close") /\ UNCHANGED <<taskVars, overtaken>>
  BY <1>1, CloseTouchesStep
<1>2. CASE /\ IF Found(ts) = {} THEN at' = "state" /\ UNCHANGED tp
              ELSE at' = "arg" /\ tp' \in Found(ts)
           /\ UNCHANGED <<connVars, pcbVars, ts, next, num, alone, wild, srv, overtaken>>
  <2>1. ConnTypeOK /\ PcbTypeOK /\ TaskTypeOK /\ TaskInv /\ CallbacksMeetOwner
    BY Parts
  <2>2. PcbTypeOK' /\ NoNewHook
    BY <1>2, <2>1, SamePcbs
  <2>3. TaskTypeOK'
    BY <1>2, <2>1 DEF TaskTypeOK, Points, Found
  <2>4. Unlinked' = Unlinked /\ Uncounted' = Uncounted /\ at = "find"
    BY <1>2 DEF CloseFind, Unlinked, Uncounted
  <2>5. TaskInv'
    <3>1. CASE Found(ts) = {}
      <4>1. \A p \in Pcb : tcp[p] \in Active /\ Hooked(p) => arg[p] # ts
        BY <2>1, <3>1 DEF CallbacksMeetOwner, Found
      <4>2. \A p \in Pcb : tcp'[p] \in Active /\ Hooked(p)' => arg'[p] # ts'
        BY <1>2, <4>1 DEF pcbVars, Hooked
      <4> QED
        BY <1>2, <2>1, <2>4, <3>1, <4>2 DEF connVars, TaskInv, OnHead, Cleared, Past
    <3>2. CASE Found(ts) # {}
      <4>1. tp' \in Pcb /\ arg'[tp'] = ts' /\ cpcb'[ts'] = tp' /\ at' = "arg"
        BY <1>2, <3>2 DEF Found, connVars, pcbVars
      <4> QED
        BY <1>2, <2>1, <2>4, <4>1 DEF connVars, TaskInv, OnHead, Cleared, Past
    <3> QED
      BY <3>1, <3>2
  <2> QED
    BY <1>2, <2>2, <2>3, <2>4, <2>5, HandStep
<1> QED
  BY <1>1, <1>2 DEF CloseFind, UseIf

LEMMA ClearArgStep == ASSUME ListInv, ClearArg PROVE ListInv'
<1>1. CASE TouchFreed("close") /\ UNCHANGED <<taskVars, overtaken>>
  BY <1>1, CloseTouchesStep
<1>2. CASE /\ arg' = [arg EXCEPT ![tp] = NoConn] /\ at' = "recv"
           /\ UNCHANGED <<connVars, tcp, cb, ts, tp, next, num, alone, wild, srv, overtaken>>
  <2>1. ConnTypeOK /\ PcbTypeOK /\ TaskTypeOK /\ TaskInv /\ CallbacksMeetOwner /\ at = "arg" /\ tp \in Pcb
    BY Parts DEF ClearArg, TaskInv
  <2>2. PcbTypeOK' /\ NoNewHook
    BY <1>2, <2>1 DEF PcbTypeOK, NoNewHook
  <2>3. TaskTypeOK'
    BY <1>2, <2>1 DEF TaskTypeOK, Points
  <2>4. Unlinked' = Unlinked /\ Uncounted' = Uncounted
    BY <1>2, <2>1 DEF Unlinked, Uncounted
  <2>5. ASSUME NEW p \in Pcb, tcp'[p] \in Active, Hooked(p)'
        PROVE  arg'[p] # ts
    <3>1. tcp[p] \in Active /\ Hooked(p) /\ arg'[p] = arg[p]
      BY <2>2, <2>5, HookKept
    <3>2. p # tp
      BY <1>2, <2>1, <2>5 DEF PcbTypeOK, Hooked
    <3> QED
      BY <2>1, <3>1, <3>2, ConstantsAssumption DEF CallbacksMeetOwner, TaskInv
  <2>6. TaskInv'
    <3>1. arg'[tp'] = NoConn
      BY <1>2, <2>1 DEF PcbTypeOK
    <3> QED
      BY <1>2, <2>1, <2>5, <3>1 DEF connVars, TaskInv, OnHead, Cleared, Past
  <2> QED
    BY <1>2, <2>1, <2>2, <2>3, <2>4, <2>6, HandStep
<1> QED
  BY <1>1, <1>2 DEF ClearArg, UseIf

LEMMA ClearCallbackStep == ASSUME ListInv, ClearCallback PROVE ListInv'
<1>1. CASE TouchFreed("close") /\ UNCHANGED <<taskVars, overtaken>>
  BY <1>1, CloseTouchesStep
<1>2. CASE /\ cb' = [cb EXCEPT ![tp] = @ \ {at}] /\ at' = AfterClear[at]
           /\ UNCHANGED <<connVars, tcp, arg, ts, tp, next, num, alone, wild, srv, overtaken>>
  <2>1. /\ ConnTypeOK /\ PcbTypeOK /\ TaskTypeOK /\ TaskInv
        /\ at \in {"recv", "err", "poll", "sent"} /\ tp \in Pcb
    BY Parts DEF ClearCallback, TaskInv, Cleared, Callbacks
  <2>2. PcbTypeOK' /\ NoNewHook
    BY <1>2, <2>1 DEF PcbTypeOK, NoNewHook
  <2>3. at' \in Cleared
    BY <1>2, <2>1 DEF AfterClear, Cleared
  <2>4. TaskTypeOK'
    BY <1>2, <2>1, <2>3 DEF TaskTypeOK, Points, Cleared
  <2>5. Unlinked' = Unlinked /\ Uncounted' = Uncounted
    BY <1>2, <2>1, <2>3 DEF Unlinked, Uncounted, Cleared
  <2>6. ASSUME NEW p \in Pcb, tcp'[p] \in Active, Hooked(p)'
        PROVE  arg'[p] # ts
    <3>1. tcp[p] \in Active /\ Hooked(p) /\ arg'[p] = arg[p]
      BY <2>2, <2>6, HookKept
    <3> QED
      BY <2>1, <3>1 DEF TaskInv, Past, Cleared
  <2>7. TaskInv'
    BY <1>2, <2>1, <2>3, <2>6 DEF connVars, TaskInv, OnHead, Cleared, Past
  <2> QED
    BY <1>2, <2>1, <2>2, <2>4, <2>5, <2>7, HandStep
<1> QED
  BY <1>1, <1>2 DEF ClearCallback, UseIf

LEMMA ClosePcbStep == ASSUME ListInv, ClosePcb PROVE ListInv'
<1>1. CASE TouchFreed("close") /\ UNCHANGED <<taskVars, overtaken>>
  BY <1>1, CloseTouchesStep
<1>2. CASE /\ \E after \in Dropped(tcp[tp]) : tcp' = [tcp EXCEPT ![tp] = after]
           /\ at' = "forget" /\ tp' = NoPcb
           /\ UNCHANGED <<connVars, arg, cb, ts, next, num, alone, wild, srv, overtaken>>
  <2>1. ConnTypeOK /\ PcbTypeOK /\ TaskTypeOK /\ TaskInv /\ at = "close" /\ tp \in Pcb /\ NoPcb \notin Pcb
    BY Parts, ConstantsAssumption DEF ClosePcb, TaskInv, Cleared
  <2>2. PICK after \in Dropped(tcp[tp]) : tcp' = [tcp EXCEPT ![tp] = after]
    BY <1>2
  <2>3. after \in TcpStates /\ (after \in Active => tcp[tp] \in Active)
    BY <2>1, DroppedIsState DEF PcbTypeOK
  <2>4. PcbTypeOK' /\ NoNewHook
    BY <1>2, <2>1, <2>2, <2>3 DEF PcbTypeOK, NoNewHook
  <2>5. TaskTypeOK'
    BY <1>2, <2>1 DEF TaskTypeOK, Points
  <2>6. Unlinked' = Unlinked /\ Uncounted' = Uncounted
    BY <1>2, <2>1 DEF Unlinked, Uncounted
  <2>7. ASSUME NEW p \in Pcb, tcp'[p] \in Active, Hooked(p)'
        PROVE  arg'[p] # ts
    <3>1. tcp[p] \in Active /\ Hooked(p) /\ arg'[p] = arg[p]
      BY <2>4, <2>7, HookKept
    <3> QED
      BY <2>1, <3>1 DEF TaskInv, Past, Cleared
  <2>8. TaskInv'
    BY <1>2, <2>1, <2>7 DEF connVars, TaskInv, OnHead, Cleared, Past
  <2> QED
    BY <1>2, <2>1, <2>4, <2>5, <2>6, <2>8, HandStep
<1> QED
  BY <1>1, <1>2 DEF ClosePcb, UseIf

LEMMA ForgetPcbStep == ASSUME ListInv, ForgetPcb PROVE ListInv'
<1>1. CASE TouchFreed("close") /\ UNCHANGED <<taskVars, overtaken>>
  BY <1>1, CloseTouchesStep
<1>2. CASE /\ cpcb' = [cpcb EXCEPT ![ts] = NoPcb] /\ at' = "state"
           /\ UNCHANGED <<links, count, live, state, check, rxnull, txnull, pcbVars, ts, tp, next, num, alone,
                          wild, srv, overtaken>>
  <2>1. ConnTypeOK /\ TaskTypeOK /\ TaskInv /\ ListMatchesHeap /\ ClosedHasNone /\ at = "forget"
    BY Parts DEF ForgetPcb
  <2>2. ConnTypeOK' /\ TaskTypeOK'
    BY <1>2, <2>1 DEF ConnTypeOK, TaskTypeOK, Points
  <2>3. ListMatchesHeap'
    BY <1>2, <2>1 DEF ListMatchesHeap, Listed, Unlinked, Uncounted
  <2>4. \A c \in live \ {ts} : cpcb'[c] = cpcb[c]
    BY <1>2, <2>1 DEF ConnTypeOK
  <2>5. ClosedHasNone'
    BY <1>2, <2>1 DEF ClosedHasNone, ConnTypeOK
  <2>6. TaskInv'
    BY <1>2, <2>1 DEF pcbVars, TaskInv, OnHead, Cleared, Past, Hooked
  <2> QED
    BY <1>2, <2>1, <2>2, <2>3, <2>4, <2>5, <2>6, OwnConnStep DEF Past
<1> QED
  BY <1>1, <1>2 DEF ForgetPcb, UseIf

LEMMA MarkClosedStep == ASSUME ListInv, MarkClosed PROVE ListInv'
<1>1. CASE TouchFreed("close") /\ UNCHANGED <<taskVars, overtaken>>
  BY <1>1, CloseTouchesStep
<1>2. CASE /\ state' = [state EXCEPT ![ts] = "CLOSED"]
           /\ at' = IF state[ts] = "CLOSED" THEN "unlink" ELSE "discon"
           /\ UNCHANGED <<links, count, live, check, cpcb, rxnull, txnull, pcbVars, ts, tp, next, num, alone,
                          wild, srv, overtaken>>
           /\ ConnThere
  <2>1. ConnTypeOK /\ TaskTypeOK /\ TaskInv /\ ListMatchesHeap /\ ClosedHasNone /\ at = "state"
    BY Parts DEF MarkClosed
  <2>2. at' \in {"unlink", "discon"} /\ (at' = "unlink" => state[ts] = "CLOSED")
    BY <1>2
  <2>3. ConnTypeOK' /\ TaskTypeOK'
    BY <1>2, <2>1, <2>2 DEF ConnTypeOK, TaskTypeOK, Points, ConnStates
  <2>4. ListMatchesHeap'
    BY <1>2, <2>1, <2>2 DEF ListMatchesHeap, Listed, Unlinked, Uncounted
  <2>5. \A c \in live \ {ts} : state'[c] = state[c]
    BY <1>2, <2>1 DEF ConnTypeOK
  <2>6. ClosedHasNone'
    BY <1>2, <2>1, <2>2, <2>5 DEF ClosedHasNone
  <2>7. TaskInv'
    <3>1. state'[ts] = "CLOSED"
      BY <1>2, <2>1 DEF ConnThere, ConnTypeOK
    <3> QED
      BY <1>2, <2>1, <2>2, <3>1 DEF pcbVars, TaskInv, OnHead, Cleared, Past, Hooked
  <2> QED
    BY <1>2, <2>1, <2>3, <2>4, <2>5, <2>6, <2>7, OwnConnStep DEF Past
<1> QED
  BY <1>1, <1>2 DEF MarkClosed, UseIf

LEMMA DisconnectedStep == ASSUME ListInv, Disconnected PROVE ListInv'
<1>1. CASE TouchFreed("close") /\ UNCHANGED <<taskVars, overtaken>>
  BY <1>1, CloseTouchesStep
<1>2. CASE /\ cpcb' = [cpcb EXCEPT ![ts] = NoPcb]
           /\ IF PhcfgNull THEN at' = "head" /\ ts' = NoConn ELSE at' = "unlink" /\ UNCHANGED ts
           /\ UNCHANGED <<links, count, live, state, check, rxnull, txnull, pcbVars, tp, next, num, alone,
                          wild, srv, overtaken>>
  <2>1. ConnTypeOK /\ TaskTypeOK /\ TaskInv /\ ListMatchesHeap /\ ClosedHasNone /\ at = "discon"
    BY Parts DEF Disconnected
  <2>2. (at' = "head" /\ ts' = NoConn) \/ (at' = "unlink" /\ ts' = ts)
    BY <1>2
  <2>3. ConnTypeOK' /\ TaskTypeOK'
    BY <1>2, <2>1, <2>2 DEF ConnTypeOK, TaskTypeOK, Points
  <2>4. ListMatchesHeap'
    BY <1>2, <2>1, <2>2 DEF ListMatchesHeap, Listed, Unlinked, Uncounted
  <2>5. \A c \in live \ {ts} : cpcb'[c] = cpcb[c]
    BY <1>2, <2>1 DEF ConnTypeOK
  <2>6. ClosedHasNone'
    BY <1>2, <2>1, <2>5 DEF ClosedHasNone, ConnTypeOK
  <2>7. TaskInv'
    BY <1>2, <2>1, <2>2 DEF pcbVars, TaskInv, OnHead, Cleared, Past, Hooked
  <2> QED
    BY <1>2, <2>1, <2>3, <2>4, <2>5, <2>6, <2>7, OwnConnStep DEF Past
<1> QED
  BY <1>1, <1>2 DEF Disconnected, UseIf

LEMMA LoadNextStep == ASSUME ListInv, LoadNext PROVE ListInv'
<1>1. CASE TouchFreed("close") /\ UNCHANGED <<taskVars, overtaken>>
  BY <1>1, CloseTouchesStep
<1>2. CASE /\ next' = IF Len(links) > 1 THEN links[2] ELSE NoConn
           /\ at' = "store"
           /\ UNCHANGED <<connVars, pcbVars, ts, tp, num, alone, wild, srv, overtaken>>
  <2>1. ConnTypeOK /\ PcbTypeOK /\ TaskTypeOK /\ TaskInv /\ at = "unlink"
    BY Parts DEF LoadNext
  <2>2. Len(links) > 1 => links[2] \in Conn
    BY <2>1 DEF ConnTypeOK
  <2>3. PcbTypeOK' /\ NoNewHook
    BY <1>2, <2>1, SamePcbs
  <2>4. TaskTypeOK'
    BY <1>2, <2>1, <2>2 DEF TaskTypeOK, Points
  <2>5. Unlinked' = Unlinked /\ Uncounted' = Uncounted
    BY <1>2, <2>1 DEF Unlinked, Uncounted
  <2>6. TaskInv'
    BY <1>2, <2>1 DEF connVars, pcbVars, TaskInv, OnHead, Cleared, Past, Hooked
  <2> QED
    BY <1>2, <2>1, <2>3, <2>4, <2>5, <2>6, HandStep
<1> QED
  BY <1>1, <1>2 DEF LoadNext, UseIf

LEMMA StoreNextStep == ASSUME ListInv, StoreNext PROVE ListInv'
<1>1. CASE TouchFreed("close") /\ UNCHANGED <<taskVars, overtaken>>
  BY <1>1, CloseTouchesStep
<1>2. CASE /\ links' = Tail(links) /\ at' = "count" /\ next' = NoConn /\ ConnThere
           /\ UNCHANGED <<count, live, state, check, cpcb, rxnull, txnull, pcbVars, ts, tp, num, alone,
                          wild, srv, overtaken>>
  <2>1. /\ ConnTypeOK /\ TaskTypeOK /\ TaskInv /\ ListMatchesHeap /\ ClosedHasNone
        /\ at = "store" /\ ts \in live
    BY <1>2, Parts DEF StoreNext, ConnThere
  <2>2. links # <<>> /\ Head(links) = ts /\ Distinct(links) /\ Range(links) = live /\ srv = "closing"
    BY <2>1 DEF TaskInv, OnHead, ListMatchesHeap, Listed, Unlinked, Distinct
  <2>3. /\ links' \in Seq(Conn) /\ Len(links') = Len(links) - 1
        /\ Distinct(links') /\ Range(links') = live \ {ts}
    BY <1>2, <2>1, <2>2, TailRemoves DEF ConnTypeOK
  <2>4. ConnTypeOK' /\ TaskTypeOK'
    BY <1>2, <2>1, <2>3 DEF ConnTypeOK, TaskTypeOK, Points
  <2>5. Unlinked' = {ts} /\ Uncounted' = 1 /\ Uncounted = 0
    BY <1>2, <2>1 DEF Unlinked, Uncounted
  <2>6. Len(links') + 1 <= count' /\ count' <= MaxConn
    <3>1. Len(links) + 0 <= count /\ count <= MaxConn /\ Len(links) \in Nat
      BY <2>1, <2>5 DEF ListMatchesHeap, ConnTypeOK
    <3> QED
      BY <1>2, <2>3, <3>1
  <2>7. ListMatchesHeap'
    BY <1>2, <2>2, <2>3, <2>5, <2>6 DEF ListMatchesHeap, Listed, Distinct
  <2>8. ClosedHasNone'
    BY <1>2, <2>1 DEF ClosedHasNone
  <2>9. TaskInv'
    <3>1. cpcb[ts] = NoPcb
      BY <2>1 DEF ClosedHasNone, TaskInv
    <3> QED
      BY <1>2, <2>1, <3>1 DEF pcbVars, TaskInv, OnHead, Cleared, Past, Hooked
  <2> QED
    BY <1>2, <2>1, <2>4, <2>7, <2>8, <2>9, OwnConnStep DEF Past
<1> QED
  BY <1>1, <1>2 DEF StoreNext, UseIf

LEMMA LoadCountStep == ASSUME ListInv, LoadCount PROVE ListInv'
<1>1. CASE TouchFreed("close") /\ UNCHANGED <<taskVars, overtaken>>
  BY <1>1, CloseTouchesStep
<1>2. CASE /\ num' = count /\ at' = "dec"
           /\ UNCHANGED <<connVars, pcbVars, ts, tp, next, alone, wild, srv, overtaken>>
  <2>1. ConnTypeOK /\ PcbTypeOK /\ TaskTypeOK /\ TaskInv /\ ListMatchesHeap /\ at = "count"
    BY Parts DEF LoadCount
  <2>2. Len(links) < count /\ count <= MaxConn
    <3>1. Uncounted = 1 /\ Len(links) \in Nat
      BY <2>1 DEF Uncounted, ConnTypeOK
    <3>2. Len(links) + 1 <= count /\ count <= MaxConn
      BY <2>1, <3>1 DEF ListMatchesHeap
    <3> QED
      BY <2>1, <3>1, <3>2 DEF ConnTypeOK
  <2>3. PcbTypeOK' /\ NoNewHook
    BY <1>2, <2>1, SamePcbs
  <2>4. TaskTypeOK'
    BY <1>2, <2>1 DEF TaskTypeOK, ConnTypeOK, Points
  <2>5. Unlinked' = Unlinked /\ Uncounted' = Uncounted
    BY <1>2, <2>1 DEF Unlinked, Uncounted
  <2>6. TaskInv'
    BY <1>2, <2>1, <2>2 DEF connVars, pcbVars, TaskInv, OnHead, Cleared, Past, Hooked
  <2> QED
    BY <1>2, <2>1, <2>3, <2>4, <2>5, <2>6, HandStep
<1> QED
  BY <1>1, <1>2 DEF LoadCount, UseIf

LEMMA StoreCountStep == ASSUME ListInv, StoreCount PROVE ListInv'
<1>1. CASE TouchFreed("close") /\ UNCHANGED <<taskVars, overtaken>>
  BY <1>1, CloseTouchesStep
<1>2. CASE /\ count' = num - 1 /\ at' = "free" /\ num' = 0
           /\ UNCHANGED <<links, live, state, check, cpcb, rxnull, txnull, pcbVars, ts, tp, next, alone,
                          wild, srv, overtaken>>
  <2>1. ConnTypeOK /\ TaskTypeOK /\ TaskInv /\ ListMatchesHeap /\ ClosedHasNone /\ at = "dec" /\ srv = "closing"
    BY Parts DEF StoreCount, TaskInv
  <2>2. /\ Len(links) \in Nat /\ num \in Nat /\ MaxConn \in Nat
        /\ Len(links) < num /\ num <= MaxConn
    BY <2>1, ConstantsAssumption DEF ConnTypeOK, TaskTypeOK, TaskInv
  <2>3. count' \in Nat /\ Len(links) <= count' /\ count' <= MaxConn
    BY <1>2, <2>2
  <2>4. ConnTypeOK' /\ TaskTypeOK'
    BY <1>2, <2>1, <2>3 DEF ConnTypeOK, TaskTypeOK, Points
  <2>5. Unlinked' = Unlinked /\ Uncounted' = 0
    BY <1>2, <2>1 DEF Unlinked, Uncounted
  <2>6. ListMatchesHeap'
    <3>1. Len(links') + Uncounted' <= count'
      BY <1>2, <2>2, <2>3, <2>5
    <3> QED
      BY <1>2, <2>1, <2>3, <2>5, <3>1 DEF ListMatchesHeap, Listed
  <2>7. ClosedHasNone'
    BY <1>2, <2>1 DEF ClosedHasNone
  <2>8. TaskInv'
    BY <1>2, <2>1 DEF pcbVars, TaskInv, OnHead, Cleared, Past, Hooked
  <2> QED
    BY <1>2, <2>1, <2>4, <2>6, <2>7, <2>8, OwnConnStep DEF Past
<1> QED
  BY <1>1, <1>2 DEF StoreCount, UseIf

LEMMA FreeItStep == ASSUME ListInv, FreeIt PROVE ListInv'
<1>1. CASE TouchFreed("close") /\ UNCHANGED <<taskVars, overtaken>>
  BY <1>1, CloseTouchesStep
<1>2. CASE /\ live' = live \ {ts}
           /\ state' = [state EXCEPT ![ts] = "NONE"] /\ check' = [check EXCEPT ![ts] = 0]
           /\ rxnull' = rxnull \ {ts} /\ txnull' = txnull \ {ts}
           /\ at' = "head" /\ ts' = NoConn
           /\ UNCHANGED <<links, count, cpcb, pcbVars, tp, next, num, alone, wild, srv, overtaken>>
  <2>1. ConnTypeOK /\ TaskTypeOK /\ TaskInv /\ ListMatchesHeap /\ ClosedHasNone /\ at = "free" /\ srv = "closing"
    BY Parts DEF FreeIt, TaskInv
  <2>2. ConnTypeOK' /\ TaskTypeOK'
    BY <1>2, <2>1, ZeroCheck DEF ConnTypeOK, TaskTypeOK, Points, ConnStates
  <2>3. Unlinked = {ts} /\ Unlinked' = {} /\ Uncounted' = Uncounted
    BY <1>2, <2>1 DEF Unlinked, Uncounted
  <2>4. ListMatchesHeap'
    BY <1>2, <2>1, <2>3 DEF ListMatchesHeap, Listed
  <2>5. \A c \in live \ {ts} : c \in live' /\ state'[c] = state[c]
    BY <1>2, <2>1 DEF ConnTypeOK
  <2>6. ClosedHasNone'
    BY <1>2, <2>1, <2>5 DEF ClosedHasNone
  <2>7. TaskInv'
    BY <1>2, <2>1 DEF pcbVars, TaskInv, OnHead, Cleared, Past, Hooked
  <2> QED
    BY <1>2, <2>1, <2>2, <2>4, <2>5, <2>6, <2>7, OwnConnStep DEF Past
<1> QED
  BY <1>1, <1>2 DEF FreeIt, UseIf

LEMMA CloseStepStep == ASSUME ListInv, CloseStep PROVE ListInv'
  BY CloseHeadStep, CloseEndStep, CloseFindStep, ClearArgStep, ClearCallbackStep, ClosePcbStep,
     ForgetPcbStep, MarkClosedStep, DisconnectedStep, LoadNextStep, StoreNextStep, LoadCountStep,
     StoreCountStep, FreeItStep DEF CloseStep

-----------------------------------------------------------------------------
LEMMA ListInvInit == Init => ListInv
<1> SUFFICES ASSUME Init PROVE ListInv
  OBVIOUS
<1>1. TypeOK
  <2>1. links \in Seq(Conn) /\ count \in Nat
    BY DEF Init
  <2>2. state \in [Conn -> ConnStates] /\ cpcb \in [Conn -> Pcb \union {NoPcb}]
    BY DEF Init, ConnStates
  <2>3. check \in [Conn -> 0 .. RecvCheckMod - 1]
    BY ZeroCheck DEF Init
  <2>4. PcbTypeOK /\ TaskTypeOK
    BY DEF Init, PcbTypeOK, TcpStates, TaskTypeOK, Points
  <2>5. ConnTypeOK /\ srv \in SrvStates /\ wild \in Wilds
    BY <2>1, <2>2, <2>3 DEF Init, ConnTypeOK, SrvStates, Wilds
  <2> QED
    BY <2>4, <2>5, TypeParts
<1>2. ListMatchesHeap
  BY ConstantsAssumption DEF Init, ListMatchesHeap, Listed, Range, Unlinked, Uncounted
<1>3. CallbacksMeetOwner /\ ClosedHasNone
  BY DEF Init, CallbacksMeetOwner, ClosedHasNone, Active
<1>4. TaskInv
  BY ConstantsAssumption DEF Init, TaskInv, OnHead, Cleared, Past
<1> QED
  BY <1>1, <1>2, <1>3, <1>4 DEF ListInv

LEMMA StutterStep == ASSUME ListInv, UNCHANGED vars PROVE ListInv'
<1>1. Beside /\ UNCHANGED connVars /\ UNCHANGED pcbVars /\ wild' \in Wilds
  BY Parts DEF vars, coreVars, Beside, TaskTypeOK
<1> QED
  BY <1>1, PcbStep, SamePcbs, Parts

LEMMA ListInvNext == ListInv /\ [Next]_vars => ListInv'
  BY ThreadStep, StartStep, CloseBeginStep, CloseStepStep, StutterStep DEF Next, Running

LEMMA ListInvAlways == Spec => []ListInv
  BY ListInvInit, ListInvNext, PTL DEF Spec

(***************************************************************************)
(* Whatever fails, and wherever the thread comes in, every variable keeps  *)
(* its type: conn_count never goes below 0, recv_check never leaves its 16 *)
(* bits.                                                                   *)
(***************************************************************************)
THEOREM TypeCorrect == Spec => []TypeOK
<1>1. ListInv => TypeOK
  BY DEF ListInv
<1> QED
  BY <1>1, ListInvAlways, PTL

(***************************************************************************)
(* Whatever fails, and wherever the thread comes in between two statements *)
(* of tcpsrv_close, conn_links, conn_count and the heap agree: no node is  *)
(* unlinked, freed or counted twice, none is lost, and there are never     *)
(* more than max_conn connections.                                         *)
(***************************************************************************)
THEOREM ListAlwaysMatchesHeap == Spec => []ListMatchesHeap
<1>1. ListInv => ListMatchesHeap
  BY DEF ListInv
<1> QED
  BY <1>1, ListInvAlways, PTL
-----------------------------------------------------------------------------
(***************************************************************************)
(* What a step does to the connections: it leaves them in their places,    *)
(* deletes one, fails to close one, accepts one, or takes away something   *)
(* of the one that tcpsrv_close has in its hands.                          *)
(***************************************************************************)
ConnsStay ==
  /\ UNCHANGED <<live, cpcb>>
  /\ \A c \in live : state'[c] = state[c] \/ (Open(c) /\ state'[c] = "CONNECT")
  /\ \A c \in live : state[c] = "CLOSEWAIT" => check'[c] = check[c]

FailsToClose(c) ==
  /\ cpcb[c] # NoPcb
  /\ UNCHANGED <<live, cpcb>>
  /\ \/ Open(c) /\ state' = [state EXCEPT ![c] = "CLOSEWAIT"] /\ check' = [check EXCEPT ![c] = 0]
     \/ ~Open(c) /\ UNCHANGED <<state, check>>

Accepted(p, c) ==
  /\ srv = "up" /\ (count < MaxConn \/ SrvReopen)
  /\ c \notin live \ Evicted /\ (c \in Evicted => cpcb[c] # p)
  /\ live' = (live \ Evicted) \union {c}
  /\ state' = [d \in Conn |-> IF d = c THEN "LISTEN" ELSE IF d \in Evicted THEN "NONE" ELSE state[d]]
  /\ check' = [d \in Conn |-> IF d = c THEN 0 ELSE IF d \in Evicted THEN 0 ELSE check[d]]
  /\ cpcb' = [d \in Conn |-> IF d = c THEN p ELSE IF d \in Evicted THEN NoPcb ELSE cpcb[d]]

HandChanges ==
  /\ ts \in live /\ live' \subseteq live
  /\ \A c \in live \ {ts} : c \in live' /\ state'[c] = state[c] /\ cpcb'[c] = cpcb[c] /\ check'[c] = check[c]
  /\ IF ts \in live'
     THEN /\ state'[ts] \in {state[ts], "CLOSED"}
          /\ cpcb'[ts] \in {cpcb[ts], NoPcb}
          /\ check'[ts] = check[ts]
     ELSE state'[ts] = "NONE"

ConnsChange ==
  \/ ConnsStay
  \/ HandChanges
  \/ \E c \in live : ListDelete(c) \/ FailsToClose(c)
  \/ \E p \in Pcb, c \in Conn : Accepted(p, c)

\* the server moves by itself, and not while connections do
ServerMoves ==
  \/ UNCHANGED srv
  \/ UNCHANGED <<live, state, check, cpcb>> /\ (Start \/ CloseBegin \/ CloseEnd)

LEMMA ServerCloseChanges ==
  ASSUME NEW c \in live, cpcb[c] # NoPcb, NEW s, ServerClose(c, s)
  PROVE  ConnsChange
<1>1. CASE ListDelete(c)
  BY <1>1 DEF ConnsChange
<1>2. CASE CloseFails(c, s)
  BY <1>2 DEF ConnsChange, FailsToClose, CloseFails
<1> QED
  BY <1>1, <1>2 DEF ServerClose, Abandon, CloseSucceeds

LEMMA NothingChanges == ASSUME UNCHANGED connVars PROVE ConnsChange
  BY DEF connVars, ConnsChange, ConnsStay

LEMMA CallServerCloseChanges ==
  ASSUME NEW c \in live, NEW s, NEW who, CallServerClose(c, s, who)
  PROVE  ConnsChange /\ UNCHANGED srv
<1>1. CASE UNCHANGED <<srv, connVars>>
  BY <1>1, NothingChanges
<1>2. CASE cpcb[c] # NoPcb /\ ServerClose(c, s) /\ UNCHANGED srv
  BY <1>2, ServerCloseChanges
<1> QED
  BY <1>1, <1>2 DEF CallServerClose, coreVars, TouchFreed

LEMMA DeletePcbChanges ==
  ASSUME NEW c \in live, DeletePcb(c)
  PROVE  ConnsChange /\ UNCHANGED srv
<1>1. CASE TouchFreed("accept")
  BY <1>1, NothingChanges DEF TouchFreed
<1>2. CASE ListDelete(c) /\ UNCHANGED srv
  BY <1>2 DEF ConnsChange
<1> QED
  BY <1>1, <1>2 DEF DeletePcb, TouchFreed

LEMMA AcceptIsAccepted ==
  ASSUME ListInv, NEW p \in Pcb, NEW c \in Conn, Accept(p, c), ~\E v \in Evicted : StalePcb(v)
  PROVE  Accepted(p, c) /\ UNCHANGED srv
<1>1. /\ live' = (live \ Evicted) \union {c}
      /\ state' = [d \in Conn |-> IF d = c THEN "LISTEN" ELSE IF d \in Evicted THEN "NONE" ELSE state[d]]
      /\ check' = [d \in Conn |-> IF d = c THEN 0 ELSE IF d \in Evicted THEN 0 ELSE check[d]]
      /\ cpcb' = [d \in Conn |-> IF d = c THEN p ELSE IF d \in Evicted THEN NoPcb ELSE cpcb[d]]
      /\ c \notin live \ Evicted /\ tcp[p] = "FREE" /\ srv = "up" /\ UNCHANGED srv
      /\ count < MaxConn \/ SrvReopen
  BY DEF Accept, Insert
<1>2. \A d \in Evicted : cpcb[d] # p
  BY <1>1, ConstantsAssumption DEF StalePcb
<1> QED
  BY <1>1, <1>2 DEF Accepted

LEMMA AcceptChanges ==
  ASSUME ListInv, NEW p \in Pcb, NEW c \in Conn, Accept(p, c)
  PROVE  ConnsChange /\ UNCHANGED srv
<1>1. CASE \E v \in Evicted : StalePcb(v)
  BY <1>1, NothingChanges DEF Accept, TouchFreed
<1>2. CASE ~\E v \in Evicted : StalePcb(v)
  BY <1>2, AcceptIsAccepted DEF ConnsChange
<1> QED
  BY <1>1, <1>2

LEMMA CallbackChanges ==
  ASSUME ListInv, NEW p \in Pcb, Recv(p) \/ Sent(p)
  PROVE  ConnsChange /\ UNCHANGED srv
<1> DEFINE c == arg[p]
<1>1. tcp[p] \in Active /\ Hooked(p)
  BY DEF Recv, Sent, Active, Hooked
<1>2. c \in live /\ c \in Conn /\ cpcb[c] = p /\ p # NoPcb /\ Open(c) /\ ConnTypeOK
  BY <1>1, CallbackOwner, ConstantsAssumption, TypeParts DEF ListInv
<1>3. CASE /\ state' = [state EXCEPT ![c] = "CONNECT"]
           /\ check' = [check EXCEPT ![c] = 0]
           /\ UNCHANGED <<srv, live, cpcb>>
  BY <1>2, <1>3 DEF ConnTypeOK, ConnsChange, ConnsStay, Open
<1>4. CASE ServerClose(c, tcp[cpcb[c]]) /\ UNCHANGED srv
  BY <1>2, <1>4, ServerCloseChanges
<1> QED
  BY <1>3, <1>4 DEF Recv, Sent, Keep, CloseInCallback

LEMMA PollChanges ==
  ASSUME ListInv, NEW p \in Pcb, Poll(p)
  PROVE  ConnsChange /\ UNCHANGED srv
<1> DEFINE c == arg[p]
<1>1. CASE UNCHANGED <<srv, connVars>>
  BY <1>1, NothingChanges
<1>2. CASE /\ c \in live /\ state[c] # "CLOSEWAIT"
           /\ check' = [check EXCEPT ![c] = Count(c)]
           /\ UNCHANGED <<srv, live, state, cpcb>>
  BY <1>2, TypeParts DEF ListInv, ConnTypeOK, ConnsChange, ConnsStay
<1>3. CASE c \in live /\ CallServerClose(c, tcp[cpcb[c]], "poll")
  BY <1>3, CallServerCloseChanges
<1> QED
  BY <1>1, <1>2, <1>3 DEF Poll, TouchFreed, AbandonPcb

\* what a statement of tcpsrv_close does to the connection it is about
LEMMA CloseStepHands ==
  ASSUME ListInv, CloseStep
  PROVE  /\ HandChanges \/ UNCHANGED <<live, state, check, cpcb>>
         /\ UNCHANGED srv \/ (CloseEnd /\ UNCHANGED <<live, state, check, cpcb>>)
<1> DEFINE Same == UNCHANGED <<srv, live, state, check, cpcb>>
           Hands == HandChanges /\ UNCHANGED srv
<1>1. ConnTypeOK /\ TaskInv
  BY Parts
<1>2. CASE CloseEnd
  BY <1>2 DEF CloseEnd
<1>3. TouchFreed("close") => Same
  BY DEF TouchFreed, connVars
<1>4. ConnThere /\ cpcb' = [cpcb EXCEPT ![ts] = NoPcb] /\ UNCHANGED <<srv, live, state, check>> => Hands
  BY <1>1 DEF ConnThere, ConnTypeOK, HandChanges
<1>5. ConnThere /\ state' = [state EXCEPT ![ts] = "CLOSED"] /\ UNCHANGED <<srv, live, cpcb, check>> => Hands
  BY <1>1 DEF ConnThere, ConnTypeOK, HandChanges
<1>6. FreeIt /\ ConnThere => Hands
  <2> SUFFICES ASSUME FreeIt, ConnThere PROVE Hands
    OBVIOUS
  <2>1. /\ live' = live \ {ts} /\ state' = [state EXCEPT ![ts] = "NONE"]
        /\ check' = [check EXCEPT ![ts] = 0] /\ UNCHANGED <<srv, cpcb>>
    BY DEF FreeIt, UseIf
  <2>2. ts \in Conn /\ ts \in live /\ ts \notin live' /\ live' \subseteq live
    BY <1>1, <2>1 DEF ConnThere, ConnTypeOK
  <2>3. state'[ts] = "NONE"
    BY <1>1, <2>1, <2>2 DEF ConnTypeOK
  <2>4. \A c \in live \ {ts} : c \in live' /\ state'[c] = state[c] /\ cpcb'[c] = cpcb[c] /\ check'[c] = check[c]
    BY <1>1, <2>1 DEF ConnTypeOK
  <2> QED
    BY <2>1, <2>2, <2>3, <2>4 DEF HandChanges
<1>7. CloseHead \/ CloseFind \/ ClearArg \/ ClearCallback \/ ClosePcb => Same
  BY <1>3 DEF CloseHead, CloseFind, ClearArg, ClearCallback, ClosePcb, UseIf, coreVars, connVars
<1>8. LoadNext \/ StoreNext \/ LoadCount \/ StoreCount => Same
  BY <1>3 DEF LoadNext, StoreNext, LoadCount, StoreCount, UseIf, connVars
<1>9. ForgetPcb \/ MarkClosed \/ Disconnected \/ FreeIt => Same \/ Hands
  BY <1>3, <1>4, <1>5, <1>6 DEF ForgetPcb, MarkClosed, Disconnected, FreeIt, UseIf
<1> QED
  BY <1>2, <1>7, <1>8, <1>9 DEF CloseStep

LEMMA CloseStepChanges ==
  ASSUME ListInv, CloseStep
  PROVE  ConnsChange /\ ServerMoves
  BY CloseStepHands DEF ServerMoves, ConnsChange, ConnsStay

LEMMA ThreadChanges == ASSUME ListInv, Thread PROVE ConnsChange
<1>1. ASSUME NEW p \in Pcb, NEW c \in Conn, Accept(p, c) PROVE ConnsChange
  BY <1>1, AcceptChanges
<1>2. CASE AcceptNoMem
  BY <1>2, EvictedIs, DeletePcbChanges DEF AcceptNoMem
<1>3. ASSUME NEW p \in Pcb, Recv(p) \/ Sent(p) PROVE ConnsChange
  BY <1>3, CallbackChanges
<1>4. ASSUME NEW p \in Pcb, Fin(p) PROVE ConnsChange
  <2>1. CASE UNCHANGED connVars
    BY <2>1, NothingChanges
  <2>2. CASE "recv" \in cb[p] /\ arg[p] # NoConn /\ CallServerClose(arg[p], "CLOSE_WAIT", "fin")
    <3>1. tcp[p] \in Active /\ Hooked(p)
      BY <1>4, <2>2 DEF Fin, Active, Hooked
    <3> QED
      BY <2>2, <3>1, CallbackOwner, CallServerCloseChanges
  <2> QED
    BY <1>4, <2>1, <2>2 DEF Fin
<1>5. ASSUME NEW p \in Pcb, Poll(p) PROVE ConnsChange
  BY <1>5, PollChanges
<1>6. ASSUME NEW p \in Pcb, PcbLost(p) PROVE ConnsChange
  <2>1. CASE UNCHANGED connVars
    BY <2>1, NothingChanges
  <2>2. CASE tcp[p] \in Active /\ "err" \in cb[p] /\ arg[p] # NoConn /\ ListDelete(arg[p])
    BY <2>2, CallbackOwner DEF ConnsChange, Hooked
  <2> QED
    BY <1>6, <2>1, <2>2 DEF PcbLost
<1>7. ASSUME NEW p \in Pcb, PcbDone(p) PROVE ConnsChange
  BY <1>7, NothingChanges DEF PcbDone
<1> QED
  BY <1>1, <1>2, <1>3, <1>4, <1>5, <1>6, <1>7 DEF Thread

LEMMA StepChanges == ListInv /\ [Next]_vars => ConnsChange /\ ServerMoves
<1> SUFFICES ASSUME ListInv, [Next]_vars PROVE ConnsChange /\ ServerMoves
  OBVIOUS
<1>1. CASE Thread
  BY <1>1, ThreadChanges, ThreadKeepsServer DEF ServerMoves
<1>2. CASE CloseStep
  BY <1>2, CloseStepChanges
<1>3. CASE Start \/ CloseBegin
  <2>1. UNCHANGED connVars
    BY <1>3 DEF Start, CloseBegin
  <2> QED
    BY <1>3, <2>1, NothingChanges DEF connVars, ServerMoves
<1>4. CASE UNCHANGED vars
  BY <1>4, NothingChanges DEF vars, coreVars, ServerMoves
<1> QED
  BY <1>1, <1>2, <1>3, <1>4 DEF Next, Running

-----------------------------------------------------------------------------
(* A connection that waits to be closed.                                   *)

\* The count of tries is 0.
NeverCounted == \A c \in live : state[c] = "CLOSEWAIT" => check[c] = 0

\* A connection is open, waits, or is on its way to being freed.
Phased == \A c \in live : Open(c) \/ state[c] \in {"CLOSEWAIT", "CLOSED"}

\* What a step does to one that waits: it waits on, or is deleted.
StaysClosing ==
  \A c \in live : state[c] = "CLOSEWAIT" /\ cpcb'[c] \in {cpcb[c], NoPcb} => ~Open(c)'

WaitInv == ListInv /\ NeverCounted /\ Phased

\* what tcpsrv_list_delete does to the connections
LEMMA ListDeleteLeaves ==
  ASSUME ListInv, NEW c \in live, ListDelete(c)
  PROVE  /\ \A d \in live \ {c} : d \in live' /\ state'[d] = state[d] /\ cpcb'[d] = cpcb[d] /\ check'[d] = check[d]
         /\ live' \subseteq live
         /\ IF c \in live' THEN state'[c] = "CLOSED" /\ cpcb'[c] = NoPcb ELSE state'[c] = "NONE"
  BY Parts DEF ListDelete, LosePcb, FreeConn, ConnTypeOK

LEMMA ClosingStep == WaitInv /\ [Next]_vars => StaysClosing /\ NeverCounted' /\ Phased'
<1> SUFFICES ASSUME WaitInv, [Next]_vars PROVE StaysClosing /\ NeverCounted' /\ Phased'
  OBVIOUS
<1>1. ConnsChange /\ ConnTypeOK /\ NoPcb \notin Pcb
  BY StepChanges, TypeParts, ConstantsAssumption DEF WaitInv, ListInv
<1>2. CASE ConnsStay
  BY <1>2 DEF WaitInv, NeverCounted, Phased, Open, StaysClosing, ConnsStay
<1>3. ASSUME NEW c \in live, ListDelete(c) PROVE StaysClosing /\ NeverCounted' /\ Phased'
  BY <1>3, ListDeleteLeaves DEF WaitInv, NeverCounted, Phased, Open, StaysClosing
<1>4. ASSUME NEW c \in live, FailsToClose(c) PROVE StaysClosing /\ NeverCounted' /\ Phased'
  BY <1>1, <1>4 DEF WaitInv, NeverCounted, Phased, Open, StaysClosing, FailsToClose, ConnTypeOK
<1>5. ASSUME NEW p \in Pcb, NEW c \in Conn, Accepted(p, c) PROVE StaysClosing /\ NeverCounted' /\ Phased'
  <2>1. ASSUME NEW d \in live, state[d] = "CLOSEWAIT", cpcb'[d] \in {cpcb[d], NoPcb}
        PROVE  state'[d] \notin {"LISTEN", "CONNECT"}
    BY <1>1, <1>5, <2>1 DEF Accepted, ConnTypeOK
  <2>2. NeverCounted' /\ Phased'
    BY <1>1, <1>5 DEF WaitInv, NeverCounted, Phased, Open, Accepted, ConnTypeOK
  <2> QED
    BY <2>1, <2>2 DEF StaysClosing, Open
<1>6. CASE HandChanges
  BY <1>6 DEF WaitInv, NeverCounted, Phased, Open, StaysClosing, HandChanges
<1> QED
  BY <1>1, <1>2, <1>3, <1>4, <1>5, <1>6 DEF ConnsChange

LEMMA WaitInvAlways == Spec => []WaitInv
<1>1. Init => WaitInv
  BY ListInvInit DEF Init, WaitInv, NeverCounted, Phased
<1>2. WaitInv /\ [Next]_vars => WaitInv'
  BY ListInvNext, ClosingStep DEF WaitInv
<1> QED
  BY <1>1, <1>2, PTL DEF Spec

(***************************************************************************)
(* Whatever fails, a connection that waits to be closed is not reopened by *)
(* a late callback: it goes on waiting, or its pcb is closed.              *)
(***************************************************************************)
THEOREM ClosingStaysFinal == Spec => ClosingIsFinal
<1>1. WaitInv /\ [Next]_vars
        => [\A c \in live : state[c] = "CLOSEWAIT" /\ cpcb'[c] \in {cpcb[c], NoPcb} => ~Open(c)']_vars
  BY ClosingStep DEF StaysClosing
<1> QED
  BY <1>1, WaitInvAlways, PTL DEF Spec, ClosingIsFinal

(***************************************************************************)
(* tcp_srv_conn.h:59 promises a forced close after three tries.  The count *)
(* of tries of a connection that waits to be closed stays 0, so the branch *)
(* of tcpsrv_server_close that abandons the pcb is never taken.            *)
(***************************************************************************)
THEOREM NeverAbandoned == Spec => []NeverForced
<1>1. WaitInv => NeverForced
  BY DEF WaitInv, NeverCounted, NeverForced
<1> QED
  BY <1>1, WaitInvAlways, PTL

-----------------------------------------------------------------------------
(* tcpsrv_close: what its turns come to.                                   *)

\* While the server closes no connection comes, and none that is marked
\* CLOSED is used again.
OnlyFewer ==
  /\ live' \subseteq live
  /\ \A c \in live' : state[c] = "CLOSED" => state'[c] = "CLOSED"

\* A turn of the loop ends when its connection has been freed, or at the early
\* return, when it has been marked CLOSED for the first time.
TurnCounts ==
  /\ at # "head" /\ at' = "head" => ts \notin live' \/ (at = "discon" /\ state'[ts] = "CLOSED")
  /\ at # "discon" /\ at' = "discon" => state[ts] # "CLOSED" /\ state'[ts] = "CLOSED"

CloseWorks == [][srv = "closing" /\ srv' = "closing" => OnlyFewer /\ TurnCounts]_vars

LEMMA OnlyFewerStep == ASSUME WaitInv, [Next]_vars, srv = "closing", srv' = "closing" PROVE OnlyFewer
<1>1. ConnsChange /\ ConnTypeOK
  BY StepChanges, TypeParts DEF WaitInv, ListInv
<1>2. CASE ConnsStay
  BY <1>2 DEF ConnsStay, OnlyFewer, Open
<1>3. ASSUME NEW c \in live, ListDelete(c) PROVE OnlyFewer
  BY <1>3, ListDeleteLeaves DEF OnlyFewer, WaitInv
<1>4. ASSUME NEW c \in live, FailsToClose(c) PROVE OnlyFewer
  BY <1>1, <1>4 DEF FailsToClose, OnlyFewer, Open, ConnTypeOK
<1>5. CASE HandChanges
  BY <1>5 DEF HandChanges, OnlyFewer
<1> QED
  BY <1>1, <1>2, <1>3, <1>4, <1>5 DEF ConnsChange, Accepted

LEMMA TurnCountsStep == ASSUME WaitInv, [Next]_vars, srv = "closing", srv' = "closing" PROVE TurnCounts
<1>1. ConnTypeOK /\ TaskInv
  BY Parts DEF WaitInv
<1>2. CASE at' = at
  BY <1>2 DEF TurnCounts
<1>3. CASE CloseHead \/ CloseFind \/ ClearArg \/ ClosePcb \/ ForgetPcb \/ LoadNext \/ StoreNext
           \/ LoadCount \/ StoreCount
  BY <1>2, <1>3 DEF CloseHead, CloseFind, ClearArg, ClosePcb, ForgetPcb, LoadNext, StoreNext,
                    LoadCount, StoreCount, UseIf, taskVars, TurnCounts
<1>4. CASE ClearCallback
  <2>1. CASE at \in {"recv", "err", "poll", "sent"} /\ at' = AfterClear[at]
    <3>1. at' \in {"err", "poll", "sent", "close"}
      BY <2>1 DEF AfterClear
    <3> QED
      BY <3>1 DEF TurnCounts
  <2> QED
    BY <1>2, <1>4, <2>1 DEF ClearCallback, UseIf, taskVars, Callbacks
<1>5. CASE MarkClosed
  BY <1>1, <1>2, <1>5 DEF MarkClosed, UseIf, taskVars, TurnCounts, ConnThere, ConnTypeOK
<1>6. CASE Disconnected
  BY <1>1, <1>2, <1>6 DEF Disconnected, UseIf, taskVars, TurnCounts, ConnThere, TaskInv
<1>7. CASE FreeIt
  BY <1>2, <1>7 DEF FreeIt, UseIf, taskVars, TurnCounts
<1>8. Start \/ CloseBegin \/ CloseEnd => FALSE
  BY DEF Start, CloseBegin, CloseEnd
<1>9. CASE UNCHANGED taskVars
  BY <1>2, <1>9 DEF taskVars
<1> QED
  BY <1>3, <1>4, <1>5, <1>6, <1>7, <1>8, <1>9 DEF Next, Running, CloseStep, ComesIn, vars

(***************************************************************************)
(* The safety half of tcpsrv_close's end: once conn_links is unlinked, a   *)
(* turn of its loop always gets somewhere and nothing the thread does      *)
(* between two of its statements undoes it, so that 2 * max_conn turns     *)
(* suffice, whatever fails.                                                *)
(***************************************************************************)
THEOREM CloseAlwaysWorks == Spec => CloseWorks
<1>1. WaitInv /\ [Next]_vars => (srv = "closing" /\ srv' = "closing" => OnlyFewer /\ TurnCounts)
  BY OnlyFewerStep, TurnCountsStep
<1> QED
  BY <1>1, WaitInvAlways, PTL DEF Spec, CloseWorks

-----------------------------------------------------------------------------
(* The idle timeout.                                                       *)

\* the count of polls has not passed the limit, when there is one
WithinLimit ==
  \A c \in live :
    /\ state[c] = "LISTEN" /\ TimeWaitRec # 0 => check[c] <= TimeWaitRec
    /\ state[c] = "CONNECT" /\ TimeWaitCls # 0 => check[c] <= TimeWaitCls

\* An open connection that exchanges nothing stays as it is, but that polls
\* are counted; a poll of its own pcb is counted, or it is open no more.  The
\* one that tcpsrv_close has in its hands is being closed anyway.
Idle(c) == c \in live \ {ts} /\ Open(c) /\ ~Activity(c) /\ c \in live' /\ Open(c)'

Counted(c) ==
  /\ state'[c] = state[c] /\ cpcb'[c] = cpcb[c]
  /\ check'[c] \in {check[c], Count(c)}
  /\ \A p \in Pcb : arg[p] = c /\ cpcb[c] = p /\ Poll(p) => check'[c] = Count(c)

IdleCounts == [][wild' = "no" => \A c \in Conn : Idle(c) => Counted(c)]_vars

\* a step that may count a poll of connection c and leaves the others alone
CountsOnly(c) ==
  /\ UNCHANGED <<live, state, cpcb>> /\ check' = [check EXCEPT ![c] = Count(c)]
  /\ \E p \in Pcb : arg[p] = c /\ ~Expired(c, p)

\* a step after which connection c is not open, or has been heard of
Moves(c) ==
  /\ \A d \in live \ {c} : d \in live' /\ state'[d] = state[d] /\ cpcb'[d] = cpcb[d] /\ check'[d] = check[d]
  /\ live' \subseteq live
  /\ c \in live' => ~Open(c)' \/ (Activity(c) /\ state'[c] = "CONNECT" /\ check'[c] = 0)

\* what a step does to the counts
CountsChange ==
  \/ UNCHANGED <<live, state, check, cpcb>>
  \/ HandChanges
  \/ \E c \in live : Moves(c) \/ CountsOnly(c)
  \/ \E p \in Pcb, c \in Conn : Accept(p, c) /\ Accepted(p, c)

LEMMA MovesListDelete == ASSUME ListInv, NEW c \in live, ListDelete(c) PROVE Moves(c)
  BY ListDeleteLeaves DEF Moves, Open

LEMMA CountsServerClose == ASSUME ListInv, NEW c \in live, NEW s, ServerClose(c, s) PROVE CountsChange
<1>1. CASE ListDelete(c)
  BY <1>1, MovesListDelete DEF CountsChange
<1>2. CASE CloseFails(c, s) /\ Open(c)
  <2>1. ConnTypeOK
    BY TypeParts DEF ListInv
  <2>2. Moves(c)
    BY <1>2, <2>1 DEF CloseFails, Moves, Open, ConnTypeOK
  <2> QED
    BY <2>2 DEF CountsChange
<1>3. CASE CloseFails(c, s) /\ ~Open(c)
  BY <1>3 DEF CountsChange, CloseFails
<1> QED
  BY <1>1, <1>2, <1>3 DEF ServerClose, Abandon, CloseSucceeds

LEMMA CountsCallServerClose ==
  ASSUME ListInv, NEW c \in live, NEW s, NEW who, CallServerClose(c, s, who)
  PROVE  CountsChange
<1>1. CASE UNCHANGED connVars
  BY <1>1 DEF connVars, CountsChange
<1>2. CASE ServerClose(c, s)
  BY <1>2, CountsServerClose
<1> QED
  BY <1>1, <1>2 DEF CallServerClose, TouchFreed, coreVars

LEMMA CountsDeletePcb == ASSUME ListInv, NEW c \in live, DeletePcb(c) PROVE CountsChange
<1>1. CASE TouchFreed("accept")
  BY <1>1 DEF TouchFreed, connVars, CountsChange
<1>2. CASE ListDelete(c)
  BY <1>2, MovesListDelete DEF CountsChange
<1> QED
  BY <1>1, <1>2 DEF DeletePcb

LEMMA CountsCallback == ASSUME ListInv, NEW p \in Pcb, Recv(p) \/ Sent(p) PROVE CountsChange
<1>1. tcp[p] \in Active /\ Hooked(p)
  BY DEF Recv, Sent, Active, Hooked
<1>2. PICK c \in live : c = arg[p] /\ c \in Conn /\ cpcb[c] = p /\ Open(c)
  BY <1>1, CallbackOwner
<1>3. CASE /\ state' = [state EXCEPT ![c] = "CONNECT"]
           /\ check' = [check EXCEPT ![c] = 0]
           /\ UNCHANGED <<live, cpcb>>
  <2>1. ConnTypeOK
    BY TypeParts DEF ListInv
  <2>2. Activity(c)
    BY <1>2 DEF Activity
  <2>3. Moves(c)
    BY <1>2, <1>3, <2>1, <2>2 DEF Moves, ConnTypeOK
  <2> QED
    BY <2>3 DEF CountsChange
<1>4. CASE ServerClose(c, tcp[cpcb[c]])
  BY <1>2, <1>4, CountsServerClose
<1> QED
  BY <1>2, <1>3, <1>4 DEF Recv, Sent, Keep, CloseInCallback

LEMMA CountsPoll == ASSUME ListInv, NEW p \in Pcb, Poll(p) PROVE CountsChange
<1>1. CASE UNCHANGED connVars
  BY <1>1 DEF connVars, CountsChange
<1>2. ASSUME NEW c \in live, c = arg[p], ~Expired(c, p),
             check' = [check EXCEPT ![c] = Count(c)], UNCHANGED <<live, state, cpcb>>
      PROVE  CountsChange
  BY <1>2 DEF CountsOnly, CountsChange
<1>3. ASSUME NEW c \in live, CallServerClose(c, tcp[cpcb[c]], "poll") PROVE CountsChange
  BY <1>3, CountsCallServerClose
<1> QED
  BY <1>1, <1>2, <1>3 DEF Poll, TouchFreed, AbandonPcb

LEMMA CountsAccept == ASSUME ListInv, NEW p \in Pcb, NEW c \in Conn, Accept(p, c) PROVE CountsChange
<1>1. CASE \E v \in Evicted : StalePcb(v)
  BY <1>1 DEF Accept, TouchFreed, connVars, CountsChange
<1>2. CASE ~\E v \in Evicted : StalePcb(v)
  <2>1. Accepted(p, c)
    BY <1>2, AcceptIsAccepted
  <2> QED
    BY <2>1 DEF CountsChange
<1> QED
  BY <1>1, <1>2

LEMMA CountsThread == ASSUME ListInv, Thread PROVE CountsChange
<1>1. ASSUME NEW p \in Pcb, NEW c \in Conn, Accept(p, c) PROVE CountsChange
  BY <1>1, CountsAccept
<1>2. CASE AcceptNoMem
  BY <1>2, EvictedIs, CountsDeletePcb DEF AcceptNoMem
<1>3. ASSUME NEW p \in Pcb, Recv(p) \/ Sent(p) PROVE CountsChange
  BY <1>3, CountsCallback
<1>4. ASSUME NEW p \in Pcb, Fin(p) PROVE CountsChange
  <2>1. CASE UNCHANGED connVars
    BY <2>1 DEF connVars, CountsChange
  <2>2. CASE "recv" \in cb[p] /\ arg[p] # NoConn /\ CallServerClose(arg[p], "CLOSE_WAIT", "fin")
    <3>1. tcp[p] \in Active /\ Hooked(p)
      BY <1>4, <2>2 DEF Fin, Active, Hooked
    <3> QED
      BY <2>2, <3>1, CallbackOwner, CountsCallServerClose
  <2> QED
    BY <1>4, <2>1, <2>2 DEF Fin
<1>5. ASSUME NEW p \in Pcb, Poll(p) PROVE CountsChange
  BY <1>5, CountsPoll
<1>6. ASSUME NEW p \in Pcb, PcbLost(p) PROVE CountsChange
  <2>1. CASE UNCHANGED connVars
    BY <2>1 DEF connVars, CountsChange
  <2>2. CASE tcp[p] \in Active /\ "err" \in cb[p] /\ arg[p] # NoConn /\ ListDelete(arg[p])
    BY <2>2, CallbackOwner, MovesListDelete DEF CountsChange, Hooked
  <2> QED
    BY <1>6, <2>1, <2>2 DEF PcbLost
<1>7. ASSUME NEW p \in Pcb, PcbDone(p) PROVE CountsChange
  BY <1>7 DEF PcbDone, connVars, CountsChange
<1> QED
  BY <1>1, <1>2, <1>3, <1>4, <1>5, <1>6, <1>7 DEF Thread

LEMMA CountsClose == ASSUME ListInv, CloseStep PROVE CountsChange
<1>1. CASE HandChanges
  BY <1>1 DEF CountsChange
<1>2. CASE UNCHANGED <<live, state, check, cpcb>>
  BY <1>2 DEF CountsChange
<1> QED
  BY <1>1, <1>2, CloseStepHands

LEMMA CountsStep == ListInv /\ [Next]_vars => CountsChange
<1> SUFFICES ASSUME ListInv, [Next]_vars PROVE CountsChange
  OBVIOUS
<1>1. CASE Thread
  BY <1>1, CountsThread
<1>2. CASE CloseStep
  BY <1>2, CountsClose
<1>3. CASE UNCHANGED connVars
  BY <1>3 DEF connVars, CountsChange
<1> QED
  BY <1>1, <1>2, <1>3 DEF Next, Running, Start, CloseBegin, vars, coreVars

LEMMA WithinLimitStep == ASSUME ListInv, WithinLimit, [Next]_vars PROVE WithinLimit'
<1>1. CountsChange /\ ConnTypeOK /\ live' \subseteq Conn
  BY CountsStep, ListInvNext, TypeParts DEF ListInv, TypeOK, ConnTypeOK
<1> USE DEF WithinLimit
<1>2. CASE UNCHANGED <<live, state, check, cpcb>>
  BY <1>2
<1>6. CASE HandChanges
  BY <1>6 DEF HandChanges
<1>3. ASSUME NEW c \in live, Moves(c) PROVE WithinLimit'
  <2>1. \A d \in live' : d # c => d \in live /\ state'[d] = state[d] /\ check'[d] = check[d]
    BY <1>3 DEF Moves
  <2>2. c \in live' => state'[c] \notin {"LISTEN", "CONNECT"} \/ (state'[c] = "CONNECT" /\ check'[c] = 0)
    BY <1>3 DEF Moves, Open
  <2>3. 0 <= TimeWaitCls
    BY ConstantsAssumption
  <2> QED
    BY <2>1, <2>2, <2>3
<1>4. ASSUME NEW c \in live, CountsOnly(c) PROVE WithinLimit'
  <2>1. /\ state[c] = "LISTEN" /\ TimeWaitRec # 0 => ~(Count(c) > TimeWaitRec)
        /\ state[c] = "CONNECT" /\ TimeWaitCls # 0 => ~(Count(c) > TimeWaitCls)
    BY <1>4 DEF CountsOnly, Expired
  <2>2. c \in Conn /\ Count(c) \in Nat /\ TimeWaitRec \in Nat /\ TimeWaitCls \in Nat
    <3>1. c \in Conn /\ check[c] \in 0 .. RecvCheckMod - 1
      BY <1>1 DEF ConnTypeOK
    <3>2. Count(c) \in 0 .. RecvCheckMod - 1
      BY <3>1, CheckCounts DEF Count
    <3> QED
      BY <3>1, <3>2, CheckModNat, ConstantsAssumption
  <2>3. /\ state[c] = "LISTEN" /\ TimeWaitRec # 0 => Count(c) <= TimeWaitRec
        /\ state[c] = "CONNECT" /\ TimeWaitCls # 0 => Count(c) <= TimeWaitCls
    BY <2>1, <2>2
  <2>4. \A d \in live : check'[d] = IF d = c THEN Count(c) ELSE check[d]
    BY <1>1, <1>4 DEF CountsOnly, ConnTypeOK
  <2>5. live' = live /\ state' = state
    BY <1>4 DEF CountsOnly
  <2> QED
    BY <2>3, <2>4, <2>5
<1>5. ASSUME NEW p \in Pcb, NEW c \in Conn, Accepted(p, c) PROVE WithinLimit'
  <2>1. \A d \in live' : /\ d # c => d \in live /\ state'[d] = state[d] /\ check'[d] = check[d]
                         /\ d = c => state'[d] = "LISTEN" /\ check'[d] = 0
    BY <1>1, <1>5 DEF Accepted
  <2>2. 0 <= TimeWaitRec
    BY ConstantsAssumption
  <2> QED
    BY <2>1, <2>2
<1> QED
  BY <1>1, <1>2, <1>3, <1>4, <1>5, <1>6 DEF CountsChange

\* a poll of the connection's own pcb counts, or the connection is open no more
LEMMA OwnPollCounts ==
  ASSUME ListInv, NEW c \in live, Open(c), NEW p \in Pcb, arg[p] = c, cpcb[c] = p, Poll(p),
         wild' = "no", c \in live', Open(c)'
  PROVE  check'[c] = Count(c)
<1>1. ConnTypeOK /\ NoPcb \notin Pcb /\ c \in Conn /\ NoConn \notin Conn
  BY TypeParts, ConstantsAssumption DEF ListInv, ConnTypeOK
<1>2. CASE check' = [check EXCEPT ![c] = Count(c)]
  BY <1>1, <1>2 DEF ConnTypeOK
<1>3. CASE CallServerClose(c, tcp[p], "poll")
  <2>1. tcp[p] # "FREE" /\ p # NoPcb
    BY <1>1 DEF Poll, Active
  <2>2. ServerClose(c, tcp[p])
    BY <1>3, <2>1 DEF CallServerClose
  <2>3. CASE ListDelete(c)
    <3>1. c \in live' => state'[c] = "CLOSED"
      BY <2>3, ListDeleteLeaves
    <3> QED
      BY <3>1 DEF Open
  <2>4. CASE CloseFails(c, tcp[p])
    <3>1. state'[c] = "CLOSEWAIT"
      BY <1>1, <2>4 DEF CloseFails, ConnTypeOK
    <3> QED
      BY <3>1 DEF Open
  <2> QED
    BY <2>2, <2>3, <2>4 DEF ServerClose, Abandon, CloseSucceeds
<1> QED
  BY <1>1, <1>2, <1>3 DEF Poll, TouchFreed

LEMMA IdleStep == ASSUME ListInv, [Next]_vars, wild' = "no", NEW c \in Conn, Idle(c) PROVE Counted(c)
<1>1. CountsChange /\ ConnTypeOK
  BY CountsStep, TypeParts DEF ListInv
<1>2. \A p \in Pcb : arg[p] = c /\ cpcb[c] = p /\ Poll(p) => check'[c] = Count(c)
  BY OwnPollCounts DEF Idle
<1> DEFINE Stays == state'[c] = state[c] /\ cpcb'[c] = cpcb[c] /\ check'[c] \in {check[c], Count(c)}
<1>3. Stays
  <2>1. CASE UNCHANGED <<live, state, check, cpcb>>
    BY <2>1
  <2>5. CASE HandChanges
    BY <2>5 DEF HandChanges, Idle
  <2>2. ASSUME NEW d \in live, Moves(d) PROVE Stays
    BY <2>2 DEF Moves, Idle
  <2>3. ASSUME NEW d \in live, CountsOnly(d) PROVE Stays
    BY <1>1, <2>3 DEF CountsOnly, ConnTypeOK
  <2>4. ASSUME NEW p \in Pcb, NEW d \in Conn, Accept(p, d), Accepted(p, d) PROVE Stays
    <3>1. d # c
      BY <2>4 DEF Idle, Activity
    <3> QED
      BY <1>1, <2>4, <3>1 DEF Accepted, Idle
  <2> QED
    BY <1>1, <2>1, <2>2, <2>3, <2>4, <2>5 DEF CountsChange
<1> QED
  BY <1>2, <1>3 DEF Counted

(***************************************************************************)
(* The safety half of the idle timeout, whatever fails: the count of polls *)
(* never passes the limit of its state, a silent connection keeps its      *)
(* state and its count, and each poll of its pcb adds one to it or ends    *)
(* it.  So it stays open for no more polls than a limit below 65535 says.  *)
(***************************************************************************)
THEOREM IdleAlwaysCounts == Spec => []WithinLimit /\ IdleCounts
<1>1. Init => WithinLimit
  BY DEF Init, WithinLimit
<1>2. ListInv /\ WithinLimit /\ [Next]_vars => WithinLimit'
  BY WithinLimitStep
<1>3. ListInv /\ [Next]_vars => (wild' = "no" => \A c \in Conn : Idle(c) => Counted(c))
  BY IdleStep
<1> QED
  BY <1>1, <1>2, <1>3, ListInvAlways, PTL DEF Spec, IdleCounts

-----------------------------------------------------------------------------
(* The connections are a ConnTable.                                        *)

LEMMA LiveCount == ASSUME ListInv, srv = "up" PROVE Cardinality(live) = count
<1>1. links \in Seq(Conn) /\ Distinct(links) /\ Range(links) = live /\ count = Len(links)
  BY NoTask DEF ListInv, TypeOK, ListMatchesHeap, Distinct, Listed
<1>2. links \in Surjection(1 .. Len(links), live) /\ links \in Injection(1 .. Len(links), live)
  BY <1>1 DEF Surjection, Injection, IsInjective, Range, Distinct
<1>3. IsFiniteSet(1 .. Len(links)) /\ Cardinality(1 .. Len(links)) = Len(links)
  <2>1. Len(links) \in Nat
    BY <1>1
  <2>2. 1 \in Int /\ Len(links) \in Int
    BY <2>1
  <2>3. /\ IsFiniteSet(1 .. Len(links))
        /\ Cardinality(1 .. Len(links)) = IF 1 > Len(links) THEN 0 ELSE Len(links) - 1 + 1
    BY <2>2, FS_Interval
  <2>4. (IF 1 > Len(links) THEN 0 ELSE Len(links) - 1 + 1) = Len(links)
    BY <2>1
  <2> QED
    BY <2>3, <2>4
<1> QED
  BY <1>1, <1>2, <1>3, FS_Surjection

\* the count of the table's module is that of this one
LEMMA TableCount == ASSUME NEW S PROVE Table!Cardinality(S) = Cardinality(S)
BY DEF Table!Cardinality, Cardinality

LEMMA TableUsed == ASSUME ListInv PROVE Table!Used = live
<1>1. live \subseteq Conn
  BY DEF ListInv, TypeOK
<1>2. \A c \in Conn : Phase(c) # "none" <=> c \in live
  BY DEF Phase
<1> QED
  BY <1>1, <1>2 DEF Table!Used, Phases

LEMMA TableKept ==
  ASSUME \A c \in Conn : /\ c \in live <=> c \in live'
                         /\ c \in live => /\ cpcb'[c] = cpcb[c]
                                          /\ state'[c] = state[c] \/ (Open(c) /\ state'[c] = "CONNECT")
  PROVE  Phases' = Phases /\ Owners' = Owners
<1>1. \A c \in Conn : Phase(c)' = Phase(c)
  BY DEF Phase, Open
<1> QED
  BY <1>1 DEF Phases, Owners

\* a step that changes the phase and the owner of one connection
LEMMA TableChange ==
  ASSUME NEW c \in Conn, NEW ph, NEW p,
         Phase(c)' = ph, (IF c \in live' THEN cpcb'[c] ELSE NoPcb) = p,
         \A d \in Conn \ {c} : /\ d \in live <=> d \in live'
                               /\ d \in live => cpcb'[d] = cpcb[d] /\ state'[d] = state[d]
  PROVE  Phases' = [Phases EXCEPT ![c] = ph] /\ Owners' = [Owners EXCEPT ![c] = p]
<1>1. \A d \in Conn \ {c} : Phase(d)' = Phase(d)
  BY DEF Phase, Open
<1> QED
  BY <1>1 DEF Phases, Owners

LEMMA TableListDelete ==
  ASSUME WaitInv, NEW c \in live, ListDelete(c), UNCHANGED srv
  PROVE  [Table!TableNext]_(Table!tableVars)
<1>1. ConnTypeOK /\ c \in Conn /\ TaskInv
  BY Parts DEF WaitInv, ConnTypeOK
<1>2. \A d \in Conn \ {c} : /\ d \in live <=> d \in live'
                            /\ d \in live => cpcb'[d] = cpcb[d] /\ state'[d] = state[d]
  BY <1>1 DEF ListDelete, LosePcb, FreeConn, ConnTypeOK
<1>3. CASE state[c] # "CLOSED" /\ PhcfgNull
  <2>1. Phase(c)' = "lost" /\ c \in live' /\ cpcb'[c] = NoPcb
    BY <1>1, <1>3 DEF ListDelete, LosePcb, ConnTypeOK, Phase, Open
  <2>2. Phases' = [Phases EXCEPT ![c] = "lost"] /\ Owners' = [Owners EXCEPT ![c] = NoPcb]
    BY <1>1, <1>2, <2>1, TableChange
  <2>3. CASE cpcb[c] # NoPcb
    <3>1. Phases[c] \in {"open", "closing"} /\ srv # "up"
      BY <1>1, <1>3, <2>3 DEF Phases, Phase, PhcfgNull, TaskInv
    <3> QED
      BY <1>1, <2>2, <3>1 DEF Table!TableNext, Table!Lose
  <2>4. CASE cpcb[c] = NoPcb
    <3>1. Phases[c] = "lost" /\ Owners[c] = NoPcb
      BY <1>1, <2>4 DEF Phases, Phase, Owners
    <3>2. Phases' = Phases /\ Owners' = Owners
      BY <2>2, <3>1 DEF Phases, Owners
    <3> QED
      BY <3>2 DEF Table!tableVars
  <2> QED
    BY <2>3, <2>4
<1>4. CASE ~(state[c] # "CLOSED" /\ PhcfgNull)
  <2>1. Phase(c)' = "none" /\ c \notin live'
    BY <1>1, <1>4 DEF ListDelete, FreeConn, Phase
  <2>2. Phases[c] # "none"
    BY <1>1 DEF Phases, Phase
  <2>3. Phases' = [Phases EXCEPT ![c] = "none"] /\ Owners' = [Owners EXCEPT ![c] = NoPcb]
    BY <1>1, <1>2, <2>1, TableChange
  <2> QED
    BY <1>1, <2>2, <2>3 DEF Table!TableNext, Table!End
<1> QED
  BY <1>3, <1>4

\* a statement of tcpsrv_close: it marks the connection, forgets its pcb, or
\* frees it
LEMMA TableHand ==
  ASSUME WaitInv, HandChanges, UNCHANGED srv
  PROVE  [Table!TableNext]_(Table!tableVars)
<1>1. ConnTypeOK /\ ts \in live /\ ts \in Conn /\ TaskInv /\ NoConn \notin Conn
  BY Parts, ConstantsAssumption DEF WaitInv, ConnTypeOK, HandChanges
<1>2. srv # "up"
  BY <1>1 DEF TaskInv
<1>3. \A d \in Conn \ {ts} : /\ d \in live <=> d \in live'
                             /\ d \in live => cpcb'[d] = cpcb[d] /\ state'[d] = state[d]
  BY <1>1 DEF HandChanges
<1> DEFINE before == Phases[ts]
           p == IF ts \in live' THEN cpcb'[ts] ELSE NoPcb
           after == IF ts \notin live' THEN "none"
                    ELSE IF cpcb'[ts] = NoPcb THEN "lost"
                    ELSE IF state'[ts] \in {"LISTEN", "CONNECT"} THEN "open" ELSE "closing"
<1>4. Phases' = [Phases EXCEPT ![ts] = after] /\ Owners' = [Owners EXCEPT ![ts] = p]
  <2>1. \A d \in Conn : Phase(d)' = IF d = ts THEN after ELSE Phase(d)
    BY <1>1, <1>3 DEF Phase, Open
  <2> QED
    BY <1>1, <1>3, <2>1 DEF Phases, Owners
<1>5. before = IF cpcb[ts] = NoPcb THEN "lost"
               ELSE IF state[ts] \in {"LISTEN", "CONNECT"} THEN "open" ELSE "closing"
  BY <1>1 DEF Phases, Phase, Open
<1>6. Owners[ts] = cpcb[ts]
  BY <1>1 DEF Owners
<1>7. \/ after = "none" /\ before # "none" /\ p = NoPcb
      \/ after = "lost" /\ before \in {"open", "closing"} /\ p = NoPcb
      \/ after = "closing" /\ before = "open" /\ p = Owners[ts]
      \/ after = before /\ p = Owners[ts]
  BY <1>1, <1>5, <1>6 DEF HandChanges
<1> HIDE DEF after, p, before
<1>8. CASE after = "none" /\ before # "none" /\ p = NoPcb
  BY <1>1, <1>4, <1>8 DEF before, Table!TableNext, Table!End
<1>9. CASE after = "lost" /\ before \in {"open", "closing"} /\ p = NoPcb
  BY <1>1, <1>2, <1>4, <1>9 DEF before, Table!TableNext, Table!Lose
<1>10. CASE after = "closing" /\ before = "open" /\ p = Owners[ts]
  <2>1. Owners' = Owners
    BY <1>4, <1>10 DEF Owners
  <2> QED
    BY <1>1, <1>4, <1>10, <2>1 DEF before, Table!TableNext, Table!Wait
<1>11. CASE after = before /\ p = Owners[ts]
  <2>1. Owners' = Owners /\ Phases' = Phases
    BY <1>4, <1>11 DEF Owners, Phases, before
  <2> QED
    BY <2>1 DEF Table!tableVars
<1> QED
  BY <1>7, <1>8, <1>9, <1>10, <1>11

LEMMA TableFailsToClose ==
  ASSUME WaitInv, NEW c \in live, FailsToClose(c), UNCHANGED srv
  PROVE  [Table!TableNext]_(Table!tableVars)
<1>1. ConnTypeOK /\ c \in Conn
  BY TypeParts DEF WaitInv, ListInv, ConnTypeOK
<1>2. CASE Open(c)
  <2>1. /\ state' = [state EXCEPT ![c] = "CLOSEWAIT"]
        /\ UNCHANGED <<live, cpcb>> /\ cpcb[c] # NoPcb
    BY <1>2 DEF FailsToClose
  <2>2. Phase(c)' = "closing" /\ Phases[c] = "open"
    BY <1>1, <1>2, <2>1 DEF Phase, Phases, Open, ConnTypeOK
  <2>3. Phases' = [Phases EXCEPT ![c] = "closing"] /\ Owners' = [Owners EXCEPT ![c] = cpcb[c]]
    BY <1>1, <2>1, <2>2, TableChange DEF ConnTypeOK
  <2>4. Owners' = Owners
    BY <2>1 DEF Owners
  <2> QED
    BY <1>1, <2>2, <2>3, <2>4 DEF Table!TableNext, Table!Wait
<1>3. CASE ~Open(c)
  BY <1>3, TableKept DEF FailsToClose, Table!tableVars
<1> QED
  BY <1>2, <1>3

LEMMA TableAccepted ==
  ASSUME WaitInv, NEW p \in Pcb, NEW c \in Conn, Accepted(p, c), UNCHANGED srv
  PROVE  Table!TableNext
<1>1. /\ ConnTypeOK /\ srv = "up" /\ Table!Cardinality(Table!Used) = count
      /\ count = Len(links) /\ count <= MaxConn
  BY TypeParts, LiveCount, TableUsed, TableCount, NoTask DEF WaitInv, ListInv, ListMatchesHeap, Accepted
<1>2. count \in Nat /\ MaxConn \in Nat
  BY <1>1, ConstantsAssumption DEF ConnTypeOK
<1>3. /\ live' = (live \ Evicted) \union {c}
      /\ state' = [d \in Conn |-> IF d = c THEN "LISTEN" ELSE IF d \in Evicted THEN "NONE" ELSE state[d]]
      /\ cpcb' = [d \in Conn |-> IF d = c THEN p ELSE IF d \in Evicted THEN NoPcb ELSE cpcb[d]]
      /\ c \notin live \ Evicted /\ (c \in Evicted => cpcb[c] # p)
      /\ srv = "up" /\ (count < MaxConn \/ SrvReopen)
  BY DEF Accepted
<1>4. Evicted \subseteq live
  BY <1>1, EvictedIs DEF WaitInv
<1>5. Phases' = [d \in Conn |-> IF d = c THEN "open" ELSE IF d \in Evicted THEN "none" ELSE Phases[d]]
  <2>1. Phase(c)' = "open"
    BY <1>3, ConstantsAssumption DEF Phase, Open
  <2>2. \A d \in Conn \ {c} : d \in Evicted => Phase(d)' = "none"
    BY <1>3 DEF Phase
  <2>3. \A d \in Conn \ {c} : d \notin Evicted => Phase(d)' = Phase(d)
    BY <1>3 DEF Phase, Open
  <2> QED
    BY <2>1, <2>2, <2>3 DEF Phases
<1>6. Owners' = [d \in Conn |-> IF d = c THEN p ELSE IF d \in Evicted THEN NoPcb ELSE Owners[d]]
  BY <1>3 DEF Owners
<1>7. Table!Enter(c, p, Evicted)
  BY <1>5, <1>6 DEF Table!Enter
<1>8. CASE Evicted = {}
  <2>1. Phases[c] = "none"
    BY <1>3, <1>8 DEF Phases, Phase
  <2>2. count < MaxConn
    BY <1>1, <1>8, EvictedIs DEF WaitInv
  <2> QED
    BY <1>1, <1>3, <1>7, <1>8, <2>1, <2>2 DEF Table!TableNext, Table!Serve
<1>9. CASE Evicted # {}
  <2>1. PICK v \in live : Evicted = {v}
    BY <1>1, <1>9, EvictedIs DEF WaitInv
  <2>2. ~(count < MaxConn)
    BY <1>2, <1>9 DEF Evicted
  <2>3. count = MaxConn /\ SrvReopen
    BY <1>1, <1>2, <1>3, <2>2
  <2>4. v \in Conn /\ Phases[v] # "none"
    BY <1>1, <2>1 DEF ConnTypeOK, Phases, Phase
  <2>5. Phases[c] = "none" \/ (c = v /\ p # Owners[c])
    BY <1>3, <2>1 DEF Phases, Phase, Owners
  <2> QED
    BY <1>1, <1>3, <1>7, <2>1, <2>3, <2>4, <2>5 DEF Table!TableNext, Table!Replace
<1> QED
  BY <1>8, <1>9

LEMMA TableServer ==
  ASSUME WaitInv, UNCHANGED <<live, state, cpcb>>, Start \/ CloseBegin \/ CloseEnd
  PROVE  Table!TableNext
<1>1. Phases' = Phases /\ Owners' = Owners
  BY TableKept
<1>2. CloseEnd => Table!Used = {}
  <2>1. CloseEnd => live = {}
    BY DEF WaitInv, ListInv, ListMatchesHeap, Listed, CloseEnd, Unlinked, Range
  <2> QED
    BY <2>1, TableUsed DEF WaitInv
<1>3. CASE Start
  BY <1>1, <1>3 DEF Start, Table!TableNext, Table!GoUp
<1>4. CASE CloseBegin
  BY <1>1, <1>4 DEF CloseBegin, Table!TableNext, Table!GoDown
<1>5. CASE CloseEnd
  BY <1>1, <1>2, <1>5, Parts DEF WaitInv, TaskInv, CloseEnd, Table!TableNext, Table!Down
<1> QED
  BY <1>3, <1>4, <1>5

LEMMA TableStep == WaitInv /\ [Next]_vars => [Table!TableNext]_(Table!tableVars)
<1> SUFFICES ASSUME WaitInv, [Next]_vars PROVE [Table!TableNext]_(Table!tableVars)
  OBVIOUS
<1>1. ConnsChange /\ ServerMoves
  BY StepChanges DEF WaitInv
<1>2. CASE UNCHANGED <<live, state, check, cpcb>> /\ (Start \/ CloseBegin \/ CloseEnd)
  BY <1>2, TableServer
<1>3. CASE UNCHANGED srv
  <2>1. CASE ConnsStay
    BY <1>3, <2>1, TableKept DEF ConnsStay, Table!tableVars, WaitInv, ListInv, TypeOK
  <2>2. ASSUME NEW c \in live, ListDelete(c) \/ FailsToClose(c)
        PROVE  [Table!TableNext]_(Table!tableVars)
    BY <1>3, <2>2, TableListDelete, TableFailsToClose
  <2>3. ASSUME NEW p \in Pcb, NEW c \in Conn, Accepted(p, c) PROVE Table!TableNext
    BY <1>3, <2>3, TableAccepted
  <2>4. CASE HandChanges
    BY <1>3, <2>4, TableHand
  <2> QED
    BY <1>1, <2>1, <2>2, <2>3, <2>4 DEF ConnsChange
<1> QED
  BY <1>1, <1>2, <1>3 DEF ServerMoves

(***************************************************************************)
(* Whatever fails, and wherever the thread comes in between two statements *)
(* of tcpsrv_close, the connections implement a ConnTable: at most         *)
(* max_conn of them, accepted while the server is up, never reopened once  *)
(* closing, and gone when the server is down.                              *)
(***************************************************************************)
THEOREM ServerImplementsTable == Spec => ImplementsTable
<1>1. Init => Table!TableInit
  BY DEF Init, Table!TableInit, Phases, Phase, Owners
<1> QED
  BY <1>1, TableStep, WaitInvAlways, PTL DEF Spec, ImplementsTable, Table!TableSpec
=============================================================================
