------------------------- MODULE TcpSrvOwn_proofs -------------------------
(***************************************************************************)
(* Who owns a pcb: theorems of TcpSrv about connections, their pcbs and    *)
(* the callbacks between them, first whatever fails until a callback is    *)
(* stale, then while tcp_close never fails.                                *)
(***************************************************************************)
EXTENDS TcpSrv_proofs

Up == {"ESTABLISHED", "CLOSE_WAIT"}

\* what an open connection has that tcpsrv_close is not clearing
Owns(d) == cpcb[d] \in Pcb /\ tcp[cpcb[d]] \in Up /\ arg[cpcb[d]] = d /\ cb[cpcb[d]] = Callbacks
Held(d) == Open(d) /\ ~BeingCleared(d)

GuardInv == WaitInv /\ OpenOwnsPcb

LEMMA GuardParts ==
  GuardInv => /\ ListInv /\ ConnTypeOK /\ PcbTypeOK /\ TaskTypeOK /\ ListMatchesHeap
              /\ CallbacksMeetOwner /\ ClosedHasNone /\ TaskInv /\ Phased /\ OpenOwnsPcb
              /\ NoPcb \notin Pcb /\ NoConn \notin Conn
  BY Parts, ConstantsAssumption DEF GuardInv, WaitInv

LEMMA OpenOwns == OpenOwnsPcb <=> \A d \in live : Held(d) => Owns(d)
  BY DEF OpenOwnsPcb, Held, Owns, Up

\* a step that touches the pcbs D, none of which a connection that stays open
\* has; one may come
LEMMA OpenElsewhere ==
  ASSUME OpenOwnsPcb, NEW D,
         \A q \in Pcb \ D : /\ tcp[q] \in Up => tcp'[q] \in Up
                            /\ arg'[q] = arg[q] /\ cb'[q] = cb[q],
         \A d \in live' : Held(d)' =>
           \/ d \in live /\ Held(d) /\ cpcb'[d] = cpcb[d] /\ cpcb[d] \notin D
           \/ cpcb'[d] \in Pcb /\ tcp'[cpcb'[d]] \in Up /\ arg'[cpcb'[d]] = d /\ cb'[cpcb'[d]] = Callbacks
  PROVE  OpenOwnsPcb'
<1> SUFFICES ASSUME NEW d \in live', Held(d)'
             PROVE  cpcb'[d] \in Pcb /\ tcp'[cpcb'[d]] \in Up /\ arg'[cpcb'[d]] = d /\ cb'[cpcb'[d]] = Callbacks
  BY DEF OpenOwnsPcb, Held, Up
<1>1. CASE d \in live /\ Held(d) /\ cpcb'[d] = cpcb[d] /\ cpcb[d] \notin D
  <2>1. Owns(d)
    BY <1>1, OpenOwns
  <2> QED
    BY <1>1, <2>1 DEF Owns
<1> QED
  BY <1>1

\* a step of the thread that leaves the connections where they are
LEMMA OpenUntouched ==
  ASSUME OpenOwnsPcb, UNCHANGED taskVars, live' = live, cpcb' = cpcb,
         \A d \in live : state'[d] = state[d] \/ Open(d),
         UNCHANGED <<tcp, arg, cb>>
  PROVE  OpenOwnsPcb'
<1> DEFINE D == {}
<1>1. \A d \in live' : Held(d)' => d \in live /\ Held(d) /\ cpcb'[d] = cpcb[d] /\ cpcb[d] \notin D
  BY DEF Held, Open, BeingCleared, taskVars
<1>2. \A q \in Pcb \ D : (tcp[q] \in Up => tcp'[q] \in Up) /\ arg'[q] = arg[q] /\ cb'[q] = cb[q]
  OBVIOUS
<1> HIDE DEF D
<1> QED
  BY <1>1, <1>2, OpenElsewhere

\* connection c goes, or is open no more; only its own pcb is touched
LEMMA OpenWithout ==
  ASSUME OpenOwnsPcb, UNCHANGED taskVars,
         NEW c \in live, NEW D, \A q \in D : cpcb[c] = q /\ arg[q] = c,
         \A q \in Pcb \ D : tcp'[q] = tcp[q] /\ arg'[q] = arg[q] /\ cb'[q] = cb[q],
         \A d \in live \ {c} : d \in live' /\ state'[d] = state[d] /\ cpcb'[d] = cpcb[d],
         live' \subseteq live, c \in live' => ~Open(c)'
  PROVE  OpenOwnsPcb'
<1>1. ASSUME NEW d \in live', Held(d)'
      PROVE  d \in live /\ Held(d) /\ cpcb'[d] = cpcb[d] /\ cpcb[d] \notin D
  <2>1. d \in live /\ d # c /\ Held(d) /\ cpcb'[d] = cpcb[d]
    BY <1>1 DEF Held, Open, BeingCleared, taskVars
  <2>2. arg[cpcb[d]] = d
    BY <2>1, OpenOwns DEF Owns
  <2> QED
    BY <2>1, <2>2
<1> QED
  BY <1>1, OpenElsewhere

\* connection c is deleted by the thread
LEMMA OpenDeletes ==
  ASSUME GuardInv, Beside, NEW c \in live, c \notin Unlinked, ListDelete(c),
         NEW D, \A q \in D : cpcb[c] = q /\ arg[q] = c,
         \A q \in Pcb \ D : tcp'[q] = tcp[q] /\ arg'[q] = arg[q] /\ cb'[q] = cb[q]
  PROVE  OpenOwnsPcb'
<1>1. /\ \A d \in live \ {c} : d \in live' /\ state'[d] = state[d] /\ cpcb'[d] = cpcb[d]
      /\ live' \subseteq live
      /\ c \in live' => state'[c] = "CLOSED"
  BY GuardParts, ListDeleteKeeps
<1>2. c \in live' => ~Open(c)'
  BY <1>1 DEF Open
<1> QED
  BY <1>1, <1>2, OpenWithout, GuardParts DEF Beside

LEMMA OpenServerClose ==
  ASSUME GuardInv, Beside, NEW c \in live, cpcb[c] \in Pcb, arg[cpcb[c]] = c, NEW s, ServerClose(c, s)
  PROVE  OpenOwnsPcb'
<1> DEFINE D == {cpcb[c]}
<1>1. ConnTypeOK /\ PcbTypeOK /\ OpenOwnsPcb /\ c \in Conn /\ c \notin Unlinked
  BY GuardParts, LinkedByPcb DEF ConnTypeOK
<1>2. CASE ListDelete(c)
  <2>1. \A q \in Pcb \ D : tcp'[q] = tcp[q] /\ arg'[q] = arg[q] /\ cb'[q] = cb[q]
    <3>1. CASE Abandon(c)
      BY <1>1, <3>1 DEF Abandon, PcbTypeOK
    <3>2. CASE CloseSucceeds(c, s)
      BY <1>1, <3>2 DEF CloseSucceeds, PcbTypeOK
    <3>3. CASE CloseFails(c, s)
      BY <1>1, <3>3 DEF CloseFails, PcbTypeOK
    <3> QED
      BY <3>1, <3>2, <3>3 DEF ServerClose
  <2>2. \A q \in D : cpcb[c] = q /\ arg[q] = c
    OBVIOUS
  <2> HIDE DEF D
  <2> QED
    BY <1>1, <1>2, <2>1, <2>2, OpenDeletes
<1>3. CASE CloseFails(c, s)
  <2>1. live' = live /\ cpcb' = cpcb /\ ~Open(c)'
    BY <1>1, <1>3 DEF CloseFails, Open, ConnTypeOK
  <2>2. \A d \in live \ {c} : d \in live' /\ state'[d] = state[d] /\ cpcb'[d] = cpcb[d]
    BY <1>1, <1>3, <2>1 DEF CloseFails, ConnTypeOK
  <2>3. \A q \in Pcb \ D : tcp'[q] = tcp[q] /\ arg'[q] = arg[q] /\ cb'[q] = cb[q]
    BY <1>1, <1>3 DEF CloseFails, PcbTypeOK
  <2>4. \A q \in D : cpcb[c] = q /\ arg[q] = c
    OBVIOUS
  <2> HIDE DEF D
  <2> QED
    BY <1>1, <2>1, <2>2, <2>3, <2>4, OpenWithout DEF Beside
<1> QED
  BY <1>2, <1>3 DEF ServerClose, Abandon, CloseSucceeds

LEMMA OpenSame == ASSUME OpenOwnsPcb, UNCHANGED <<connVars, pcbVars, taskVars>> PROVE OpenOwnsPcb'
  BY OpenUntouched DEF connVars, pcbVars

LEMMA OpenCallServerClose ==
  ASSUME GuardInv, Beside, NEW c \in live, cpcb[c] \in Pcb, arg[cpcb[c]] = c, NEW s, NEW who, CallServerClose(c, s, who)
  PROVE  OpenOwnsPcb'
<1>1. CASE UNCHANGED <<connVars, pcbVars>>
  BY <1>1, OpenSame, GuardParts DEF Beside
<1>2. CASE ServerClose(c, s)
  BY <1>2, OpenServerClose
<1>3. cpcb[c] # NoPcb
  BY GuardParts
<1> QED
  BY <1>1, <1>2, <1>3 DEF CallServerClose, TouchFreed

LEMMA OpenDeletePcb == ASSUME GuardInv, Beside, NEW c \in live, c \notin Unlinked, DeletePcb(c) PROVE OpenOwnsPcb'
<1>1. CASE StalePcb(c)
  BY <1>1, OpenSame, GuardParts DEF DeletePcb, TouchFreed, Beside
<1>2. CASE ~StalePcb(c)
  <2>1. PcbTypeOK /\ ListDelete(c)
    BY <1>2, GuardParts DEF DeletePcb
  <2>2. \A q \in Pcb \ Found(c) : tcp'[q] = tcp[q] /\ arg'[q] = arg[q] /\ cb'[q] = cb[q]
    BY <1>2, <2>1 DEF DeletePcb, PcbTypeOK, pcbVars
  <2>3. \A q \in Found(c) : cpcb[c] = q /\ arg[q] = c
    BY DEF Found
  <2> QED
    BY <2>1, <2>2, <2>3, OpenDeletes
<1> QED
  BY <1>1, <1>2

LEMMA OpenAccept == ASSUME GuardInv, Beside, NEW p \in Pcb, NEW c \in Conn, Accept(p, c) PROVE OpenOwnsPcb'
<1> DEFINE found == UNION {Found(v) : v \in Evicted}
<1>1. CASE \E v \in Evicted : StalePcb(v)
  BY <1>1, OpenSame, GuardParts DEF Accept, TouchFreed, Beside
<1>2. CASE ~\E v \in Evicted : StalePcb(v)
  <2>1. PICK after \in [found -> TcpStates] :
          \E kill \in SUBSET TimeWait([q \in Pcb |-> IF q \in DOMAIN after THEN after[q] ELSE tcp[q]]) :
             Insert(p, c, Evicted, [q \in Pcb |-> IF q \in DOMAIN after THEN after[q] ELSE tcp[q]], kill)
    BY <1>2 DEF Accept
  <2> DEFINE t == [q \in Pcb |-> IF q \in DOMAIN after THEN after[q] ELSE tcp[q]]
  <2>2. PICK kill \in SUBSET TimeWait(t) : Insert(p, c, Evicted, t, kill)
    BY <2>1
  <2>3. DOMAIN after = found /\ \A q \in kill : q \in Pcb /\ t[q] = "TIME_WAIT"
    BY DEF TimeWait
  <2>4. \A q \in Pcb \ found : t[q] = tcp[q]
    BY <2>3
  <2>5. tcp[p] = "FREE" /\ Evicted \subseteq live /\ live \subseteq Conn /\ OpenOwnsPcb
        /\ ts = NoConn /\ ts' = NoConn /\ NoConn \notin Conn
    BY EvictedIs, GuardParts, NoTask DEF Accept, ConnTypeOK, Beside, taskVars
  <2> HIDE DEF t
  <2> DEFINE D == {p} \union kill \union found
  <2>6. /\ live' = (live \ Evicted) \union {c}
        /\ state' = [d \in Conn |-> IF d = c THEN "LISTEN" ELSE IF d \in Evicted THEN "NONE" ELSE state[d]]
        /\ cpcb' = [d \in Conn |-> IF d = c THEN p ELSE IF d \in Evicted THEN NoPcb ELSE cpcb[d]]
        /\ tcp' = [q \in Pcb |-> IF q = p THEN "ESTABLISHED" ELSE IF q \in kill THEN "FREE" ELSE t[q]]
        /\ arg' = [q \in Pcb |-> IF q = p THEN c ELSE IF q \in kill \union found THEN NoConn ELSE arg[q]]
        /\ cb' = [q \in Pcb |-> IF q = p THEN Callbacks ELSE IF q \in kill \union found THEN {} ELSE cb[q]]
    BY <2>2 DEF Insert
  <2>7. \A q \in Pcb \ D : tcp'[q] = tcp[q] /\ arg'[q] = arg[q] /\ cb'[q] = cb[q]
    BY <2>4, <2>6
  <2>8. ASSUME NEW d \in live', Held(d)', d # c
        PROVE  d \in live /\ Held(d) /\ cpcb'[d] = cpcb[d] /\ cpcb[d] \notin D
    <3>1. d \in live /\ d \notin Evicted /\ Held(d) /\ cpcb'[d] = cpcb[d]
      BY <2>5, <2>6, <2>8 DEF Held, Open, BeingCleared
    <3>2. cpcb[d] \in Pcb /\ tcp[cpcb[d]] \in Up /\ arg[cpcb[d]] = d
      BY <2>5, <3>1, OpenOwns DEF Owns
    <3>3. cpcb[d] \notin found
      BY <3>1, <3>2 DEF Found
    <3>4. cpcb[d] \notin kill /\ cpcb[d] # p
      BY <2>3, <2>4, <2>5, <3>2, <3>3 DEF Up
    <3> QED
      BY <3>1, <3>3, <3>4
  <2>9. cpcb'[c] = p /\ tcp'[p] \in Up /\ arg'[p] = c /\ cb'[p] = Callbacks
    BY <2>6 DEF Up
  <2> HIDE DEF D
  <2> QED
    BY <2>5, <2>7, <2>8, <2>9, OpenElsewhere
<1> QED
  BY <1>1, <1>2

LEMMA OpenCallback == ASSUME GuardInv, Beside, NEW p \in Pcb, Recv(p) \/ Sent(p) PROVE OpenOwnsPcb'
<1> DEFINE c == arg[p]
<1>1. tcp[p] \in Active /\ Hooked(p) /\ ListInv /\ OpenOwnsPcb /\ ConnTypeOK
  BY GuardParts DEF Recv, Sent, Active, Hooked
<1>2. c \in live /\ c \in Conn /\ cpcb[c] = p /\ Open(c)
  BY <1>1, CallbackOwner
<1>3. CASE /\ state' = [state EXCEPT ![c] = "CONNECT"]
           /\ UNCHANGED <<live, cpcb, pcbVars>>
  BY <1>1, <1>2, <1>3, OpenUntouched DEF ConnTypeOK, pcbVars, Beside
<1>4. CASE ServerClose(c, tcp[cpcb[c]])
  BY <1>2, <1>4, OpenServerClose
<1> QED
  BY <1>3, <1>4 DEF Recv, Sent, Keep, CloseInCallback

\* lwIP changes pcb p, which no open connection has, or leaves it up
LEMMA OpenInLwip ==
  ASSUME OpenOwnsPcb, UNCHANGED taskVars, UNCHANGED connVars, NEW p \in Pcb,
         \A q \in Pcb \ {p} : tcp'[q] = tcp[q] /\ arg'[q] = arg[q] /\ cb'[q] = cb[q],
         \/ tcp'[p] \in Up /\ arg'[p] = arg[p] /\ cb'[p] = cb[p]
         \/ \A d \in live : Held(d) => cpcb[d] # p
  PROVE  OpenOwnsPcb'
<1>1. \A d \in live : Held(d)' => Held(d)
  BY DEF Held, Open, BeingCleared, taskVars, connVars
<1>2. CASE tcp'[p] \in Up /\ arg'[p] = arg[p] /\ cb'[p] = cb[p]
  <2> DEFINE D == {}
  <2>1. \A q \in Pcb \ D : (tcp[q] \in Up => tcp'[q] \in Up) /\ arg'[q] = arg[q] /\ cb'[q] = cb[q]
    BY <1>2
  <2>2. \A d \in live' : Held(d)' => d \in live /\ Held(d) /\ cpcb'[d] = cpcb[d] /\ cpcb[d] \notin D
    BY <1>1 DEF connVars
  <2> HIDE DEF D
  <2> QED
    BY <2>1, <2>2, OpenElsewhere
<1>3. CASE \A d \in live : Held(d) => cpcb[d] # p
  <2> DEFINE D == {p}
  <2>1. \A q \in Pcb \ D : (tcp[q] \in Up => tcp'[q] \in Up) /\ arg'[q] = arg[q] /\ cb'[q] = cb[q]
    OBVIOUS
  <2>2. \A d \in live' : Held(d)' => d \in live /\ Held(d) /\ cpcb'[d] = cpcb[d] /\ cpcb[d] \notin D
    BY <1>1, <1>3 DEF connVars
  <2> HIDE DEF D
  <2> QED
    BY <2>1, <2>2, OpenElsewhere
<1> QED
  BY <1>2, <1>3

LEMMA OpenFin == ASSUME GuardInv, Beside, NEW p \in Pcb, Fin(p) PROVE OpenOwnsPcb'
<1>1. ListInv /\ OpenOwnsPcb /\ PcbTypeOK
  BY GuardParts
<1>2. CASE tcp' = [tcp EXCEPT ![p] = "CLOSE_WAIT"] /\ UNCHANGED <<connVars, arg, cb>>
  <2>1. \A q \in Pcb \ {p} : tcp'[q] = tcp[q] /\ arg'[q] = arg[q] /\ cb'[q] = cb[q]
    BY <1>1, <1>2 DEF PcbTypeOK
  <2>2. tcp'[p] \in Up /\ arg'[p] = arg[p] /\ cb'[p] = cb[p]
    BY <1>1, <1>2 DEF PcbTypeOK, Up
  <2> QED
    BY <1>1, <1>2, <2>1, <2>2, OpenInLwip DEF Beside
<1>3. CASE "recv" \in cb[p] /\ arg[p] # NoConn /\ CallServerClose(arg[p], "CLOSE_WAIT", "fin")
  <2>1. tcp[p] \in Active /\ Hooked(p)
    BY <1>3 DEF Fin, Active, Hooked
  <2>2. arg[p] \in live /\ cpcb[arg[p]] = p
    BY <1>1, <2>1, CallbackOwner
  <2> QED
    BY <1>3, <2>2, OpenCallServerClose
<1> QED
  BY <1>2, <1>3 DEF Fin

LEMMA OpenPoll == ASSUME GuardInv, Beside, NoStaleCallback, NEW p \in Pcb, Poll(p) PROVE OpenOwnsPcb'
<1>1. OpenOwnsPcb /\ PcbTypeOK /\ NoConn \notin Conn /\ live \subseteq Conn
  BY GuardParts DEF ConnTypeOK
<1>2. \/ arg[p] \in live /\ cpcb[arg[p]] = p
      \/ arg[p] = NoConn
  BY DEF Poll, NoStaleCallback
<1>3. CASE arg[p] = NoConn
  <2>1. tcp' = [tcp EXCEPT ![p] = "FREE"] /\ cb' = [cb EXCEPT ![p] = {}] /\ UNCHANGED <<connVars, arg>>
    BY <1>3 DEF Poll, AbandonPcb
  <2>2. \A q \in Pcb \ {p} : tcp'[q] = tcp[q] /\ arg'[q] = arg[q] /\ cb'[q] = cb[q]
    BY <1>1, <2>1 DEF PcbTypeOK
  <2>3. \A d \in live : Held(d) => cpcb[d] # p
    BY <1>1, <1>3, OpenOwns DEF Owns
  <2> QED
    BY <1>1, <2>1, <2>2, <2>3, OpenInLwip DEF Beside
<1>4. CASE arg[p] # NoConn
  <2>1. CASE UNCHANGED <<srv, links, count, live, state, cpcb, rxnull, txnull, pcbVars, wild>>
    BY <1>1, <2>1, OpenUntouched DEF pcbVars, Beside
  <2>2. CASE CallServerClose(arg[p], tcp[cpcb[arg[p]]], "poll")
    BY <1>2, <1>4, <2>2, OpenCallServerClose
  <2> QED
    BY <1>2, <1>4, <2>1, <2>2 DEF Poll
<1> QED
  BY <1>3, <1>4

LEMMA OpenPcbGone == ASSUME GuardInv, Beside, NEW p \in Pcb, PcbLost(p) \/ PcbDone(p) PROVE OpenOwnsPcb'
<1>1. /\ ConnTypeOK /\ PcbTypeOK /\ OpenOwnsPcb /\ ListInv /\ NoPcb \notin Pcb /\ NoConn \notin Conn
      /\ live \subseteq Conn
  BY GuardParts DEF ConnTypeOK
<1>2. \A q \in Pcb \ {p} : tcp'[q] = tcp[q] /\ arg'[q] = arg[q] /\ cb'[q] = cb[q]
  BY <1>1 DEF PcbLost, PcbDone, PcbTypeOK
<1>3. CASE PcbLost(p) /\ ListDelete(arg[p]) /\ "err" \in cb[p] /\ arg[p] # NoConn
  <2> DEFINE D == {p}
  <2>1. PICK c \in live : c = arg[p] /\ cpcb[c] = p /\ c \notin Unlinked
    BY <1>1, <1>3, CallbackOwner DEF PcbLost, Hooked
  <2>2. \A q \in D : cpcb[c] = q /\ arg[q] = c
    BY <2>1
  <2>3. \A q \in Pcb \ D : tcp'[q] = tcp[q] /\ arg'[q] = arg[q] /\ cb'[q] = cb[q]
    BY <1>2
  <2> HIDE DEF D
  <2> QED
    BY <1>3, <2>1, <2>2, <2>3, OpenDeletes
<1>4. CASE UNCHANGED connVars /\ ~(PcbLost(p) /\ ListDelete(arg[p]) /\ "err" \in cb[p] /\ arg[p] # NoConn)
  <2>1. ASSUME NEW d \in live, Held(d), cpcb[d] = p
        PROVE  FALSE
    <3>1. tcp[p] \in Up /\ arg[p] = d /\ cb[p] = Callbacks
      BY <1>1, <2>1, OpenOwns DEF Owns
    <3>2. PcbLost(p)
      BY <3>1 DEF PcbDone, Up
    <3>3. "err" \in cb[p] /\ arg[p] # NoConn /\ state[arg[p]] # "CLOSEWAIT" /\ cpcb[arg[p]] # NoPcb
      BY <1>1, <2>1, <3>1 DEF Callbacks, Held, Open
    <3> QED
      BY <1>4, <3>2, <3>3 DEF PcbLost
  <2> QED
    BY <1>1, <1>2, <1>4, <2>1, OpenInLwip DEF Beside
<1> QED
  BY <1>3, <1>4 DEF PcbLost, PcbDone

LEMMA OpenThread == ASSUME GuardInv, NoStaleCallback, Thread, ComesIn PROVE OpenOwnsPcb'
<1> Beside
  BY ThreadKeepsServer, GuardParts DEF Beside, ComesIn, Overtakes, TaskTypeOK
<1>1. ASSUME NEW p \in Pcb, NEW c \in Conn, Accept(p, c) PROVE OpenOwnsPcb'
  BY <1>1, OpenAccept
<1>2. CASE AcceptNoMem
  <2>1. PICK v \in Evicted : DeletePcb(v)
    BY <1>2 DEF AcceptNoMem
  <2>2. v \in live /\ v \notin Unlinked
    BY <1>2, EvictedIs, NoTask, GuardParts DEF AcceptNoMem
  <2> QED
    BY <2>1, <2>2, OpenDeletePcb
<1>3. ASSUME NEW p \in Pcb, Recv(p) \/ Sent(p) PROVE OpenOwnsPcb'
  BY <1>3, OpenCallback
<1>4. ASSUME NEW p \in Pcb, Fin(p) \/ Poll(p) PROVE OpenOwnsPcb'
  BY <1>4, OpenFin, OpenPoll
<1>5. ASSUME NEW p \in Pcb, PcbLost(p) \/ PcbDone(p) PROVE OpenOwnsPcb'
  BY <1>5, OpenPcbGone
<1> QED
  BY <1>1, <1>2, <1>3, <1>4, <1>5 DEF Thread

(***************************************************************************)
(* The task takes the callbacks off the pcb of the connection it has in    *)
(* its hands, and that one no longer counts as held.                       *)
(***************************************************************************)
LEMMA OpenHand ==
  ASSUME OpenOwnsPcb, NEW D,
         \A q \in Pcb \ D : tcp'[q] = tcp[q] /\ arg'[q] = arg[q] /\ cb'[q] = cb[q],
         \A d \in live' : Held(d)' => d \in live /\ Held(d) /\ cpcb'[d] = cpcb[d] /\ cpcb[d] \notin D
  PROVE  OpenOwnsPcb'
  BY OpenElsewhere

\* statements that touch no pcb
LEMMA OpenHandOnly ==
  ASSUME OpenOwnsPcb, UNCHANGED pcbVars,
         \A d \in live' : Held(d)' => d \in live /\ Held(d) /\ cpcb'[d] = cpcb[d]
  PROVE  OpenOwnsPcb'
<1> DEFINE D == {}
<1>1. \A q \in Pcb \ D : tcp'[q] = tcp[q] /\ arg'[q] = arg[q] /\ cb'[q] = cb[q]
  BY DEF pcbVars
<1>2. \A d \in live' : Held(d)' => d \in live /\ Held(d) /\ cpcb'[d] = cpcb[d] /\ cpcb[d] \notin D
  OBVIOUS
<1> HIDE DEF D
<1> QED
  BY <1>1, <1>2, OpenHand

\* the pcb that is being cleared is nobody's
LEMMA ClearedIsFree ==
  ASSUME GuardInv, at \in Cleared, NEW d \in live, Held(d)
  PROVE  cpcb[d] # tp
  BY GuardParts, OpenOwns DEF TaskInv, Owns, ConnTypeOK

LEMMA OpenClear ==
  ASSUME GuardInv, ClearArg \/ ClearCallback \/ ClosePcb
  PROVE  OpenOwnsPcb'
<1>1. ListInv /\ OpenOwnsPcb /\ PcbTypeOK /\ ConnTypeOK /\ TaskInv /\ NoPcb \notin Pcb
  BY GuardParts
<1>2. CASE TouchFreed("close") /\ UNCHANGED <<taskVars, overtaken>>
  BY <1>1, <1>2, OpenSame DEF TouchFreed
<1>3. CASE ~(TouchFreed("close") /\ UNCHANGED <<taskVars, overtaken>>)
  <2>1. /\ \A q \in Pcb \ {tp} : tcp'[q] = tcp[q] /\ arg'[q] = arg[q] /\ cb'[q] = cb[q]
        /\ at \in Cleared \union {"arg"} /\ at' \in {"recv", "err", "poll", "sent", "close", "forget"}
        /\ UNCHANGED <<connVars, ts>>
    <3>1. CASE ClearArg
      BY <1>1, <1>3, <3>1 DEF ClearArg, UseIf, PcbTypeOK
    <3>2. CASE ClearCallback
      BY <1>1, <1>3, <3>2 DEF ClearCallback, UseIf, PcbTypeOK, Callbacks, Cleared, AfterClear
    <3>3. CASE ClosePcb
      BY <1>1, <1>3, <3>3 DEF ClosePcb, UseIf, PcbTypeOK, Cleared
    <3> QED
      BY <3>1, <3>2, <3>3
  <2>2. ASSUME NEW d \in live', Held(d)'
        PROVE  d \in live /\ Held(d) /\ cpcb'[d] = cpcb[d] /\ cpcb[d] # tp
    <3>1. d \in live /\ Open(d) /\ cpcb'[d] = cpcb[d] /\ d # ts
      BY <2>1, <2>2 DEF connVars, Held, Open, BeingCleared
    <3>2. Held(d)
      BY <3>1 DEF Held, BeingCleared
    <3>3. cpcb[d] # tp
      <4>1. CASE at \in Cleared
        BY <3>1, <3>2, <4>1, ClearedIsFree
      <4>2. CASE at = "arg"
        BY <1>1, <3>1, <3>2, <4>2, OpenOwns, GuardParts DEF Owns, TaskInv, ConnTypeOK
      <4> QED
        BY <2>1, <4>1, <4>2
    <3> QED
      BY <3>1, <3>2, <3>3
  <2> DEFINE D == {tp}
  <2>3. \A q \in Pcb \ D : tcp'[q] = tcp[q] /\ arg'[q] = arg[q] /\ cb'[q] = cb[q]
    BY <2>1
  <2>4. \A d \in live' : Held(d)' => d \in live /\ Held(d) /\ cpcb'[d] = cpcb[d] /\ cpcb[d] \notin D
    BY <2>2
  <2> HIDE DEF D
  <2> QED
    BY <1>1, <2>3, <2>4, OpenHand
<1> QED
  BY <1>2, <1>3

LEMMA OpenTask == ASSUME GuardInv, CloseStep PROVE OpenOwnsPcb'
<1>1. /\ ListInv /\ OpenOwnsPcb /\ PcbTypeOK /\ ConnTypeOK /\ TaskInv /\ NoConn \notin Conn
      /\ live \subseteq Conn
  BY GuardParts DEF ConnTypeOK
<1>2. CASE TouchFreed("close") /\ UNCHANGED <<taskVars, overtaken>>
  BY <1>1, <1>2, OpenSame DEF TouchFreed
<1>3. CASE CloseHead \/ CloseEnd
  <2>1. UNCHANGED <<live, state, cpcb, pcbVars>> /\ at = "head" /\ at' \in {"find", "idle"}
    BY <1>3 DEF CloseHead, CloseEnd, coreVars, connVars
  <2>2. \A d \in live' : Held(d)' => d \in live /\ Held(d) /\ cpcb'[d] = cpcb[d]
    BY <2>1 DEF Held, Open, BeingCleared
  <2> QED
    BY <1>1, <2>1, <2>2, OpenHandOnly
<1>4. CASE CloseFind /\ UNCHANGED <<connVars, pcbVars, ts>>
  <2>1. \A d \in live' : Held(d)' => d \in live /\ Held(d) /\ cpcb'[d] = cpcb[d]
    BY <1>4 DEF CloseFind, connVars, Held, Open, BeingCleared
  <2> QED
    BY <1>1, <1>4, <2>1, OpenHandOnly
<1>5. CASE ForgetPcb /\ wild' = wild /\ ~(TouchFreed("close") /\ UNCHANGED <<taskVars, overtaken>>)
  <2>1. /\ cpcb' = [cpcb EXCEPT ![ts] = NoPcb] /\ at = "forget" /\ at' = "state"
        /\ UNCHANGED <<live, state, ts, pcbVars>>
    BY <1>5 DEF ForgetPcb, UseIf
  <2>2. \A d \in live' : Held(d)' => d \in live /\ Held(d) /\ cpcb'[d] = cpcb[d]
    BY <1>1, <2>1 DEF Held, Open, BeingCleared, ConnTypeOK
  <2> QED
    BY <1>1, <2>1, <2>2, OpenHandOnly
<1>6. CASE MarkClosed /\ ~(TouchFreed("close") /\ UNCHANGED <<taskVars, overtaken>>)
  <2>1. /\ state' = [state EXCEPT ![ts] = "CLOSED"] /\ at = "state"
        /\ UNCHANGED <<live, cpcb, ts, pcbVars>>
    BY <1>6 DEF MarkClosed, UseIf
  <2>2. \A d \in live' : Held(d)' => d \in live /\ Held(d) /\ cpcb'[d] = cpcb[d]
    BY <1>1, <2>1 DEF Held, Open, BeingCleared, ConnTypeOK
  <2> QED
    BY <1>1, <2>1, <2>2, OpenHandOnly
<1>7. CASE Disconnected /\ ~(TouchFreed("close") /\ UNCHANGED <<taskVars, overtaken>>)
  <2>1. /\ cpcb' = [cpcb EXCEPT ![ts] = NoPcb] /\ at = "discon" /\ at' \in {"head", "unlink"}
        /\ UNCHANGED <<live, state, pcbVars>>
    BY <1>7 DEF Disconnected, UseIf
  <2>2. \A d \in live' : Held(d)' => d \in live /\ Held(d) /\ cpcb'[d] = cpcb[d]
    BY <1>1, <2>1 DEF Held, Open, BeingCleared, ConnTypeOK, TaskInv
  <2> QED
    BY <1>1, <2>1, <2>2, OpenHandOnly
<1>8. CASE (LoadNext \/ StoreNext \/ LoadCount \/ StoreCount) /\ ~(TouchFreed("close") /\ UNCHANGED <<taskVars, overtaken>>)
  <2>1. /\ at \in {"unlink", "store", "count", "dec"} /\ at' \in {"store", "count", "dec", "free"}
        /\ UNCHANGED <<live, state, cpcb, pcbVars>>
    BY <1>8 DEF LoadNext, StoreNext, LoadCount, StoreCount, UseIf, connVars
  <2>2. \A d \in live' : Held(d)' => d \in live /\ Held(d) /\ cpcb'[d] = cpcb[d]
    BY <2>1 DEF Held, Open, BeingCleared
  <2> QED
    BY <1>1, <2>1, <2>2, OpenHandOnly
<1>9. CASE FreeIt /\ ~(TouchFreed("close") /\ UNCHANGED <<taskVars, overtaken>>)
  <2>1. /\ at = "free" /\ at' = "head" /\ live' = live \ {ts} /\ state' = [state EXCEPT ![ts] = "NONE"]
        /\ UNCHANGED <<cpcb, pcbVars>>
    BY <1>9 DEF FreeIt, UseIf
  <2>2. \A d \in live' : Held(d)' => d \in live /\ Held(d) /\ cpcb'[d] = cpcb[d]
    BY <1>1, <2>1 DEF Held, Open, BeingCleared, ConnTypeOK
  <2> QED
    BY <1>1, <2>1, <2>2, OpenHandOnly
<1>10. CASE CloseFind /\ ~(TouchFreed("close") /\ UNCHANGED <<taskVars, overtaken>>)
  BY <1>4, <1>10 DEF CloseFind, UseIf
<1>11. CASE ForgetPcb /\ ~(TouchFreed("close") /\ UNCHANGED <<taskVars, overtaken>>)
  BY <1>5, <1>11 DEF ForgetPcb, UseIf
<1> QED
  BY <1>2, <1>3, <1>6, <1>7, <1>8, <1>9, <1>10, <1>11, OpenClear DEF CloseStep

LEMMA GuardInvNext == GuardInv /\ NoStaleCallback /\ [Next]_vars => OpenOwnsPcb'
<1> SUFFICES ASSUME GuardInv, NoStaleCallback, [Next]_vars PROVE OpenOwnsPcb'
  OBVIOUS
<1>1. CASE Start \/ UNCHANGED vars
  BY <1>1, GuardParts, OpenSame DEF Start, vars, coreVars
<1>2. CASE CloseBegin
  <2>1. UNCHANGED <<live, state, cpcb, pcbVars>> /\ at' = "head" /\ at = "idle"
    BY <1>2, NoTask, GuardParts DEF CloseBegin, connVars
  <2>2. \A d \in live' : Held(d)' => d \in live /\ Held(d) /\ cpcb'[d] = cpcb[d]
    BY <2>1 DEF Held, Open, BeingCleared
  <2> QED
    BY <2>1, <2>2, GuardParts, OpenHandOnly
<1> QED
  BY <1>1, <1>2, OpenThread, OpenTask DEF Next, Running

LEMMA GuardInvAlways == Spec /\ []NoStaleCallback => []GuardInv
<1>1. Init => OpenOwnsPcb
  BY DEF Init, OpenOwnsPcb
<1> QED
  BY <1>1, GuardInvNext, WaitInvAlways, PTL DEF Spec, GuardInv

(***************************************************************************)
(* Whatever fails, a stale callback is the only way for an open connection *)
(* to lose its pcb: until tcpsrv_poll can be called for a connection that  *)
(* is freed or has another pcb, every open connection owns its own, but    *)
(* for the one tcpsrv_close is clearing.                                   *)
(***************************************************************************)
THEOREM OnlyStaleDisowns == Spec /\ []NoStaleCallback => []OpenOwnsPcb
  BY GuardInvAlways, PTL DEF GuardInv

(***************************************************************************)
(* Until then only two connections may have a pcb that lwIP has freed: one *)
(* whose close has failed and is tried again, for the error callback was   *)
(* taken off its pcb, and the one tcpsrv_close has in its hands.           *)
(***************************************************************************)
THEOREM OnlyWaitingIsStale ==
  Spec /\ []NoStaleCallback => [](\A c \in live : StalePcb(c) => state[c] = "CLOSEWAIT" \/ c = ts)
<1>1. GuardInv => \A c \in live : StalePcb(c) => state[c] = "CLOSEWAIT" \/ c = ts
  <2> SUFFICES ASSUME GuardInv, NEW c \in live, StalePcb(c), c # ts
               PROVE  state[c] = "CLOSEWAIT"
    OBVIOUS
  <2>1. Phased /\ ClosedHasNone
    BY GuardParts
  <2>2. ~Open(c)
    BY GuardParts, OpenOwns DEF Held, BeingCleared, Owns, StalePcb, Up
  <2> QED
    BY <2>1, <2>2 DEF Phased, ClosedHasNone, StalePcb
<1> QED
  BY <1>1, GuardInvAlways, PTL

(***************************************************************************)
(* Whatever fails, and wherever the thread comes in, only tcpsrv_poll can  *)
(* be stale: the receive, sent and error callbacks of an active pcb that   *)
(* still has its argument lead to the open connection that has this pcb.   *)
(***************************************************************************)
THEOREM OnlyPollIsStale == Spec => []CallbacksMeetOwner
<1>1. ListInv => CallbacksMeetOwner
  BY DEF ListInv
<1> QED
  BY <1>1, ListInvAlways, PTL
-----------------------------------------------------------------------------
(***************************************************************************)
(* While tcp_close never fails: who owns a pcb.                            *)
(***************************************************************************)
\* Nothing waits to be closed: a connection is open or has lost its pcb.
NothingWaits == \A c \in live : Open(c) \/ (state[c] = "CLOSED" /\ cpcb[c] = NoPcb)

\* the callbacks that are left on the pcb at each statement that clears it
Left == [recv |-> Callbacks, err |-> {"err", "poll", "sent"}, poll |-> {"poll", "sent"},
         sent |-> {"sent"}, close |-> {}]

\* A pcb has all its callbacks and an argument, or no callback, or it is the
\* one that tcpsrv_close is clearing.
AllOrNone ==
  \A p \in Pcb : \/ cb[p] = {}
                 \/ cb[p] = Callbacks /\ arg[p] # NoConn
                 \/ p = tp /\ at \in Cleared /\ cb[p] \subseteq Left[at]

\* What tcpsrv_close is clearing is the pcb of its connection, and lwIP has
\* closed it before the connection forgets it.
Clearing ==
  /\ at \in Cleared \union {"arg"} /\ tcp[tp] \in Up => ts \in live /\ Open(ts) /\ cpcb[ts] = tp
  /\ at \in Cleared \union {"arg"} /\ ts \in live => cpcb[ts] \in {tp, NoPcb}
  /\ at = "forget" /\ ts \in live /\ cpcb[ts] # NoPcb =>
       Open(ts) /\ cpcb[ts] \in Pcb /\ tcp[cpcb[ts]] \notin Up
  /\ at \in Past \ (Cleared \union {"forget"}) /\ ts \in live => cpcb[ts] = NoPcb

Rest == NothingWaits /\ AllOrNone /\ Clearing /\ EstablishedIsListed

\* The inductive invariant.
OwnInv == GuardInv /\ Rest

LEMMA OwnParts == OwnInv => GuardInv /\ NothingWaits /\ AllOrNone /\ Clearing /\ EstablishedIsListed
  BY DEF OwnInv, Rest

LEMMA CallbacksAreUp == OwnInv => NoStaleCallback
<1> SUFFICES ASSUME OwnInv, NEW p \in Pcb, tcp[p] \in Active, cb[p] # {}
             PROVE  \/ arg[p] \in live /\ cpcb[arg[p]] = p
                    \/ arg[p] = NoConn /\ p = tp
  BY DEF NoStaleCallback
<1>1. CASE arg[p] # NoConn /\ cb[p] = Callbacks
  BY <1>1, OwnParts, GuardParts, CallbackOwner DEF Hooked, Callbacks
<1>2. CASE p = tp /\ at \in Cleared
  BY <1>2, OwnParts, GuardParts DEF TaskInv
<1> QED
  BY <1>1, <1>2, OwnParts DEF AllOrNone

\* a connection with a pcb is open, and owns it unless it is being cleared
LEMMA OwnerOf ==
  ASSUME OwnInv, NEW c \in live, cpcb[c] # NoPcb
  PROVE  /\ Open(c) /\ cpcb[c] \in Pcb
         /\ ~BeingCleared(c) => tcp[cpcb[c]] \in Up /\ arg[cpcb[c]] = c /\ cb[cpcb[c]] = Callbacks
<1>1. Open(c)
  BY OwnParts DEF NothingWaits
<1>2. cpcb[c] \in Pcb
  BY OwnParts, GuardParts DEF ConnTypeOK
<1>3. ~BeingCleared(c) => Owns(c)
  BY <1>1, OwnParts, GuardParts, OpenOwns DEF Held
<1> QED
  BY <1>1, <1>2, <1>3 DEF Owns

(***************************************************************************)
(* What a step of the thread that accepts nothing does: a connection stays *)
(* open with its pcb or loses it, and the pcb it loses is no longer up.    *)
(***************************************************************************)
ConnsLeave ==
  /\ live' \subseteq live
  /\ \A d \in live' :
       \/ cpcb'[d] = cpcb[d] /\ (state'[d] = state[d] \/ (Open(d) /\ state'[d] \in {"LISTEN", "CONNECT"}))
       \/ state'[d] = "CLOSED" /\ cpcb'[d] = NoPcb

PcbsLeave ==
  \A q \in Pcb : /\ tcp'[q] \in Up => tcp[q] \in Up
                 /\ cb'[q] = {} \/ (cb'[q] = cb[q] /\ arg'[q] = arg[q])

OwnersLeave ==
  \A d \in live : cpcb[d] = NoPcb \/ tcp'[cpcb[d]] \notin Up \/ (d \in live' /\ cpcb'[d] = cpcb[d])

LEMMA OwnThread ==
  ASSUME OwnInv, Beside, ConnsLeave, PcbsLeave, OwnersLeave
  PROVE  Rest'
<1>1. /\ NothingWaits /\ AllOrNone /\ Clearing /\ EstablishedIsListed
      /\ ConnTypeOK /\ TaskTypeOK /\ TaskInv /\ NoPcb \notin Pcb
      /\ at' = at /\ ts' = ts /\ tp' = tp
  BY OwnParts, GuardParts DEF Beside, taskVars
<1>2. NothingWaits'
  BY <1>1 DEF NothingWaits, ConnsLeave, Open
<1>3. AllOrNone'
  BY <1>1 DEF AllOrNone, PcbsLeave
<1>4. EstablishedIsListed'
  <2> SUFFICES ASSUME NEW q \in Pcb, tcp'[q] \in Up
               PROVE  \E d \in live' : cpcb'[d] = q
    BY DEF EstablishedIsListed, Up
  <2>1. PICK d \in live : cpcb[d] = q
    BY <1>1 DEF EstablishedIsListed, Up, PcbsLeave
  <2> QED
    BY <1>1, <2>1 DEF OwnersLeave
<1>5. Clearing'
  <2>1. ASSUME at \in Cleared \union {"arg"}, tcp'[tp] \in Up
        PROVE  ts \in live' /\ state'[ts] \in {"LISTEN", "CONNECT"} /\ cpcb'[ts] = tp
    <3>1. tp \in Pcb /\ tcp[tp] \in Up
      BY <1>1, <2>1 DEF TaskInv, PcbsLeave
    <3>2. ts \in live /\ Open(ts) /\ cpcb[ts] = tp
      BY <1>1, <2>1, <3>1 DEF Clearing
    <3>3. ts \in live' /\ cpcb'[ts] = tp
      BY <1>1, <2>1, <3>1, <3>2 DEF OwnersLeave
    <3> QED
      BY <1>1, <3>1, <3>2, <3>3 DEF ConnsLeave, Open
  <2>2. at \in Cleared \union {"arg"} /\ ts \in live' => cpcb'[ts] \in {tp, NoPcb}
    BY <1>1 DEF Clearing, ConnsLeave
  <2>3. ASSUME at = "forget", ts \in live', cpcb'[ts] # NoPcb
        PROVE  state'[ts] \in {"LISTEN", "CONNECT"} /\ cpcb'[ts] \in Pcb /\ tcp'[cpcb'[ts]] \notin Up
    <3>1. ts \in live /\ cpcb'[ts] = cpcb[ts] /\ (state'[ts] = state[ts] \/ state'[ts] \in {"LISTEN", "CONNECT"})
      BY <2>3 DEF ConnsLeave
    <3>2. Open(ts) /\ cpcb[ts] \in Pcb /\ tcp[cpcb[ts]] \notin Up
      BY <1>1, <2>3, <3>1 DEF Clearing
    <3> QED
      BY <3>1, <3>2 DEF PcbsLeave, Open
  <2>4. at \in Past \ (Cleared \union {"forget"}) /\ ts \in live' => cpcb'[ts] = NoPcb
    BY <1>1 DEF Clearing, ConnsLeave
  <2> QED
    BY <1>1, <2>1, <2>2, <2>3, <2>4 DEF Clearing, Open
<1> QED
  BY <1>2, <1>3, <1>4, <1>5 DEF Rest

\* a step of the thread that deletes connection c
LEMMA OwnDelete ==
  ASSUME OwnInv, Beside, NEW c \in live, c \notin Unlinked, ListDelete(c), PcbsLeave,
         cpcb[c] \in Pcb => tcp'[cpcb[c]] \notin Up
  PROVE  Rest'
<1>1. /\ \A d \in live \ {c} : d \in live' /\ state'[d] = state[d] /\ cpcb'[d] = cpcb[d]
      /\ live' \subseteq live
      /\ c \in live' => state'[c] = "CLOSED" /\ cpcb'[c] = NoPcb
  BY OwnParts, GuardParts, ListDeleteKeeps
<1>2. ConnsLeave
  BY <1>1 DEF ConnsLeave
<1>3. OwnersLeave
  BY <1>1, OwnerOf DEF OwnersLeave
<1> QED
  BY <1>2, <1>3, OwnThread

\* a step of the thread that deletes none
LEMMA OwnKeep ==
  ASSUME OwnInv, Beside, PcbsLeave, UNCHANGED <<live, cpcb>>,
         \A d \in live : state'[d] = state[d] \/ (Open(d) /\ state'[d] \in {"LISTEN", "CONNECT"})
  PROVE  Rest'
<1>1. ConnsLeave /\ OwnersLeave
  BY DEF ConnsLeave, OwnersLeave
<1> QED
  BY <1>1, OwnThread

LEMMA OwnSame == ASSUME OwnInv, Beside, UNCHANGED <<connVars, pcbVars>> PROVE Rest'
<1>1. PcbsLeave
  BY DEF PcbsLeave, pcbVars
<1> QED
  BY <1>1, OwnKeep DEF connVars

(***************************************************************************)
(* Closing.  tcp_close takes a pcb out of Up.                              *)
(***************************************************************************)
LEMMA ClosedLeavesUp ==
  ASSUME NEW s, NEW after \in Closed(s)
  PROVE  after \notin Up
  BY DEF Closed, Up

LEMMA OwnServerClose ==
  ASSUME OwnInv, Beside, "close" \notin Faults, NEW c \in live, cpcb[c] # NoPcb,
         NEW s, ServerClose(c, s)
  PROVE  Rest'
<1> DEFINE p == cpcb[c]
<1>1. Open(c) /\ p \in Pcb /\ PcbTypeOK /\ c \notin Unlinked
  BY OwnerOf, OwnParts, GuardParts, LinkedByPcb
<1>2. CloseSucceeds(c, s)
  BY <1>1 DEF ServerClose, CloseFails
<1>3. PICK after \in Closed(s) :
        /\ tcp' = [tcp EXCEPT ![p] = after]
        /\ cb' = [cb EXCEPT ![p] = IF Open(c) \/ after # "CLOSING" THEN {} ELSE @]
        /\ arg' = [arg EXCEPT ![p] = IF after = "CLOSING" THEN @ ELSE NoConn]
  BY <1>2 DEF CloseSucceeds
<1>4. after \notin Up
  BY ClosedLeavesUp
<1>5. PcbsLeave /\ tcp'[p] \notin Up
  BY <1>1, <1>3, <1>4 DEF PcbTypeOK, PcbsLeave
<1>6. ListDelete(c)
  BY <1>2 DEF CloseSucceeds
<1> QED
  BY <1>1, <1>5, <1>6, OwnDelete

LEMMA OwnDeletePcb ==
  ASSUME OwnInv, Beside, "close" \notin Faults, NEW c \in live, c \notin Unlinked, ~BeingCleared(c), DeletePcb(c)
  PROVE  Rest' /\ wild' = wild
<1>1. ~StalePcb(c)
  BY OwnerOf DEF StalePcb, Up
<1>2. /\ IF Found(c) = {} THEN UNCHANGED pcbVars
         ELSE \E p \in Found(c) : \E after \in Dropped(tcp[p]) :
                /\ tcp' = [tcp EXCEPT ![p] = after]
                /\ arg' = [arg EXCEPT ![p] = NoConn]
                /\ cb' = [cb EXCEPT ![p] = {}]
      /\ ListDelete(c) /\ wild' = wild
  BY <1>1 DEF DeletePcb
<1>3. PcbTypeOK
  BY OwnParts, GuardParts
<1>4. CASE Found(c) = {}
  <2>1. cpcb[c] \notin Pcb
    BY <1>4, OwnerOf, OwnParts, GuardParts DEF Found
  <2>2. PcbsLeave
    BY <1>2, <1>4 DEF pcbVars, PcbsLeave
  <2> QED
    BY <1>2, <2>1, <2>2, OwnDelete
<1>5. CASE Found(c) # {}
  <2>1. PICK p \in Found(c) : \E after \in Dropped(tcp[p]) :
                /\ tcp' = [tcp EXCEPT ![p] = after]
                /\ arg' = [arg EXCEPT ![p] = NoConn]
                /\ cb' = [cb EXCEPT ![p] = {}]
    BY <1>2, <1>5
  <2>2. PICK after \in Dropped(tcp[p]) :
                /\ tcp' = [tcp EXCEPT ![p] = after]
                /\ arg' = [arg EXCEPT ![p] = NoConn]
                /\ cb' = [cb EXCEPT ![p] = {}]
    BY <2>1
  <2>3. p \in Pcb /\ cpcb[c] = p
    BY DEF Found
  <2>4. after \notin Up
    BY ClosedLeavesUp DEF Dropped
  <2>5. PcbsLeave /\ tcp'[p] \notin Up
    BY <1>3, <2>2, <2>3, <2>4 DEF PcbTypeOK, PcbsLeave
  <2> QED
    BY <1>2, <2>3, <2>5, OwnDelete
<1> QED
  BY <1>2, <1>4, <1>5

(***************************************************************************)
(* Accepting, which happens only outside tcpsrv_close: the evicted         *)
(* connection's pcb is closed, the swept ones are in TIME_WAIT, the new    *)
(* one had no owner.                                                       *)
(***************************************************************************)
LEMMA OwnInsert ==
  ASSUME OwnInv, Beside, srv = "up", NEW p \in Pcb, NEW c \in Conn, c \notin live \ Evicted, tcp[p] = "FREE",
         NEW t \in [Pcb -> TcpStates], NEW kill \in SUBSET Pcb,
         \A q \in kill : t[q] = "TIME_WAIT",
         \A q \in Pcb : IF q \in UNION {Found(v) : v \in Evicted} THEN t[q] \notin Up ELSE t[q] = tcp[q],
         Insert(p, c, Evicted, t, kill)
  PROVE  Rest'
<1> DEFINE gone == Evicted
           left == kill \union UNION {Found(v) : v \in gone}
<1>1. /\ ConnTypeOK /\ PcbTypeOK /\ NoPcb \notin Pcb /\ NoConn \notin Conn /\ gone \subseteq live
      /\ at = "idle" /\ at' = "idle" /\ ts = NoConn
      /\ NothingWaits /\ AllOrNone /\ EstablishedIsListed
  BY OwnParts, GuardParts, EvictedIs, NoTask DEF Beside, taskVars
<1>2. /\ live' = (live \ gone) \union {c}
      /\ state' = [d \in Conn |-> IF d = c THEN "LISTEN" ELSE IF d \in gone THEN "NONE" ELSE state[d]]
      /\ cpcb' = [d \in Conn |-> IF d = c THEN p ELSE IF d \in gone THEN NoPcb ELSE cpcb[d]]
      /\ tcp' = [q \in Pcb |-> IF q = p THEN "ESTABLISHED" ELSE IF q \in kill THEN "FREE" ELSE t[q]]
      /\ arg' = [q \in Pcb |-> IF q = p THEN c ELSE IF q \in left THEN NoConn ELSE arg[q]]
      /\ cb' = [q \in Pcb |-> IF q = p THEN Callbacks ELSE IF q \in left THEN {} ELSE cb[q]]
  BY DEF Insert
<1>3. \A d \in live' : d = c \/ (d # c /\ d \in live /\ d \notin gone /\ d \in Conn)
  BY <1>1, <1>2 DEF ConnTypeOK
<1>4. NothingWaits'
  <2> SUFFICES ASSUME NEW d \in live'
               PROVE  state'[d] \in {"LISTEN", "CONNECT"} \/ (state'[d] = "CLOSED" /\ cpcb'[d] = NoPcb)
    BY DEF NothingWaits, Open
  <2>1. CASE d = c
    BY <1>2, <2>1
  <2>2. CASE d # c
    BY <1>1, <1>2, <1>3, <2>2 DEF NothingWaits, Open
  <2> QED
    BY <2>1, <2>2
<1>5. AllOrNone'
  BY <1>1, <1>2 DEF AllOrNone, Cleared
<1>6. EstablishedIsListed'
  <2> SUFFICES ASSUME NEW q \in Pcb, tcp'[q] \in Up
               PROVE  \E d \in live' : cpcb'[d] = q
    BY DEF EstablishedIsListed, Up
  <2>1. CASE q = p
    BY <1>2, <2>1
  <2>2. CASE q # p
    <3>1. q \notin kill /\ t[q] \in Up /\ q \notin UNION {Found(v) : v \in gone} /\ tcp[q] \in Up
      BY <1>2, <2>2 DEF Up
    <3>2. PICK d \in live : cpcb[d] = q
      BY <1>1, <3>1 DEF EstablishedIsListed, Up
    <3>3. arg[q] = d
      BY <1>1, <3>2, OwnerOf DEF BeingCleared
    <3>4. d \notin gone /\ d # c /\ d \in Conn
      BY <1>1, <3>1, <3>2, <3>3 DEF Found, ConnTypeOK
    <3> QED
      BY <1>2, <3>2, <3>4
  <2> QED
    BY <2>1, <2>2
<1>7. Clearing'
  BY <1>1 DEF Clearing, Cleared, Past
<1> QED
  BY <1>4, <1>5, <1>6, <1>7 DEF Rest

LEMMA OwnAccept ==
  ASSUME OwnInv, Beside, "close" \notin Faults, NEW p \in Pcb, NEW c \in Conn, Accept(p, c)
  PROVE  Rest' /\ wild' = wild
<1> DEFINE found == UNION {Found(v) : v \in Evicted}
<1>1. /\ PcbTypeOK /\ Evicted \subseteq live /\ NoPcb \notin Pcb /\ NoConn \notin Conn /\ live \subseteq Conn
      /\ ts = NoConn /\ srv = "up"
  BY OwnParts, GuardParts, EvictedIs, NoTask DEF Accept, ConnTypeOK
<1>2. \A v \in Evicted : ~StalePcb(v)
  BY <1>1, OwnerOf DEF StalePcb, BeingCleared, Up
<1>3. PICK after \in [found -> TcpStates] :
        /\ \A q \in DOMAIN after : after[q] \in Dropped(tcp[q])
        /\ \E kill \in SUBSET TimeWait([q \in Pcb |-> IF q \in DOMAIN after THEN after[q] ELSE tcp[q]]) :
             Insert(p, c, Evicted, [q \in Pcb |-> IF q \in DOMAIN after THEN after[q] ELSE tcp[q]], kill)
  BY <1>2 DEF Accept
<1>4. c \notin live \ Evicted /\ tcp[p] = "FREE"
  BY <1>2 DEF Accept
<1> DEFINE t == [q \in Pcb |-> IF q \in DOMAIN after THEN after[q] ELSE tcp[q]]
<1>5. PICK kill \in SUBSET TimeWait(t) : Insert(p, c, Evicted, t, kill)
  BY <1>3
<1>6. found \subseteq Pcb /\ DOMAIN after = found
  BY DEF Found
<1>7. t \in [Pcb -> TcpStates] /\ \A q \in Pcb \ found : t[q] = tcp[q]
  BY <1>1, <1>6 DEF PcbTypeOK
<1>8. ASSUME NEW q \in found PROVE t[q] \notin Up
  <2>1. t[q] \in Closed(tcp[q])
    BY <1>3, <1>6 DEF Dropped
  <2> QED
    BY <2>1, ClosedLeavesUp
<1>9. kill \in SUBSET Pcb /\ \A q \in kill : t[q] = "TIME_WAIT"
  BY DEF TimeWait
<1> HIDE DEF t
<1>10. Rest'
  BY <1>1, <1>4, <1>5, <1>7, <1>8, <1>9, OwnInsert
<1>11. wild' = wild
  BY <1>5 DEF Insert
<1> QED
  BY <1>10, <1>11

(***************************************************************************)
(* The callbacks.                                                          *)
(***************************************************************************)
\* the connection of a callback that has one is open, and its pcb is active
LEMMA CallbackIsUp ==
  ASSUME OwnInv, NEW p \in Pcb, tcp[p] \in Active, cb[p] # {}, arg[p] # NoConn
  PROVE  arg[p] \in live /\ cpcb[arg[p]] = p /\ cpcb[arg[p]] # NoPcb /\ Open(arg[p])
  BY CallbacksAreUp, OwnerOf, OwnParts, GuardParts DEF NoStaleCallback

LEMMA OwnKeepOpen ==
  ASSUME OwnInv, Beside, NEW c \in live, Open(c), state' = [state EXCEPT ![c] = "CONNECT"],
         UNCHANGED <<live, cpcb, pcbVars>>
  PROVE  Rest'
<1>1. PcbsLeave
  BY DEF PcbsLeave, pcbVars
<1>2. \A d \in live : state'[d] = state[d] \/ (Open(d) /\ state'[d] \in {"LISTEN", "CONNECT"})
  BY OwnParts, GuardParts DEF ConnTypeOK
<1> QED
  BY <1>1, <1>2, OwnKeep

LEMMA OwnCallback ==
  ASSUME OwnInv, Beside, "close" \notin Faults, NEW p \in Pcb, Recv(p) \/ Sent(p)
  PROVE  Rest'
<1>1. tcp[p] \in Active /\ cb[p] # {} /\ arg[p] # NoConn
  BY DEF Recv, Sent, Active
<1>2. CASE state' = [state EXCEPT ![arg[p]] = "CONNECT"] /\ UNCHANGED <<live, cpcb, pcbVars>>
  BY <1>1, <1>2, CallbackIsUp, OwnKeepOpen
<1>3. CASE ServerClose(arg[p], tcp[cpcb[arg[p]]])
  BY <1>1, <1>3, CallbackIsUp, OwnServerClose
<1> QED
  BY <1>2, <1>3 DEF Recv, Sent, Keep, CloseInCallback

LEMMA OwnCallServerClose ==
  ASSUME OwnInv, Beside, "close" \notin Faults, NEW c \in live, cpcb[c] # NoPcb, tcp[cpcb[c]] # "FREE",
         NEW s, NEW who, CallServerClose(c, s, who)
  PROVE  Rest' /\ wild' = wild
<1>1. ServerClose(c, s) /\ wild' = wild
  BY DEF CallServerClose
<1> QED
  BY <1>1, OwnServerClose

LEMMA OwnFin ==
  ASSUME OwnInv, Beside, "close" \notin Faults, NEW p \in Pcb, Fin(p)
  PROVE  Rest' /\ wild' = wild
<1>1. CASE tcp' = [tcp EXCEPT ![p] = "CLOSE_WAIT"] /\ UNCHANGED <<srv, connVars, arg, cb, wild>>
  <2>1. PcbsLeave
    BY <1>1, OwnParts, GuardParts DEF Fin, PcbTypeOK, PcbsLeave, Up
  <2> QED
    BY <1>1, <2>1, OwnKeep DEF connVars
<1>2. CASE "recv" \in cb[p] /\ arg[p] # NoConn /\ CallServerClose(arg[p], "CLOSE_WAIT", "fin")
  <2>1. tcp[p] \in Active /\ tcp[p] # "FREE" /\ cb[p] # {}
    BY <1>2 DEF Fin, Active
  <2> QED
    BY <1>2, <2>1, CallbackIsUp, OwnCallServerClose
<1> QED
  BY <1>1, <1>2 DEF Fin

LEMMA OwnPoll ==
  ASSUME OwnInv, Beside, "close" \notin Faults, NEW p \in Pcb, Poll(p)
  PROVE  Rest' /\ wild' = wild
<1>1. tcp[p] \in Active /\ tcp[p] # "FREE" /\ cb[p] # {}
  BY DEF Poll, Active
<1>2. CASE arg[p] = NoConn
  <2>1. tcp' = [tcp EXCEPT ![p] = "FREE"] /\ cb' = [cb EXCEPT ![p] = {}] /\ UNCHANGED <<connVars, arg, wild>>
    BY <1>2 DEF Poll, AbandonPcb
  <2>2. PcbsLeave
    BY <2>1, OwnParts, GuardParts DEF PcbTypeOK, PcbsLeave, Up
  <2> QED
    BY <2>1, <2>2, OwnKeep DEF connVars
<1>3. CASE arg[p] # NoConn
  <2>1. arg[p] \in live /\ cpcb[arg[p]] = p /\ cpcb[arg[p]] # NoPcb
    BY <1>1, <1>3, CallbackIsUp
  <2>2. CASE UNCHANGED <<srv, links, count, live, state, cpcb, rxnull, txnull, pcbVars, wild>>
    <3>1. PcbsLeave
      BY <2>2 DEF PcbsLeave, pcbVars
    <3> QED
      BY <2>2, <3>1, OwnKeep
  <2>3. CASE CallServerClose(arg[p], tcp[cpcb[arg[p]]], "poll")
    BY <1>1, <2>1, <2>3, OwnCallServerClose
  <2> QED
    BY <1>3, <2>1, <2>2, <2>3 DEF Poll
<1> QED
  BY <1>2, <1>3

LEMMA OwnPcbGone ==
  ASSUME OwnInv, Beside, NEW p \in Pcb, PcbLost(p) \/ PcbDone(p)
  PROVE  Rest' /\ wild' = wild
<1>1. PcbTypeOK /\ ListInv
  BY OwnParts, GuardParts
<1>2. PcbsLeave /\ tcp'[p] \notin Up /\ wild' = wild
  BY <1>1 DEF PcbLost, PcbDone, PcbTypeOK, PcbsLeave, Up
<1>3. CASE PcbLost(p) /\ ListDelete(arg[p]) /\ "err" \in cb[p] /\ arg[p] # NoConn
  <2>1. arg[p] \in live /\ cpcb[arg[p]] = p /\ arg[p] \notin Unlinked
    BY <1>1, <1>3, CallbackOwner DEF PcbLost, Hooked
  <2> QED
    BY <1>2, <1>3, <2>1, OwnDelete
<1>4. CASE UNCHANGED connVars
  BY <1>2, <1>4, OwnKeep DEF connVars
<1> QED
  BY <1>2, <1>3, <1>4 DEF PcbLost, PcbDone

\* The thread touches freed memory only where func_recv or func_sent_cb does.
LEMMA OwnComesIn ==
  ASSUME OwnInv, "close" \notin Faults, wild = "no", Thread, ComesIn
  PROVE  Rest' /\ wild' \in {"no", "callback"}
<1> Beside
  BY ThreadKeepsServer, OwnParts, GuardParts DEF Beside, ComesIn, Overtakes, TaskTypeOK
<1>1. ASSUME NEW p \in Pcb, NEW c \in Conn, Accept(p, c) PROVE Rest' /\ wild' = wild
  BY <1>1, OwnAccept
<1>2. CASE AcceptNoMem
  <2>1. PICK v \in Evicted : DeletePcb(v)
    BY <1>2 DEF AcceptNoMem
  <2>2. v \in live /\ v \notin Unlinked /\ ~BeingCleared(v)
    BY <1>2, EvictedIs, NoTask, OwnParts, GuardParts DEF AcceptNoMem, BeingCleared, ConnTypeOK
  <2> QED
    BY <2>1, <2>2, OwnDeletePcb
<1>3. ASSUME NEW p \in Pcb, Recv(p) \/ Sent(p) PROVE Rest' /\ wild' \in {"no", "callback"}
  BY <1>3, OwnCallback DEF Recv, Sent, Keep, CloseInCallback
<1>4. ASSUME NEW p \in Pcb, Fin(p) \/ Poll(p) PROVE Rest' /\ wild' = wild
  BY <1>4, OwnFin, OwnPoll
<1>5. ASSUME NEW p \in Pcb, PcbLost(p) \/ PcbDone(p) PROVE Rest' /\ wild' = wild
  BY <1>5, OwnPcbGone
<1> QED
  BY <1>1, <1>2, <1>3, <1>4, <1>5 DEF Thread

(***************************************************************************)
(* The statements of tcpsrv_close.                                         *)
(***************************************************************************)
Touches == TouchFreed("close") /\ UNCHANGED <<taskVars, overtaken>>

LEMMA OwnTouches == ASSUME OwnInv, Touches PROVE Rest'
<1>1. Beside
  BY OwnParts, GuardParts DEF Touches, TouchFreed, Beside, TaskTypeOK
<1> QED
  BY <1>1, OwnSame DEF Touches, TouchFreed

\* a statement that touches no pcb, and of the connections only its own
LEMMA OwnHand ==
  ASSUME OwnInv, at \notin Cleared, UNCHANGED pcbVars, live' \subseteq live,
         \A d \in live' : \/ cpcb'[d] = cpcb[d] /\ state'[d] = state[d]
                          \/ state'[d] = "CLOSED" /\ cpcb'[d] = NoPcb
                          \/ cpcb'[d] = NoPcb /\ state'[d] = state[d],
         \A d \in live : \/ cpcb[d] = NoPcb
                         \/ d \in live' /\ cpcb'[d] = cpcb[d]
                         \/ tcp[cpcb[d]] \notin Up,
         Clearing'
  PROVE  Rest'
<1>1. NothingWaits /\ AllOrNone /\ EstablishedIsListed /\ NoPcb \notin Pcb
  BY OwnParts, GuardParts
<1>2. NothingWaits'
  BY <1>1 DEF NothingWaits, Open
<1>3. AllOrNone'
  BY <1>1 DEF AllOrNone, pcbVars
<1>4. EstablishedIsListed'
  <2> SUFFICES ASSUME NEW q \in Pcb, tcp[q] \in Up
               PROVE  \E d \in live' : cpcb'[d] = q
    BY DEF EstablishedIsListed, Up, pcbVars
  <2>1. PICK d \in live : cpcb[d] = q
    BY <1>1 DEF EstablishedIsListed, Up
  <2> QED
    BY <1>1, <2>1
<1> QED
  BY <1>2, <1>3, <1>4 DEF Rest

LEMMA OwnHeadOrEnd == ASSUME OwnInv, CloseHead \/ CloseEnd \/ CloseBegin \/ Start PROVE Rest'
<1>1. /\ UNCHANGED <<live, state, cpcb, pcbVars>>
      /\ at \notin Cleared /\ at' \in {"head", "idle", "find"}
  BY NoTask, OwnParts, GuardParts
     DEF CloseHead, CloseEnd, CloseBegin, Start, coreVars, connVars, taskVars, Cleared
<1>2. Clearing'
  BY <1>1 DEF Clearing, Cleared, Past
<1> QED
  BY <1>1, <1>2, OwnHand

LEMMA OwnFind == ASSUME OwnInv, CloseFind, ~Touches PROVE Rest'
<1>1. /\ IF Found(ts) = {} THEN at' = "state" /\ UNCHANGED tp
         ELSE at' = "arg" /\ tp' \in Found(ts)
      /\ UNCHANGED <<connVars, pcbVars, ts>> /\ at = "find"
  BY DEF CloseFind, UseIf, Touches
<1>2. CASE Found(ts) = {}
  <2>1. ts \in live => cpcb[ts] = NoPcb
    BY <1>1, <1>2, OwnerOf DEF BeingCleared, Found
  <2> QED
    BY <1>1, <1>2, <2>1, OwnHand DEF Clearing, Cleared, Past, connVars
<1>3. CASE Found(ts) # {}
  <2>1. tp' \in Pcb /\ cpcb[ts] = tp' /\ arg[tp'] = ts /\ at' = "arg"
    BY <1>1, <1>3 DEF Found
  <2>2. tcp[tp'] \in Up => ts \in live
    <3>1. tcp[tp'] \in Up => \E d \in live : cpcb[d] = tp'
      BY <2>1, OwnParts DEF EstablishedIsListed, Up
    <3>2. \A d \in live : cpcb[d] = tp' => arg[tp'] = d
      BY <1>1, <2>1, OwnerOf, OwnParts, GuardParts DEF BeingCleared
    <3> QED
      BY <2>1, <3>1, <3>2
  <2>3. ts \in live => Open(ts)
    BY <2>1, OwnerOf, OwnParts, GuardParts
  <2>4. Clearing'
    BY <1>1, <2>1, <2>2, <2>3 DEF Clearing, Cleared, Past, connVars, pcbVars, Open
  <2> QED
    BY <1>1, <2>4, OwnHand DEF connVars, Cleared
<1> QED
  BY <1>2, <1>3

LEMMA OwnClear == ASSUME OwnInv, ClearArg \/ ClearCallback, ~Touches PROVE Rest'
<1>1. /\ NothingWaits /\ AllOrNone /\ Clearing /\ EstablishedIsListed
      /\ PcbTypeOK /\ TaskInv /\ TaskTypeOK
  BY OwnParts, GuardParts
<1>2. /\ UNCHANGED <<connVars, tcp, ts, tp>>
      /\ at \in Cleared \union {"arg"} /\ at' \in Cleared
      /\ \A q \in Pcb \ {tp} : arg'[q] = arg[q] /\ cb'[q] = cb[q]
      /\ cb[tp] \subseteq Callbacks /\ tp \in Pcb
  <2>1. tp \in Pcb
    BY <1>1 DEF ClearArg, ClearCallback, TaskInv, Cleared, Callbacks
  <2>2. CASE ClearArg
    BY <1>1, <2>1, <2>2 DEF ClearArg, UseIf, Touches, PcbTypeOK, Cleared
  <2>3. CASE ClearCallback
    BY <1>1, <2>1, <2>3 DEF ClearCallback, UseIf, Touches, PcbTypeOK, Cleared, Callbacks, AfterClear
  <2> QED
    BY <2>2, <2>3
<1>3. cb'[tp] \subseteq Left[at']
  <2>1. CASE ClearArg
    BY <1>1, <1>2, <2>1 DEF ClearArg, UseIf, Touches, Left, Cleared
  <2>2. CASE ClearCallback
    <3>1. arg[tp] = NoConn /\ at \in Callbacks /\ at' = AfterClear[at] /\ cb'[tp] = cb[tp] \ {at}
      BY <1>1, <1>2, <2>2 DEF ClearCallback, UseIf, Touches, TaskInv, PcbTypeOK, Callbacks, Cleared
    <3>2. cb[tp] \subseteq Left[at]
      BY <1>1, <1>2, <3>1 DEF AllOrNone
    <3> QED
      BY <3>1, <3>2 DEF Left, AfterClear, Callbacks
  <2> QED
    BY <2>1, <2>2
<1>4. AllOrNone'
  BY <1>1, <1>2, <1>3 DEF AllOrNone
<1>5. NothingWaits' /\ EstablishedIsListed' /\ Clearing'
  BY <1>1, <1>2 DEF NothingWaits, EstablishedIsListed, Clearing, connVars, Open, Cleared, Past
<1> QED
  BY <1>4, <1>5 DEF Rest

LEMMA OwnClose == ASSUME OwnInv, "close" \notin Faults, ClosePcb, ~Touches PROVE Rest'
<1>1. /\ NothingWaits /\ AllOrNone /\ Clearing /\ EstablishedIsListed
      /\ PcbTypeOK /\ TaskInv /\ TaskTypeOK /\ NoPcb \notin Pcb
  BY OwnParts, GuardParts
<1>2. PICK after \in Dropped(tcp[tp]) : tcp' = [tcp EXCEPT ![tp] = after]
  BY DEF ClosePcb, UseIf, Touches
<1>3. /\ UNCHANGED <<connVars, arg, cb, ts>>
      /\ at = "close" /\ at' = "forget" /\ tp' = NoPcb /\ tp \in Pcb
  BY <1>1 DEF ClosePcb, UseIf, Touches, TaskInv, Cleared
<1>4. after \notin Up
  BY ClosedLeavesUp DEF Dropped
<1>5. tcp'[tp] \notin Up /\ \A q \in Pcb \ {tp} : tcp'[q] = tcp[q]
  BY <1>1, <1>2, <1>3, <1>4 DEF PcbTypeOK
<1>6. AllOrNone'
  BY <1>1, <1>3 DEF AllOrNone, TaskInv, Cleared, Left
<1>7. NothingWaits' /\ EstablishedIsListed'
  BY <1>1, <1>3, <1>5 DEF NothingWaits, EstablishedIsListed, connVars, Open, Up
<1>8. Clearing'
  <2>1. ts \in live /\ cpcb[ts] # NoPcb => Open(ts) /\ cpcb[ts] = tp
    BY <1>1, <1>3 DEF Clearing, NothingWaits, Cleared
  <2> QED
    BY <1>3, <1>5, <2>1 DEF Clearing, Cleared, Past, connVars, Open
<1> QED
  BY <1>6, <1>7, <1>8 DEF Rest

LEMMA OwnForget == ASSUME OwnInv, ForgetPcb, ~Touches PROVE Rest'
<1>1. /\ Clearing /\ NothingWaits /\ ConnTypeOK /\ live \subseteq Conn
  BY OwnParts, GuardParts DEF ConnTypeOK
<1>2. /\ cpcb' = [cpcb EXCEPT ![ts] = NoPcb] /\ at = "forget" /\ at' = "state"
      /\ UNCHANGED <<live, state, ts, pcbVars>>
  BY DEF ForgetPcb, UseIf, Touches
<1>3. Clearing'
  BY <1>1, <1>2 DEF Clearing, Cleared, Past, ConnTypeOK
<1>4. \A d \in live : d # ts => cpcb'[d] = cpcb[d]
  BY <1>1, <1>2 DEF ConnTypeOK
<1>5. ts \in live /\ cpcb[ts] # NoPcb => tcp[cpcb[ts]] \notin Up
  BY <1>1, <1>2 DEF Clearing
<1>6. ts \in live => cpcb'[ts] = NoPcb
  BY <1>1, <1>2 DEF ConnTypeOK
<1> QED
  BY <1>1, <1>2, <1>3, <1>4, <1>5, <1>6, OwnHand DEF Cleared

LEMMA OwnMark == ASSUME OwnInv, MarkClosed, ~Touches PROVE Rest'
<1>1. /\ Clearing /\ ConnTypeOK /\ live \subseteq Conn
  BY OwnParts, GuardParts DEF ConnTypeOK
<1>2. /\ state' = [state EXCEPT ![ts] = "CLOSED"] /\ at = "state" /\ at' \in {"unlink", "discon"}
      /\ UNCHANGED <<live, cpcb, ts, pcbVars>>
  BY DEF MarkClosed, UseIf, Touches
<1>3. ts \in live => cpcb[ts] = NoPcb
  BY <1>1, <1>2 DEF Clearing, Past, Cleared
<1>4. Clearing'
  BY <1>2, <1>3 DEF Clearing, Cleared, Past
<1>5. \A d \in live : d = ts \/ state'[d] = state[d]
  BY <1>1, <1>2 DEF ConnTypeOK
<1>6. ts \in live => state'[ts] = "CLOSED"
  BY <1>1, <1>2 DEF ConnTypeOK
<1> QED
  BY <1>2, <1>3, <1>4, <1>5, <1>6, OwnHand DEF Cleared

LEMMA OwnDiscon == ASSUME OwnInv, Disconnected, ~Touches PROVE Rest'
<1>1. /\ Clearing /\ ConnTypeOK /\ live \subseteq Conn
  BY OwnParts, GuardParts DEF ConnTypeOK
<1>2. /\ cpcb' = [cpcb EXCEPT ![ts] = NoPcb] /\ at = "discon"
      /\ (at' = "head" \/ (at' = "unlink" /\ ts' = ts))
      /\ UNCHANGED <<live, state, pcbVars>>
  BY DEF Disconnected, UseIf, Touches
<1>3. ts \in live => cpcb[ts] = NoPcb
  BY <1>1, <1>2 DEF Clearing, Past, Cleared
<1>4. \A d \in live : cpcb'[d] = cpcb[d]
  BY <1>1, <1>2, <1>3 DEF ConnTypeOK
<1>5. Clearing'
  BY <1>2, <1>3, <1>4 DEF Clearing, Cleared, Past
<1> QED
  BY <1>2, <1>4, <1>5, OwnHand DEF Cleared

LEMMA OwnUnlink ==
  ASSUME OwnInv, LoadNext \/ StoreNext \/ LoadCount \/ StoreCount, ~Touches
  PROVE  Rest'
<1>1. Clearing
  BY OwnParts
<1>2. /\ at \in {"unlink", "store", "count", "dec"} /\ at' \in {"store", "count", "dec", "free"}
      /\ UNCHANGED <<live, state, cpcb, ts, pcbVars>>
  BY DEF LoadNext, StoreNext, LoadCount, StoreCount, UseIf, Touches, connVars
<1>3. Clearing'
  BY <1>1, <1>2 DEF Clearing, Cleared, Past
<1> QED
  BY <1>2, <1>3, OwnHand DEF Cleared

LEMMA OwnFree == ASSUME OwnInv, FreeIt, ~Touches PROVE Rest'
<1>1. ConnTypeOK /\ TaskInv /\ live \subseteq Conn
  BY OwnParts, GuardParts DEF ConnTypeOK
<1>2. /\ live' = live \ {ts} /\ state' = [state EXCEPT ![ts] = "NONE"]
      /\ at = "free" /\ at' = "head" /\ UNCHANGED <<cpcb, pcbVars>>
  BY DEF FreeIt, UseIf, Touches
<1>3. Clearing'
  BY <1>2 DEF Clearing, Cleared, Past
<1>4. cpcb[ts] = NoPcb
  BY <1>1, <1>2 DEF TaskInv
<1>5. \A d \in live' : state'[d] = state[d]
  BY <1>1, <1>2 DEF ConnTypeOK
<1> QED
  BY <1>2, <1>3, <1>4, <1>5, OwnHand DEF Cleared

LEMMA OwnCloseStep == ASSUME OwnInv, "close" \notin Faults, CloseStep PROVE Rest'
  BY OwnTouches, OwnHeadOrEnd, OwnFind, OwnClear, OwnClose, OwnForget, OwnMark, OwnDiscon, OwnUnlink, OwnFree
     DEF CloseStep

LEMMA OwnInvNext == ASSUME "close" \notin Faults PROVE OwnInv /\ [Next]_vars => OwnInv'
<1> SUFFICES ASSUME OwnInv, [Next]_vars PROVE OwnInv'
  OBVIOUS
<1>1. GuardInv'
  BY OwnParts, CallbacksAreUp, GuardInvNext, ListInvNext, ClosingStep DEF GuardInv, WaitInv
<1>2. CASE UNCHANGED vars
  <2>1. Beside
    BY <1>2, OwnParts, GuardParts DEF vars, coreVars, Beside, TaskTypeOK
  <2> QED
    BY <1>1, <1>2, <2>1, OwnSame DEF vars, coreVars, OwnInv
<1> QED
  BY <1>1, <1>2, OwnComesIn, OwnCloseStep, OwnHeadOrEnd DEF Next, Running, OwnInv

LEMMA OwnInvAlways == ASSUME "close" \notin Faults PROVE Spec => []OwnInv
<1>1. Init => OwnInv
  <2>1. Init => WaitInv
    BY ListInvInit DEF Init, WaitInv, NeverCounted, Phased
  <2> QED
    BY <2>1 DEF Init, OwnInv, Rest, GuardInv, OpenOwnsPcb, NothingWaits, AllOrNone, Clearing, Cleared, Past,
                EstablishedIsListed
<1> QED
  BY <1>1, OwnInvNext, PTL DEF Spec

(***************************************************************************)
(* While tcp_close never fails, an open connection owns its pcb until      *)
(* tcpsrv_close begins to clear it: lwIP still has it, and all its         *)
(* callbacks come back to this connection.                                 *)
(***************************************************************************)
THEOREM OpenAlwaysOwnsPcb == ASSUME "close" \notin Faults PROVE Spec => []OpenOwnsPcb
<1>1. OwnInv => OpenOwnsPcb
  BY OwnParts, GuardParts
<1> QED
  BY <1>1, OwnInvAlways, PTL

(***************************************************************************)
(* While tcp_close never fails, no callback of an active pcb leads to a    *)
(* freed connection or to one with another pcb, wherever in tcpsrv_close   *)
(* the thread comes in; it leads to none only on the pcb being cleared.    *)
(***************************************************************************)
THEOREM CallbackNeverStale == ASSUME "close" \notin Faults PROVE Spec => []NoStaleCallback
  BY CallbacksAreUp, OwnInvAlways, PTL

(***************************************************************************)
(* While tcp_close never fails, the server never forgets a connection that *)
(* lwIP keeps alive.                                                       *)
(***************************************************************************)
THEOREM EstablishedAlwaysListed == ASSUME "close" \notin Faults PROVE Spec => []EstablishedIsListed
<1>1. OwnInv => EstablishedIsListed
  BY OwnParts
<1> QED
  BY <1>1, OwnInvAlways, PTL

-----------------------------------------------------------------------------
\* What the task holds is still allocated unless the thread has freed it.
HeldInv ==
  /\ at \notin {"idle", "head"} /\ ts \notin live => overtaken
  /\ tp \in Pcb /\ tcp[tp] = "FREE" => overtaken
  /\ next \in Conn /\ next \notin live => overtaken
  /\ next # NoConn => at = "store"

WildInv == OwnInv /\ HeldInv /\ WildOnlyFor

LEMMA HeldThread == ASSUME WildInv, ComesIn PROVE HeldInv'
  BY DEF WildInv, HeldInv, ComesIn, Overtakes, taskVars

LEMMA HeldTask == ASSUME WildInv, CloseStep, ~Touches PROVE HeldInv' /\ wild' = wild
<1>1. /\ HeldInv /\ ConnTypeOK /\ TaskTypeOK /\ TaskInv /\ ListMatchesHeap
      /\ NoPcb \notin Pcb /\ NoConn \notin Conn /\ live \subseteq Conn
  BY OwnParts, GuardParts DEF WildInv, ConnTypeOK
<1>2. CASE CloseHead
  <2>1. Head(links) \in live
    BY <1>1, <1>2, TailRemoves DEF CloseHead, ConnTypeOK, ListMatchesHeap, Listed, Distinct
  <2> QED
    BY <1>1, <1>2, <2>1 DEF CloseHead, coreVars, connVars, pcbVars, HeldInv
<1>3. CASE CloseEnd
  BY <1>1, <1>3 DEF CloseEnd, pcbVars, HeldInv
<1>4. CASE CloseFind
  <2>1. tp' \in Found(ts) => tcp[tp'] # "FREE"
    BY <1>1, <1>4 DEF CloseFind, UseIf, Touches, StalePcb, Found
  <2>2. at' \in {"state", "arg"} /\ at = "find" /\ (tp' = tp \/ tp' \in Found(ts))
    BY <1>4 DEF CloseFind, UseIf, Touches
  <2> QED
    BY <1>1, <1>4, <2>1, <2>2 DEF CloseFind, UseIf, Touches, connVars, pcbVars, HeldInv
<1>5. CASE ClearArg \/ ClearCallback
  BY <1>1, <1>5 DEF ClearArg, ClearCallback, UseIf, Touches, connVars, HeldInv, Callbacks
<1>6. CASE ClosePcb
  BY <1>1, <1>6 DEF ClosePcb, UseIf, Touches, connVars, HeldInv
<1>7. CASE ForgetPcb
  BY <1>1, <1>7 DEF ForgetPcb, UseIf, Touches, pcbVars, HeldInv
<1>8. CASE MarkClosed
  BY <1>1, <1>8 DEF MarkClosed, UseIf, Touches, pcbVars, HeldInv
<1>9. CASE Disconnected
  BY <1>1, <1>9 DEF Disconnected, UseIf, Touches, pcbVars, HeldInv
<1>10. CASE LoadNext
  <2>1. Len(links) > 1 => links[2] \in live
    BY <1>1, <1>10 DEF LoadNext, ConnTypeOK, ListMatchesHeap, Listed, Unlinked, Range
  <2> QED
    BY <1>1, <1>10, <2>1 DEF LoadNext, UseIf, Touches, connVars, pcbVars, HeldInv
<1>11. CASE StoreNext
  BY <1>1, <1>11 DEF StoreNext, UseIf, Touches, pcbVars, HeldInv
<1>12. CASE LoadCount \/ StoreCount
  BY <1>1, <1>12 DEF LoadCount, StoreCount, UseIf, Touches, connVars, pcbVars, HeldInv
<1>13. CASE FreeIt
  BY <1>1, <1>13 DEF FreeIt, UseIf, Touches, pcbVars, HeldInv
<1> QED
  BY <1>2, <1>3, <1>4, <1>5, <1>6, <1>7, <1>8, <1>9, <1>10, <1>11, <1>12, <1>13 DEF CloseStep

\* The task touches freed memory only when it has been overtaken.
LEMMA TouchesOvertaken == ASSUME WildInv, CloseStep, Touches, wild = "no" PROVE overtaken
<1>1. HeldInv /\ TaskInv /\ TaskTypeOK /\ wild' = "close"
  BY OwnParts, GuardParts DEF WildInv, Touches, TouchFreed
<1>2. CASE CloseHead \/ CloseEnd
  BY <1>1, <1>2 DEF CloseHead, CloseEnd, coreVars
<1>3. CASE CloseFind
  <2>1. ts \in live => ~StalePcb(ts)
    BY <1>3, OwnerOf DEF WildInv, CloseFind, BeingCleared, StalePcb, Up
  <2> QED
    BY <1>1, <1>3, <2>1 DEF CloseFind, UseIf, ConnThere, HeldInv
<1>4. CASE ClearArg \/ ClearCallback \/ ClosePcb
  <2>1. at \in Cleared \union {"arg"} /\ ~PcbThere
    BY <1>1, <1>4 DEF ClearArg, ClearCallback, ClosePcb, UseIf, Cleared, Callbacks
  <2> QED
    BY <1>1, <2>1 DEF TaskInv, HeldInv, PcbThere
<1>5. CASE ForgetPcb \/ MarkClosed \/ Disconnected \/ LoadNext \/ LoadCount \/ StoreCount \/ FreeIt
  <2>1. at \notin {"idle", "head"} /\ ~ConnThere
    BY <1>1, <1>5 DEF ForgetPcb, MarkClosed, Disconnected, LoadNext, LoadCount, StoreCount, FreeIt, UseIf
  <2> QED
    BY <1>1, <2>1 DEF HeldInv, ConnThere
<1>6. CASE StoreNext
  <2>1. at = "store" /\ ~(ConnThere /\ next \in live \union {NoConn})
    BY <1>1, <1>6 DEF StoreNext, UseIf
  <2> QED
    BY <1>1, <2>1 DEF HeldInv, ConnThere, TaskTypeOK
<1> QED
  BY <1>2, <1>3, <1>4, <1>5, <1>6 DEF CloseStep

LEMMA WildInvNext == ASSUME "close" \notin Faults PROVE WildInv /\ [Next]_vars => WildInv'
<1> SUFFICES ASSUME WildInv, [Next]_vars PROVE HeldInv' /\ WildOnlyFor'
  BY OwnInvNext DEF WildInv
<1>1. OwnInv /\ HeldInv /\ WildOnlyFor
  BY DEF WildInv
<1>2. CASE UNCHANGED vars
  BY <1>1, <1>2 DEF vars, coreVars, connVars, pcbVars, taskVars, HeldInv, WildOnlyFor
<1>3. CASE wild = "no" /\ Thread /\ ComesIn
  BY <1>1, <1>3, HeldThread, OwnComesIn DEF WildOnlyFor
<1>4. CASE wild = "no" /\ (Start \/ CloseBegin)
  <2>1. at = "idle" /\ ts = NoConn /\ tp \notin Pcb
    BY <1>1, <1>4, NoTask, OwnParts, GuardParts DEF Start, CloseBegin
  <2> QED
    BY <1>1, <1>4, <2>1 DEF Start, CloseBegin, connVars, pcbVars, taskVars, HeldInv, WildOnlyFor
<1>5. CASE wild = "no" /\ CloseStep /\ ~Touches
  BY <1>5, HeldTask DEF WildOnlyFor
<1>6. CASE wild = "no" /\ CloseStep /\ Touches
  BY <1>1, <1>6, TouchesOvertaken
     DEF Touches, TouchFreed, taskVars, connVars, pcbVars, HeldInv, WildOnlyFor
<1> QED
  BY <1>2, <1>3, <1>4, <1>5, <1>6 DEF Next, Running

(***************************************************************************)
(* While tcp_close never fails, freed memory is touched in two ways only:  *)
(* a callback's caller goes on with a connection that the layer above has  *)
(* closed in the callback, and tcpsrv_close with something the thread has  *)
(* freed between two of its statements.  Timeouts, evictions, errors and   *)
(* the walk of the list lead to no other.                                  *)
(***************************************************************************)
THEOREM FreedTouchedOnlyFor == ASSUME "close" \notin Faults PROVE Spec => []WildOnlyFor
<1>1. Init => WildInv
  <2>1. Init => WaitInv
    BY ListInvInit DEF Init, WaitInv, NeverCounted, Phased
  <2>2. Init => OwnInv
    BY <2>1 DEF Init, OwnInv, Rest, GuardInv, OpenOwnsPcb, NothingWaits, AllOrNone, Clearing, Cleared, Past,
                EstablishedIsListed
  <2> QED
    BY <2>2, ConstantsAssumption DEF Init, WildInv, HeldInv, WildOnlyFor
<1>2. WildInv => WildOnlyFor
  BY DEF WildInv
<1> QED
  BY <1>1, <1>2, WildInvNext, PTL DEF Spec
=============================================================================
