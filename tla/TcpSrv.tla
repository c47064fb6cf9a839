------------------------------ MODULE TcpSrv ------------------------------
(***************************************************************************)
(* The TCP server layer of project/src/tcpsrv/tcp_srv_conn.c: one          *)
(* TCP_SERV_CFG, its list of TCP_SERV_CONN, and the lwIP control blocks    *)
(* (tcp_pcb) whose callbacks it registers.                                 *)
(*                                                                         *)
(* Every callback runs to completion in the tcpip thread, so each is one   *)
(* action.  tcpsrv_close is called from a task of lower priority, with no  *)
(* lock: the thread can come in between any two of its statements, so each *)
(* statement that reads or writes what the callbacks share is an action,   *)
(* and x = x->next and n-- are a load and a store.  A call of lwIP         *)
(* (tcp_close, find_tcp_pcb's search of its lists) is one step.            *)
(*                                                                         *)
(* The heap is part of the model: a connection that was freed may be       *)
(* allocated again, and so may a control block.  When the code touches a   *)
(* freed one, wild says which code did and the model stops: the C program  *)
(* has no defined behaviour from there on.                                 *)
(***************************************************************************)
EXTENDS Naturals, Sequences, SequencesExt, FiniteSets

CONSTANTS
  Conn,            \* the heap blocks a TCP_SERV_CONN can occupy
  Pcb,             \* the heap blocks a tcp_pcb can occupy
  NoConn, NoPcb,   \* NULL of either type
  MaxConn,         \* max_conn
  TimeWaitRec,     \* time_wait_rec, in polls; 0 = wait for ever
  TimeWaitCls,     \* time_wait_cls, in polls; 0 = wait for ever
  SrvReopen,       \* flag.srv_reopen
  PcbTimeWaitFree, \* flag.pcb_time_wait_free
  MaxTimeWait,     \* MAX_TIME_WAIT_PCB
  Faults           \* which failures the environment may produce

\* "close":    tcp_close fails for want of memory
\* "write":    tcp_write fails inside a callback of the layer above
\* "recvdisc": func_recv calls tcpsrv_disconnect before it returns
\* "nomem":    an allocation fails (a received segment is refused, a new
\*             connection gets no memory)
AllFaults == {"close", "write", "recvdisc", "nomem"}

ASSUME ConstantsAssumption ==
  /\ NoConn \notin Conn
  /\ NoPcb \notin Pcb
  /\ MaxConn \in Nat \ {0}
  /\ TimeWaitRec \in Nat /\ TimeWaitCls \in Nat
  /\ SrvReopen \in BOOLEAN /\ PcbTimeWaitFree \in BOOLEAN
  /\ MaxTimeWait \in Nat
  /\ Faults \subseteq AllFaults

VARIABLES
  srv,    \* "down", "up" (linked into phcfg) or "closing" (tcpsrv_close runs)
  links,  \* conn_links, head first
  count,  \* conn_count
  live,   \* the connections that are allocated
  state,  \* ts_conn->state
  check,  \* ts_conn->recv_check
  cpcb,   \* ts_conn->pcb
  rxnull, \* connections with flag.rx_null
  txnull, \* connections with flag.tx_null
  tcp,    \* pcb->state; "FREE" = not allocated
  arg,    \* pcb->callback_arg
  cb,     \* the callbacks registered on the pcb
  wild,   \* which code touched freed memory, "no" while none has
  at,     \* where the task is in tcpsrv_close and what it calls, "idle" outside
  ts,     \* ts_conn in tspsrv_delete_pcb and tcpsrv_list_delete
  tp,     \* pcb in tspsrv_delete_pcb
  next,   \* ts_conn->next, loaded to be stored in the list
  num,    \* conn_count, loaded to be stored less one
  alone,  \* phcfg is NULL: tcpsrv_close has unlinked the last TCP_SERV_CFG
  overtaken \* history: the thread has freed what the task had in its hands

connVars == <<links, count, live, state, check, cpcb, rxnull, txnull>>
pcbVars == <<tcp, arg, cb>>
coreVars == <<srv, connVars, pcbVars, wild>>
taskVars == <<at, ts, tp, next, num, alone>>
vars == <<coreVars, taskVars, overtaken>>

SrvStates == {"down", "up", "closing"}
ConnStates == {"NONE", "CLOSEWAIT", "LISTEN", "CONNECT", "CLOSED"}
\* CLOSING stands for FIN_WAIT_1, FIN_WAIT_2, CLOSING and LAST_ACK: our FIN is out.
TcpStates == {"FREE", "ESTABLISHED", "CLOSE_WAIT", "CLOSING", "TIME_WAIT"}
Active == {"ESTABLISHED", "CLOSE_WAIT", "CLOSING"}  \* on tcp_active_pcbs
Callbacks == {"recv", "sent", "err", "poll"}
Wilds == {"no", "callback", "poll", "fin", "accept", "close"}
\* the statements of tspsrv_delete_pcb and tcpsrv_list_delete at which the
\* thread can come in, in their order
Points == {"idle", "head", "find", "arg", "recv", "err", "poll", "sent", "close", "forget",
           "state", "discon", "unlink", "store", "count", "dec", "free"}
RecvCheckMod == 65536                               \* uint16 recv_check

Init ==
  /\ srv = "down" /\ links = <<>> /\ count = 0 /\ live = {}
  /\ state = [c \in Conn |-> "NONE"]
  /\ check = [c \in Conn |-> 0]
  /\ cpcb = [c \in Conn |-> NoPcb]
  /\ rxnull = {} /\ txnull = {}
  /\ tcp = [p \in Pcb |-> "FREE"]
  /\ arg = [p \in Pcb |-> NoConn]
  /\ cb = [p \in Pcb |-> {}]
  /\ wild = "no"
  /\ at = "idle" /\ ts = NoConn /\ tp = NoPcb /\ next = NoConn /\ num = 0 /\ alone = FALSE
  /\ overtaken = FALSE

Open(c) == state[c] \in {"LISTEN", "CONNECT"}
PhcfgNull == alone
Listed == Range(links)
\* Operators marked "mutant" are plausible bugs in the operator that follows
\* them.  No action uses them; PROJECT.json says which property notices which.

\* mutant: the pointer that is changed is always that to the first node
UnlinkAtHead(seq, c) == SubSeq(seq, 1 + CHOOSE i \in DOMAIN seq : seq[i] = c, Len(seq))

Unlink(seq, c) == RemoveAt(seq, CHOOSE i \in DOMAIN seq : seq[i] = c)

\* the two outcomes of tcpsrv_list_delete
LosePcb(c) ==
  /\ state' = [state EXCEPT ![c] = "CLOSED"]
  /\ cpcb' = [cpcb EXCEPT ![c] = NoPcb]
  /\ UNCHANGED <<links, live, check, rxnull, txnull>>

FreeConn(c) ==
  /\ links' = Unlink(links, c)
  /\ count' = count - 1
  /\ live' = live \ {c}
  /\ state' = [state EXCEPT ![c] = "NONE"]
  /\ check' = [check EXCEPT ![c] = 0]
  /\ cpcb' = [cpcb EXCEPT ![c] = NoPcb]
  /\ rxnull' = rxnull \ {c}
  /\ txnull' = txnull \ {c}

\* mutant: conn_count is decremented before the early return too
ListDeleteCountsTwice(c) ==
  IF state[c] # "CLOSED" /\ PhcfgNull THEN LosePcb(c) /\ count' = count - 1 ELSE FreeConn(c)

(***************************************************************************)
(* tcpsrv_list_delete, called by the thread.  func_discon_cb is the        *)
(* default one (or the web server's, which calls it): it clears            *)
(* ts_conn->pcb.  While the server is the last one and is being closed,    *)
(* phcfg is NULL after the callback, and the first call returns with the   *)
(* node still linked; tcpsrv_close calls again and then state is already   *)
(* CLOSED.                                                                 *)
(***************************************************************************)
ListDelete(c) ==
  IF state[c] # "CLOSED" /\ PhcfgNull THEN LosePcb(c) /\ count' = count ELSE FreeConn(c)

(***************************************************************************)
(* lwIP's tcp_close: what a successful call leaves of a pcb in state s.    *)
(* With data the application has not taken, the pcb is reset at once.      *)
(***************************************************************************)
Closed(s) ==
  CASE s = "ESTABLISHED" -> {"CLOSING", "TIME_WAIT"}
    [] s = "CLOSE_WAIT"  -> {"CLOSING", "FREE"}
    [] OTHER             -> {s}

(***************************************************************************)
(* tcpsrv_server_close on connection c, whose pcb is in state s.  The      *)
(* first call takes the callbacks off the pcb; when tcp_close fails, poll  *)
(* is registered again, and it stays registered when a later call succeeds.*)
(***************************************************************************)
\* mutant: the callbacks stay on the pcb
CloseSucceedsKeepsCallbacks(c, s) ==
  LET p == cpcb[c] IN
  /\ \E after \in Closed(s) :
       /\ tcp' = [tcp EXCEPT ![p] = after]
       /\ cb' = [cb EXCEPT ![p] = IF after # "CLOSING" THEN {} ELSE @]
       /\ arg' = [arg EXCEPT ![p] = IF after = "CLOSING" THEN @ ELSE NoConn]
  /\ ListDelete(c)

CloseSucceeds(c, s) ==
  LET p == cpcb[c] IN
  /\ \E after \in Closed(s) :
       /\ tcp' = [tcp EXCEPT ![p] = after]
       /\ cb' = [cb EXCEPT ![p] = IF Open(c) \/ after # "CLOSING" THEN {} ELSE @]
       /\ arg' = [arg EXCEPT ![p] = IF after = "CLOSING" THEN @ ELSE NoConn]
  /\ ListDelete(c)

\* mutant: the receive and sent callbacks survive the failed close
CloseFailsKeepsCallbacks(c, s) ==
  /\ "close" \in Faults
  /\ s \in {"ESTABLISHED", "CLOSE_WAIT"}
  /\ tcp' = [tcp EXCEPT ![cpcb[c]] = s]
  /\ state' = [state EXCEPT ![c] = "CLOSEWAIT"]
  /\ UNCHANGED <<links, count, live, check, rxnull, txnull, cpcb, arg, cb>>

\* mutant: a retry that fails is counted
CloseFailsCounts(c, s) ==
  /\ "close" \in Faults
  /\ s \in {"ESTABLISHED", "CLOSE_WAIT"}
  /\ tcp' = [tcp EXCEPT ![cpcb[c]] = s]
  /\ cb' = [cb EXCEPT ![cpcb[c]] = {"poll"}]
  /\ state' = [state EXCEPT ![c] = "CLOSEWAIT"]
  /\ check' = [check EXCEPT ![c] = @ + 1]
  /\ UNCHANGED <<links, count, live, rxnull, txnull, cpcb, arg>>

CloseFails(c, s) ==
  LET p == cpcb[c] IN
  /\ "close" \in Faults
  /\ s \in {"ESTABLISHED", "CLOSE_WAIT"}
  /\ tcp' = [tcp EXCEPT ![p] = s]
  /\ cb' = [cb EXCEPT ![p] = (IF Open(c) THEN {} ELSE @) \union {"poll"}]
  /\ IF Open(c)
     THEN /\ state' = [state EXCEPT ![c] = "CLOSEWAIT"]
          /\ check' = [check EXCEPT ![c] = 0]
          /\ rxnull' = rxnull \union {c}
          /\ txnull' = txnull \union {c}
     ELSE UNCHANGED <<state, check, rxnull, txnull>>
  /\ UNCHANGED <<links, count, live, cpcb, arg>>

Abandon(c) ==
  LET p == cpcb[c] IN
  /\ tcp' = [tcp EXCEPT ![p] = "FREE"]
  /\ cb' = [cb EXCEPT ![p] = {}]
  /\ arg' = [arg EXCEPT ![p] = NoConn]
  /\ ListDelete(c)

ServerClose(c, s) ==
  IF ~Open(c) /\ check[c] > 3 /\ s # "TIME_WAIT"
  THEN Abandon(c)
  ELSE CloseSucceeds(c, s) \/ CloseFails(c, s)

TouchFreed(who) == wild' = who /\ UNCHANGED <<srv, connVars, pcbVars>>

\* the call as its callers make it: nothing without a pcb
CallServerClose(c, s, who) ==
  CASE cpcb[c] = NoPcb -> UNCHANGED coreVars
    [] cpcb[c] # NoPcb /\ tcp[cpcb[c]] = "FREE" -> TouchFreed(who)
    [] OTHER -> ServerClose(c, s) /\ UNCHANGED <<srv, wild>>

-----------------------------------------------------------------------------
(***************************************************************************)
(* What func_recv and func_sent_cb may do to their connection: leave it    *)
(* open, perhaps muting it (rx_null, tx_null), close it with               *)
(* tcpsrv_disconnect, or send with tcpsrv_int_sent_data and have tcp_write *)
(* fail, which closes it and then clears flag.busy_bufo in it.             *)
(* touchesAfter: the caller uses the connection once more after it.        *)
(***************************************************************************)
Keep(c) ==
  /\ state' = [state EXCEPT ![c] = "CONNECT"]
  /\ check' = [check EXCEPT ![c] = 0]
  /\ \E mute \in SUBSET {"rx", "tx"} :
       /\ rxnull' = IF "rx" \in mute THEN rxnull \union {c} ELSE rxnull
       /\ txnull' = IF "tx" \in mute THEN txnull \union {c} ELSE txnull
  /\ UNCHANGED <<srv, links, count, live, cpcb, pcbVars, wild>>

CloseInCallback(c, touchesAfter) ==
  /\ ServerClose(c, tcp[cpcb[c]])
  /\ wild' = IF touchesAfter /\ c \notin live' THEN "callback" ELSE "no"
  /\ UNCHANGED srv

\* tcpsrv_server_recv with data, for a connection that still takes data; with
\* rx_null the segment is acknowledged and dropped, without an argument it is
\* refused: nothing changes
Recv(p) ==
  LET c == arg[p] IN
  /\ tcp[p] = "ESTABLISHED" /\ "recv" \in cb[p] /\ c # NoConn /\ c \notin rxnull
  /\ \/ Keep(c)
     \/ "recvdisc" \in Faults /\ CloseInCallback(c, TRUE)
     \/ "write" \in Faults /\ CloseInCallback(c, TRUE)

\* tcpsrv_server_sent
Sent(p) ==
  LET c == arg[p] IN
  /\ tcp[p] \in {"ESTABLISHED", "CLOSE_WAIT"} /\ "sent" \in cb[p] /\ c # NoConn
  /\ IF c \in txnull
     THEN /\ state' = [state EXCEPT ![c] = "CONNECT"]
          /\ check' = [check EXCEPT ![c] = 0]
          /\ UNCHANGED <<srv, links, count, live, cpcb, rxnull, txnull, pcbVars, wild>>
     ELSE \/ Keep(c)
          \/ CloseInCallback(c, FALSE)
          \/ "write" \in Faults /\ CloseInCallback(c, TRUE)

\* The peer's FIN: tcpsrv_server_recv with p == NULL.  Behind a segment that
\* was refused for want of memory the callback is put off; without a recv
\* callback nothing is called, without an argument it does nothing.
Fin(p) ==
  /\ tcp[p] = "ESTABLISHED"
  /\ \/ /\ "recv" \notin cb[p] \/ arg[p] = NoConn \/ "nomem" \in Faults
        /\ tcp' = [tcp EXCEPT ![p] = "CLOSE_WAIT"]
        /\ UNCHANGED <<srv, connVars, arg, cb, wild>>
     \/ "recv" \in cb[p] /\ arg[p] # NoConn /\ CallServerClose(arg[p], "CLOSE_WAIT", "fin")

\* mutant: every poll starts counting again
CountAgain(c) == 0

\* recv_check++
Count(c) == (check[c] + 1) % RecvCheckMod

\* when tcpsrv_poll closes a connection
Expired(c, p) ==
  \/ tcp[p] # "ESTABLISHED"
  \/ state[c] = "LISTEN" /\ TimeWaitRec # 0 /\ Count(c) > TimeWaitRec
  \/ state[c] = "CONNECT" /\ TimeWaitCls # 0 /\ Count(c) > TimeWaitCls

\* a poll that finds no argument abandons the pcb
AbandonPcb(p) ==
  /\ tcp' = [tcp EXCEPT ![p] = "FREE"]
  /\ cb' = [cb EXCEPT ![p] = {}]
  /\ UNCHANGED <<srv, connVars, arg, wild>>

\* tcpsrv_poll: lwIP calls it from tcp_slowtmr on every active pcb
Poll(p) ==
  LET c == arg[p] IN
  /\ tcp[p] \in Active /\ "poll" \in cb[p]
  /\ IF c = NoConn THEN AbandonPcb(p)
     ELSE IF c \notin live THEN TouchFreed("poll")
     ELSE IF cpcb[c] # NoPcb /\ state[c] # "CLOSEWAIT" /\ ~Expired(c, p)
     THEN /\ check' = [check EXCEPT ![c] = Count(c)]
          /\ UNCHANGED <<srv, links, count, live, state, cpcb, rxnull, txnull, pcbVars, wild>>
     ELSE CallServerClose(c, tcp[cpcb[c]], "poll")

\* mutant: the error of a connection that has exchanged data is ignored
PcbLostIgnored(p) ==
  LET c == arg[p] IN
  /\ tcp[p] \in Active
  /\ tcp' = [tcp EXCEPT ![p] = "FREE"]
  /\ cb' = [cb EXCEPT ![p] = {}]
  /\ arg' = [arg EXCEPT ![p] = NoConn]
  /\ IF "err" \in cb[p] /\ c # NoConn /\ state[c] = "LISTEN" THEN ListDelete(c) ELSE UNCHANGED connVars
  /\ UNCHANGED <<srv, wild>>

\* tcpsrv_error: lwIP has lost the pcb (reset, retransmissions or keepalives
\* exhausted, data after our close) and frees it
PcbLost(p) ==
  LET c == arg[p] IN
  /\ tcp[p] \in Active
  /\ tcp' = [tcp EXCEPT ![p] = "FREE"]
  /\ cb' = [cb EXCEPT ![p] = {}]
  /\ arg' = [arg EXCEPT ![p] = NoConn]
  /\ IF "err" \in cb[p] /\ c # NoConn /\ state[c] # "CLOSEWAIT" /\ cpcb[c] # NoPcb
     THEN ListDelete(c)
     ELSE UNCHANGED connVars
  /\ UNCHANGED <<srv, wild>>

\* the closing handshake goes on inside lwIP, without callbacks
PcbDone(p) ==
  /\ \/ tcp[p] = "CLOSING" /\ tcp' \in {[tcp EXCEPT ![p] = s] : s \in {"TIME_WAIT", "FREE"}}
     \/ tcp[p] = "TIME_WAIT" /\ tcp' = [tcp EXCEPT ![p] = "FREE"]
  /\ cb' = [cb EXCEPT ![p] = {}]
  /\ arg' = [arg EXCEPT ![p] = NoConn]
  /\ UNCHANGED <<srv, connVars, wild>>
-----------------------------------------------------------------------------
\* find_tcp_pcb: the pcb of this very connection (same remote address)
Found(c) == {p \in Pcb : cpcb[c] = p /\ arg[p] = c}
StalePcb(c) == cpcb[c] # NoPcb /\ tcp[cpcb[c]] = "FREE"

\* mutant: tcp_close is not called
DroppedWithoutClose(s) == {s}

\* what tspsrv_delete_pcb, which ignores tcp_close's result, leaves of a pcb
Dropped(s) ==
  Closed(s) \union (IF "close" \in Faults /\ s \in {"ESTABLISHED", "CLOSE_WAIT"} THEN {s} ELSE {})

\* tspsrv_delete_pcb, called by the thread
DeletePcb(c) ==
  IF StalePcb(c) THEN TouchFreed("accept")
  ELSE /\ IF Found(c) = {} THEN UNCHANGED pcbVars
          ELSE \E p \in Found(c) : \E after \in Dropped(tcp[p]) :
                 /\ tcp' = [tcp EXCEPT ![p] = after]
                 /\ arg' = [arg EXCEPT ![p] = NoConn]
                 /\ cb' = [cb EXCEPT ![p] = {}]
       /\ ListDelete(c)
       /\ UNCHANGED <<srv, wild>>

(***************************************************************************)
(* tcpsrv_server_accept.  A refused connection is aborted by lwIP before   *)
(* anything is registered, so only accepting changes the state.  With      *)
(* srv_reopen a full server first deletes the head of conn_links.          *)
(***************************************************************************)
Evicted == IF count >= MaxConn /\ links # <<>> THEN {Head(links)} ELSE {}
TimeWait(t) == {q \in Pcb : t[q] = "TIME_WAIT"}

\* tcpsrv_check_max_tm_tcp_pcb: which TIME_WAIT pcbs it frees
Excess(t, kill) ==
  IF PcbTimeWaitFree
  THEN Cardinality(TimeWait(t) \ kill) =
         IF Cardinality(TimeWait(t)) > MaxTimeWait THEN MaxTimeWait ELSE Cardinality(TimeWait(t))
  ELSE kill = {}

Insert(p, c, gone, t, kill) ==
  LET put(f, new, old) == [d \in Conn |-> IF d = c THEN new ELSE IF d \in gone THEN old ELSE f[d]]
      left == kill \union UNION {Found(v) : v \in gone}
  IN /\ links' = <<c>> \o (IF gone = {} THEN links ELSE Tail(links))
     /\ count' = IF gone = {} THEN count + 1 ELSE count
     /\ live' = (live \ gone) \union {c}
     /\ state' = put(state, "LISTEN", "NONE")
     /\ check' = put(check, 0, 0)
     /\ cpcb' = put(cpcb, p, NoPcb)
     /\ rxnull' = rxnull \ ({c} \union gone)
     /\ txnull' = txnull \ ({c} \union gone)
     /\ tcp' = [q \in Pcb |-> IF q = p THEN "ESTABLISHED" ELSE IF q \in kill THEN "FREE" ELSE t[q]]
     /\ arg' = [q \in Pcb |-> IF q = p THEN c ELSE IF q \in left THEN NoConn ELSE arg[q]]
     /\ cb' = [q \in Pcb |-> IF q = p THEN Callbacks ELSE IF q \in left THEN {} ELSE cb[q]]
     /\ UNCHANGED <<srv, wild>>

Accept(p, c) ==
  /\ srv = "up" /\ tcp[p] = "FREE"
  /\ count < MaxConn \/ SrvReopen
  /\ IF \E v \in Evicted : StalePcb(v) THEN TouchFreed("accept")
     ELSE /\ c \notin live \ Evicted
          /\ \E after \in [UNION {Found(v) : v \in Evicted} -> TcpStates] :
               /\ \A q \in DOMAIN after : after[q] \in Dropped(tcp[q])
               /\ LET t == [q \in Pcb |-> IF q \in DOMAIN after THEN after[q] ELSE tcp[q]]
                  IN \E kill \in SUBSET TimeWait(t) :
                       Excess(t, kill) /\ Insert(p, c, Evicted, t, kill)

\* the eviction has happened, then os_zalloc fails
AcceptNoMem ==
  /\ srv = "up" /\ "nomem" \in Faults /\ SrvReopen
  /\ \E v \in Evicted : DeletePcb(v)

-----------------------------------------------------------------------------
\* tcpsrv_init and tcpsrv_start, when they succeed
Start ==
  /\ srv = "down" /\ srv' = "up"
  /\ UNCHANGED <<connVars, pcbVars, wild, taskVars, overtaken>>

(***************************************************************************)
(* tcpsrv_close, step by step.  CloseBegin unlinks the TCP_SERV_CFG: from  *)
(* then on tcpsrv_server_accept finds no server for the port and refuses   *)
(* every connection, so the list only gets shorter.                        *)
(***************************************************************************)
CloseBegin ==
  /\ srv = "up" /\ srv' = "closing"
  /\ at' = "head" /\ alone' \in BOOLEAN
  /\ UNCHANGED <<connVars, pcbVars, wild, ts, tp, next, num, overtaken>>

\* the last connection is gone and none can come: tcp_close of the listening
\* pcb and os_free of the TCP_SERV_CFG meet no callback
CloseEnd ==
  /\ at = "head" /\ links = <<>>
  /\ srv' = "down" /\ at' = "idle" /\ alone' = FALSE
  /\ count' = 0
  /\ UNCHANGED <<links, live, state, check, cpcb, rxnull, txnull, pcbVars, wild, ts, tp, next, num, overtaken>>

CloseHead ==
  /\ at = "head" /\ links # <<>>
  /\ at' = "find" /\ ts' = Head(links)
  /\ UNCHANGED <<coreVars, tp, next, num, alone, overtaken>>

\* a step that uses memory that may have been freed
UseIf(there, Step) ==
  IF there THEN Step /\ UNCHANGED <<wild, srv, overtaken>>
  ELSE TouchFreed("close") /\ UNCHANGED <<taskVars, overtaken>>

ConnThere == ts \in live
PcbThere == tcp[tp] # "FREE"

CloseFind ==
  /\ at = "find"
  /\ UseIf(ConnThere /\ ~StalePcb(ts),
           /\ IF Found(ts) = {} THEN at' = "state" /\ UNCHANGED tp
              ELSE at' = "arg" /\ tp' \in Found(ts)
           /\ UNCHANGED <<connVars, pcbVars, ts, next, num, alone>>)

ClearArg ==
  /\ at = "arg"
  /\ UseIf(PcbThere,
           /\ arg' = [arg EXCEPT ![tp] = NoConn]
           /\ at' = "recv"
           /\ UNCHANGED <<connVars, tcp, cb, ts, tp, next, num, alone>>)

\* the order in which the callbacks are taken off
AfterClear == [recv |-> "err", err |-> "poll", poll |-> "sent", sent |-> "close"]

ClearCallback ==
  /\ at \in Callbacks
  /\ UseIf(PcbThere,
           /\ cb' = [cb EXCEPT ![tp] = @ \ {at}]
           /\ at' = AfterClear[at]
           /\ UNCHANGED <<connVars, tcp, arg, ts, tp, next, num, alone>>)

\* tcp_recved, which changes nothing here, and tcp_close
ClosePcb ==
  /\ at = "close"
  /\ UseIf(PcbThere,
           /\ \E after \in Dropped(tcp[tp]) : tcp' = [tcp EXCEPT ![tp] = after]
           /\ at' = "forget" /\ tp' = NoPcb
           /\ UNCHANGED <<connVars, arg, cb, ts, next, num, alone>>)

ForgetPcb ==
  /\ at = "forget"
  /\ UseIf(ConnThere,
           /\ cpcb' = [cpcb EXCEPT ![ts] = NoPcb]
           /\ at' = "state"
           /\ UNCHANGED <<links, count, live, state, check, rxnull, txnull, pcbVars, ts, tp, next, num, alone>>)

\* mutant: the test of ts_conn->state is gone
MarkClosedAgain ==
  /\ at = "state"
  /\ UseIf(ConnThere,
           /\ state' = [state EXCEPT ![ts] = "CLOSED"]
           /\ at' = "discon"
           /\ UNCHANGED <<links, count, live, check, cpcb, rxnull, txnull, pcbVars, ts, tp, next, num, alone>>)

MarkClosed ==
  /\ at = "state"
  /\ UseIf(ConnThere,
           /\ state' = [state EXCEPT ![ts] = "CLOSED"]
           /\ at' = IF state[ts] = "CLOSED" THEN "unlink" ELSE "discon"
           /\ UNCHANGED <<links, count, live, check, cpcb, rxnull, txnull, pcbVars, ts, tp, next, num, alone>>)

\* func_discon_cb, and the early return when phcfg is NULL
Disconnected ==
  /\ at = "discon"
  /\ UseIf(ConnThere,
           /\ cpcb' = [cpcb EXCEPT ![ts] = NoPcb]
           /\ IF PhcfgNull THEN at' = "head" /\ ts' = NoConn ELSE at' = "unlink" /\ UNCHANGED ts
           /\ UNCHANGED <<links, count, live, state, check, rxnull, txnull, pcbVars, tp, next, num, alone>>)

\* The walk through the list ends at its head, for that is the connection.
LoadNext ==
  /\ at = "unlink"
  /\ UseIf(ConnThere,
           /\ next' = IF Len(links) > 1 THEN links[2] ELSE NoConn
           /\ at' = "store"
           /\ UNCHANGED <<connVars, pcbVars, ts, tp, num, alone>>)

\* Storing a pointer to a connection the thread has freed meanwhile counts as
\* touching it: conn_links begins with it and is read next.
StoreNext ==
  /\ at = "store"
  /\ UseIf(ConnThere /\ next \in live \union {NoConn},
           /\ links' = Tail(links)
           /\ at' = "count" /\ next' = NoConn
           /\ UNCHANGED <<count, live, state, check, cpcb, rxnull, txnull, pcbVars, ts, tp, num, alone>>)

LoadCount ==
  /\ at = "count"
  /\ UseIf(ConnThere,
           /\ num' = count
           /\ at' = "dec"
           /\ UNCHANGED <<connVars, pcbVars, ts, tp, next, alone>>)

StoreCount ==
  /\ at = "dec"
  /\ UseIf(ConnThere,
           /\ count' = num - 1
           /\ at' = "free" /\ num' = 0
           /\ UNCHANGED <<links, live, state, check, cpcb, rxnull, txnull, pcbVars, ts, tp, next, alone>>)

FreeIt ==
  /\ at = "free"
  /\ UseIf(ConnThere,
           /\ live' = live \ {ts}
           /\ state' = [state EXCEPT ![ts] = "NONE"]
           /\ check' = [check EXCEPT ![ts] = 0]
           /\ rxnull' = rxnull \ {ts}
           /\ txnull' = txnull \ {ts}
           /\ at' = "head" /\ ts' = NoConn
           /\ UNCHANGED <<links, count, cpcb, pcbVars, tp, next, num, alone>>)

\* what the task does by itself once tcpsrv_close has begun
CloseStep ==
  \/ CloseHead \/ CloseEnd
  \/ CloseFind
  \/ ClearArg \/ ClearCallback \/ ClosePcb \/ ForgetPcb
  \/ MarkClosed \/ Disconnected
  \/ LoadNext \/ StoreNext \/ LoadCount \/ StoreCount \/ FreeIt

-----------------------------------------------------------------------------
\* the callbacks, and what lwIP does by itself
Thread ==
  \/ \E p \in Pcb, c \in Conn : Accept(p, c)
  \/ AcceptNoMem
  \/ \E p \in Pcb : Recv(p)
  \/ \E p \in Pcb : Sent(p)
  \/ \E p \in Pcb : Fin(p)
  \/ \E p \in Pcb : Poll(p)
  \/ \E p \in Pcb : PcbLost(p)
  \/ \E p \in Pcb : PcbDone(p)

\* the thread frees the connection, the pcb or the next connection that the
\* task has in its hands
Overtakes ==
  \/ ts \in live /\ ts \notin live'
  \/ tp \in Pcb /\ tcp[tp] # "FREE" /\ tcp'[tp] = "FREE"
  \/ next \in live /\ next \notin live'

ComesIn == UNCHANGED taskVars /\ overtaken' = (overtaken \/ Overtakes)

Running == (Thread /\ ComesIn) \/ Start \/ CloseBegin \/ CloseStep

Next == wild = "no" /\ Running

Spec == Init /\ [][Next]_vars

\* tcp_slowtmr runs for ever, lwIP ends every handshake it has begun, and the
\* task in tcpsrv_close goes on
Fairness ==
  /\ \A p \in Pcb : /\ WF_vars(wild = "no" /\ Poll(p) /\ ComesIn)
                    /\ WF_vars(wild = "no" /\ PcbDone(p) /\ ComesIn)
  /\ WF_vars(wild = "no" /\ CloseStep)

FairSpec == Spec /\ Fairness

-----------------------------------------------------------------------------
TypeOK ==
  /\ srv \in SrvStates
  /\ links \in Seq(Conn)
  /\ count \in Nat
  /\ live \subseteq Conn /\ rxnull \subseteq Conn /\ txnull \subseteq Conn
  /\ state \in [Conn -> ConnStates]
  /\ check \in [Conn -> 0 .. RecvCheckMod - 1]
  /\ cpcb \in [Conn -> Pcb \union {NoPcb}]
  /\ tcp \in [Pcb -> TcpStates]
  /\ arg \in [Pcb -> Conn \union {NoConn}]
  /\ cb \in [Pcb -> SUBSET Callbacks]
  /\ wild \in Wilds
  /\ at \in Points
  /\ ts \in Conn \union {NoConn}
  /\ tp \in Pcb \union {NoPcb}
  /\ next \in Conn \union {NoConn}
  /\ num \in Nat
  /\ alone \in BOOLEAN
  /\ overtaken \in BOOLEAN

\* the connection tcpsrv_close has taken out of the list and not yet freed,
\* and how often conn_count is still to be decremented for it
Unlinked == IF at \in {"count", "dec", "free"} THEN {ts} ELSE {}
Uncounted == IF at \in {"count", "dec"} THEN 1 ELSE 0

(***************************************************************************)
(* conn_links, conn_count and the heap agree: the list holds exactly the   *)
(* allocated connections, each once, but for the one tcpsrv_close is just  *)
(* taking out.  So no connection is leaked and none is freed while listed. *)
(* While the server is not being closed conn_count is the length of the    *)
(* list, never above max_conn, so the limit check of tcpsrv_server_accept  *)
(* counts right; during the close it may be too large (a decrement of the  *)
(* thread between load and store is lost), never too small.                *)
(***************************************************************************)
ListMatchesHeap ==
  /\ \A i, j \in 1 .. Len(links) : links[i] = links[j] => i = j
  /\ Listed = live \ Unlinked
  /\ srv # "closing" => count = Len(links)
  /\ Len(links) + Uncounted <= count
  /\ count <= MaxConn

\* tcpsrv_close has begun to take the callbacks off the pcb of this connection
BeingCleared(c) == c = ts /\ at \in {"recv", "err", "poll", "sent", "close", "forget", "state"}

(***************************************************************************)
(* An open connection owns its pcb, until tcpsrv_close begins to clear it: *)
(* lwIP still has the pcb, and all its callbacks come back to this         *)
(* connection and to no other.                                             *)
(***************************************************************************)
OpenOwnsPcb ==
  \A c \in live : Open(c) /\ ~BeingCleared(c) =>
    /\ cpcb[c] \in Pcb
    /\ tcp[cpcb[c]] \in {"ESTABLISHED", "CLOSE_WAIT"}
    /\ arg[cpcb[c]] = c
    /\ cb[cpcb[c]] = Callbacks

(***************************************************************************)
(* No callback of an active pcb leads to a freed connection, nor to one    *)
(* that has another pcb by now.  It leads to none only on the pcb that     *)
(* tcpsrv_close is clearing.                                               *)
(***************************************************************************)
NoStaleCallback ==
  \A p \in Pcb : tcp[p] \in Active /\ cb[p] # {} =>
    \/ arg[p] \in live /\ cpcb[arg[p]] = p
    \/ arg[p] = NoConn /\ p = tp

(***************************************************************************)
(* lwIP does not keep a connection alive that the server has forgotten.    *)
(***************************************************************************)
EstablishedIsListed ==
  \A p \in Pcb : tcp[p] \in {"ESTABLISHED", "CLOSE_WAIT"} =>
    \E c \in live : cpcb[c] = p

(***************************************************************************)
(* The code touches freed memory in two ways only: the layer above closes  *)
(* a connection inside a callback whose caller goes on to use it, and the  *)
(* thread frees what the task in tcpsrv_close holds.  The callbacks by     *)
(* themselves, the timeouts, evictions and the deletions of other          *)
(* connections during a close do not lead to it.                           *)
(***************************************************************************)
WildOnlyFor == wild \in {"no", "callback"} \/ (wild = "close" /\ overtaken)

(***************************************************************************)
(* tcp_srv_conn.h:59 has a close tried up to three times; then             *)
(* tcpsrv_server_close abandons the pcb.  It never comes to that: the      *)
(* count of tries of a connection that waits to be closed stays 0, and a   *)
(* close that goes on failing is tried at every poll.                      *)
(***************************************************************************)
NeverForced == \A c \in live : state[c] = "CLOSEWAIT" => check[c] <= 3

(***************************************************************************)
(* A connection waiting to be closed is not reopened by a late callback.   *)
(***************************************************************************)
ClosingIsFinal ==
  [][\A c \in live : state[c] = "CLOSEWAIT" /\ cpcb'[c] \in {cpcb[c], NoPcb} => ~Open(c)']_vars

(***************************************************************************)
(* What the layer above may rely on, whatever fails: the connections are a *)
(* ConnTable.  A connection is open, waits to be closed, or has lost its   *)
(* pcb on the way to being freed.                                          *)
(***************************************************************************)
Phase(c) ==
  IF c \notin live THEN "none"
  ELSE IF cpcb[c] = NoPcb THEN "lost"
  ELSE IF Open(c) THEN "open" ELSE "closing"

Phases == [c \in Conn |-> Phase(c)]
Owners == [c \in Conn |-> IF c \in live THEN cpcb[c] ELSE NoPcb]

Table == INSTANCE ConnTable WITH server <- srv, phase <- Phases, owner <- Owners

ImplementsTable == Table!TableSpec

(***************************************************************************)
(* A connection the peer leaves silent is closed by the idle timeout.      *)
(***************************************************************************)
Activity(c) ==
  \/ \E p \in Pcb : arg[p] = c /\ (Recv(p) \/ Sent(p))
  \/ \E p \in Pcb : Accept(p, c)

IdleIsClosed ==
  \A c \in Conn : <>[][~Activity(c)]_vars => <>[](c \notin live \/ wild # "no")

(***************************************************************************)
(* tcpsrv_close ends, whatever the connections do meanwhile, unless the    *)
(* thread frees what the task has in its hands.                            *)
(***************************************************************************)
CloseEnds == srv = "closing" ~> (srv = "down" \/ wild # "no")
=============================================================================
