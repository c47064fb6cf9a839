----------------------------- MODULE ConnTable -----------------------------
(***************************************************************************)
(* What tcp_srv_conn.c promises the layer above: a table of at most        *)
(* MaxConn connections, each of them open or about to be closed, with the  *)
(* pcb it was accepted with.  A connection is accepted while the server is *)
(* up, it goes from open to closing and never back, and the server is down *)
(* only when every connection is gone.                                     *)
(***************************************************************************)
EXTENDS Naturals, FiniteSets

CONSTANTS
  Conn, Pcb, NoPcb,
  MaxConn,     \* the most connections at a time
  SrvReopen    \* may a full table give up a connection for a new one?

VARIABLES
  server,   \* "down", "up" or "closing"
  phase,    \* of a connection: "none", "open", "closing" or "lost"
  owner     \* the pcb it was accepted with, NoPcb when it has none

tableVars == <<server, phase, owner>>

Used == {c \in Conn : phase[c] # "none"}

TableInit ==
  /\ server = "down"
  /\ phase = [c \in Conn |-> "none"]
  /\ owner = [c \in Conn |-> NoPcb]

Enter(c, p, gone) ==
  /\ phase' = [d \in Conn |-> IF d = c THEN "open" ELSE IF d \in gone THEN "none" ELSE phase[d]]
  /\ owner' = [d \in Conn |-> IF d = c THEN p ELSE IF d \in gone THEN NoPcb ELSE owner[d]]
  /\ UNCHANGED server

\* A connection is accepted.
Serve(c, p) ==
  /\ server = "up" /\ phase[c] = "none" /\ Cardinality(Used) < MaxConn
  /\ Enter(c, p, {})

\* A full table gives up one of those it has, whose place may be used again at
\* once, though with another pcb.
Replace(v, c, p) ==
  /\ server = "up" /\ SrvReopen /\ phase[v] # "none" /\ Cardinality(Used) = MaxConn
  /\ phase[c] = "none" \/ (c = v /\ p # owner[c])
  /\ Enter(c, p, {v})

\* Closing it did not work and is tried again.
Wait(c) ==
  /\ phase[c] = "open"
  /\ phase' = [phase EXCEPT ![c] = "closing"]
  /\ UNCHANGED <<server, owner>>

\* Its pcb is gone; the server, which is not up any more, will remove it.
Lose(c) ==
  /\ phase[c] \in {"open", "closing"} /\ server # "up"
  /\ phase' = [phase EXCEPT ![c] = "lost"]
  /\ owner' = [owner EXCEPT ![c] = NoPcb]
  /\ UNCHANGED server

End(c) ==
  /\ phase[c] # "none"
  /\ phase' = [phase EXCEPT ![c] = "none"]
  /\ owner' = [owner EXCEPT ![c] = NoPcb]
  /\ UNCHANGED server

GoUp == server = "down" /\ server' = "up" /\ UNCHANGED <<phase, owner>>
GoDown == server = "up" /\ server' = "closing" /\ UNCHANGED <<phase, owner>>
Down == server = "closing" /\ Used = {} /\ server' = "down" /\ UNCHANGED <<phase, owner>>

\* Data, acknowledgements and polls do not show in the table.
Traffic == UNCHANGED tableVars

TableNext ==
  \/ Traffic
  \/ \E c \in Conn, p \in Pcb : Serve(c, p) \/ \E v \in Conn : Replace(v, c, p)
  \/ \E c \in Conn : Wait(c) \/ Lose(c) \/ End(c)
  \/ GoUp \/ GoDown \/ Down

TableSpec == TableInit /\ [][TableNext]_tableVars
=============================================================================
