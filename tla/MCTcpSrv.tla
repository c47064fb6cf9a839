----------------------------- MODULE MCTcpSrv -----------------------------
(***************************************************************************)
(* TLC instances of TcpSrv.                                                *)
(***************************************************************************)
EXTENDS TcpSrv, TLC

\* Connections and pcbs are heap blocks: nothing tells one from another.
Symmetry == Permutations(Conn) \union Permutations(Pcb)
=============================================================================
