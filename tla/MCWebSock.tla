----------------------------- MODULE MCWebSock -----------------------------
(***************************************************************************)
(* TLC instance of WebSock.                                                *)
(***************************************************************************)
EXTENDS WebSock
=============================================================================
