----------------------------- MODULE MCWebPage -----------------------------
(***************************************************************************)
(* TLC instance of WebPage.                                                *)
(***************************************************************************)
EXTENDS WebPage
=============================================================================
