----------------------------- MODULE MCControl -----------------------------
(***************************************************************************)
(* TLC instance of Control.                                                *)
(***************************************************************************)
EXTENDS Control

\* the station, and both at once
MCModes == {{"st"}, {"ap", "st"}}
=============================================================================
