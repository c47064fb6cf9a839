----------------------------- MODULE MCWebDisk -----------------------------
(* Instances of WebDisk for TLC: sessions and disks are interchangeable. *)
EXTENDS WebDisk, TLC

Symmetry == Permutations(Session) \cup Permutations(Image)
=============================================================================
