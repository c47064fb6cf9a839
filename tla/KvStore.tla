------------------------------ MODULE KvStore ------------------------------
(***************************************************************************)
(* What flash_eep.c promises the callers of flash_write_cfg and            *)
(* flash_read_cfg: each id keeps the object that was saved last.  One      *)
(* write is at work at a time.  A write that ends well leaves its object;  *)
(* one that fails, or that a reset cuts off, may cost the object of its    *)
(* own id, and never another one.                                          *)
(*                                                                         *)
(* The promise ends when broken becomes TRUE.                              *)
(***************************************************************************)
CONSTANTS
  Id,
  Object,   \* what callers save: a size and its bytes
  None,     \* nothing found
  Torn      \* found, but not what was saved

VARIABLES
  store,    \* what a read of each id finds
  busy,     \* the write at work, <<id, object>>, or <<>>
  ok,       \* the last write returned true
  broken

kvVars == <<store, busy, ok, broken>>

KvInit == store = [i \in Id |-> None] /\ busy = <<>> /\ ok = FALSE /\ broken = FALSE

Begin(i, o) ==
  /\ busy = <<>> /\ busy' = <<i, o>> /\ ok' = FALSE
  /\ UNCHANGED <<store, broken>>

\* On the way a read of the id that is written may find nothing, a torn object
\* or the new one, and never again the one before.
Disturb ==
  /\ busy # <<>> /\ busy' = busy /\ ok' = ok
  /\ \E x \in {None, Torn, busy[2]} : store' = [store EXCEPT ![busy[1]] = x]
  /\ broken' = broken

Finish ==
  /\ busy # <<>> /\ busy' = <<>> /\ ok' = TRUE
  /\ store' = [store EXCEPT ![busy[1]] = busy[2]]
  /\ broken' = broken

\* The write fails, or a reset ends it.
GiveUp == busy # <<>> /\ busy' = <<>> /\ ok' = FALSE /\ UNCHANGED <<store, broken>>

KvNext ==
  \/ \E i \in Id, o \in Object : Begin(i, o)
  \/ Disturb
  \/ Finish
  \/ GiveUp
  \/ broken'

KvSpec == KvInit /\ [][KvNext]_kvVars
=============================================================================
