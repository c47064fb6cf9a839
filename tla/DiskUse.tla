------------------------------ MODULE DiskUse ------------------------------
(***************************************************************************)
(* What isWEBFSLocked and WEBFSInit promise the readers of the web disk:   *)
(* a file is opened of a disk that is served, and a disk that is served is *)
(* a whole one.  To be replaced it is withdrawn first; its readers may go  *)
(* on, but all of them are gone before the next disk is served.            *)
(***************************************************************************)
CONSTANTS
  Handle,  \* the handles readers share
  Image,   \* whole disks
  None,    \* no disk is served
  Unused   \* a handle that reads nothing

VARIABLES
  served,   \* the disk whose files may be opened, or None
  reading,  \* the disk a handle reads, or Unused
  broken    \* something has happened that the promise does not cover

useVars == <<served, reading, broken>>

UseInit ==
  /\ served \in Image \cup {None}
  /\ reading = [h \in Handle |-> Unused]
  /\ broken = FALSE

\* Readers close files; while a disk is served, one may open a file of it.
Read(closed, opened) ==
  /\ opened # {} => served # None
  /\ \A h \in opened : h \in closed \/ reading[h] = Unused
  /\ reading' = [h \in Handle |-> IF h \in opened THEN served
                                  ELSE IF h \in closed THEN Unused ELSE reading[h]]
  /\ UNCHANGED <<served, broken>>

Withdraw == served # None /\ served' = None /\ UNCHANGED <<reading, broken>>

NoReaders == reading' = [h \in Handle |-> Unused]

Publish(i) == served = None /\ served' = i /\ NoReaders /\ UNCHANGED broken

Restart == NoReaders /\ UNCHANGED <<served, broken>>

Break == broken' = TRUE

UseNext ==
  \/ \E closed \in SUBSET Handle : \E opened \in {{}} \cup {{h} : h \in Handle} : Read(closed, opened)
  \/ Withdraw
  \/ \E i \in Image : Publish(i)
  \/ Restart
  \/ Break

UseSpec == UseInit /\ [][UseNext]_useVars
=============================================================================
