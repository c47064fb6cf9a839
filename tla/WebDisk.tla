------------------------------ MODULE WebDisk ------------------------------
(***************************************************************************)
(* The web disk (WEBFS) and the sessions of the HTTP server that read and  *)
(* replace it: webfs.c and the file side of web_srv.c.                     *)
(*                                                                         *)
(* A session opens files of the disk, up to Depth of them nested by        *)
(* "~inc:name~", through the table of MaxOpen handles that all sessions    *)
(* share.  A multipart POST may carry a new disk, which is written to the  *)
(* flash a block at a time while the other sessions go on; isWEBFSLocked   *)
(* is what keeps them from opening files of a disk being replaced.         *)
(*                                                                         *)
(* All of it runs in the callbacks of lwIP's thread.  A callback that      *)
(* sends a file takes several steps here, from "sending" to the return,    *)
(* and no other callback runs meanwhile.                                   *)
(***************************************************************************)
EXTENDS Naturals, FiniteSets

CONSTANTS
  Session,   \* connections of the HTTP server
  Image,     \* disks that may be written
  Erased,    \* content of an erased block of flash
  Free,      \* a handle that stands for no file (addr = WEBFS_INVALID)
  MaxOpen,   \* MAX_WEBFS_OPENFILES
  Depth,     \* length of bffiles[]
  Blocks     \* blocks of a disk; the first holds its header

ASSUME DiskAssumption ==
  /\ MaxOpen \in Nat \ {0}
  /\ Depth \in Nat \ {0}
  /\ Blocks \in Nat \ {0}
  /\ Erased \notin Image
  /\ Free \notin Image \cup {Erased}

VARIABLES
  stub,    \* WEBFSStubs[1..MaxOpen]: the disk whose file the handle reads
  locked,  \* isWEBFSLocked
  disk,    \* what the flash holds, block by block
  st,      \* where a session is
  files,   \* bffiles[] of a session, 0 for WEBFS_INVALID_HANDLE
  parse,   \* SCB_FCALBACK: the open file is searched for "~...~"
  next,    \* next block of an upload (from faddr and fsize)
  im,      \* the disk a session uploads
  wiped,   \* history: WEBFSInit ran while some session held a handle
  spoilt   \* history: the disk was written in a way the lock cannot cover

vars == <<stub, locked, disk, st, files, parse, next, im, wiped, spoilt>>
handles == <<stub, files, parse, wiped>>
upload == <<disk, next, im, spoilt>>

Handle == 1 .. MaxOpen
Level == 1 .. Depth
Block == 1 .. Blocks

(* "none": no request yet; "sending": inside a callback that sends a file; *)
(* "waiting": for the next sent callback; "body": for the rest of a form;  *)
(* "post": between the parts of a multipart POST; "write": inside a part   *)
(* that is a disk; "done": closed for requests, not yet disconnected.      *)
Place == {"none", "sending", "waiting", "body", "post", "write", "done"}

NoFiles == [i \in Level |-> 0]

TypeOK ==
  /\ stub \in [Handle -> Image \cup {Erased, Free}]
  /\ locked \in BOOLEAN
  /\ disk \in [Block -> Image \cup {Erased}]
  /\ st \in [Session -> Place]
  /\ files \in [Session -> [Level -> 0 .. MaxOpen]]
  /\ parse \in [Session -> BOOLEAN]
  /\ next \in [Session -> 1 .. Blocks + 1]
  /\ im \in [Session -> Image \cup {Erased}]
  /\ wiped \in BOOLEAN
  /\ spoilt \in BOOLEAN

Whole == \E i \in Image : \A b \in Block : disk[b] = i

(* WEBFS_Update looks at the identifier and the version in the header. *)
LockedBy(d) == d[1] = Erased

Quiet == \A s \in Session : st[s] # "sending"

-----------------------------------------------------------------------------
(* The table of handles *)

(* WEBFSOpen takes the first free handle and gives up at the last one. *)
FirstFree(sb) ==
  IF \E h \in Handle : sb[h] = Free
  THEN CHOOSE h \in Handle : sb[h] = Free /\ \A g \in 1 .. h - 1 : sb[g] # Free
  ELSE MaxOpen + 1

\* Mutant: the last handle is given out too.
CanOpenLast(sb) == ~locked /\ FirstFree(sb) # MaxOpen + 1

CanOpen(sb) == ~locked /\ FirstFree(sb) # MaxOpen

(* web_inc_fp: the new file on top, the oldest closed when it falls off. *)
Push(f, h) == [i \in Level |-> IF i = 1 THEN h ELSE f[i - 1]]

\* Mutant: the oldest file falls off without being closed.
OpenStubLosesOldest(sb, f) ==
  [h \in Handle |-> IF h = FirstFree(sb) THEN disk[1] ELSE sb[h]]

OpenStub(sb, f) ==
  [h \in Handle |-> IF h = f[Depth] THEN Free
                    ELSE IF h = FirstFree(sb) THEN disk[1] ELSE sb[h]]

(* web_inc_fclose: the top file closed, the one that included it on top. *)
Pop(f) == [i \in Level |-> IF i = Depth THEN 0 ELSE f[i + 1]]

CloseStub(sb, f) == [h \in Handle |-> IF h = f[1] THEN Free ELSE sb[h]]

(* Close_web_conn *)
CloseAllStub(sb, f) ==
  [h \in Handle |-> IF \E i \in Level : f[i] = h THEN Free ELSE sb[h]]

OpenFile(s) ==
  /\ CanOpen(stub)
  /\ stub' = OpenStub(stub, files[s])
  /\ files' = [files EXCEPT ![s] = Push(files[s], FirstFree(stub))]

CloseFiles(s) ==
  /\ stub' = CloseAllStub(stub, files[s])
  /\ files' = [files EXCEPT ![s] = NoFiles]
  /\ parse' = [parse EXCEPT ![s] = FALSE]

GoTo(s, p) == st' = [st EXCEPT ![s] = p]

-----------------------------------------------------------------------------
(* Requests *)

(* A request (a GET, or a POST whose form came with its header) opens its  *)
(* file, or the page of its error status, and goes on to send it.          *)
RequestOpens(s) ==
  /\ Quiet /\ st[s] = "none"
  /\ OpenFile(s)
  /\ \E p \in BOOLEAN : parse' = [parse EXCEPT ![s] = p]
  /\ GoTo(s, "sending")
  /\ UNCHANGED <<locked, wiped, upload>>

(* No file: a built-in page, a web socket, an error without a page. *)
RequestWithoutFile(s) ==
  /\ Quiet /\ st[s] = "none"
  /\ GoTo(s, "done")
  /\ UNCHANGED <<locked, handles, upload>>

(* A POST whose content is still to come, on a file or a built-in page. *)
Post(s) ==
  /\ Quiet /\ st[s] = "none"
  /\ \/ OpenFile(s) /\ \E p \in BOOLEAN : parse' = [parse EXCEPT ![s] = p]
     \/ UNCHANGED <<stub, files, parse>>
  /\ \E p \in {"body", "post"} : GoTo(s, p)
  /\ UNCHANGED <<locked, wiped, upload>>

(* The form is complete: the page is sent as for a GET. *)
BodyComplete(s) ==
  /\ Quiet /\ st[s] = "body"
  /\ GoTo(s, IF files[s][1] = 0 THEN "done" ELSE "sending")
  /\ UNCHANGED <<locked, handles, upload>>

-----------------------------------------------------------------------------
(* Sending *)

SentCallback(s) ==
  /\ Quiet /\ st[s] = "waiting"
  /\ GoTo(s, "sending")
  /\ UNCHANGED <<locked, handles, upload>>

BufferFull(s) ==
  /\ st[s] = "sending"
  /\ GoTo(s, "waiting")
  /\ UNCHANGED <<locked, handles, upload>>

(* "~inc:name~" in a file that is parsed. *)
Include(s) ==
  /\ st[s] = "sending" /\ parse[s]
  /\ files[s][1] # 0 /\ stub[files[s][1]] # Free
  /\ OpenFile(s)
  /\ UNCHANGED <<locked, st, parse, wiped, upload>>

(* The end of a parsed file: back to the one that includes it. *)
FileEnds(s) ==
  /\ st[s] = "sending" /\ parse[s]
  /\ stub' = CloseStub(stub, files[s])
  /\ files' = [files EXCEPT ![s] = Pop(files[s])]
  /\ IF Pop(files[s])[1] = 0
     THEN parse' = [parse EXCEPT ![s] = FALSE] /\ GoTo(s, "done")
     ELSE UNCHANGED <<parse, st>>
  /\ UNCHANGED <<locked, wiped, upload>>

(* The end of a plain file, or no memory for the buffer. *)
SendStops(s) ==
  /\ st[s] = "sending"
  /\ CloseFiles(s)
  /\ GoTo(s, "done")
  /\ UNCHANGED <<locked, wiped, upload>>

-----------------------------------------------------------------------------
(* Uploads *)

Writers == {s \in Session : st[s] = "write"}

(* The first data of a part named "file": the header announces a disk. *)
UploadDisk(s) ==
  /\ Quiet /\ st[s] = "post"
  /\ \E i \in Image : im' = [im EXCEPT ![s] = i]
  /\ next' = [next EXCEPT ![s] = 1]
  /\ locked' = TRUE
  /\ spoilt' = (spoilt \/ Writers # {})
  /\ GoTo(s, "write")
  /\ UNCHANGED <<handles, disk>>

(* fsize stops the writing where the announced size is reached. *)
Written(s, d) == IF next[s] <= Blocks THEN [d EXCEPT ![next[s]] = im[s]] ELSE d
\* Mutant: the announced size is not looked at.
AdvancedAlways(s) == next[s] + 1

Advanced(s) == IF next[s] <= Blocks THEN next[s] + 1 ELSE next[s]

UploadBlock(s) ==
  /\ Quiet /\ st[s] = "write"
  /\ disk' = Written(s, disk)
  /\ next' = [next EXCEPT ![s] = Advanced(s)]
  /\ UNCHANGED <<locked, handles, st, im, spoilt>>

(* WEBFSInit: every handle is free again, the header decides on the lock. *)
WEBFSInit ==
  /\ stub' = [h \in Handle |-> Free]
  /\ locked' = LockedBy(disk')

(* The boundary after the part: the rest of its data, then WEBFSInit.  A   *)
(* complete disk leaves the session ready for the next part.  One that is  *)
(* short of its announced size is answered with a redirection, which keeps *)
(* bffiles[], or else with an error, which closes them.                    *)
UploadEnd(s) ==
  /\ Quiet /\ st[s] = "write"
  /\ \E last \in BOOLEAN :
       LET n == IF last THEN Advanced(s) ELSE next[s]
       IN /\ disk' = IF last THEN Written(s, disk) ELSE disk
          /\ WEBFSInit
          /\ GoTo(s, IF n > Blocks THEN "post" ELSE "done")
          /\ \/ (n > Blocks \/ ~locked') /\ UNCHANGED <<files, parse>>
             \/ /\ n <= Blocks /\ locked'
                /\ files' = [files EXCEPT ![s] = NoFiles]
                /\ parse' = [parse EXCEPT ![s] = FALSE]
          /\ spoilt' = (spoilt \/ n <= Blocks)
  /\ next' = [next EXCEPT ![s] = 1]
  /\ im' = [im EXCEPT ![s] = Erased]
  /\ wiped' = (wiped \/ \E t \in Session : files[t] # NoFiles)

(* A part named "fsec_...": one sector of the flash, whatever it holds. *)
UploadSector(s) ==
  /\ Quiet /\ st[s] = "post"
  /\ \E b \in Block : \E v \in Image \cup {Erased} : disk' = [disk EXCEPT ![b] = v]
  /\ spoilt' = TRUE
  /\ UNCHANGED <<locked, handles, st, next, im>>

(* The last boundary: a redirection keeps the file, "Content-Length: 0"    *)
(* closes it.                                                              *)
PostEnds(s) ==
  /\ Quiet /\ st[s] = "post"
  /\ CloseFiles(s) \/ UNCHANGED <<stub, files, parse>>
  /\ GoTo(s, "done")
  /\ UNCHANGED <<locked, wiped, upload>>

(* Bad content, a full buffer or no memory: the answer is an error, and    *)
(* the page of its status is opened when it can be; a multipart POST is    *)
(* disconnected before that page is sent.  Nothing unlocks the disk.       *)
PostFails(s) ==
  /\ Quiet /\ st[s] \in {"body", "post", "write"}
  /\ LET closed == CloseAllStub(stub, files[s])
     IN \/ CloseFiles(s) /\ GoTo(s, "done")
        \/ /\ CanOpen(closed)
           /\ stub' = OpenStub(closed, NoFiles)
           /\ files' = [files EXCEPT ![s] = Push(NoFiles, FirstFree(closed))]
           /\ \E p \in BOOLEAN : parse' = [parse EXCEPT ![s] = p]
           /\ GoTo(s, IF st[s] = "body" THEN "sending" ELSE "done")
  /\ next' = [next EXCEPT ![s] = 1]
  /\ im' = [im EXCEPT ![s] = Erased]
  /\ UNCHANGED <<locked, disk, wiped, spoilt>>

-----------------------------------------------------------------------------
\* Mutant: a connection that goes away takes the lock with it.
DisconnectUnlocks(s) ==
  /\ Quiet /\ st[s] # "none"
  /\ CloseFiles(s)
  /\ GoTo(s, "none")
  /\ next' = [next EXCEPT ![s] = 1]
  /\ im' = [im EXCEPT ![s] = Erased]
  /\ locked' = (locked /\ st[s] # "write")
  /\ UNCHANGED <<disk, wiped, spoilt>>

(* webserver_disconnect: the connection is gone, in whatever state. *)
Disconnect(s) ==
  /\ Quiet /\ st[s] # "none"
  /\ CloseFiles(s)
  /\ GoTo(s, "none")
  /\ next' = [next EXCEPT ![s] = 1]
  /\ im' = [im EXCEPT ![s] = Erased]
  /\ UNCHANGED <<locked, disk, wiped, spoilt>>

(* Power is lost, perhaps between the erasure of a block and its writing;  *)
(* the start runs WEBFSInit.                                               *)
Reset ==
  /\ \/ disk' = disk
     \/ \E s \in Writers :
          next[s] <= Blocks /\ disk' = [disk EXCEPT ![next[s]] = Erased]
  /\ WEBFSInit
  /\ st' = [s \in Session |-> "none"]
  /\ files' = [s \in Session |-> NoFiles]
  /\ parse' = [s \in Session |-> FALSE]
  /\ next' = [s \in Session |-> 1]
  /\ im' = [s \in Session |-> Erased]
  /\ wiped' = FALSE
  /\ spoilt' = (spoilt \/ (locked /\ ~locked'))

Init ==
  /\ \E v \in Image \cup {Erased} : disk = [b \in Block |-> v]
  /\ stub = [h \in Handle |-> Free]
  /\ locked = LockedBy(disk)
  /\ st = [s \in Session |-> "none"]
  /\ files = [s \in Session |-> NoFiles]
  /\ parse = [s \in Session |-> FALSE]
  /\ next = [s \in Session |-> 1]
  /\ im = [s \in Session |-> Erased]
  /\ wiped = FALSE
  /\ spoilt = FALSE

Next ==
  \/ \E s \in Session :
       \/ RequestOpens(s) \/ RequestWithoutFile(s) \/ Post(s) \/ BodyComplete(s)
       \/ SentCallback(s) \/ BufferFull(s) \/ Include(s) \/ FileEnds(s)
       \/ SendStops(s)
       \/ UploadDisk(s) \/ UploadBlock(s) \/ UploadEnd(s) \/ UploadSector(s)
       \/ PostEnds(s) \/ PostFails(s) \/ Disconnect(s)
  \/ Reset

Spec == Init /\ [][Next]_vars

-----------------------------------------------------------------------------
(* Properties *)

(* No handle is lost: one that is taken is in bffiles[] of some session,   *)
(* which will close it.  It holds through nested files, failed uploads,    *)
(* disconnections and WEBFSInit.                                           *)
NoHandleLost ==
  \A h \in Handle :
    stub[h] # Free => \E s \in Session, i \in Level : files[s][i] = h

(* A handle has one owner, and the owner's file is open, as long as        *)
(* WEBFSInit has not cleared the table under a session.  The last handle   *)
(* is never taken, so WEBFSOpen does not run past the table.               *)
OneOwner ==
  /\ stub[MaxOpen] = Free
  /\ ~wiped =>
       \A s \in Session, i \in Level :
         files[s][i] # 0 =>
           /\ stub[files[s][i]] # Free
           /\ \A t \in Session, j \in Level :
                files[t][j] = files[s][i] => s = t /\ i = j

(* A disk that is not whole is locked, whether its upload goes on, failed  *)
(* or lost its connection.                                                 *)
HalfDiskIsLocked == ~spoilt /\ ~locked => Whole

(* No session goes on reading a file of the former disk once the new one   *)
(* is open: the handles that live belong to the disk that the flash holds. *)
NoFormerFile ==
  ~spoilt /\ ~locked => \A h \in Handle : stub[h] \in {Free, disk[1]}

(* The disk and its readers are a DiskUse: the file an open handle reads   *)
(* belongs to a disk that was whole when it was opened, and no reader sees *)
(* a new disk come in the place of the one it reads.  Both properties      *)
(* above follow.                                                           *)
Served == IF locked THEN Free ELSE IF Whole THEN disk[1] ELSE Erased

Use == INSTANCE DiskUse WITH
  None <- Free, Unused <- Free, served <- Served, reading <- stub, broken <- spoilt

ImplementsDiskUse == Use!UseSpec

(* webfs.c:61 says of isWEBFSLocked "Lock WEBFS access during the          *)
(* upgrade": the disk is locked as long as some session writes it.         *)
LockedDuringUpgrade == Writers # {} => locked
=============================================================================
