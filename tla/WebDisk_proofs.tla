-------------------------- MODULE WebDisk_proofs --------------------------
(***************************************************************************)
(* Proofs about WebDisk, for any number of sessions and disks and any size *)
(* of the handle table, of bffiles[] and of a disk: handles are not lost   *)
(* and have one owner, and the lock does what it is for as long as one     *)
(* upload at a time runs to its end or is given up.                        *)
(***************************************************************************)
EXTENDS WebDisk, WellFoundedInduction, TLAPS

Table == [Handle -> Image \cup {Erased, Free}]
Files == [Session -> [Level -> 0 .. MaxOpen]]

(* NoHandleLost and OneOwner of any table and any files. *)
Kept(sb, fs) ==
  \A h \in Handle : sb[h] # Free => \E s \in Session, i \in Level : fs[s][i] = h

Owned(sb, fs) ==
  \A s \in Session, i \in Level :
    fs[s][i] # 0 =>
      /\ sb[fs[s][i]] # Free
      /\ \A t \in Session, j \in Level : fs[t][j] = fs[s][i] => s = t /\ i = j

(* What holds of the handles, and the types of the rest of the state. *)
TableInv ==
  /\ stub \in Table
  /\ files \in Files
  /\ wiped \in BOOLEAN
  /\ stub[MaxOpen] = Free
  /\ Kept(stub, files)
  /\ ~wiped => Owned(stub, files)

RestType ==
  /\ locked \in BOOLEAN
  /\ disk \in [Block -> Image \cup {Erased}]
  /\ st \in [Session -> Place]
  /\ parse \in [Session -> BOOLEAN]
  /\ next \in [Session -> 1 .. Blocks + 1]
  /\ im \in [Session -> Image \cup {Erased}]
  /\ spoilt \in BOOLEAN

-----------------------------------------------------------------------------
(* The least element of a set of numbers. *)

(* "<" orders Nat well; the relation written out. *)
LEMMA Below ==
  IsWellFoundedOn({p \in Nat \X Nat : p[1] < p[2]}, Nat)
<1>1. IsWellFoundedOn(OpToRel(<, Nat), Nat)
  BY NatLessThanWellFounded
<1>2. OpToRel(<, Nat) = {p \in Nat \X Nat : p[1] < p[2]}
  BY DEF OpToRel
<1>3. QED
  BY <1>1, <1>2

(* A set of naturals that is not empty has a least element. *)
LEMMA Least ==
  ASSUME NEW T, T \subseteq Nat, T # {}
  PROVE  \E x \in T : \A y \in T : x <= y
<1>1. PICK x \in T : \A y \in T : <<y, x>> \notin {p \in Nat \X Nat : p[1] < p[2]}
  BY Below, WFMin
<1>2. ASSUME NEW y \in T PROVE x <= y
  <2>1. y \in Nat /\ x \in Nat /\ <<y, x>> \in Nat \X Nat
    OBVIOUS
  <2>2. <<y, x>> \notin {p \in Nat \X Nat : p[1] < p[2]}
    BY <1>1
  <2>3. ~(<<y, x>>[1] < <<y, x>>[2])
    BY <2>1, <2>2
  <2>4. QED
    BY <2>1, <2>3
<1>3. QED
  BY <1>2

(* The scan of WEBFSOpen ends on a free handle of the table. *)
LEMMA FirstFreeIsFree ==
  ASSUME NEW sb, \E h \in Handle : sb[h] = Free
  PROVE  FirstFree(sb) \in Handle /\ sb[FirstFree(sb)] = Free
<1> DEFINE T == {h \in Handle : sb[h] = Free}
<1>1. T \subseteq Nat /\ T # {}
  BY DiskAssumption DEF Handle
<1>2. PICK x \in T : \A y \in T : x <= y
  BY <1>1, Least
<1>3. ASSUME NEW g \in 1 .. x - 1 PROVE sb[g] # Free
  BY <1>2, <1>3, DiskAssumption DEF Handle
<1>4. \E h \in Handle : sb[h] = Free /\ \A g \in 1 .. h - 1 : sb[g] # Free
  BY <1>2, <1>3
<1>5. QED
  BY <1>4 DEF FirstFree

(* A file is opened on a free handle that is not the last one. *)
LEMMA OpenedHandle ==
  ASSUME NEW sb, sb[MaxOpen] = Free, CanOpen(sb)
  PROVE  /\ FirstFree(sb) \in Handle /\ FirstFree(sb) # MaxOpen
         /\ sb[FirstFree(sb)] = Free
         /\ FirstFree(sb) # 0 /\ FirstFree(sb) \in 0 .. MaxOpen
<1>1. MaxOpen \in Handle
  BY DiskAssumption DEF Handle
<1>2. FirstFree(sb) \in Handle /\ sb[FirstFree(sb)] = Free
  BY <1>1, FirstFreeIsFree
<1>3. QED
  BY <1>2, DiskAssumption DEF CanOpen, Handle

-----------------------------------------------------------------------------
(* What the operations on the table do to it. *)

(* The first and the last place of bffiles[]; the header; the values that  *)
(* are not Free.                                                           *)
LEMMA Places ==
  /\ 1 \in Level /\ Depth \in Level /\ 1 \in Block /\ MaxOpen \in Handle
  /\ 0 \notin Handle /\ 0 \in 0 .. MaxOpen /\ Handle \subseteq 0 .. MaxOpen
  /\ \A i \in Level : /\ i # 1 => i - 1 \in Level
                      /\ i # Depth => i + 1 \in Level
                      /\ i + 1 # 1 /\ (i + 1) - 1 = i
                      /\ i - 1 # Depth /\ (i - 1) + 1 = i
                      /\ i \in Nat
  /\ \A v \in Image \cup {Erased} : v # Free
  BY DiskAssumption DEF Level, Block, Handle

(* web_inc_fp: the table and bffiles[] keep their types. *)
LEMMA OpenTypes ==
  ASSUME NEW sb \in Table, NEW fs \in Files, NEW s \in Session,
         disk \in [Block -> Image \cup {Erased}],
         sb[MaxOpen] = Free, CanOpen(sb)
  PROVE  /\ OpenStub(sb, fs[s]) \in Table
         /\ [fs EXCEPT ![s] = Push(fs[s], FirstFree(sb))] \in Files
         /\ OpenStub(sb, fs[s])[MaxOpen] = Free
<1>1. FirstFree(sb) \in 0 .. MaxOpen /\ FirstFree(sb) # MaxOpen
  BY OpenedHandle
<1>2. disk[1] \in Image \cup {Erased, Free}
  BY Places
<1>3. OpenStub(sb, fs[s]) \in Table
  BY <1>2 DEF OpenStub, Table
<1>4. Push(fs[s], FirstFree(sb)) \in [Level -> 0 .. MaxOpen]
  <2>1. ASSUME NEW i \in Level PROVE i # 1 => fs[s][i - 1] \in 0 .. MaxOpen
    BY Places DEF Files
  <2>2. QED
    BY <1>1, <2>1 DEF Push
<1>5. OpenStub(sb, fs[s])[MaxOpen] = Free
  BY <1>1, Places DEF OpenStub
<1>6. QED
  BY <1>3, <1>4, <1>5 DEF Files

(* What a place of bffiles[] holds after web_inc_fp. *)
LEMMA OpenedFiles ==
  ASSUME NEW fs \in Files, NEW s \in Session, NEW h,
         NEW t \in Session, NEW i \in Level
  PROVE  LET fs2 == [fs EXCEPT ![s] = Push(fs[s], h)]
         IN fs2[t][i] = IF t = s THEN IF i = 1 THEN h ELSE fs[s][i - 1]
                                 ELSE fs[t][i]
  BY DEF Files, Push

(* web_inc_fp loses no handle: the one it drops is closed. *)
LEMMA OpenKeeps ==
  ASSUME NEW sb \in Table, NEW fs \in Files, NEW s \in Session,
         sb[MaxOpen] = Free, CanOpen(sb), Kept(sb, fs)
  PROVE  Kept(OpenStub(sb, fs[s]), [fs EXCEPT ![s] = Push(fs[s], FirstFree(sb))])
<1> DEFINE fs2 == [fs EXCEPT ![s] = Push(fs[s], FirstFree(sb))]
<1> HIDE DEF fs2
<1>0. ASSUME NEW t \in Session, NEW i \in Level
      PROVE  fs2[t][i] = IF t = s THEN IF i = 1 THEN FirstFree(sb) ELSE fs[s][i - 1]
                                  ELSE fs[t][i]
  BY OpenedFiles DEF fs2
<1> SUFFICES ASSUME NEW h \in Handle, OpenStub(sb, fs[s])[h] # Free
             PROVE  \E t \in Session, i \in Level : fs2[t][i] = h
  BY DEF Kept, fs2
<1>1. h # fs[s][Depth] /\ (h = FirstFree(sb) \/ sb[h] # Free)
  BY DEF OpenStub
<1>2. CASE h = FirstFree(sb)
  <2>1. fs2[s][1] = h
    BY <1>0, <1>2, Places
  <2>2. QED
    BY <2>1, Places
<1>3. CASE sb[h] # Free
  <2>1. PICK t \in Session, i \in Level : fs[t][i] = h
    BY <1>3 DEF Kept
  <2>2. CASE t # s
    <3>1. fs2[t][i] = h
      BY <1>0, <2>1, <2>2
    <3>2. QED
      BY <3>1
  <2>3. CASE t = s
    <3>1. i # Depth
      BY <1>1, <2>1, <2>3
    <3>2. i + 1 \in Level /\ i + 1 # 1 /\ (i + 1) - 1 = i
      BY <3>1, Places
    <3>3. fs2[s][i + 1] = fs[s][(i + 1) - 1]
      BY <1>0, <3>2
    <3>4. fs2[s][i + 1] = h
      BY <2>1, <2>3, <3>2, <3>3
    <3>5. QED
      BY <3>2, <3>4
  <2>4. QED
    BY <2>2, <2>3
<1>4. QED
  BY <1>1, <1>2, <1>3

(* web_inc_fp gives the new handle one owner and takes none away. *)
LEMMA OpenOwned ==
  ASSUME NEW sb \in Table, NEW fs \in Files, NEW s \in Session,
         disk \in [Block -> Image \cup {Erased}],
         sb[MaxOpen] = Free, CanOpen(sb), Owned(sb, fs)
  PROVE  Owned(OpenStub(sb, fs[s]), [fs EXCEPT ![s] = Push(fs[s], FirstFree(sb))])
<1> DEFINE new == FirstFree(sb)
           sb2 == OpenStub(sb, fs[s])
           fs2 == [fs EXCEPT ![s] = Push(fs[s], new)]
<1> HIDE DEF new, sb2, fs2
<1>1. new \in Handle /\ sb[new] = Free /\ new # 0
  BY OpenedHandle DEF new
<1>2. ASSUME NEW t \in Session, NEW i \in Level PROVE fs[t][i] # new
  BY <1>1 DEF Owned
<1>3. ASSUME NEW t \in Session, NEW i \in Level
      PROVE  fs2[t][i] = IF t = s THEN IF i = 1 THEN new ELSE fs[s][i - 1]
                                  ELSE fs[t][i]
  BY OpenedFiles DEF fs2
<1>4. ASSUME NEW t \in Session, NEW i \in Level, fs2[t][i] # new
      PROVE  \E k \in Level : /\ fs2[t][i] = fs[t][k]
                              /\ k = IF t = s THEN i - 1 ELSE i
                              /\ t = s => k # Depth
  <2>1. CASE t = s
    <3>1. i # 1 /\ fs2[t][i] = fs[t][i - 1]
      BY <1>3, <1>4, <2>1
    <3>2. i - 1 \in Level /\ i - 1 # Depth
      BY <3>1, Places
    <3>3. QED
      BY <2>1, <3>1, <3>2
  <2>2. CASE t # s
    BY <1>3, <2>2
  <2>3. QED
    BY <2>1, <2>2
<1>5. disk[1] # Free
  BY Places
<1>6. SUFFICES ASSUME NEW t \in Session, NEW i \in Level, fs2[t][i] # 0
               PROVE  /\ sb2[fs2[t][i]] # Free
                      /\ \A u \in Session, j \in Level :
                           fs2[u][j] = fs2[t][i] => t = u /\ i = j
  BY DEF Owned, sb2, fs2, new
<1>7. CASE fs2[t][i] = new
  <2>1. new # fs[s][Depth]
    BY <1>2, Places
  <2>2. sb2[new] = disk[1]
    BY <1>1, <2>1 DEF sb2, OpenStub, new
  <2>3. ASSUME NEW u \in Session, NEW j \in Level, fs2[u][j] = new
        PROVE  u = s /\ j = 1
    <3>1. CASE u # s
      BY <1>2, <1>3, <2>3, <3>1
    <3>2. CASE u = s /\ j # 1
      <4>1. j - 1 \in Level /\ fs2[u][j] = fs[s][j - 1]
        BY <1>3, <3>2, Places
      <4>2. QED
        BY <1>2, <2>3, <4>1
    <3>3. QED
      BY <3>1, <3>2
  <2>4. QED
    BY <1>5, <1>7, <2>2, <2>3
<1>8. CASE fs2[t][i] # new
  <2>1. PICK k \in Level : /\ fs2[t][i] = fs[t][k]
                           /\ k = IF t = s THEN i - 1 ELSE i
                           /\ t = s => k # Depth
    BY <1>4, <1>8
  <2>2. fs[t][k] # 0 /\ sb[fs[t][k]] # Free /\ fs[t][k] \in Handle
    BY <1>6, <2>1, Places DEF Owned, Files, Handle
  <2>3. fs[t][k] # fs[s][Depth]
    BY <2>1, <2>2, Places DEF Owned
  <2>4. sb2[fs[t][k]] # Free
    BY <1>8, <2>1, <2>2, <2>3 DEF sb2, OpenStub, new
  <2>5. ASSUME NEW u \in Session, NEW j \in Level, fs2[u][j] = fs2[t][i]
        PROVE  t = u /\ i = j
    <3>1. PICK l \in Level : /\ fs2[u][j] = fs[u][l]
                             /\ l = IF u = s THEN j - 1 ELSE j
      BY <1>4, <1>8, <2>5
    <3>2. t = u /\ k = l
      BY <2>1, <2>2, <2>5, <3>1 DEF Owned
    <3>3. QED
      BY <2>1, <3>1, <3>2, Places
  <2>6. QED
    BY <2>1, <2>4, <2>5
<1>9. QED
  BY <1>7, <1>8

(* Close_web_conn: types, no handle lost, the others keep theirs. *)
LEMMA CloseAll ==
  ASSUME NEW sb \in Table, NEW fs \in Files, NEW s \in Session,
         sb[MaxOpen] = Free
  PROVE  LET sb2 == CloseAllStub(sb, fs[s])
             fs2 == [fs EXCEPT ![s] = NoFiles]
         IN /\ sb2 \in Table /\ fs2 \in Files /\ sb2[MaxOpen] = Free
            /\ Kept(sb, fs) => Kept(sb2, fs2)
            /\ Owned(sb, fs) => Owned(sb2, fs2)
<1> DEFINE sb2 == CloseAllStub(sb, fs[s])
           fs2 == [fs EXCEPT ![s] = NoFiles]
<1>1. sb2 \in Table /\ sb2[MaxOpen] = Free
  BY Places DEF CloseAllStub, Table
<1>2. fs2 \in Files
  BY Places DEF Files, NoFiles
<1>3. ASSUME NEW t \in Session, NEW i \in Level
      PROVE  fs2[t][i] = IF t = s THEN 0 ELSE fs[t][i]
  BY DEF NoFiles, Files
<1>4. ASSUME NEW h \in Handle
      PROVE  sb2[h] = IF \E i \in Level : fs[s][i] = h THEN Free ELSE sb[h]
  BY DEF CloseAllStub
<1> HIDE DEF sb2, fs2
<1>5. ASSUME Kept(sb, fs) PROVE Kept(sb2, fs2)
  <2> SUFFICES ASSUME NEW h \in Handle, sb2[h] # Free
               PROVE  \E t \in Session, i \in Level : fs2[t][i] = h
    BY DEF Kept
  <2>1. sb[h] # Free /\ \A i \in Level : fs[s][i] # h
    BY <1>4
  <2>2. PICK t \in Session, i \in Level : fs[t][i] = h
    BY <1>5, <2>1 DEF Kept
  <2>3. t # s
    BY <2>1, <2>2
  <2>4. QED
    BY <1>3, <2>2, <2>3
<1>6. ASSUME Owned(sb, fs) PROVE Owned(sb2, fs2)
  <2> SUFFICES ASSUME NEW t \in Session, NEW i \in Level, fs2[t][i] # 0
               PROVE  /\ sb2[fs2[t][i]] # Free
                      /\ \A u \in Session, j \in Level :
                           fs2[u][j] = fs2[t][i] => t = u /\ i = j
    BY DEF Owned
  <2>1. t # s /\ fs2[t][i] = fs[t][i]
    BY <1>3
  <2>2. fs[t][i] \in Handle /\ sb[fs[t][i]] # Free
    BY <1>6, <2>1 DEF Owned, Files, Handle
  <2>3. \A j \in Level : fs[s][j] # fs[t][i]
    BY <1>6, <2>1 DEF Owned
  <2>4. sb2[fs[t][i]] # Free
    BY <1>4, <2>2, <2>3
  <2>5. ASSUME NEW u \in Session, NEW j \in Level, fs2[u][j] = fs2[t][i]
        PROVE  t = u /\ i = j
    <3>1. u # s /\ fs2[u][j] = fs[u][j]
      BY <1>3, <2>5
    <3>2. fs[u][j] = fs[t][i] /\ fs[t][i] # 0
      BY <2>1, <2>5, <3>1
    <3>3. QED
      BY <1>6, <3>2 DEF Owned
  <2>6. QED
    BY <2>1, <2>4, <2>5
<1>7. QED
  BY <1>1, <1>2, <1>5, <1>6 DEF sb2, fs2

(* web_inc_fclose: likewise for the top of bffiles[]. *)
LEMMA CloseTop ==
  ASSUME NEW sb \in Table, NEW fs \in Files, NEW s \in Session,
         sb[MaxOpen] = Free
  PROVE  LET sb2 == CloseStub(sb, fs[s])
             fs2 == [fs EXCEPT ![s] = Pop(fs[s])]
         IN /\ sb2 \in Table /\ fs2 \in Files /\ sb2[MaxOpen] = Free
            /\ Kept(sb, fs) => Kept(sb2, fs2)
            /\ Owned(sb, fs) => Owned(sb2, fs2)
<1> DEFINE sb2 == CloseStub(sb, fs[s])
           fs2 == [fs EXCEPT ![s] = Pop(fs[s])]
<1>1. sb2 \in Table /\ sb2[MaxOpen] = Free
  BY Places DEF CloseStub, Table
<1>2. fs2 \in Files
  <2>1. ASSUME NEW i \in Level PROVE i # Depth => fs[s][i + 1] \in 0 .. MaxOpen
    BY Places DEF Files
  <2>2. Pop(fs[s]) \in [Level -> 0 .. MaxOpen]
    BY <2>1, Places DEF Pop
  <2>3. QED
    BY <2>2 DEF Files
<1>3. ASSUME NEW t \in Session, NEW i \in Level
      PROVE  fs2[t][i] = IF t = s THEN IF i = Depth THEN 0 ELSE fs[s][i + 1]
                                  ELSE fs[t][i]
  BY DEF Pop, Files
<1>4. ASSUME NEW h \in Handle
      PROVE  sb2[h] = IF h = fs[s][1] THEN Free ELSE sb[h]
  BY DEF CloseStub
<1> HIDE DEF sb2, fs2
<1>5. ASSUME Kept(sb, fs) PROVE Kept(sb2, fs2)
  <2> SUFFICES ASSUME NEW h \in Handle, sb2[h] # Free
               PROVE  \E t \in Session, i \in Level : fs2[t][i] = h
    BY DEF Kept
  <2>1. sb[h] # Free /\ fs[s][1] # h
    BY <1>4
  <2>2. PICK t \in Session, i \in Level : fs[t][i] = h
    BY <1>5, <2>1 DEF Kept
  <2>3. CASE t # s
    BY <1>3, <2>2, <2>3
  <2>4. CASE t = s
    <3>1. i # 1
      BY <2>1, <2>2, <2>4
    <3>2. i - 1 \in Level /\ i - 1 # Depth /\ (i - 1) + 1 = i
      BY <3>1, Places
    <3>3. fs2[s][i - 1] = h
      BY <1>3, <2>2, <2>4, <3>2
    <3>4. QED
      BY <3>2, <3>3
  <2>5. QED
    BY <2>3, <2>4
<1>6. ASSUME Owned(sb, fs) PROVE Owned(sb2, fs2)
  <2> SUFFICES ASSUME NEW t \in Session, NEW i \in Level, fs2[t][i] # 0
               PROVE  /\ sb2[fs2[t][i]] # Free
                      /\ \A u \in Session, j \in Level :
                           fs2[u][j] = fs2[t][i] => t = u /\ i = j
    BY DEF Owned
  <2>1. ASSUME NEW u \in Session, NEW j \in Level, fs2[u][j] # 0
        PROVE  \E k \in Level : /\ fs2[u][j] = fs[u][k]
                                /\ k = IF u = s THEN j + 1 ELSE j
                                /\ u = s => k # 1
    BY <1>3, <2>1, Places
  <2>2. PICK k \in Level : /\ fs2[t][i] = fs[t][k]
                           /\ k = IF t = s THEN i + 1 ELSE i
                           /\ t = s => k # 1
    BY <2>1
  <2>3. fs[t][k] \in Handle /\ sb[fs[t][k]] # Free
    BY <1>6, <2>2 DEF Owned, Files, Handle
  <2>4. fs[s][1] # fs[t][k]
    BY <1>6, <2>2, Places DEF Owned
  <2>5. sb2[fs[t][k]] # Free
    BY <1>4, <2>3, <2>4
  <2>6. ASSUME NEW u \in Session, NEW j \in Level, fs2[u][j] = fs2[t][i]
        PROVE  t = u /\ i = j
    <3>1. PICK l \in Level : /\ fs2[u][j] = fs[u][l]
                             /\ l = IF u = s THEN j + 1 ELSE j
      BY <2>1, <2>6
    <3>2. t = u /\ k = l
      BY <1>6, <2>2, <2>6, <3>1 DEF Owned
    <3>3. i \in Nat /\ j \in Nat
      BY Places
    <3>4. QED
      BY <2>2, <3>1, <3>2, <3>3
  <2>7. QED
    BY <2>2, <2>5, <2>6
<1>7. QED
  BY <1>1, <1>2, <1>5, <1>6 DEF sb2, fs2

-----------------------------------------------------------------------------
(* Types *)

(* A disk of the right type stays one when a block is written. *)
LEMMA WrittenType ==
  ASSUME RestType, NEW s \in Session
  PROVE  /\ Written(s, disk) \in [Block -> Image \cup {Erased}]
         /\ Advanced(s) \in 1 .. Blocks + 1
         /\ next[s] \in Nat /\ (next[s] <= Blocks => next[s] \in Block)
<1>1. next[s] \in 1 .. Blocks + 1 /\ im[s] \in Image \cup {Erased}
  BY DEF RestType
<1>2. next[s] \in Nat /\ (next[s] <= Blocks => next[s] \in Block)
  BY <1>1, DiskAssumption DEF Block
<1>3. Written(s, disk) \in [Block -> Image \cup {Erased}]
  BY <1>1 DEF Written, RestType
<1>4. Advanced(s) \in 1 .. Blocks + 1
  BY <1>1, DiskAssumption DEF Advanced
<1>5. QED
  BY <1>2, <1>3, <1>4

(* A step keeps the types of all but the handles. *)
LEMMA RestStep ==
  ASSUME RestType, [Next]_vars
  PROVE  RestType'
<1>0. 1 \in 1 .. Blocks + 1
  BY DiskAssumption
<1>1. CASE UNCHANGED vars
  BY <1>1 DEF RestType, vars, handles, upload
<1>2. ASSUME NEW s \in Session,
             \/ RequestOpens(s) \/ RequestWithoutFile(s) \/ Post(s)
             \/ BodyComplete(s) \/ SentCallback(s) \/ BufferFull(s)
             \/ Include(s) \/ FileEnds(s) \/ SendStops(s) \/ PostEnds(s)
      PROVE  RestType'
  <2>1. UNCHANGED <<locked, disk, next, im, spoilt>>
    BY <1>2 DEF RequestOpens, RequestWithoutFile, Post, BodyComplete, SentCallback,
                BufferFull, Include, FileEnds, SendStops, PostEnds, upload
  <2>2. \/ st' = st
        \/ \E p \in Place : st' = [st EXCEPT ![s] = p]
    BY <1>2 DEF RequestOpens, RequestWithoutFile, Post, BodyComplete, SentCallback,
                BufferFull, Include, FileEnds, SendStops, PostEnds, GoTo, Place
  <2>3. parse' = parse \/ \E p \in BOOLEAN : parse' = [parse EXCEPT ![s] = p]
    BY <1>2 DEF RequestOpens, RequestWithoutFile, Post, BodyComplete, SentCallback,
                BufferFull, Include, FileEnds, SendStops, PostEnds, CloseFiles, handles
  <2>4. st' \in [Session -> Place]
    BY <2>2 DEF RestType
  <2>5. parse' \in [Session -> BOOLEAN]
    BY <2>3 DEF RestType
  <2>6. QED
    BY <2>1, <2>4, <2>5 DEF RestType
<1>3. ASSUME NEW s \in Session, UploadDisk(s) PROVE RestType'
  BY <1>0, <1>3 DEF UploadDisk, RestType, GoTo, Place, handles
<1>4. ASSUME NEW s \in Session, UploadBlock(s) PROVE RestType'
  BY <1>4, WrittenType DEF UploadBlock, RestType, handles
<1>5. ASSUME NEW s \in Session, UploadEnd(s) PROVE RestType'
  <2>1. disk' \in [Block -> Image \cup {Erased}]
    BY <1>5, WrittenType DEF UploadEnd, RestType
  <2>2. locked' \in BOOLEAN /\ spoilt' \in BOOLEAN
    BY <1>5 DEF UploadEnd, WEBFSInit, LockedBy, RestType
  <2>3. st' \in [Session -> Place]
    BY <1>5 DEF UploadEnd, GoTo, Place, RestType
  <2>4. parse' \in [Session -> BOOLEAN]
    BY <1>5 DEF UploadEnd, RestType
  <2>5. next' \in [Session -> 1 .. Blocks + 1] /\ im' \in [Session -> Image \cup {Erased}]
    BY <1>0, <1>5 DEF UploadEnd, RestType
  <2>6. QED
    BY <2>1, <2>2, <2>3, <2>4, <2>5 DEF RestType
<1>6. ASSUME NEW s \in Session, UploadSector(s) PROVE RestType'
  BY <1>6 DEF UploadSector, RestType, handles
<1>7. ASSUME NEW s \in Session, PostFails(s) \/ Disconnect(s) PROVE RestType'
  <2>1. \E p \in Place : st' = [st EXCEPT ![s] = p]
    BY <1>7 DEF PostFails, Disconnect, GoTo, Place
  <2>2. \E p \in BOOLEAN : parse' = [parse EXCEPT ![s] = p]
    BY <1>7 DEF PostFails, Disconnect, CloseFiles
  <2>3. st' \in [Session -> Place] /\ parse' \in [Session -> BOOLEAN]
    BY <2>1, <2>2 DEF RestType
  <2>4. next' \in [Session -> 1 .. Blocks + 1] /\ im' \in [Session -> Image \cup {Erased}]
    BY <1>0, <1>7 DEF PostFails, Disconnect, RestType
  <2>5. UNCHANGED <<locked, disk, spoilt>>
    BY <1>7 DEF PostFails, Disconnect
  <2>6. QED
    BY <2>3, <2>4, <2>5 DEF RestType
<1>8. CASE Reset
  <2>1. disk' \in [Block -> Image \cup {Erased}]
    BY <1>8 DEF Reset, RestType
  <2>2. QED
    BY <1>0, <1>8, <2>1 DEF Reset, WEBFSInit, LockedBy, RestType, Place
<1>9. QED
  BY <1>1, <1>2, <1>3, <1>4, <1>5, <1>6, <1>7, <1>8 DEF Next

-----------------------------------------------------------------------------
(* Handles *)

(* Opening a file keeps the invariant of the handles. *)
LEMMA OpenFileStep ==
  ASSUME TableInv, RestType, NEW s \in Session, OpenFile(s), wiped' = wiped
  PROVE  TableInv'
<1> DEFINE sb2 == OpenStub(stub, files[s])
           fs2 == [files EXCEPT ![s] = Push(files[s], FirstFree(stub))]
<1> HIDE DEF sb2, fs2
<1>1. stub' = sb2 /\ files' = fs2 /\ CanOpen(stub)
  BY DEF OpenFile, sb2, fs2
<1>2. sb2 \in Table /\ fs2 \in Files /\ sb2[MaxOpen] = Free
  BY <1>1, OpenTypes DEF TableInv, RestType, sb2, fs2
<1>3. Kept(sb2, fs2)
  BY <1>1, OpenKeeps DEF TableInv, sb2, fs2
<1>4. ~wiped => Owned(sb2, fs2)
  BY <1>1, OpenOwned DEF TableInv, RestType, sb2, fs2
<1>5. QED
  BY <1>1, <1>2, <1>3, <1>4 DEF TableInv, Table, Files, Kept, Owned

(* Closing all the files of a session does. *)
LEMMA CloseFilesStep ==
  ASSUME TableInv, NEW s \in Session, CloseFiles(s), wiped' = wiped
  PROVE  TableInv'
<1> DEFINE sb2 == CloseAllStub(stub, files[s])
           fs2 == [files EXCEPT ![s] = NoFiles]
<1>1. /\ sb2 \in Table /\ fs2 \in Files /\ sb2[MaxOpen] = Free
      /\ Kept(sb2, fs2) /\ (~wiped => Owned(sb2, fs2))
  BY CloseAll DEF TableInv
<1>2. stub' = sb2 /\ files' = fs2
  BY DEF CloseFiles
<1> HIDE DEF sb2, fs2
<1>3. QED
  BY <1>1, <1>2 DEF TableInv, Table, Files, Kept, Owned

(* A table that WEBFSInit has cleared satisfies it when every session that *)
(* held a handle is remembered.                                            *)
LEMMA ClearedStep ==
  ASSUME stub' = [h \in Handle |-> Free], files' \in Files, wiped' \in BOOLEAN,
         ~wiped' => \A s \in Session : files'[s] = NoFiles
  PROVE  TableInv'
<1>1. stub' \in [Handle -> Image \cup {Erased, Free}] /\ stub'[MaxOpen] = Free
  BY Places
<1>2. Kept(stub', files')
  BY DEF Kept
<1>3. ASSUME ~wiped' PROVE Owned(stub', files')
  <2>1. \A s \in Session, i \in Level : files'[s][i] = 0
    BY <1>3 DEF NoFiles
  <2>2. QED
    BY <2>1 DEF Owned
<1>4. QED
  BY <1>1, <1>2, <1>3 DEF TableInv, Table, Kept, Owned, Files

(* Every step keeps the invariant of the handles. *)
LEMMA TableStep ==
  ASSUME TableInv, RestType, [Next]_vars
  PROVE  TableInv'
<1>1. CASE UNCHANGED <<stub, files, wiped>>
  BY <1>1 DEF TableInv, Kept, Owned, Table, Files
<1>2. CASE UNCHANGED vars
  BY <1>1, <1>2 DEF vars
<1>3. ASSUME NEW s \in Session, RequestOpens(s) PROVE TableInv'
  BY <1>3, OpenFileStep DEF RequestOpens
<1>4. ASSUME NEW s \in Session,
             \/ RequestWithoutFile(s) \/ BodyComplete(s) \/ SentCallback(s)
             \/ BufferFull(s) \/ UploadDisk(s) \/ UploadBlock(s) \/ UploadSector(s)
      PROVE  TableInv'
  BY <1>1, <1>4 DEF RequestWithoutFile, BodyComplete, SentCallback, BufferFull,
                    UploadDisk, UploadBlock, UploadSector, handles
<1>5. ASSUME NEW s \in Session, Post(s) PROVE TableInv'
  <2>1. CASE OpenFile(s)
    BY <1>5, <2>1, OpenFileStep DEF Post
  <2>2. CASE UNCHANGED <<stub, files, parse>>
    BY <1>1, <1>5, <2>2 DEF Post
  <2>3. QED
    BY <1>5, <2>1, <2>2 DEF Post
<1>6. ASSUME NEW s \in Session, Include(s) PROVE TableInv'
  BY <1>6, OpenFileStep DEF Include
<1>7. ASSUME NEW s \in Session, FileEnds(s) PROVE TableInv'
  <2> DEFINE sb2 == CloseStub(stub, files[s])
             fs2 == [files EXCEPT ![s] = Pop(files[s])]
  <2>1. /\ sb2 \in Table /\ fs2 \in Files /\ sb2[MaxOpen] = Free
        /\ Kept(sb2, fs2) /\ (~wiped => Owned(sb2, fs2))
    BY CloseTop DEF TableInv
  <2>2. stub' = sb2 /\ files' = fs2 /\ wiped' = wiped
    BY <1>7 DEF FileEnds
  <2> HIDE DEF sb2, fs2
  <2>3. QED
    BY <2>1, <2>2 DEF TableInv, Table, Files, Kept, Owned
<1>8. ASSUME NEW s \in Session, SendStops(s) \/ Disconnect(s) PROVE TableInv'
  BY <1>8, CloseFilesStep DEF SendStops, Disconnect
<1>9. ASSUME NEW s \in Session, UploadEnd(s) PROVE TableInv'
  <2>1. stub' = [h \in Handle |-> Free]
    BY <1>9 DEF UploadEnd, WEBFSInit
  <2>2. files' = files \/ files' = [files EXCEPT ![s] = NoFiles]
    BY <1>9 DEF UploadEnd
  <2>3. NoFiles \in [Level -> 0 .. MaxOpen]
    BY Places DEF NoFiles
  <2>4. files' \in Files
    BY <2>2, <2>3 DEF TableInv, Files
  <2>5. wiped' = (wiped \/ \E t \in Session : files[t] # NoFiles)
    BY <1>9 DEF UploadEnd
  <2>6. ~wiped' => \A t \in Session : files'[t] = NoFiles
    BY <2>2, <2>5 DEF TableInv, Files
  <2>7. wiped' \in BOOLEAN
    BY <2>5 DEF TableInv
  <2>8. QED
    BY <2>1, <2>4, <2>6, <2>7, ClearedStep
<1>10. ASSUME NEW s \in Session, PostEnds(s) PROVE TableInv'
  <2>1. CASE CloseFiles(s)
    BY <1>10, <2>1, CloseFilesStep DEF PostEnds
  <2>2. CASE UNCHANGED <<stub, files, parse>>
    BY <1>1, <1>10, <2>2 DEF PostEnds
  <2>3. QED
    BY <1>10, <2>1, <2>2 DEF PostEnds
<1>11. ASSUME NEW s \in Session, PostFails(s) PROVE TableInv'
  <2> DEFINE closed == CloseAllStub(stub, files[s])
             none == [files EXCEPT ![s] = NoFiles]
             page == OpenStub(closed, NoFiles)
             fs2 == [files EXCEPT ![s] = Push(NoFiles, FirstFree(closed))]
  <2>1. wiped' = wiped
    BY <1>11 DEF PostFails
  <2>2. CASE CloseFiles(s)
    BY <2>1, <2>2, CloseFilesStep
  <2>3. CASE CanOpen(closed) /\ stub' = page /\ files' = fs2
    <3>1. /\ closed \in Table /\ none \in Files /\ closed[MaxOpen] = Free
          /\ Kept(closed, none) /\ (~wiped => Owned(closed, none))
      BY CloseAll DEF TableInv
    <3>2. none[s] = NoFiles
      BY DEF TableInv, Files
    <3>3. fs2 = [none EXCEPT ![s] = Push(none[s], FirstFree(closed))]
      BY <3>2 DEF TableInv, Files
    <3>4. page = OpenStub(closed, none[s])
      BY <3>2
    <3> HIDE DEF closed, none, page, fs2
    <3>5. page \in Table /\ fs2 \in Files /\ page[MaxOpen] = Free
      BY <2>3, <3>1, <3>3, <3>4, OpenTypes DEF RestType
    <3>6. Kept(page, fs2)
      BY <2>3, <3>1, <3>3, <3>4, OpenKeeps
    <3>7. ~wiped => Owned(page, fs2)
      BY <2>3, <3>1, <3>3, <3>4, OpenOwned DEF RestType
    <3>8. QED
      BY <2>1, <2>3, <3>5, <3>6, <3>7 DEF TableInv, Table, Files, Kept, Owned
  <2>4. QED
    BY <1>11, <2>2, <2>3 DEF PostFails
<1>12. CASE Reset
  <2>1. stub' = [h \in Handle |-> Free] /\ wiped' = FALSE
    BY <1>12 DEF Reset, WEBFSInit
  <2>2. files' = [s \in Session |-> NoFiles]
    BY <1>12 DEF Reset
  <2>3. files' \in Files
    BY <2>2, Places DEF NoFiles, Files
  <2>4. QED
    BY <2>1, <2>2, <2>3, ClearedStep
<1>13. QED
  BY <1>2, <1>3, <1>4, <1>5, <1>6, <1>7, <1>8, <1>9, <1>10, <1>11, <1>12 DEF Next

(* The first state satisfies both. *)
LEMMA InitInv == Init => TableInv /\ RestType
<1> SUFFICES ASSUME Init PROVE TableInv /\ RestType
  OBVIOUS
<1>1. NoFiles \in [Level -> 0 .. MaxOpen]
  BY Places DEF NoFiles
<1>2. files \in Files /\ \A s \in Session : files[s] = NoFiles
  BY <1>1 DEF Init, Files
<1>3. stub \in Table /\ stub[MaxOpen] = Free /\ \A h \in Handle : stub[h] = Free
  BY Places DEF Init, Table
<1>4. Kept(stub, files)
  BY <1>3 DEF Kept
<1>5. Owned(stub, files)
  BY <1>2 DEF Owned, NoFiles
<1>6. TableInv
  BY <1>2, <1>3, <1>4, <1>5 DEF TableInv, Init
<1>7. 1 \in 1 .. Blocks + 1
  BY DiskAssumption
<1>8. disk \in [Block -> Image \cup {Erased}]
  BY DEF Init
<1>9. RestType
  BY <1>7, <1>8 DEF RestType, Init, LockedBy, Place
<1>10. QED
  BY <1>6, <1>9

(* The invariant of every state reached. *)
LEMMA HandlesInv == Spec => [](TableInv /\ RestType)
<1>1. Init => TableInv /\ RestType
  BY InitInv
<1>2. TableInv /\ RestType /\ [Next]_vars => TableInv' /\ RestType'
  BY TableStep, RestStep
<1>3. QED
  BY <1>1, <1>2, PTL DEF Spec

(* Every variable of the web disk and its sessions keeps its type; in      *)
(* particular no upload counts past the disk it announced.                 *)
THEOREM TypeCorrect == Spec => []TypeOK
<1>1. TableInv /\ RestType => TypeOK
  BY DEF TableInv, RestType, TypeOK, Table, Files
<1>2. QED
  BY <1>1, HandlesInv, PTL

(* Whatever WEBFSInit, failures and disconnections do, a taken handle is   *)
(* in bffiles[] of a session.                                              *)
THEOREM HandlesNotLost == Spec => []NoHandleLost
<1>1. TableInv /\ RestType => NoHandleLost
  BY DEF TableInv, Kept, NoHandleLost
<1>2. QED
  BY <1>1, HandlesInv, PTL

(* Until WEBFSInit clears the table under a session, a handle has one      *)
(* owner; WEBFSOpen never runs past the table.                             *)
THEOREM HandlesOwned == Spec => []OneOwner
<1>1. TableInv /\ RestType => OneOwner
  BY DEF TableInv, Owned, OneOwner
<1>2. QED
  BY <1>1, HandlesInv, PTL

-----------------------------------------------------------------------------
(* The lock *)

(* While nothing has happened that the lock cannot cover, at most one      *)
(* session writes; the disk is locked for as long, and what it has written *)
(* is there; an unlocked disk is whole and only its files are open.        *)
DiskInv ==
  ~spoilt =>
    /\ \A s, t \in Writers : s = t
    /\ \A s \in Writers :
         /\ locked /\ im[s] \in Image
         /\ \A b \in Block : b < next[s] => disk[b] = im[s]
    /\ ~locked => /\ Whole
                  /\ \A h \in Handle : stub[h] \in {Free, disk[1]}

(* A step that writes nothing and opens files of the present disk only.    *)
LEMMA ReadersStep ==
  ASSUME DiskInv, UNCHANGED <<locked, disk, spoilt>>,
         Writers' \subseteq Writers,
         \A s \in Writers' : next'[s] = next[s] /\ im'[s] = im[s],
         \A h \in Handle : stub'[h] \in {stub[h], Free, disk[1]}
  PROVE  DiskInv'
  BY DEF DiskInv, Whole

(* What the operations on the table leave in it.                           *)
LEMMA TableValues ==
  ASSUME NEW sb, NEW f, NEW h \in Handle
  PROVE  /\ OpenStub(sb, f)[h] \in {sb[h], Free, disk[1]}
         /\ CloseStub(sb, f)[h] \in {sb[h], Free}
         /\ CloseAllStub(sb, f)[h] \in {sb[h], Free}
  BY DEF OpenStub, CloseStub, CloseAllStub

(* A session that goes somewhere else than into an upload adds no writer.  *)
LEMMA WritersShrink ==
  ASSUME RestType, NEW s \in Session, NEW p, p # "write",
         st' = [st EXCEPT ![s] = p]
  PROVE  Writers' \subseteq Writers /\ s \notin Writers'
  BY DEF Writers, RestType

(* One upload at a time keeps the invariant until it ends ...              *)
LEMMA UploadStep ==
  ASSUME DiskInv, RestType, NEW s \in Session,
         UploadDisk(s) \/ UploadBlock(s) \/ UploadSector(s)
  PROVE  DiskInv'
<1>1. CASE UploadSector(s)
  BY <1>1 DEF UploadSector, DiskInv
<1>2. CASE UploadDisk(s)
  <2> SUFFICES ASSUME ~spoilt' PROVE DiskInv'
    BY DEF DiskInv
  <2>1. ~spoilt /\ Writers = {}
    BY <1>2 DEF UploadDisk
  <2>2. Writers' = {s}
    BY <1>2, <2>1 DEF UploadDisk, GoTo, Writers, RestType
  <2>3. locked' /\ im'[s] \in Image /\ next'[s] = 1
    BY <1>2 DEF UploadDisk, RestType
  <2>4. \A b \in Block : ~(b < 1)
    BY DiskAssumption DEF Block
  <2>5. QED
    BY <2>2, <2>3, <2>4 DEF DiskInv
<1>3. CASE UploadBlock(s)
  <2> SUFFICES ASSUME ~spoilt PROVE DiskInv'
    BY <1>3 DEF UploadBlock, DiskInv
  <2>1. Writers' = Writers /\ s \in Writers /\ Writers = {s}
    BY <1>3 DEF UploadBlock, Writers, DiskInv
  <2>2. locked' /\ im'[s] = im[s] /\ im[s] \in Image
    BY <1>3, <2>1 DEF UploadBlock, DiskInv
  <2>3. next'[s] = Advanced(s) /\ disk' = Written(s, disk)
    BY <1>3 DEF UploadBlock, RestType
  <2>4. ASSUME NEW b \in Block, b < Advanced(s) PROVE disk'[b] = im[s]
    <3>1. next[s] \in Nat /\ b \in Nat /\ (next[s] <= Blocks => next[s] \in Block)
      BY WrittenType, DiskAssumption DEF Block
    <3>2. b < next[s] => disk[b] = im[s]
      BY <2>1 DEF DiskInv
    <3>3. b < next[s] \/ (b = next[s] /\ next[s] <= Blocks)
      BY <2>4, <3>1, DiskAssumption DEF Advanced
    <3>4. QED
      BY <2>3, <3>1, <3>2, <3>3 DEF Written, RestType
  <2>5. QED
    BY <2>1, <2>2, <2>3, <2>4 DEF DiskInv
<1>4. QED
  BY <1>1, <1>2, <1>3

(* A complete one, which was locked, leaves a whole disk ...               *)
LEMMA UploadEndWrites ==
  ASSUME DiskInv, RestType, NEW s \in Session, UploadEnd(s), ~spoilt'
  PROVE  /\ ~spoilt /\ locked /\ im[s] \in Image
         /\ Writers' = {} /\ \A b \in Block : disk'[b] = im[s]
<1>1. PICK last \in BOOLEAN :
        LET n == IF last THEN Advanced(s) ELSE next[s]
        IN /\ disk' = IF last THEN Written(s, disk) ELSE disk
           /\ GoTo(s, IF n > Blocks THEN "post" ELSE "done")
           /\ spoilt' = (spoilt \/ n <= Blocks)
  BY DEF UploadEnd
<1>2. Writers = {s} /\ im[s] \in Image /\ ~spoilt /\ locked
  <2>1. ~spoilt
    BY <1>1
  <2>2. s \in Writers
    BY DEF UploadEnd, Writers
  <2>3. /\ \A v, t \in Writers : v = t
        /\ im[s] \in Image /\ locked
    BY <2>1, <2>2 DEF DiskInv
  <2>4. Writers = {s}
    BY <2>2, <2>3
  <2>5. QED
    BY <2>1, <2>3, <2>4
<1>3. Writers' = {}
  BY <1>1, <1>2 DEF GoTo, Writers, RestType
<1>4. next[s] \in Nat /\ Blocks \in Nat /\ (next[s] <= Blocks => next[s] \in Block)
  BY WrittenType, DiskAssumption
<1>5. ~((IF last THEN Advanced(s) ELSE next[s]) <= Blocks)
  BY <1>1
<1>6. ASSUME NEW b \in Block PROVE disk'[b] = im[s]
  <2>1. b \in Nat /\ b <= Blocks
    BY DiskAssumption DEF Block
  <2>2. b < next[s] \/ (last /\ b = next[s] /\ next[s] <= Blocks)
    BY <1>4, <1>5, <2>1 DEF Advanced
  <2>3. b < next[s] => disk[b] = im[s]
    BY <1>2 DEF DiskInv
  <2>4. QED
    BY <1>1, <1>4, <2>2, <2>3 DEF Written, RestType
<1>7. QED
  BY <1>2, <1>3, <1>6

(* ... without open files.                                                 *)
LEMMA UploadEndStep ==
  ASSUME DiskInv, RestType, NEW s \in Session, UploadEnd(s)
  PROVE  DiskInv'
<1> SUFFICES ASSUME ~spoilt' PROVE DiskInv'
  BY DEF DiskInv
<1>1. Writers' = {} /\ Whole'
  BY UploadEndWrites DEF Whole
<1>2. \A h \in Handle : stub'[h] = Free
  BY DEF UploadEnd, WEBFSInit
<1>3. QED
  BY <1>1, <1>2 DEF DiskInv

(* Every step keeps it. *)
LEMMA DiskStep ==
  ASSUME DiskInv, RestType, [Next]_vars
  PROVE  DiskInv'
<1>1. CASE UNCHANGED vars
  <2>1. Writers' = Writers
    BY <1>1 DEF vars, Writers
  <2>2. QED
    BY <1>1, <2>1, ReadersStep DEF vars
<1>2. ASSUME NEW s \in Session,
             \/ RequestOpens(s) \/ RequestWithoutFile(s) \/ Post(s)
             \/ BodyComplete(s) \/ SentCallback(s) \/ BufferFull(s)
             \/ Include(s) \/ FileEnds(s) \/ SendStops(s) \/ PostEnds(s)
      PROVE  DiskInv'
  <2>1. UNCHANGED <<locked, disk, next, im, spoilt>>
    BY <1>2 DEF RequestOpens, RequestWithoutFile, Post, BodyComplete, SentCallback,
                BufferFull, Include, FileEnds, SendStops, PostEnds, upload
  <2>2. \/ st' = st
        \/ \E p \in Place \ {"write"} : st' = [st EXCEPT ![s] = p]
    BY <1>2 DEF RequestOpens, RequestWithoutFile, Post, BodyComplete, SentCallback,
                BufferFull, Include, FileEnds, SendStops, PostEnds, GoTo, Place
  <2>3. Writers' \subseteq Writers
    <3>1. CASE st' = st
      BY <3>1 DEF Writers
    <3>2. CASE \E p \in Place \ {"write"} : st' = [st EXCEPT ![s] = p]
      BY <3>2, WritersShrink
    <3>3. QED
      BY <2>2, <3>1, <3>2
  <2>4. \/ stub' = stub
        \/ stub' = OpenStub(stub, files[s])
        \/ stub' = CloseStub(stub, files[s])
        \/ stub' = CloseAllStub(stub, files[s])
    BY <1>2 DEF RequestOpens, RequestWithoutFile, Post, BodyComplete, SentCallback,
                BufferFull, Include, FileEnds, SendStops, PostEnds,
                OpenFile, CloseFiles, handles
  <2>5. \A h \in Handle : stub'[h] \in {stub[h], Free, disk[1]}
    BY <2>4, TableValues
  <2>6. QED
    BY <2>1, <2>3, <2>5, ReadersStep
<1>3. ASSUME NEW s \in Session, UploadDisk(s) \/ UploadBlock(s) \/ UploadSector(s)
      PROVE  DiskInv'
  BY <1>3, UploadStep
<1>4. ASSUME NEW s \in Session, UploadEnd(s) PROVE DiskInv'
  BY <1>4, UploadEndStep
<1>5. ASSUME NEW s \in Session, PostFails(s) \/ Disconnect(s) PROVE DiskInv'
  <2>1. \E p \in Place \ {"write"} : st' = [st EXCEPT ![s] = p]
    BY <1>5 DEF PostFails, Disconnect, GoTo, Place
  <2>2. Writers' \subseteq Writers /\ s \notin Writers'
    BY <2>1, WritersShrink
  <2>3. UNCHANGED <<locked, disk, spoilt>>
    BY <1>5 DEF PostFails, Disconnect
  <2>4. \A t \in Writers' : next'[t] = next[t] /\ im'[t] = im[t]
    BY <1>5, <2>2 DEF PostFails, Disconnect, RestType, Writers
  <2>5. \/ stub' = CloseAllStub(stub, files[s])
        \/ stub' = OpenStub(CloseAllStub(stub, files[s]), NoFiles)
    BY <1>5 DEF PostFails, Disconnect, CloseFiles
  <2>6. \A h \in Handle : stub'[h] \in {stub[h], Free, disk[1]}
    BY <2>5, TableValues
  <2>7. QED
    BY <2>2, <2>3, <2>4, <2>6, ReadersStep
<1>6. CASE Reset
  <2> SUFFICES ASSUME ~spoilt' PROVE DiskInv'
    BY DEF DiskInv
  <2>1. ~spoilt /\ ~(locked /\ ~locked')
    BY <1>6 DEF Reset
  <2>2. Writers' = {}
    BY <1>6 DEF Reset, Writers
  <2>3. \A h \in Handle : stub'[h] = Free
    BY <1>6 DEF Reset, WEBFSInit
  <2>4. ASSUME ~locked' PROVE Whole'
    <3>1. ~locked /\ Writers = {} /\ Whole
      BY <2>1, <2>4 DEF DiskInv
    <3>2. disk' = disk
      BY <1>6, <3>1 DEF Reset
    <3>3. QED
      BY <3>1, <3>2 DEF Whole
  <2>5. QED
    BY <2>2, <2>3, <2>4 DEF DiskInv
<1>7. QED
  BY <1>1, <1>2, <1>3, <1>4, <1>5, <1>6 DEF Next

(* It holds in every state reached. *)
LEMMA DiskAlways == Spec => []DiskInv
<1>1. Init => DiskInv
  <2> SUFFICES ASSUME Init PROVE DiskInv
    OBVIOUS
  <2>1. Writers = {}
    BY DEF Init, Writers
  <2>2. ASSUME ~locked PROVE Whole
    <3>1. PICK v \in Image \cup {Erased} : disk = [b \in Block |-> v]
      BY DEF Init
    <3>2. v \in Image
      BY <2>2, <3>1, Places DEF Init, LockedBy
    <3>3. QED
      BY <3>1, <3>2 DEF Whole
  <2>3. QED
    BY <2>1, <2>2 DEF DiskInv, Init
<1>2. DiskInv /\ (TableInv /\ RestType) /\ [Next]_vars => DiskInv'
  BY DiskStep
<1>3. QED
  BY <1>1, <1>2, HandlesInv, PTL DEF Spec

(* Apart from two uploads at a time, a part shorter than the disk it       *)
(* announced, raw sectors and a reset that forgets the lock: a disk that   *)
(* is not whole is locked.                                                 *)
THEOREM HalfDiskLocked == Spec => []HalfDiskIsLocked
<1>1. DiskInv => HalfDiskIsLocked
  BY DEF DiskInv, HalfDiskIsLocked
<1>2. QED
  BY <1>1, DiskAlways, PTL

(* Under the same conditions no file of a former disk is open once the     *)
(* present one can be read.                                                *)
THEOREM FormerFilesClosed == Spec => []NoFormerFile
<1>1. DiskInv => NoFormerFile
  BY DEF DiskInv, NoFormerFile
<1>2. QED
  BY <1>1, DiskAlways, PTL

-----------------------------------------------------------------------------
(* The disk and its readers are a DiskUse. *)

(* A step that leaves the disk and the lock alone only closes handles and  *)
(* opens at most one, on the disk that is served.                          *)
LEMMA UseRead ==
  ASSUME DiskInv, ~spoilt, UNCHANGED <<locked, disk, spoilt>>,
         NEW closed \in SUBSET Handle, NEW opened \in {{}} \cup {{h} : h \in Handle},
         opened # {} => ~locked,
         \A h \in opened : h \in closed \/ stub[h] = Free,
         stub' = [h \in Handle |-> IF h \in opened THEN disk[1]
                                   ELSE IF h \in closed THEN Free ELSE stub[h]]
  PROVE  Use!UseNext
<1>1. Served' = Served
  BY DEF Served, Whole
<1>2. opened # {} => Served = disk[1] /\ Served # Free
  <2>1. ASSUME ~locked PROVE Whole
    BY <2>1 DEF DiskInv
  <2>2. Whole => disk[1] \in Image
    BY Places DEF Whole
  <2>3. QED
    BY <2>1, <2>2, DiskAssumption DEF Served
<1>3. Use!Read(closed, opened)
  BY <1>1, <1>2 DEF Use!Read
<1>4. QED
  BY <1>3 DEF Use!UseNext

(* web_inc_fp on a table whose handles were perhaps closed just before.    *)
LEMMA UseOpen ==
  ASSUME DiskInv, ~spoilt, UNCHANGED <<locked, disk, spoilt>>,
         NEW shut \in SUBSET Handle, NEW sb,
         sb = [h \in Handle |-> IF h \in shut THEN Free ELSE stub[h]],
         sb[MaxOpen] = Free, CanOpen(sb), NEW f, stub' = OpenStub(sb, f)
  PROVE  Use!UseNext
<1> DEFINE n == FirstFree(sb)
           closed == shut \cup {h \in Handle : h = f[Depth]}
           opened == IF n = f[Depth] THEN {} ELSE {n}
<1>1. n \in Handle /\ sb[n] = Free /\ ~locked
  BY OpenedHandle DEF CanOpen
<1>2. closed \in SUBSET Handle /\ opened \in {{}} \cup {{h} : h \in Handle}
  BY <1>1
<1>3. \A h \in opened : h \in closed \/ stub[h] = Free
  BY <1>1
<1>4. stub' = [h \in Handle |-> IF h \in opened THEN disk[1]
                                ELSE IF h \in closed THEN Free ELSE stub[h]]
  <2>1. ASSUME NEW h \in Handle
        PROVE  OpenStub(sb, f)[h] = IF h \in opened THEN disk[1]
                                    ELSE IF h \in closed THEN Free ELSE stub[h]
    BY <1>1 DEF OpenStub
  <2> HIDE DEF n, closed, opened
  <2>2. QED
    BY <2>1 DEF OpenStub
<1> HIDE DEF n, closed, opened
<1>5. QED
  BY <1>1, <1>2, <1>3, <1>4, UseRead

(* The steps of a reader: every change of the table of handles it makes.   *)
LEMMA UseReader ==
  ASSUME DiskInv, TableInv, ~spoilt, UNCHANGED <<locked, disk, spoilt>>, NEW s \in Session,
         \/ stub' = stub
         \/ OpenFile(s)
         \/ stub' = CloseStub(stub, files[s])
         \/ stub' = CloseAllStub(stub, files[s])
         \/ /\ CanOpen(CloseAllStub(stub, files[s]))
            /\ stub' = OpenStub(CloseAllStub(stub, files[s]), NoFiles)
  PROVE  [Use!UseNext]_(Use!useVars)
<1>1. CASE stub' = stub
  <2>1. Served' = Served
    BY DEF Served, Whole
  <2>2. QED
    BY <1>1, <2>1 DEF Use!useVars
<1>2. CASE OpenFile(s)
  <2> DEFINE shut == {}
  <2>1. /\ stub = [h \in Handle |-> IF h \in shut THEN Free ELSE stub[h]]
        /\ shut \in SUBSET Handle
    BY DEF TableInv, Table
  <2>2. stub[MaxOpen] = Free /\ CanOpen(stub) /\ stub' = OpenStub(stub, files[s])
    BY <1>2 DEF OpenFile, TableInv
  <2> HIDE DEF shut
  <2>3. QED
    BY <2>1, <2>2, UseOpen
<1>3. ASSUME NEW closed \in SUBSET Handle,
             stub' = [h \in Handle |-> IF h \in closed THEN Free ELSE stub[h]]
      PROVE  Use!UseNext
  <2> DEFINE opened == {}
  <2>1. /\ opened \in {{}} \cup {{h} : h \in Handle} /\ opened = {}
        /\ \A h \in Handle : h \notin opened
    OBVIOUS
  <2> HIDE DEF opened
  <2>2. stub' = [h \in Handle |-> IF h \in opened THEN disk[1]
                                  ELSE IF h \in closed THEN Free ELSE stub[h]]
    BY <1>3, <2>1
  <2>3. QED
    BY <2>1, <2>2, UseRead
<1>4. CASE stub' = CloseStub(stub, files[s])
  <2> DEFINE closed == {h \in Handle : h = files[s][1]}
  <2>1. stub' = [h \in Handle |-> IF h \in closed THEN Free ELSE stub[h]]
    BY <1>4 DEF CloseStub
  <2>2. closed \in SUBSET Handle
    OBVIOUS
  <2> HIDE DEF closed
  <2>3. QED
    BY <1>3, <2>1, <2>2
<1> DEFINE all == {h \in Handle : \E i \in Level : files[s][i] = h}
           sb == CloseAllStub(stub, files[s])
<1>5. sb = [h \in Handle |-> IF h \in all THEN Free ELSE stub[h]] /\ all \in SUBSET Handle
  BY DEF CloseAllStub
<1>6. sb[MaxOpen] = Free
  BY <1>5, Places DEF TableInv
<1> HIDE DEF all, sb
<1>7. CASE stub' = sb
  BY <1>3, <1>5, <1>7
<1>8. CASE CanOpen(sb) /\ stub' = OpenStub(sb, NoFiles)
  BY <1>5, <1>6, <1>8, UseOpen
<1>9. QED
  BY <1>1, <1>2, <1>3, <1>4, <1>7, <1>8 DEF sb

(* An upload withdraws the disk, writes what is not served, and serves the *)
(* whole one.                                                              *)
LEMMA UseUpload ==
  ASSUME DiskInv, RestType, ~spoilt', NEW s \in Session,
         UploadDisk(s) \/ UploadBlock(s) \/ UploadEnd(s) \/ UploadSector(s)
  PROVE  [Use!UseNext]_(Use!useVars)
<1>1. CASE UploadSector(s)
  BY <1>1 DEF UploadSector
<1>2. CASE UploadDisk(s)
  <2>1. locked' /\ stub' = stub /\ spoilt = FALSE /\ spoilt' = FALSE
    BY <1>2 DEF UploadDisk, handles, RestType
  <2>2. Served' = Free
    BY <2>1 DEF Served
  <2>3. CASE locked
    BY <2>1, <2>2, <2>3 DEF Use!useVars, Served
  <2>4. CASE ~locked
    <3>1. Served # Free
      BY <2>4, Places DEF Served, RestType
    <3>2. QED
      BY <2>1, <2>2, <3>1 DEF Use!UseNext, Use!Withdraw
  <2>5. QED
    BY <2>3, <2>4
<1>3. CASE UploadBlock(s)
  <2>1. s \in Writers /\ UNCHANGED <<locked, stub, spoilt>>
    BY <1>3 DEF UploadBlock, Writers, handles
  <2>2. locked
    BY <2>1 DEF DiskInv
  <2>3. QED
    BY <2>1, <2>2 DEF Use!useVars, Served
<1>4. CASE UploadEnd(s)
  <2>1. ~spoilt /\ locked /\ im[s] \in Image /\ \A b \in Block : disk'[b] = im[s]
    BY <1>4, UploadEndWrites
  <2>2. stub' = [h \in Handle |-> Free] /\ locked' = (disk'[1] = Erased)
    BY <1>4 DEF UploadEnd, WEBFSInit, LockedBy
  <2>3. Served' = im[s]
    <3>1. Whole' /\ disk'[1] = im[s]
      BY <2>1, Places DEF Whole
    <3>2. ~locked'
      BY <2>1, <2>2, <3>1, DiskAssumption
    <3>3. QED
      BY <3>1, <3>2 DEF Served
  <2>4. spoilt' = spoilt
    BY <1>4, <2>1 DEF UploadEnd, RestType
  <2>5. Served = Free
    BY <2>1 DEF Served
  <2>6. QED
    BY <2>1, <2>2, <2>3, <2>4, <2>5 DEF Use!UseNext, Use!Publish, Use!NoReaders
<1>5. QED
  BY <1>1, <1>2, <1>3, <1>4

(* The start serves what was served.                                       *)
LEMMA UseReset ==
  ASSUME DiskInv, RestType, ~spoilt', Reset
  PROVE  Use!UseNext
<1>1. spoilt = FALSE /\ spoilt' = FALSE /\ (locked => locked')
  BY DEF Reset, RestType
<1>2. stub' = [h \in Handle |-> Free] /\ locked' = (disk'[1] = Erased)
  BY DEF Reset, WEBFSInit, LockedBy
<1>3. Served' = Served
  <2>1. CASE locked
    BY <1>1, <2>1 DEF Served
  <2>2. CASE ~locked
    <3>1. Writers = {} /\ Whole
      BY <1>1, <2>2 DEF DiskInv
    <3>2. disk' = disk
      BY <3>1 DEF Reset
    <3>3. ~locked'
      <4>1. disk[1] \in Image
        BY <3>1, Places DEF Whole
      <4>2. disk'[1] # Erased
        BY <3>2, <4>1, DiskAssumption
      <4>3. QED
        BY <1>2, <4>2
    <3>4. QED
      BY <2>2, <3>2, <3>3 DEF Served, Whole
  <2>3. QED
    BY <2>1, <2>2
<1>4. QED
  BY <1>1, <1>2, <1>3 DEF Use!UseNext, Use!Restart, Use!NoReaders

(* Every step of the web disk is one of DiskUse, or a stutter.             *)
LEMMA UseStep ==
  ASSUME DiskInv, TableInv, RestType, [Next]_vars
  PROVE  [Use!UseNext]_(Use!useVars)
<1>1. CASE spoilt'
  BY <1>1, RestStep DEF RestType, Use!UseNext, Use!Break
<1>2. CASE ~spoilt'
  <2>1. CASE UNCHANGED vars
    BY <2>1 DEF vars, Use!useVars, Served, Whole
  <2>2. ASSUME NEW s \in Session,
               \/ RequestOpens(s) \/ RequestWithoutFile(s) \/ Post(s)
               \/ BodyComplete(s) \/ SentCallback(s) \/ BufferFull(s)
               \/ Include(s) \/ FileEnds(s) \/ SendStops(s) \/ PostEnds(s)
               \/ PostFails(s) \/ Disconnect(s)
        PROVE  [Use!UseNext]_(Use!useVars)
    <3>1. UNCHANGED <<locked, disk, spoilt>>
      BY <2>2 DEF RequestOpens, RequestWithoutFile, Post, BodyComplete, SentCallback,
                  BufferFull, Include, FileEnds, SendStops, PostEnds, PostFails,
                  Disconnect, upload
    <3>2. \/ stub' = stub
          \/ OpenFile(s)
          \/ stub' = CloseStub(stub, files[s])
          \/ stub' = CloseAllStub(stub, files[s])
          \/ /\ CanOpen(CloseAllStub(stub, files[s]))
             /\ stub' = OpenStub(CloseAllStub(stub, files[s]), NoFiles)
      BY <2>2 DEF RequestOpens, RequestWithoutFile, Post, BodyComplete, SentCallback,
                  BufferFull, Include, FileEnds, SendStops, PostEnds, PostFails,
                  Disconnect, CloseFiles, handles
    <3>3. QED
      BY <1>2, <3>1, <3>2, UseReader
  <2>3. ASSUME NEW s \in Session,
               UploadDisk(s) \/ UploadBlock(s) \/ UploadEnd(s) \/ UploadSector(s)
        PROVE  [Use!UseNext]_(Use!useVars)
    BY <1>2, <2>3, UseUpload
  <2>4. CASE Reset
    BY <1>2, <2>4, UseReset
  <2>5. QED
    BY <2>1, <2>2, <2>3, <2>4 DEF Next
<1>3. QED
  BY <1>1, <1>2

(* As long as one upload at a time runs to its end or is given up, the     *)
(* disk and its readers are a DiskUse: what is served is whole, and its    *)
(* readers are gone before another disk is served.                         *)
THEOREM ReadersUseDisk == Spec => ImplementsDiskUse
<1>1. Init => Use!UseInit
  <2> SUFFICES ASSUME Init PROVE Use!UseInit
    OBVIOUS
  <2>1. Served \in Image \cup {Free}
    <3>1. PICK v \in Image \cup {Erased} : disk = [b \in Block |-> v]
      BY DEF Init
    <3>2. disk[1] = v /\ (v \in Image => Whole)
      BY <3>1, Places DEF Whole
    <3>3. QED
      BY <3>2 DEF Init, Served, LockedBy
  <2>2. QED
    BY <2>1 DEF Init, Use!UseInit
<1>2. QED
  BY <1>1, UseStep, DiskAlways, HandlesInv, PTL DEF Spec, ImplementsDiskUse, Use!UseSpec
=============================================================================
