--------------------------- MODULE WebPage_proofs ---------------------------
(***************************************************************************)
(* What an answer of the HTTP server keeps to whatever the page, the       *)
(* buffers and the faults are.                                             *)
(***************************************************************************)
EXTENDS WebPage, TLAPS

(* Shape: which files, flags and buffer go with each place in a callback.  *)
Shape ==
  /\ at = "request" => room = SndBuf /\ page = "none"
  /\ at \in {"start", "loop", "wait"} => scb \cap Ends = {}
  /\ at \in {"start", "loop", "send", "tail", "wait"} =>
       scb \cap Ends # {} \/ nest # 0
  /\ at \in {"loop", "send"} => size = Allowed(room)
  /\ at = "loop" => len + Scb <= size

(* The inductive invariant of the types; that nothing is ever refused is   *)
(* part of it, since only what is sent whole is taken off room.            *)
TInv == TypeOK /\ Shape /\ NeverRefused

-----------------------------------------------------------------------------
(* Facts about the pieces the actions are built from.                      *)

Causes == {"malloc", "write", "refused", "posted", "summed", "empty",
           "appended", "bare", "replaced"}

\* tcpsrv_int_sent_data of what fits
LEMMA Fits ==
  ASSUME TypeOK, NEW n \in Nat, n <= room, NEW told \in Client,
         NEW why \in SUBSET Causes, NEW next, IntSent(n, told, why, next)
  PROVE  \/ /\ room' = room - n /\ client' = told /\ cut' = FALSE
            /\ at' = next /\ cause' = cause \cup why
         \/ /\ room' = room /\ client' = client /\ cut' \in BOOLEAN
            /\ at' \in {"freed", next} /\ cause' = cause \cup why \cup {"write"}
<1>1. PICK o \in SendOutcomes(n) :
        /\ room' = IF o = "sent" THEN room - n ELSE room
        /\ client' = IF o = "sent" THEN told ELSE client
        /\ cut' = (o = "cut")
        /\ at' = IF o = "freed" THEN "freed" ELSE next
        /\ cause' = cause \cup why \cup Why(o)
  BY DEF IntSent
<1>2. o \in {"sent", "freed", "cut"}
  <2>1. ~(n > room)
    BY DEF TypeOK
  <2> QED
    BY <2>1 DEF SendOutcomes
<1>3. CASE o = "sent"
  BY <1>1, <1>3 DEF Why
<1>4. CASE o # "sent"
  BY <1>1, <1>2, <1>4 DEF Why
<1> QED
  BY <1>3, <1>4

\* its type, whoever calls it
LEMMA FitsType ==
  ASSUME TInv, NEW n \in Nat, n <= room, NEW told \in Client,
         NEW why \in SUBSET (Causes \ {"refused"}),
         NEW next, IntSent(n, told, why, next)
  PROVE  /\ room' \in 0 .. SndBuf /\ client' \in Client /\ cut' \in BOOLEAN
         /\ at' \in {"freed", next}
         /\ cause' \subseteq Causes /\ "refused" \notin cause'
         /\ room' \in {room, room - n}
<1>1. why \in SUBSET Causes
  OBVIOUS
<1>2. TypeOK /\ "refused" \notin cause /\ cause \subseteq Causes
  BY DEF TInv, NeverRefused, TypeOK, Causes
<1>3. room \in 0 .. SndBuf /\ SndBuf \in Nat /\ client \in Client
  BY PageAssumption DEF TInv, TypeOK, PageAssumption
<1>4. \/ /\ room' = room - n /\ client' = told /\ cut' = FALSE
         /\ at' = next /\ cause' = cause \cup why
      \/ /\ room' = room /\ client' = client /\ cut' \in BOOLEAN
         /\ at' \in {"freed", next} /\ cause' = cause \cup why \cup {"write"}
  BY <1>1, <1>2, Fits
<1>5. room' \in {room, room - n} /\ room' \in 0 .. SndBuf
  BY <1>3, <1>4
<1>6. client' \in Client /\ cut' \in BOOLEAN /\ at' \in {"freed", next}
  BY <1>3, <1>4
<1>7. cause' \subseteq cause \cup why \cup {"write"}
  BY <1>4
<1> QED
  BY <1>2, <1>5, <1>6, <1>7 DEF Causes

\* What PageAssumption says of the sizes, one by one.
LEMMA Constants ==
  /\ Scb \in Nat \ {0} /\ Pre \in Nat \ {0} /\ Suf \in Nat \ {0}
  /\ BuiltIn \in Nat \ {0} /\ MaxNest \in Nat \ {0}
  /\ SndBuf \in Nat /\ HeadLen \in Nat /\ Need \in Nat /\ MaxReads \in Nat
  /\ Reserve = Pre + Suf /\ MinSend = 2 * Scb + Reserve
  /\ HeadLen + MinSend <= SndBuf /\ BuiltIn <= MinSend
  /\ Sizes \subseteq Nat /\ Posts \subseteq Nat
BY PageAssumption DEF PageAssumption, Reserve, MinSend

\* what a callback leaves of the buffer and of the flags
LEMMA OutcomeType ==
  ASSUME NEW free \in Nat, NEW o \in Outcomes(free), NEW flags \in SUBSET Flags
  PROVE  /\ o.n \in 0 .. free /\ o.end \in {"done", "close", "again"}
         /\ After(flags, o.end) \in SUBSET Flags
         /\ "CHUNKED" \in After(flags, o.end) <=> "CHUNKED" \in flags
         /\ flags \cap Ends = {} =>
              After(flags, o.end) \cap Ends \in {{}, Ends}
<1>1. o.n \in 0 .. free /\ o.end \in {"done", "close", "again"}
  BY DEF Outcomes
<1> QED
  BY <1>1 DEF After, Flags, Ends

\* a turn of the loop
LEMMA TurnType ==
  ASSUME TInv, at = "loop", NEW n \in 0 .. size, NEW flags \in SUBSET Flags,
         "CHUNKED" \in flags <=> "CHUNKED" \in scb,
         Turn(n, flags), nest' \in 0 .. MaxNest, reads' \in 0 .. MaxReads,
         flags \cap Ends # {} \/ nest' # 0
  PROVE  TInv'
<1>1. TypeOK'
  BY Constants DEF Turn, TInv, TypeOK
<1>2. Allowed(room)' = Allowed(room)
  BY DEF Turn, Allowed
<1>3. size' = Allowed(room)'
  BY <1>2 DEF Turn, TInv, Shape
<1>4. at' = "loop" => n + Scb <= size /\ flags \cap Ends = {}
  BY Constants DEF Turn, GoesOn, TInv, TypeOK, Ends
<1>5. at' \in {"loop", "send"} /\ scb' = flags /\ len' = n /\ size' = size
  BY DEF Turn
<1>6. Shape'
  BY <1>3, <1>4, <1>5 DEF Shape
<1> QED
  BY <1>1, <1>6 DEF TInv, NeverRefused, Turn

-----------------------------------------------------------------------------
(* Type correctness, and nothing refused.                                  *)

\* the head of an answer, whatever the callers make of it
LEMMA HeadersType ==
  ASSUME TInv, at = "request",
         NEW p \in Pages \ {"none"}, NEW m \in Nat, Open(p, m),
         NEW n \in Nat, NEW v11 \in BOOLEAN,
         NEW why \in SUBSET (Causes \ {"refused"}), Headers(p, n, v11, why)
  PROVE  TInv'
<1> DEFINE unknown == p \in {"parsed", "dump"}
           mode == IF n = 0 \/ ~unknown THEN "length"
                   ELSE IF v11 THEN "chunked" ELSE "close"
           told == [mode |-> mode, announced |-> IF mode = "length" THEN n ELSE 0,
                    got |-> 0, ended |-> FALSE, garbled |-> FALSE]
           next == IF n = 0 THEN "tail" ELSE "start"
<1>1. /\ page' \in Pages /\ nest' = 1 /\ nest' \in 0 .. MaxNest /\ left' \in Nat
      /\ reads' \in 0 .. MaxReads /\ size' \in 0 .. SndBuf /\ len' \in 0 .. size'
  BY Constants DEF Open, TInv, TypeOK, buffer
<1>2. room = SndBuf /\ HeadLen <= room
  BY Constants DEF TInv, Shape
<1>3. CASE NoMemory(why)
  <2>1. TypeOK' /\ NeverRefused'
    BY <1>1, <1>3 DEF NoMemory, NothingSent, TInv, TypeOK, NeverRefused, Ends,
                      Flags, Causes
  <2>2. Shape'
    BY <1>1, <1>3 DEF NoMemory, NothingSent, Shape, Ends
  <2> QED
    BY <2>1, <2>2 DEF TInv
<1>4. CASE /\ scb' = (IF n = 0 THEN Ends \cup {"CLOSED"}
                       ELSE IF unknown /\ v11 THEN {"CHUNKED"} ELSE {})
                       \cup (IF p = "dump" THEN {"RETRYCB"} ELSE {})
           /\ UNCHANGED tfree
           /\ IntSent(HeadLen, told, why, next)
  <2>1. told \in Client
    BY DEF Client
  <2>2. /\ room' \in 0 .. SndBuf /\ client' \in Client /\ cut' \in BOOLEAN
        /\ at' \in {"freed", next}
        /\ cause' \subseteq Causes /\ "refused" \notin cause'
    BY <1>2, <1>4, <2>1, FitsType, Constants
  <2>3. /\ scb' \subseteq Flags
        /\ n # 0 => scb' \cap Ends = {}
        /\ n = 0 => scb' \cap Ends # {}
    <3>1. CASE n = 0
      <4>1. scb' = Ends \cup {"CLOSED"} \cup (IF p = "dump" THEN {"RETRYCB"} ELSE {})
        BY <1>4, <3>1
      <4> QED
        BY <3>1, <4>1 DEF Flags, Ends
    <3>2. CASE n # 0
      <4>1. scb' \subseteq {"CHUNKED", "RETRYCB"}
        BY <1>4, <3>2
      <4> QED
        BY <3>2, <4>1 DEF Flags, Ends
    <3> QED
      BY <3>1, <3>2
  <2>4. TypeOK' /\ NeverRefused'
    BY <1>1, <1>4, <2>2, <2>3 DEF TInv, TypeOK, NeverRefused, Causes
  <2>5. Shape'
    BY <1>1, <2>2, <2>3 DEF Shape
  <2> QED
    BY <2>4, <2>5 DEF TInv
<1> QED
  BY <1>3, <1>4 DEF Headers

\* an answer that goes out with its head
LEMMA ShortAnswerType ==
  ASSUME TInv, at = "request", NEW told \in Client,
         NEW why \in SUBSET (Causes \ {"refused"}),
         page' \in Pages, nest' \in 0 .. MaxNest, left' \in Nat,
         UNCHANGED <<reads, buffer>>, tfree' \in BOOLEAN,
         NoMemory({}) \/ (/\ scb' = {"DISCONNECT", "CLOSED"}
                         /\ IntSent(HeadLen, told, why, "tail"))
  PROVE  TInv'
<1>1. /\ reads' \in 0 .. MaxReads /\ size' \in 0 .. SndBuf /\ len' \in 0 .. size'
  BY DEF TInv, TypeOK, buffer
<1>2. room = SndBuf /\ HeadLen <= room
  BY Constants DEF TInv, Shape
<1>3. CASE NoMemory({})
  <2>1. TypeOK' /\ NeverRefused'
    BY <1>1, <1>3 DEF NoMemory, NothingSent, TInv, TypeOK, NeverRefused, Ends,
                      Flags
  <2>2. Shape'
    BY <1>3 DEF NoMemory, NothingSent, Shape, Ends
  <2> QED
    BY <2>1, <2>2 DEF TInv
<1>4. CASE scb' = {"DISCONNECT", "CLOSED"} /\ IntSent(HeadLen, told, why, "tail")
  <2>1. /\ room' \in 0 .. SndBuf /\ client' \in Client /\ cut' \in BOOLEAN
        /\ at' \in {"freed", "tail"}
        /\ cause' \subseteq Causes /\ "refused" \notin cause'
    BY <1>2, <1>4, FitsType, Constants
  <2>2. TypeOK' /\ NeverRefused'
    BY <1>1, <1>4, <2>1 DEF TypeOK, NeverRefused, Causes, Flags
  <2>3. Shape'
    BY <1>4, <2>1 DEF Shape, Ends
  <2> QED
    BY <2>2, <2>3 DEF TInv
<1> QED
  BY <1>3, <1>4

\* content_len is never negative.
LEMMA CountedType ==
  ASSUME NEW p \in Pages, NEW n \in Sizes, NEW post \in Posts
  PROVE  Counted(p, n, post) \in Nat
BY Constants DEF Counted, Length, Pages

\* Any answer to a request keeps the types and is taken by lwIP.
LEMMA RequestType == ASSUME TInv, Request PROVE TInv'
<1>1. CASE \E p \in Pages \ {"none"}, n \in Sizes, post \in Posts, v11 \in BOOLEAN :
             Found(p, n, post, v11)
  <2>1. PICK p \in Pages \ {"none"}, n \in Sizes, post \in Posts, v11 \in BOOLEAN :
          Found(p, n, post, v11)
    BY <1>1
  <2>2. n \in Nat /\ Counted(p, n, post) \in Nat
    BY CountedType, Constants
  <2>3. (IF post = 0 THEN {} ELSE {"posted"}) \in SUBSET (Causes \ {"refused"})
    BY DEF Causes
  <2> QED
    BY <2>1, <2>2, <2>3, HeadersType DEF Found
<1>2. CASE \E q \in Pages \ {"dump"}, m \in Sizes, post \in Posts,
             p \in {"plain", "parsed"}, n \in Sizes, v11 \in BOOLEAN :
             Errors(Counted(q, m, post), p, n, v11)
  <2>1. PICK q \in Pages \ {"dump"}, m \in Sizes, post \in Posts,
          p \in {"plain", "parsed"}, n \in Sizes, v11 \in BOOLEAN :
          Errors(Counted(q, m, post), p, n, v11)
    BY <1>2
  <2> DEFINE before == Counted(q, m, post)
  <2>2. n \in Nat /\ before + n \in Nat /\ p \in Pages \ {"none"}
    BY CountedType, Constants DEF Pages
  <2>3. (IF before = 0 THEN {} ELSE {"summed"}) \in SUBSET (Causes \ {"refused"})
    BY DEF Causes
  <2> HIDE DEF before
  <2>4. Errors(before, p, n, v11)
    BY <2>1 DEF before
  <2> QED
    BY <2>2, <2>3, <2>4, HeadersType DEF Errors
<1>3. CASE DefaultContent
  <2>1. Whole(BuiltIn) \in Client
    BY Constants DEF Whole, Client
  <2>2. {} \in SUBSET (Causes \ {"refused"})
    OBVIOUS
  <2>3. /\ at = "request" /\ page' \in Pages /\ nest' \in 0 .. MaxNest
        /\ left' \in Nat /\ UNCHANGED <<reads, buffer>>
    BY <1>3, Constants DEF DefaultContent, Open, Pages
  <2>4. tfree' \in BOOLEAN
    BY <1>3 DEF DefaultContent, NoMemory, TInv, TypeOK
  <2> QED
    BY <1>3, <2>1, <2>2, <2>3, <2>4, ShortAnswerType DEF DefaultContent
<1>4. CASE Redirect
  <2>1. [client EXCEPT !.mode = "close"] \in Client
    BY DEF TInv, TypeOK, Client
  <2>2. {} \in SUBSET (Causes \ {"refused"})
    OBVIOUS
  <2>3. /\ at = "request" /\ page' \in Pages /\ nest' \in 0 .. MaxNest
        /\ left' \in Nat /\ UNCHANGED <<reads, buffer>>
    BY <1>4 DEF Redirect, file, TInv, TypeOK
  <2>4. tfree' \in BOOLEAN
    BY <1>4 DEF Redirect, NoMemory, TInv, TypeOK
  <2> QED
    BY <1>4, <2>1, <2>2, <2>3, <2>4, ShortAnswerType DEF Redirect
<1>5. CASE NoContent
  <2>1. client \in Client
    BY DEF TInv, TypeOK
  <2>2. {"bare"} \in SUBSET (Causes \ {"refused"})
    BY DEF Causes
  <2>3. /\ at = "request" /\ page' \in Pages /\ nest' \in 0 .. MaxNest
        /\ left' \in Nat /\ UNCHANGED <<reads, buffer>>
    BY <1>5, Constants DEF NoContent, Open, Pages
  <2>4. tfree' \in BOOLEAN
    BY <1>5 DEF NoContent, NoMemory, TInv, TypeOK
  <2> QED
    BY <1>5, <2>1, <2>2, <2>3, <2>4, ShortAnswerType DEF NoContent
<1> QED
  BY <1>1, <1>2, <1>3, <1>4, <1>5 DEF Request

\* Counting the bytes of the body keeps the client's record.
LEMMA GotType ==
  ASSUME client \in Client, NEW n \in Nat
  PROVE  Got(n) \in Client
<1>1. client.got + n \in Nat /\ client.got \in Nat
  BY DEF Client
<1>2. (IF client.mode = "length" THEN client.got + n ELSE client.got) \in Nat
  BY <1>1
<1> QED
  BY <1>2 DEF Got, Client

\* Up to the loop the types are kept; a text of the program fits.
LEMMA SendFdataType == ASSUME TInv, SendFdata PROVE TInv'
<1>1. at = "start" /\ scb \cap Ends = {} /\ nest # 0 /\ UNCHANGED tfree
  BY DEF SendFdata, TInv, Shape
<1>2. CASE Flush
  <2>1. TypeOK' /\ NeverRefused'
    BY <1>1, <1>2 DEF Flush, NothingSent, file, buffer, TInv, TypeOK, NeverRefused
  <2>2. Shape'
    BY <1>1, <1>2 DEF Flush, NothingSent, file, Shape
  <2> QED
    BY <2>1, <2>2 DEF TInv
<1>3. CASE SendFnohanle
  <2> DEFINE told == [Got(BuiltIn) EXCEPT !.garbled = (client.mode = "chunked")]
             why == IF page = "dump" THEN {"appended"} ELSE {}
  <2>1. told \in Client
    <3>1. client \in Client /\ BuiltIn \in Nat
      BY Constants DEF TInv, TypeOK
    <3>2. Got(BuiltIn) \in Client
      BY <3>1, GotType
    <3>3. (client.mode = "chunked") \in BOOLEAN
      OBVIOUS
    <3> QED
      BY <3>2, <3>3 DEF Client
  <2>2. why \in SUBSET (Causes \ {"refused"})
    BY DEF Causes
  <2>3. BuiltIn \in Nat /\ BuiltIn <= room
    BY <1>3, Constants DEF SendFnohanle, TInv, TypeOK
  <2>4. IntSent(BuiltIn, told, why, "tail")
    BY <1>3 DEF SendFnohanle
  <2> HIDE DEF told, why
  <2>5. /\ room' \in 0 .. SndBuf /\ client' \in Client /\ cut' \in BOOLEAN
        /\ at' \in {"freed", "tail"}
        /\ cause' \subseteq Causes /\ "refused" \notin cause'
    BY <2>1, <2>2, <2>3, <2>4, FitsType
  <2>6. TypeOK' /\ NeverRefused'
    BY <1>1, <1>3, <2>5 DEF SendFnohanle, file, buffer, TInv, TypeOK,
                            NeverRefused, Causes, Flags, Ends
  <2>7. Shape'
    BY <1>3, <2>5 DEF SendFnohanle, Shape, Ends
  <2> QED
    BY <2>6, <2>7 DEF TInv
<1>4. CASE NoBuffer
  <2>1. TypeOK' /\ NeverRefused'
    BY <1>1, <1>4 DEF NoBuffer, NothingSent, file, buffer, TInv, TypeOK,
                      NeverRefused, Flags, Ends
  <2>2. Shape'
    BY <1>4 DEF NoBuffer, NothingSent, Shape, Ends
  <2> QED
    BY <2>1, <2>2 DEF TInv
<1>5. room >= MinSend => Allowed(room) \in 0 .. SndBuf /\ Allowed(room) >= 2 * Scb
  BY Constants DEF Allowed, TInv, TypeOK
<1>6. CASE PlainFile
  <2>1. /\ size' \in 0 .. SndBuf /\ len' \in 0 .. size' /\ left' \in Nat
    BY <1>5, <1>6 DEF PlainFile, TInv, TypeOK
  <2>2. scb' \in {scb, scb \cup Ends} /\ room' = room /\ at' = "send"
        /\ UNCHANGED <<page, nest, reads, cut, client, cause>>
    BY <1>6 DEF PlainFile, NothingSent
  <2>3. TypeOK' /\ NeverRefused'
    BY <1>1, <2>1, <2>2 DEF TInv, TypeOK, NeverRefused, Flags, Ends
  <2>4. size' = Allowed(room)'
    BY <1>6, <2>2 DEF PlainFile, Allowed, Ends
  <2>5. Shape'
    BY <1>1, <2>2, <2>4 DEF Shape
  <2> QED
    BY <2>3, <2>5 DEF TInv
<1>7. CASE EmptyBuffer
  <2>1. /\ size' \in 0 .. SndBuf /\ len' = 0 /\ len' \in 0 .. size'
        /\ len' + Scb <= size'
    BY <1>5, <1>7, Constants DEF EmptyBuffer
  <2>2. room' = room /\ at' = "loop" /\ scb' = scb
        /\ UNCHANGED <<page, nest, left, reads, cut, client, cause>>
    BY <1>7 DEF EmptyBuffer, NothingSent, file
  <2>3. TypeOK' /\ NeverRefused'
    BY <1>1, <2>1, <2>2 DEF TInv, TypeOK, NeverRefused
  <2>4. size' = Allowed(room)'
    BY <1>7, <2>2 DEF EmptyBuffer, Allowed
  <2>5. Shape'
    BY <1>1, <2>1, <2>2, <2>4 DEF Shape
  <2> QED
    BY <2>3, <2>5 DEF TInv
<1> QED
  BY <1>2, <1>3, <1>4, <1>6, <1>7 DEF SendFdata

\* what the actions of the loop have in common
LEMMA InLoop ==
  ASSUME TInv, at = "loop"
  PROVE  /\ len \in Nat /\ size \in Nat /\ len + Scb <= size
         /\ scb \in SUBSET Flags /\ scb \cap Ends = {}
         /\ nest \in 1 .. MaxNest /\ reads \in 0 .. MaxReads
         /\ Scb \in Nat /\ Scb # 0 /\ MaxReads \in Nat /\ MaxNest \in Nat
BY Constants DEF TInv, TypeOK, Shape

\* The bound on the turns does not go below 0.
LEMMA SpendType ==
  ASSUME TInv, Spend \/ UNCHANGED reads
  PROVE  reads' \in 0 .. MaxReads
BY Constants DEF Spend, TInv, TypeOK

\* Each turn of the loop stays inside the buffer.
LEMMA LoopType == ASSUME TInv, Loop PROVE TInv'
<1>1. at = "loop"
  BY DEF Loop
<1>2. CASE RetryCallback \/ Callback
  <2>1. PICK o \in Outcomes(size - len) : Turn(len + o.n, After(scb, o.end))
    BY <1>2 DEF RetryCallback, Callback
  <2>2. nest' = nest /\ reads' \in 0 .. MaxReads
    BY <1>2, SpendType DEF RetryCallback, Callback
  <2>3. size - len \in Nat /\ scb \in SUBSET Flags
    BY <1>1, InLoop
  <2>4. /\ o.n \in 0 .. size - len
        /\ After(scb, o.end) \in SUBSET Flags
        /\ "CHUNKED" \in After(scb, o.end) <=> "CHUNKED" \in scb
    BY <2>3, OutcomeType
  <2> DEFINE n == o.n
             flags == After(scb, o.end)
  <2> HIDE DEF n, flags
  <2>5. len + n \in 0 .. size
    BY <1>1, <2>4, InLoop DEF n
  <2>6. nest' \in 0 .. MaxNest /\ (flags \cap Ends # {} \/ nest' # 0)
    BY <1>1, <2>2, InLoop
  <2>7. /\ flags \in SUBSET Flags /\ Turn(len + n, flags)
        /\ ("CHUNKED" \in flags) <=> ("CHUNKED" \in scb)
    BY <2>1, <2>4 DEF n, flags
  <2> QED
    BY <1>1, <2>2, <2>5, <2>6, <2>7, TurnType
<1>3. CASE StartMark
  <2>1. PICK k \in 0 .. Scb - 1 : Turn(len + k, scb \cup {"FINDCB"})
    BY <1>3 DEF StartMark
  <2>2. nest' = nest /\ reads' \in 0 .. MaxReads
    BY <1>3, SpendType DEF StartMark
  <2>3. len + k \in 0 .. size /\ scb \cup {"FINDCB"} \in SUBSET Flags
    BY <1>1, InLoop DEF Flags
  <2> QED
    BY <1>1, <2>1, <2>2, <2>3, InLoop, TurnType
<1>4. scb \ {"FINDCB"} \in SUBSET Flags
  BY <1>1, InLoop
<1>5. CASE DoubleMark
  <2>1. Turn(len + 1, scb \ {"FINDCB"})
    BY <1>5 DEF DoubleMark
  <2>2. nest' = nest /\ reads' \in 0 .. MaxReads
    BY <1>5, SpendType DEF DoubleMark
  <2>3. len + 1 \in 0 .. size
    BY <1>1, InLoop
  <2> QED
    BY <1>1, <1>4, <2>1, <2>2, <2>3, InLoop, TurnType
<1>6. CASE Include
  <2>1. Turn(len, scb \ {"FINDCB"})
    BY <1>6 DEF Include
  <2>2. nest' \in 1 .. MaxNest /\ reads' \in 0 .. MaxReads
    BY <1>1, <1>6, SpendType, InLoop DEF Include
  <2>3. len \in 0 .. size
    BY <1>1, InLoop
  <2> QED
    BY <1>1, <1>4, <2>1, <2>2, <2>3, InLoop, TurnType
<1>7. CASE Text
  <2>1. Turn(len + Scb, scb \ {"FINDCB"})
    BY <1>7 DEF Text
  <2>2. nest' = nest /\ reads' \in 0 .. MaxReads
    BY <1>7, SpendType DEF Text
  <2>3. len + Scb \in 0 .. size
    BY <1>1, InLoop
  <2> QED
    BY <1>1, <1>4, <2>1, <2>2, <2>3, InLoop, TurnType
<1>8. CASE EndOfFile
  <2>1. PICK k \in 0 .. Scb - 1 : Close(k, IF k > 0 THEN scb \ {"FINDCB"} ELSE scb)
    BY <1>1, <1>8, InLoop DEF EndOfFile
  <2> DEFINE flags == IF k > 0 THEN scb \ {"FINDCB"} ELSE scb
             all == IF nest = 1 THEN flags \cup Ends ELSE flags
  <2>2. Turn(len + k, all) /\ nest' = nest - 1
    BY <2>1 DEF Close
  <2>3. reads' \in 0 .. MaxReads
    BY <1>8, SpendType DEF EndOfFile
  <2>4. len + k \in 0 .. size
    BY <1>1, InLoop
  <2>5. /\ all \in SUBSET Flags
        /\ "CHUNKED" \in all <=> "CHUNKED" \in scb
        /\ nest = 1 => all \cap Ends # {}
    BY <1>1, InLoop DEF Flags, Ends
  <2> HIDE DEF all
  <2>6. nest' \in 0 .. MaxNest /\ (all \cap Ends # {} \/ nest' # 0)
    BY <1>1, <2>2, <2>5, InLoop
  <2> QED
    BY <1>1, <2>2, <2>3, <2>4, <2>5, <2>6, TurnType
<1> QED
  BY <1>2, <1>3, <1>5, <1>6, <1>7, <1>8 DEF Loop

\* what was made fits, with the marks of a chunk
LEMMA WireFits ==
  ASSUME TInv, at = "send"
  PROVE  Wire \in Nat /\ Wire <= room
<1>1. /\ len \in Nat /\ size \in Nat /\ len <= size /\ room \in Nat
      /\ size = IF "CHUNKED" \in scb THEN room - Reserve ELSE room
  BY Constants DEF TInv, TypeOK, Shape, Allowed
<1> QED
  BY <1>1, Constants DEF Wire, LastChunk

\* The buffer with its marks goes out, and is taken.
LEMMA SendType == ASSUME TInv, Send PROVE TInv'
<1>1. at = "send" /\ UNCHANGED <<page, nest, left, reads, scb, size, len, tfree>>
  BY DEF Send, file, buffer
<1>2. LastChunk \in BOOLEAN
  BY DEF LastChunk
<1>3. /\ room' \in 0 .. SndBuf /\ client' \in Client /\ cut' \in BOOLEAN
      /\ at' \in {"freed", "tail"}
      /\ cause' \subseteq Causes /\ "refused" \notin cause'
  <2>1. CASE len = 0
    BY <2>1 DEF Send, NothingSent, TInv, TypeOK, NeverRefused, Causes
  <2>2. CASE len # 0
    <3> DEFINE told == [Got(len) EXCEPT !.ended = LastChunk]
    <3>1. told \in Client
      <4>1. client \in Client /\ len \in Nat
        BY DEF TInv, TypeOK
      <4>2. Got(len) \in Client
        BY <4>1, GotType
      <4> QED
        BY <1>2, <4>2 DEF Client
    <3>2. IntSent(Wire, told, {}, "tail")
      BY <2>2 DEF Send
    <3>3. {} \in SUBSET (Causes \ {"refused"})
      OBVIOUS
    <3> HIDE DEF told
    <3> QED
      BY <1>1, <3>1, <3>2, <3>3, WireFits, FitsType
  <2> QED
    BY <2>1, <2>2
<1>4. TypeOK' /\ NeverRefused'
  BY <1>1, <1>3 DEF TInv, TypeOK, NeverRefused, Causes
<1>5. Shape'
  BY <1>1, <1>3 DEF TInv, Shape
<1> QED
  BY <1>4, <1>5 DEF TInv

\* The end of a callback keeps the types.
LEMMA TailType == ASSUME TInv, Tail PROVE TInv'
<1>1. /\ at = "tail" /\ at' \in {"wait", "freed", "closed"}
      /\ scb' \subseteq Flags /\ nest' \in {0, nest}
      /\ at' = "wait" => scb' = scb /\ nest' = nest /\ scb \cap Ends = {}
  BY DEF Tail, TInv, TypeOK, Flags
<1>2. UNCHANGED <<page, left, reads, size, len, room, tfree, cut, client, cause>>
  BY DEF Tail, buffer
<1>3. TypeOK' /\ NeverRefused'
  BY <1>1, <1>2, Constants DEF TInv, TypeOK, NeverRefused
<1>4. Shape'
  BY <1>1, <1>2 DEF TInv, Shape
<1> QED
  BY <1>3, <1>4 DEF TInv

\* What others do keeps the types.
LEMMA ClientType == ASSUME TInv, Ack \/ Gone \/ DiskReplaced PROVE TInv'
<1>1. CASE Ack
  <2>1. PICK r \in Rooms : room' = r
    BY <1>1 DEF Ack
  <2>2. room' \in 0 .. SndBuf
    BY <2>1, PageAssumption DEF PageAssumption
  <2>3. /\ at = "wait" /\ at' = "start"
        /\ UNCHANGED <<page, nest, left, reads, scb, size, len, tfree, cut,
                       client, cause>>
    BY <1>1 DEF Ack, file, buffer
  <2> QED
    BY <2>2, <2>3 DEF TInv, TypeOK, Shape, NeverRefused
<1>2. CASE Gone
  <2>1. /\ at' = "gone"
        /\ UNCHANGED <<page, nest, left, reads, scb, size, len, room, tfree, cut,
                       client, cause>>
    BY <1>2 DEF Gone, file, buffer
  <2> QED
    BY <2>1 DEF TInv, TypeOK, Shape, NeverRefused
<1>3. CASE DiskReplaced
  <2>1. /\ at = "wait" /\ left' \in Nat /\ cause' = cause \cup {"replaced"}
        /\ UNCHANGED <<at, page, nest, reads, scb, size, len, room, tfree, cut,
                       client>>
    BY <1>3, Constants DEF DiskReplaced, buffer
  <2>2. TypeOK' /\ NeverRefused'
    BY <2>1 DEF TInv, TypeOK, NeverRefused
  <2>3. Shape'
    BY <2>1 DEF TInv, Shape
  <2> QED
    BY <2>2, <2>3 DEF TInv
<1> QED
  BY <1>1, <1>2, <1>3

\* The types and the fit hold before the answer begins.
LEMMA InitTInv == Init => TInv
<1> SUFFICES ASSUME Init PROVE TInv
  OBVIOUS
<1>1. client \in Client
  BY DEF Init, Client
<1>2. /\ nest \in 0 .. MaxNest /\ left \in Nat /\ reads \in 0 .. MaxReads
      /\ size \in 0 .. SndBuf /\ len \in 0 .. size /\ room \in 0 .. SndBuf
  BY Constants DEF Init
<1>3. TypeOK
  BY <1>1, <1>2 DEF Init, TypeOK, Pages
<1>4. Shape /\ NeverRefused
  BY DEF Init, Shape, NeverRefused
<1> QED
  BY <1>3, <1>4 DEF TInv

\* Every step keeps the types and the fit.
LEMMA NextTInv == TInv /\ [Next]_vars => TInv'
<1> SUFFICES ASSUME TInv, [Next]_vars PROVE TInv'
  OBVIOUS
<1>1. CASE Next
  BY <1>1, RequestType, SendFdataType, LoopType, SendType, TailType, ClientType
     DEF Next, Steps
<1>2. CASE UNCHANGED vars
  BY <1>2 DEF vars, file, buffer, TInv, TypeOK, Shape, Allowed, NeverRefused
<1> QED
  BY <1>1, <1>2

\* The types, the shape of the buffer, and that nothing is refused: the
\* invariant that the other proofs start from.
THEOREM TypesHold == Spec => []TInv
BY InitTInv, NextTInv, PTL DEF Spec

(* Every variable keeps its type, and every page whose body is not sent    *)
(* keeps a file open or is about to end.                                   *)
THEOREM TypeCorrect == Spec => []TypeOK
BY TypesHold, PTL DEF TInv

(* What webserver_send_fdata makes always fits into the send buffer, chunk *)
(* marks included (web_srv.c:929-933, 999-1013): tcpsrv_int_sent_data,     *)
(* whose result is not looked at, never refuses it.                        *)
THEOREM NothingRefused == Spec => []NeverRefused
BY TypesHold, PTL DEF TInv

-----------------------------------------------------------------------------
(* Nothing after the empty chunk.                                          *)

(* After the empty chunk only the end of the callback is left.             *)
EndInv ==
  client.ended => \/ at = "tail" /\ "FCLOSE" \in scb
                  \/ at \in {"closed", "freed"}

\* what is sent has ended only where the sender says so
LEMMA SentEnded ==
  ASSUME NEW n, NEW told, NEW why, NEW next, IntSent(n, told, why, next)
  PROVE  client' \in {client, told} /\ at' \in {"freed", next}
BY DEF IntSent

\* A head does not end the body.
LEMMA HeadersEnded ==
  ASSUME TInv, EndInv, at = "request", NEW p, NEW n, NEW v11, NEW why,
         Headers(p, n, v11, why)
  PROVE  ~client'.ended
<1>1. ~client.ended
  BY DEF EndInv
<1>2. CASE NoMemory(why)
  BY <1>1, <1>2 DEF NoMemory, NothingSent
<1>3. CASE ~NoMemory(why)
  <2> DEFINE mode == IF n = 0 \/ ~(p \in {"parsed", "dump"}) THEN "length"
                     ELSE IF v11 THEN "chunked" ELSE "close"
             told == [mode |-> mode,
                      announced |-> IF mode = "length" THEN n ELSE 0,
                      got |-> 0, ended |-> FALSE, garbled |-> FALSE]
  <2>1. IntSent(HeadLen, told, why, IF n = 0 THEN "tail" ELSE "start")
    BY <1>3 DEF Headers
  <2>2. ~told.ended
    OBVIOUS
  <2> HIDE DEF told
  <2> QED
    BY <1>1, <2>1, <2>2, SentEnded
<1> QED
  BY <1>2, <1>3

\* No answer has ended before its first body bytes.
LEMMA RequestEnded ==
  ASSUME TInv, EndInv, Request PROVE at = "request" /\ ~client'.ended
<1>1. CASE \E p \in Pages \ {"none"}, n \in Sizes, post \in Posts,
              v11 \in BOOLEAN : Found(p, n, post, v11)
  BY <1>1, HeadersEnded DEF Found
<1>2. CASE \E q \in Pages \ {"dump"}, m \in Sizes, post \in Posts,
              p \in {"plain", "parsed"}, n \in Sizes, v11 \in BOOLEAN :
              Errors(Counted(q, m, post), p, n, v11)
  BY <1>2, HeadersEnded DEF Errors
<1>3. CASE DefaultContent \/ NoContent \/ Redirect
  <2> DEFINE moved == [client EXCEPT !.mode = "close"]
  <2>1. at = "request" /\ ~client.ended
    BY <1>3 DEF DefaultContent, NoContent, Redirect, EndInv
  <2>2. ~Whole(BuiltIn).ended /\ ~moved.ended
    BY <2>1 DEF Whole, TInv, TypeOK, Client
  <2> HIDE DEF moved
  <2>3. client' \in {client, Whole(BuiltIn), moved}
    BY <1>3, SentEnded DEF DefaultContent, NoContent, Redirect, NoMemory,
                           NothingSent, moved
  <2> QED
    BY <2>1, <2>2, <2>3
<1> QED
  BY <1>1, <1>2, <1>3 DEF Request

\* After the empty chunk the client's record does not change any more.
LEMMA NextEnd ==
  ASSUME TInv, EndInv, [Next]_vars
  PROVE  EndInv' /\ (client.ended => client' = client)
<1>1. CASE Request
  BY <1>1, RequestEnded DEF EndInv
<1>2. CASE SendFdata
  <2>1. at = "start" /\ ~client.ended
    BY <1>2 DEF SendFdata, EndInv
  <2> DEFINE told == [Got(BuiltIn) EXCEPT !.garbled = (client.mode = "chunked")]
  <2>2. told.ended = client.ended
    <3>1. client \in Client /\ BuiltIn \in Nat
      BY Constants DEF TInv, TypeOK
    <3> QED
      BY <3>1 DEF Got, Client
  <2> HIDE DEF told
  <2>3. client' \in {client, told}
    BY <1>2, SentEnded DEF SendFdata, Flush, SendFnohanle, NoBuffer, PlainFile,
                           EmptyBuffer, NothingSent, told
  <2> QED
    BY <2>1, <2>2, <2>3 DEF EndInv
<1>3. CASE Loop
  BY <1>3 DEF Loop, RetryCallback, StartMark, DoubleMark, Callback, Include,
              Text, EndOfFile, Close, Turn, EndInv
<1>4. CASE Send
  <2>1. at = "send" /\ ~client.ended /\ scb' = scb /\ LastChunk \in BOOLEAN
    BY <1>4 DEF Send, EndInv, LastChunk
  <2> DEFINE told == [Got(len) EXCEPT !.ended = LastChunk]
  <2>2. told.ended = LastChunk
    <3>1. client \in Client /\ len \in Nat
      BY DEF TInv, TypeOK
    <3> QED
      BY <3>1, <2>1 DEF Got, Client
  <2> HIDE DEF told
  <2>3. client' \in {client, told} /\ at' \in {"freed", "tail"}
    BY <1>4, SentEnded DEF Send, NothingSent, told
  <2> QED
    BY <2>1, <2>2, <2>3 DEF EndInv, LastChunk
<1>5. CASE Tail
  BY <1>5 DEF Tail, EndInv, Ends
<1>6. CASE Ack \/ Gone \/ DiskReplaced
  BY <1>6 DEF Ack, Gone, DiskReplaced, EndInv
<1>7. CASE UNCHANGED vars
  BY <1>7 DEF vars, EndInv
<1> QED
  BY <1>1, <1>2, <1>3, <1>4, <1>5, <1>6, <1>7 DEF Next, Steps

(* Nothing follows the empty chunk, whatever callbacks and sent callbacks  *)
(* come after the end of the page was found (web_srv.c:936-1018).          *)
THEOREM EndIsEnd == Spec => NothingAfterEnd
<1>1. Init => EndInv
  BY DEF Init, EndInv
<1>2. TInv /\ EndInv /\ [Next]_vars => EndInv'
  BY NextEnd
<1>3. TInv /\ EndInv /\ [Next]_vars => [client.ended => client' = client]_vars
  BY NextEnd
<1> QED
  BY <1>1, <1>2, <1>3, TypesHold, PTL DEF Spec, NothingAfterEnd

-----------------------------------------------------------------------------
(* The answer is whole, unless for one of the causes.                      *)

\* of an announced body, what is still to be sent
Rest == IF page = "plain" THEN left + (IF at = "send" THEN len ELSE 0)
        ELSE IF "FCLOSE" \in scb THEN 0 ELSE BuiltIn

(* A body of known length that follows its head: a plain file, or a text   *)
(* of the program.                                                         *)
KnownBody ==
  /\ page \in {"plain", "builtin"} /\ client.mode = "length"
  /\ client.announced = client.got + Rest
  /\ "RETRYCB" \notin scb
  /\ at \notin (IF page = "plain" THEN {"loop"} ELSE {"loop", "send"})
  /\ scb \cap Ends # {} =>
       /\ "FCLOSE" \in scb
       /\ page = "plain" => left = 0

(* No body, or one that went out with the head.                            *)
NoBody ==
  /\ page \notin {"plain", "builtin"} /\ client.mode = "length"
  /\ client.announced = client.got
  /\ at \in {"tail", "closed", "freed"} /\ scb \cap Ends # {}

Chunks ==
  /\ page \in {"parsed", "dump"} /\ client.mode = "chunked"
  /\ "CHUNKED" \in scb
  /\ scb \cap Ends # {} =>
       /\ "FCLOSE" \in scb
       /\ at = "send" \/ (at \in {"tail", "closed", "freed"} /\ client.ended)

UntilClosed == page \notin {"plain", "builtin"} /\ client.mode = "close"

Body == KnownBody \/ NoBody \/ Chunks \/ UntilClosed

WholeInv ==
  cause = {} =>
    /\ ~client.garbled /\ ~cut
    /\ at \notin {"request", "gone"} => Body
    /\ at \in {"closed", "freed"} => scb \cap Ends # {}

\* The invariant says that the answer is whole when it was closed.
LEMMA WholeIsWhole == TInv /\ WholeInv => WholeUnlessFor
<1> SUFFICES ASSUME TInv, WholeInv, cause = {}, at \in {"closed", "freed"}
             PROVE  \/ client.mode = "length" /\ client.got = client.announced
                    \/ client.mode = "chunked" /\ client.ended
                    \/ client.mode = "close"
  BY DEF WholeUnlessFor, WholeInv
<1>1. Body /\ scb \cap Ends # {}
  BY DEF WholeInv
<1>2. client.got \in Nat
  BY DEF TInv, TypeOK, Client
<1> QED
  BY <1>1, <1>2 DEF Body, KnownBody, NoBody, Chunks, UntilClosed, Rest

\* what was sent, where no cause came of it
LEMMA SentWhole ==
  ASSUME NEW n, NEW told, NEW why, NEW next,
         IntSent(n, told, why, next), cause' = {}
  PROVE  /\ cause = {} /\ why = {} /\ client' = told /\ cut' = FALSE
         /\ at' = next
<1>1. PICK o \in SendOutcomes(n) :
        /\ client' = IF o = "sent" THEN told ELSE client
        /\ cut' = (o = "cut")
        /\ at' = IF o = "freed" THEN "freed" ELSE next
        /\ cause' = cause \cup why \cup Why(o)
  BY DEF IntSent
<1>2. o = "sent"
  BY <1>1 DEF Why
<1> QED
  BY <1>1, <1>2

\* the head: n is the length that cause = {} leaves to announce
LEMMA HeadersWhole ==
  ASSUME TInv, WholeInv, at = "request",
         NEW p \in Pages \ {"none"}, NEW m \in Nat, Open(p, m),
         NEW n \in Nat, NEW v11 \in BOOLEAN, NEW why, Headers(p, n, v11, why),
         why = {} => n = Length(p, m)
  PROVE  WholeInv'
<1> SUFFICES ASSUME cause' = {}
             PROVE  /\ ~client'.garbled /\ ~cut'
                    /\ Body' /\ at' \notin {"closed", "freed"}
  BY DEF WholeInv
<1>1. ~NoMemory(why)
  BY DEF NoMemory, NothingSent
<1> DEFINE unknown == p \in {"parsed", "dump"}
           mode == IF n = 0 \/ ~unknown THEN "length"
                   ELSE IF v11 THEN "chunked" ELSE "close"
           told == [mode |-> mode, announced |-> IF mode = "length" THEN n ELSE 0,
                    got |-> 0, ended |-> FALSE, garbled |-> FALSE]
           next == IF n = 0 THEN "tail" ELSE "start"
<1>2. /\ scb' = (IF n = 0 THEN Ends \cup {"CLOSED"}
                 ELSE IF unknown /\ v11 THEN {"CHUNKED"} ELSE {})
                  \cup (IF p = "dump" THEN {"RETRYCB"} ELSE {})
      /\ IntSent(HeadLen, told, why, next)
  BY <1>1 DEF Headers
<1>3. why = {} /\ client' = told /\ cut' = FALSE /\ at' = next
  <2> HIDE DEF told, next
  <2> QED
    BY <1>2, SentWhole
<1>4. n = Length(p, m) /\ page' = p /\ left' = IF p = "plain" THEN m ELSE 0
  BY <1>3 DEF Open
<1>5. CASE p = "plain"
  <2>1. KnownBody'
    BY <1>2, <1>3, <1>4, <1>5 DEF KnownBody, Rest, Length, Ends
  <2> QED
    BY <1>3, <2>1 DEF Body
<1>6. CASE p = "builtin"
  <2>1. n = BuiltIn /\ n # 0
    BY <1>4, <1>6, Constants DEF Length
  <2>2. scb' = {} /\ at' = "start"
    BY <1>2, <1>3, <1>6, <2>1
  <2>3. KnownBody'
    BY <1>3, <1>4, <1>6, <2>1, <2>2, Constants DEF KnownBody, Rest, Ends
  <2> QED
    BY <1>3, <2>3 DEF Body
<1>7. CASE p \in {"parsed", "dump"} /\ n = 0
  <2>1. NoBody'
    BY <1>2, <1>3, <1>4, <1>7 DEF NoBody, Ends
  <2> QED
    BY <1>3, <1>7, <2>1 DEF Body
<1>8. CASE p \in {"parsed", "dump"} /\ n # 0
  <2>1. Chunks' \/ UntilClosed'
    BY <1>2, <1>3, <1>4, <1>8 DEF Chunks, UntilClosed, Ends
  <2> QED
    BY <1>3, <1>8, <2>1 DEF Body
<1> QED
  BY <1>5, <1>6, <1>7, <1>8 DEF Pages

\* Each way to begin an answer begins it whole.
LEMMA RequestWhole == ASSUME TInv, WholeInv, Request PROVE WholeInv'
<1>1. CASE \E p \in Pages \ {"none"}, n \in Sizes, post \in Posts,
              v11 \in BOOLEAN : Found(p, n, post, v11)
  <2>1. PICK p \in Pages \ {"none"}, n \in Sizes, post \in Posts,
          v11 \in BOOLEAN : Found(p, n, post, v11)
    BY <1>1
  <2>2. n \in Nat /\ Counted(p, n, post) \in Nat
    BY CountedType, Constants
  <2>3. (IF post = 0 THEN {} ELSE {"posted"}) = {} => Counted(p, n, post) = Length(p, n)
    BY DEF Counted
  <2> QED
    BY <2>1, <2>2, <2>3, HeadersWhole DEF Found
<1>2. CASE \E q \in Pages \ {"dump"}, m \in Sizes, post \in Posts,
              p \in {"plain", "parsed"}, n \in Sizes, v11 \in BOOLEAN :
              Errors(Counted(q, m, post), p, n, v11)
  <2>1. PICK q \in Pages \ {"dump"}, m \in Sizes, post \in Posts,
          p \in {"plain", "parsed"}, n \in Sizes, v11 \in BOOLEAN :
          Errors(Counted(q, m, post), p, n, v11)
    BY <1>2
  <2> DEFINE before == Counted(q, m, post)
             why == IF before = 0 THEN {} ELSE {"summed"}
  <2>2. before \in Nat /\ n \in Nat /\ p \in Pages \ {"none"}
    BY CountedType, Constants DEF Pages
  <2> HIDE DEF before
  <2>3. Errors(before, p, n, v11)
    BY <2>1 DEF before
  <2>4. why = {} => before + n = Length(p, n)
    BY <2>1, <2>2 DEF Length
  <2>5. at = "request" /\ Open(p, n) /\ Headers(p, before + n, v11, why)
    BY <2>3 DEF Errors
  <2> HIDE DEF why
  <2>6. before + n \in Nat
    BY <2>2
  <2> QED
    BY <2>2, <2>4, <2>5, <2>6, HeadersWhole
<1>3. CASE DefaultContent
  <2> SUFFICES ASSUME cause' = {}
               PROVE  /\ ~client'.garbled /\ ~cut'
                      /\ Body' /\ at' \notin {"closed", "freed"}
    BY DEF WholeInv
  <2>1. ~NoMemory({})
    BY DEF NoMemory, NothingSent
  <2>2. /\ page' = "none" /\ scb' = {"DISCONNECT", "CLOSED"}
        /\ client' = Whole(BuiltIn) /\ cut' = FALSE /\ at' = "tail"
    BY <1>3, <2>1, SentWhole DEF DefaultContent, Open
  <2>3. NoBody'
    BY <2>2 DEF NoBody, Whole, Ends
  <2> QED
    BY <2>2, <2>3 DEF Body, Whole
<1>4. CASE Redirect
  <2> SUFFICES ASSUME cause' = {}
               PROVE  /\ ~client'.garbled /\ ~cut'
                      /\ Body' /\ at' \notin {"closed", "freed"}
    BY DEF WholeInv
  <2> DEFINE told == [client EXCEPT !.mode = "close"]
  <2>1. told.mode = "close" /\ told.garbled = client.garbled
    BY DEF TInv, TypeOK, Client
  <2> HIDE DEF told
  <2>2. ~NoMemory({})
    BY DEF NoMemory, NothingSent
  <2>3. /\ at = "request" /\ page' = page
        /\ IntSent(HeadLen, told, {}, "tail")
    BY <1>4, <2>2 DEF Redirect, file, told
  <2>4. cause = {} /\ client' = told /\ cut' = FALSE /\ at' = "tail"
    BY <2>3, SentWhole
  <2>5. page = "none" /\ ~client.garbled
    BY <2>3, <2>4 DEF TInv, Shape, WholeInv
  <2> QED
    BY <2>1, <2>3, <2>4, <2>5 DEF Body, UntilClosed
<1>5. CASE NoContent
  <2>1. cause' # {}
    BY <1>5, SentWhole DEF NoContent, NoMemory, NothingSent
  <2> QED
    BY <2>1 DEF WholeInv
<1> QED
  BY <1>1, <1>2, <1>3, <1>4, <1>5 DEF Request

\* What is read and what is left of a file make up what there was.
LEMMA TakenAndLeft ==
  ASSUME NEW a \in Int, NEW b \in Int PROVE (a - b) + b = a
OBVIOUS

\* The bytes of a plain file that are read are those that will be sent.
LEMMA SendFdataWhole == ASSUME TInv, WholeInv, SendFdata PROVE WholeInv'
<1> SUFFICES ASSUME cause' = {}
             PROVE  /\ ~client'.garbled /\ ~cut'
                    /\ Body' /\ at' \notin {"closed", "freed"}
  BY DEF WholeInv
<1>1. at = "start" /\ scb \cap Ends = {}
  BY DEF SendFdata, TInv, Shape
<1>2. cause = {} /\ ~NoBuffer
  BY SentWhole DEF SendFdata, Flush, SendFnohanle, NoBuffer, PlainFile,
                   EmptyBuffer, NothingSent
<1>3. Body /\ ~client.garbled /\ ~cut
  BY <1>1, <1>2 DEF WholeInv
<1>4. client \in Client /\ BuiltIn \in Nat \ {0} /\ left \in Nat /\ len \in Nat
      /\ room \in Nat
  BY Constants DEF TInv, TypeOK
<1>5. CASE Flush
  <2>1. /\ at' = "tail" /\ UNCHANGED <<scb, page, left, client, cut>>
    BY <1>5 DEF Flush, NothingSent, file
  <2>2. KnownBody => KnownBody'
    BY <1>1, <2>1 DEF KnownBody, Rest
  <2>3. Chunks \/ UntilClosed => Chunks' \/ UntilClosed'
    BY <1>1, <2>1 DEF Chunks, UntilClosed
  <2> QED
    BY <1>1, <1>3, <2>1, <2>2, <2>3 DEF Body, NoBody
<1>6. CASE SendFnohanle
  <2> DEFINE told == [Got(BuiltIn) EXCEPT !.garbled = (client.mode = "chunked")]
             why == IF page = "dump" THEN {"appended"} ELSE {}
  <2>1. IntSent(BuiltIn, told, why, "tail")
    BY <1>6 DEF SendFnohanle
  <2>2. why = {} /\ client' = told /\ cut' = FALSE /\ at' = "tail"
    <3> HIDE DEF told, why
    <3> QED
      BY <2>1, SentWhole
  <2>3. page = "builtin" /\ page' = page /\ scb' = scb \cup Ends
        /\ "RETRYCB" \notin scb
    BY <1>6, <2>2 DEF SendFnohanle, BuiltInText, file
  <2>4. KnownBody
    BY <1>1, <1>3, <2>3 DEF Body, NoBody, Chunks, UntilClosed
  <2>5. client.announced = client.got + BuiltIn /\ client.mode = "length"
    BY <1>1, <2>3, <2>4 DEF KnownBody, Rest, Ends
  <2>6. /\ told.mode = "length" /\ told.got = client.got + BuiltIn
        /\ told.announced = client.announced /\ told.garbled = FALSE
    BY <1>4, <2>5 DEF Got, Client
  <2> HIDE DEF told
  <2>7. client.got + BuiltIn = client.got + BuiltIn + 0
    BY <1>4 DEF Client
  <2>8. KnownBody'
    BY <2>2, <2>3, <2>5, <2>6, <2>7 DEF KnownBody, Rest, Ends
  <2> QED
    BY <2>2, <2>6, <2>8 DEF Body
<1>7. CASE PlainFile
  <2>1. /\ page = "plain" /\ page' = page /\ at' = "send"
        /\ client' = client /\ cut' = cut
        /\ scb' = IF len' < size' THEN scb \cup Ends ELSE scb
        /\ left' = left - len'
        /\ len' = IF left < size' THEN left ELSE size'
    BY <1>7 DEF PlainFile, NothingSent, ShortRead
  <2>2. size' \in Int
    BY <1>4, <1>7, Constants DEF PlainFile, Allowed
  <2>3. KnownBody
    BY <1>1, <1>3, <2>1 DEF Body, NoBody, Chunks, UntilClosed
  <2>4. client.announced = client.got + left
    BY <1>1, <1>4, <2>1, <2>3 DEF KnownBody, Rest
  <2>5. len' \in Int /\ left' + len' = left /\ (len' < size' => left' = 0)
    <3>1. CASE left < size'
      BY <1>4, <2>1, <3>1
    <3>2. CASE ~(left < size')
      <4>1. len' = size' /\ left' = left - size'
        BY <2>1, <3>2
      <4>2. left \in Int /\ size' \in Int
        BY <1>4, <2>2
      <4>3. len' \in Int /\ ~(len' < size')
        BY <4>1, <4>2
      <4>4. (left - size') + size' = left
        BY <4>2, TakenAndLeft
      <4> QED
        BY <4>1, <4>3, <4>4, Zenon
    <3> QED
      BY <3>1, <3>2
  <2>6. Rest' = left
    BY <2>1, <2>5 DEF Rest
  <2>7. scb' \cap Ends # {} => "FCLOSE" \in scb' /\ left' = 0
    BY <1>1, <2>1, <2>5 DEF Ends
  <2>8. "RETRYCB" \notin scb'
    BY <2>1, <2>3 DEF KnownBody, Ends
  <2>9. KnownBody'
    BY <2>1, <2>3, <2>4, <2>6, <2>7, <2>8 DEF KnownBody
  <2> QED
    BY <1>3, <2>1, <2>9 DEF Body
<1>8. CASE EmptyBuffer
  <2>1. /\ at' = "loop" /\ UNCHANGED <<scb, page, left, client, cut>>
        /\ page # "plain" /\ ~BuiltInText
    BY <1>8 DEF EmptyBuffer, NothingSent, file
  <2>2. ~KnownBody
    BY <2>1 DEF KnownBody, BuiltInText
  <2>3. Chunks \/ UntilClosed
    BY <1>1, <1>3, <2>2 DEF Body, NoBody
  <2>4. Chunks' \/ UntilClosed'
    BY <1>1, <2>1, <2>3 DEF Chunks, UntilClosed
  <2> QED
    BY <1>3, <2>1, <2>4 DEF Body
<1> QED
  BY <1>2, <1>5, <1>6, <1>7, <1>8 DEF SendFdata

\* the turns of the loop: the flags that end a page come together
LEMMA TurnWhole ==
  ASSUME TInv, WholeInv, at = "loop", NEW n, NEW flags, Turn(n, flags),
         "CHUNKED" \in flags <=> "CHUNKED" \in scb,
         flags \cap Ends # {} => "FCLOSE" \in flags
  PROVE  WholeInv'
<1> SUFFICES ASSUME cause' = {}
             PROVE  /\ ~client'.garbled /\ ~cut'
                    /\ Body' /\ at' \notin {"closed", "freed"}
  BY DEF WholeInv
<1>1. /\ scb' = flags /\ UNCHANGED <<page, left, client, cut, cause>>
      /\ at' = IF GoesOn(n, flags) THEN "loop" ELSE "send"
  BY DEF Turn
<1>2. Body /\ ~client.garbled /\ ~cut
  BY <1>1 DEF WholeInv
<1>3. Chunks \/ UntilClosed
  BY <1>2 DEF Body, KnownBody, NoBody
<1>4. flags \cap Ends # {} => at' = "send"
  BY <1>1 DEF GoesOn, Ends
<1>5. Chunks' \/ UntilClosed'
  BY <1>1, <1>3, <1>4 DEF Chunks, UntilClosed
<1> QED
  BY <1>1, <1>2, <1>5 DEF Body

\* No turn of the loop loses bytes, and the end of the page is noted.
LEMMA LoopWhole == ASSUME TInv, WholeInv, Loop PROVE WholeInv'
<1>1. at = "loop"
  BY DEF Loop
<1>2. CASE RetryCallback \/ Callback
  <2>1. PICK o \in Outcomes(size - len) : Turn(len + o.n, After(scb, o.end))
    BY <1>2 DEF RetryCallback, Callback
  <2>2. size - len \in Nat /\ scb \in SUBSET Flags /\ scb \cap Ends = {}
    BY <1>1, InLoop
  <2>3. /\ "CHUNKED" \in After(scb, o.end) <=> "CHUNKED" \in scb
        /\ After(scb, o.end) \cap Ends \in {{}, Ends}
    BY <2>2, OutcomeType
  <2> DEFINE flags == After(scb, o.end)
             n == len + o.n
  <2>4. flags \cap Ends # {} => "FCLOSE" \in flags
    BY <2>3 DEF Ends
  <2>5. Turn(n, flags) /\ ("CHUNKED" \in flags <=> "CHUNKED" \in scb)
    BY <2>1, <2>3
  <2> HIDE DEF flags, n
  <2> QED
    BY <1>1, <2>4, <2>5, TurnWhole
<1>3. CASE StartMark \/ DoubleMark \/ Include \/ Text
  <2>1. PICK n \in Int, flags \in {scb \cup {"FINDCB"}, scb \ {"FINDCB"}} :
          Turn(n, flags)
    <3>1. CASE StartMark
      BY <1>1, <3>1, InLoop DEF StartMark
    <3>2. CASE DoubleMark
      BY <1>1, <3>2, InLoop DEF DoubleMark
    <3>3. CASE Include
      BY <1>1, <3>3, InLoop DEF Include
    <3>4. CASE Text
      BY <1>1, <3>4, InLoop DEF Text
    <3> QED
      BY <1>3, <3>1, <3>2, <3>3, <3>4
  <2>2. flags \cap Ends = {} /\ ("CHUNKED" \in flags <=> "CHUNKED" \in scb)
    BY <1>1, InLoop DEF Ends
  <2> QED
    BY <1>1, <2>1, <2>2, TurnWhole
<1>4. CASE EndOfFile
  <2>1. PICK k \in 0 .. Scb - 1 : Close(k, IF k > 0 THEN scb \ {"FINDCB"} ELSE scb)
    BY <1>1, <1>4, InLoop DEF EndOfFile
  <2> DEFINE flags == IF k > 0 THEN scb \ {"FINDCB"} ELSE scb
             all == IF nest = 1 THEN flags \cup Ends ELSE flags
  <2>2. Turn(len + k, all)
    BY <2>1 DEF Close
  <2>3. /\ "CHUNKED" \in all <=> "CHUNKED" \in scb
        /\ all \cap Ends # {} => "FCLOSE" \in all
    BY <1>1, InLoop DEF Ends
  <2> HIDE DEF all
  <2> QED
    BY <1>1, <2>2, <2>3, TurnWhole
<1> QED
  BY <1>2, <1>3, <1>4 DEF Loop

\* What is sent is counted, and the last chunk ends a chunked body.
LEMMA SendWhole == ASSUME TInv, WholeInv, Send PROVE WholeInv'
<1> SUFFICES ASSUME cause' = {}
             PROVE  /\ ~client'.garbled /\ ~cut'
                    /\ Body' /\ at' \notin {"closed", "freed"}
  BY DEF WholeInv
<1>1. at = "send" /\ UNCHANGED <<page, left, scb, len>> /\ LastChunk \in BOOLEAN
  BY DEF Send, file, buffer, LastChunk
<1>2. client \in Client /\ len \in Nat /\ left \in Nat /\ client.got \in Nat
  BY DEF TInv, TypeOK, Client
<1> DEFINE told == [Got(len) EXCEPT !.ended = LastChunk]
<1>3. /\ told.mode = client.mode /\ told.announced = client.announced
      /\ told.garbled = client.garbled /\ told.ended = LastChunk
      /\ told.got = IF client.mode = "length" THEN client.got + len ELSE client.got
  BY <1>1, <1>2 DEF Got, Client
<1>4. /\ cause = {} /\ at' = "tail"
      /\ \/ len = 0 /\ client' = client /\ cut' = cut /\ ~LastChunk
         \/ len # 0 /\ client' = told /\ cut' = FALSE
  <2>1. CASE len = 0
    BY <2>1 DEF Send, NothingSent
  <2>2. CASE len # 0
    <3>1. IntSent(Wire, told, {}, "tail")
      BY <2>2 DEF Send
    <3> HIDE DEF told
    <3> QED
      BY <2>2, <3>1, SentWhole
  <2> QED
    BY <2>1, <2>2
<1> HIDE DEF told
<1>5. Body /\ ~client.garbled /\ ~cut
  BY <1>1, <1>4 DEF WholeInv
<1>6. /\ client'.mode = client.mode /\ client'.announced = client.announced
      /\ client'.garbled = client.garbled /\ ~cut'
      /\ client.mode = "length" => client'.got = client.got + len
      /\ LastChunk => client'.ended
  BY <1>2, <1>3, <1>4, <1>5
<1>7. CASE KnownBody
  <2>1. page = "plain" /\ client.announced = client.got + (left + len)
    BY <1>1, <1>7 DEF KnownBody, Rest
  <2>2. Rest' = left
    BY <1>1, <1>2, <1>4, <2>1 DEF Rest
  <2>3. client'.announced = client'.got + Rest'
    BY <1>2, <1>6, <1>7, <2>1, <2>2 DEF KnownBody
  <2>4. KnownBody'
    BY <1>1, <1>4, <1>6, <1>7, <2>1, <2>3 DEF KnownBody
  <2> QED
    BY <1>4, <1>5, <1>6, <2>4 DEF Body
<1>8. CASE Chunks
  <2>1. Chunks'
    BY <1>1, <1>4, <1>6, <1>8 DEF Chunks, LastChunk
  <2> QED
    BY <1>4, <1>5, <1>6, <2>1 DEF Body
<1>9. CASE UntilClosed
  <2>1. UntilClosed'
    BY <1>1, <1>6, <1>9 DEF UntilClosed
  <2> QED
    BY <1>4, <1>5, <1>6, <2>1 DEF Body
<1> QED
  BY <1>1, <1>5, <1>7, <1>8, <1>9 DEF Body, NoBody

\* A connection is closed only when the page has ended.
LEMMA TailWhole == ASSUME TInv, WholeInv, Tail PROVE WholeInv'
<1> SUFFICES ASSUME cause' = {}
             PROVE  /\ ~client'.garbled /\ ~cut' /\ Body'
                    /\ at' \in {"closed", "freed"} => scb' \cap Ends # {}
  BY DEF WholeInv
<1>1. /\ at = "tail" /\ UNCHANGED <<page, left, len, client, cut, cause>>
      /\ \/ scb \cap Ends = {} /\ at' = "wait" /\ scb' = scb
         \/ scb \cap Ends # {} /\ at' \in {"closed", "freed"}
            /\ scb' = scb \cup {"DISCONNECT", "CLOSED"}
  BY DEF Tail, buffer
<1>2. Body /\ ~client.garbled /\ ~cut
  BY <1>1 DEF WholeInv
<1>3. /\ scb' \cap Ends # {} <=> scb \cap Ends # {}
      /\ "FCLOSE" \in scb' <=> "FCLOSE" \in scb
      /\ "RETRYCB" \in scb' <=> "RETRYCB" \in scb
      /\ "CHUNKED" \in scb' <=> "CHUNKED" \in scb
  BY <1>1 DEF Ends
<1>4. CASE KnownBody
  <2>1. Rest' = Rest
    BY <1>1, <1>3 DEF Rest
  <2>2. KnownBody'
    BY <1>1, <1>3, <1>4, <2>1 DEF KnownBody
  <2> QED
    BY <1>1, <1>2, <1>3, <2>2 DEF Body
<1>5. CASE NoBody
  <2>1. NoBody'
    BY <1>1, <1>3, <1>5 DEF NoBody
  <2> QED
    BY <1>1, <1>2, <1>3, <2>1 DEF Body
<1>6. CASE Chunks
  <2>1. Chunks'
    BY <1>1, <1>3, <1>6 DEF Chunks
  <2> QED
    BY <1>1, <1>2, <1>3, <2>1 DEF Body
<1>7. CASE UntilClosed
  BY <1>1, <1>2, <1>3, <1>7 DEF Body, UntilClosed
<1> QED
  BY <1>2, <1>4, <1>5, <1>6, <1>7 DEF Body

\* An acknowledgement or the client's leaving changes no byte count, and
\* a replaced disk is a cause.
LEMMA ClientWhole ==
  ASSUME TInv, WholeInv, Ack \/ Gone \/ DiskReplaced PROVE WholeInv'
<1>1. CASE Ack
  <2> SUFFICES ASSUME cause' = {}
               PROVE  /\ ~client'.garbled /\ ~cut'
                      /\ Body' /\ at' \notin {"closed", "freed"}
    BY DEF WholeInv
  <2>1. /\ at = "wait" /\ at' = "start"
        /\ UNCHANGED <<page, left, scb, len, client, cut, cause>>
    BY <1>1 DEF Ack, file, buffer
  <2>2. Body /\ ~client.garbled /\ ~cut /\ scb \cap Ends = {}
    BY <2>1 DEF WholeInv, TInv, Shape
  <2>3. KnownBody => KnownBody'
    BY <2>1 DEF KnownBody, Rest
  <2>4. Chunks \/ UntilClosed => Chunks' \/ UntilClosed'
    BY <2>1, <2>2 DEF Chunks, UntilClosed
  <2> QED
    BY <2>1, <2>2, <2>3, <2>4 DEF Body, NoBody
<1>2. CASE Gone
  BY <1>2 DEF Gone, WholeInv
<1>3. CASE DiskReplaced
  BY <1>3 DEF DiskReplaced, WholeInv
<1> QED
  BY <1>1, <1>2, <1>3

(* An answer sent to its end is whole to the client: it was told where the *)
(* body ends, and the body is as long as the head says, or ended by the    *)
(* empty chunk, with nothing but chunks before it; the exceptions are the  *)
(* causes the model keeps (no memory, a failed write, web_srv.c:514, 912,  *)
(* 1000, 1125, webfs.c:85).                                                *)
THEOREM AnswerIsWhole == Spec => []WholeUnlessFor
<1>1. Init => WholeInv
  BY DEF Init, WholeInv
<1>2. TInv /\ WholeInv /\ [Next]_vars => WholeInv'
  <2> SUFFICES ASSUME TInv, WholeInv, [Next]_vars PROVE WholeInv'
    OBVIOUS
  <2>1. CASE Next
    BY <2>1, RequestWhole, SendFdataWhole, LoopWhole, SendWhole, TailWhole,
       ClientWhole DEF Next, Steps
  <2>2. CASE UNCHANGED vars
    BY <2>2 DEF vars, file, buffer, WholeInv, Body, KnownBody, NoBody, Chunks,
                UntilClosed, Rest
  <2> QED
    BY <2>1, <2>2
<1> QED
  BY <1>1, <1>2, WholeIsWhole, TypesHold, PTL DEF Spec
-----------------------------------------------------------------------------
(* The end of a page.                                                      *)

(* What is left to do: bytes of a plain file, turns that find more in a    *)
(* marked file or a dump, files to close, a callback to be called again.   *)
Work == left + 2 * reads + nest + IF "RETRYCB" \in scb THEN 1 ELSE 0

(* The work never grows once the page was chosen, and each turn of the     *)
(* loop does some of it; a callback that finds the room it waits for gets  *)
(* into the loop, takes some of a plain file, or ends the page; and one    *)
(* that is called again and finds the whole window writes or is done.      *)
Advances ==
  /\ Work' <= Work
  /\ Loop => Work' < Work
  /\ SendFdata /\ room >= MinSend =>
       Work' < Work \/ at' = "loop" \/ scb' \cap Ends # {}
  /\ Loop /\ RetryCallback /\ len = 0 /\ room = SndBuf =>
       len' # 0 \/ "RETRYCB" \notin scb'

PageWorks == [][at # "request" /\ ~DiskReplaced => Advances]_vars

\* Two sums, part by part.
LEMMA Sums ==
  ASSUME NEW l \in Nat, NEW r \in Nat, NEW n \in Nat, NEW b \in Nat,
         NEW k \in Nat, NEW q \in Nat, NEW m \in Nat, NEW d \in Nat
  PROVE  /\ l + 2 * r + n + b \in Nat
         /\ k <= l /\ 2 * q + m <= 2 * r + n /\ d <= b
              => k + 2 * q + m + d <= l + 2 * r + n + b
         /\ k < l /\ 2 * q + m <= 2 * r + n /\ d <= b
              => k + 2 * q + m + d < l + 2 * r + n + b
         /\ k = l /\ 2 * q + m < 2 * r + n /\ d <= b
              => k + 2 * q + m + d < l + 2 * r + n + b
         /\ k = l /\ 2 * q + m + 1 < 2 * r + n /\ d <= 1
              => k + 2 * q + m + d < l + 2 * r + n + b
         /\ k = l /\ 2 * q + m = 2 * r + n /\ d < b
              => k + 2 * q + m + d < l + 2 * r + n + b
  OBVIOUS

\* Any such sum is a natural number.
LEMMA SumIsNat ==
  ASSUME NEW l \in Nat, NEW r \in Nat, NEW n \in Nat, NEW b \in Nat
  PROVE  l + 2 * r + n + b \in Nat
  OBVIOUS

\* One turn less weighs more than one file more.
LEMMA OneFewer ==
  ASSUME NEW r \in Nat, NEW n \in Nat, NEW q \in Nat, NEW m \in Nat, q = r - 1
  PROVE  m <= n + 1 => 2 * q + m < 2 * r + n
  OBVIOUS

\* Work by its parts.
LEMMA WorkParts ==
  ASSUME TInv, left' \in Nat, reads' \in Nat, nest' \in Nat
  PROVE  /\ Work \in Nat /\ Work' \in Nat
         /\ left' <= left /\ 2 * reads' + nest' <= 2 * reads + nest
            /\ ("RETRYCB" \in scb' => "RETRYCB" \in scb) => Work' <= Work
         /\ left' < left /\ 2 * reads' + nest' <= 2 * reads + nest
            /\ ("RETRYCB" \in scb' => "RETRYCB" \in scb) => Work' < Work
         /\ left' = left /\ 2 * reads' + nest' < 2 * reads + nest
            /\ ("RETRYCB" \in scb' => "RETRYCB" \in scb) => Work' < Work
         /\ left' = left /\ 2 * reads' + nest' + 1 < 2 * reads + nest => Work' < Work
         /\ left' = left /\ 2 * reads' + nest' = 2 * reads + nest
            /\ "RETRYCB" \in scb /\ "RETRYCB" \notin scb' => Work' < Work
<1> DEFINE b == IF "RETRYCB" \in scb THEN 1 ELSE 0
           d == IF "RETRYCB" \in scb' THEN 1 ELSE 0
<1>1. left \in Nat /\ reads \in Nat /\ nest \in Nat
  BY Constants DEF TInv, TypeOK
<1>2. /\ b \in Nat /\ d \in Nat /\ d <= 1
      /\ ("RETRYCB" \in scb' => "RETRYCB" \in scb) => d <= b
      /\ "RETRYCB" \in scb /\ "RETRYCB" \notin scb' => d < b
  OBVIOUS
<1>3. Work = left + 2 * reads + nest + b /\ Work' = left' + 2 * reads' + nest' + d
  BY DEF Work
<1> HIDE DEF b, d
<1>4. /\ left + 2 * reads + nest + b \in Nat
      /\ left' <= left /\ 2 * reads' + nest' <= 2 * reads + nest /\ d <= b
           => left' + 2 * reads' + nest' + d <= left + 2 * reads + nest + b
      /\ left' < left /\ 2 * reads' + nest' <= 2 * reads + nest /\ d <= b
           => left' + 2 * reads' + nest' + d < left + 2 * reads + nest + b
      /\ left' = left /\ 2 * reads' + nest' < 2 * reads + nest /\ d <= b
           => left' + 2 * reads' + nest' + d < left + 2 * reads + nest + b
      /\ left' = left /\ 2 * reads' + nest' + 1 < 2 * reads + nest /\ d <= 1
           => left' + 2 * reads' + nest' + d < left + 2 * reads + nest + b
      /\ left' = left /\ 2 * reads' + nest' = 2 * reads + nest /\ d < b
           => left' + 2 * reads' + nest' + d < left + 2 * reads + nest + b
  BY <1>1, <1>2, Sums, Zenon
<1>5. left' + 2 * reads' + nest' + d \in Nat
  BY <1>2, SumIsNat, Zenon
<1> QED
  BY <1>2, <1>3, <1>4, <1>5, Zenon

\* A turn of the loop does some of the work.
LEMMA LoopWorks == ASSUME TInv, Loop PROVE Work' < Work /\ Work' <= Work
<1>1. /\ at = "loop" /\ TInv' /\ left' = left
      /\ left' \in Nat /\ reads' \in Nat /\ nest' \in Nat /\ reads \in Nat /\ nest \in Nat
  <2>1. at = "loop" /\ TInv'
    BY LoopType DEF Loop
  <2>2. left' = left
    BY DEF Loop, RetryCallback, StartMark, DoubleMark, Callback, Include, Text, EndOfFile, Close, Turn
  <2> QED
    BY <2>1, <2>2, Constants DEF TInv, TypeOK
<1>2. CASE RetryCallback
  <2>1. PICK o \in Outcomes(size - len) :
          /\ Turn(len + o.n, After(scb, o.end))
          /\ IF o.end = "again" THEN Spend ELSE UNCHANGED reads
    BY <1>2 DEF RetryCallback
  <2>2. scb' = After(scb, o.end) /\ nest' = nest /\ "RETRYCB" \in scb
    BY <1>2, <2>1 DEF RetryCallback, Turn
  <2>3. CASE o.end = "again"
    <3>1. reads' = reads - 1
      BY <2>1, <2>3 DEF Spend
    <3> QED
      BY <1>1, <2>2, <3>1, WorkParts
  <2>4. CASE o.end \in {"done", "close"}
    <3>1. reads' = reads
      BY <2>1, <2>4
    <3>2. "RETRYCB" \notin scb'
      BY <2>2, <2>4 DEF After, Ends
    <3> QED
      BY <1>1, <2>2, <3>1, <3>2, WorkParts
  <2>5. o.end \in {"done", "close", "again"}
    BY <2>1 DEF Outcomes
  <2> QED
    BY <2>3, <2>4, <2>5
<1>3. CASE StartMark \/ DoubleMark \/ Callback \/ Text
  <2>1. reads' = reads - 1 /\ nest' = nest
    BY <1>3 DEF StartMark, DoubleMark, Callback, Text, Spend
  <2> QED
    BY <1>1, <2>1, WorkParts
<1>4. CASE Include
  <2>1. /\ reads' = reads - 1 /\ nest' <= nest + 1
        /\ "RETRYCB" \in scb' => "RETRYCB" \in scb
    BY <1>1, <1>4 DEF Include, Spend, Turn
  <2>2. 2 * reads' + nest' < 2 * reads + nest
    BY <1>1, <2>1, OneFewer, Zenon
  <2>3. Work' < Work /\ Work \in Nat /\ Work' \in Nat
    BY <1>1, <2>1, <2>2, WorkParts, Zenon
  <2> QED
    BY <2>3
<1>5. CASE EndOfFile
  <2>1. reads' = reads /\ nest' = nest - 1 /\ scb' \subseteq scb \cup Ends
    BY <1>5 DEF EndOfFile, Close, Turn
  <2>2. "RETRYCB" \in scb' => "RETRYCB" \in scb
    BY <2>1 DEF Ends
  <2> QED
    BY <1>1, <2>1, <2>2, WorkParts
<1> QED
  BY <1>2, <1>3, <1>4, <1>5 DEF Loop

\* Up to the loop.
LEMMA SendFdataWorks ==
  ASSUME TInv, SendFdata
  PROVE  /\ Work' <= Work
         /\ room >= MinSend => Work' < Work \/ at' = "loop" \/ scb' \cap Ends # {}
<1>1. /\ left \in Nat /\ reads \in Nat /\ nest \in Nat
      /\ left' \in Nat /\ reads' = reads /\ nest' = nest
  <2>1. TInv'
    BY SendFdataType
  <2>2. reads' = reads /\ nest' = nest
    BY DEF SendFdata, Flush, SendFnohanle, NoBuffer, PlainFile, EmptyBuffer, file
  <2> QED
    BY <2>1, <2>2, Constants DEF TInv, TypeOK
<1>2. "RETRYCB" \in scb' => "RETRYCB" \in scb
  BY DEF SendFdata, Flush, SendFnohanle, NoBuffer, PlainFile, EmptyBuffer, Ends
<1>3. CASE PlainFile
  <2>1. room \in Nat /\ room >= MinSend
    BY <1>3, Constants DEF PlainFile, TInv, TypeOK
  <2>2. Allowed(room) \in Nat /\ Allowed(room) # 0
    BY <2>1, Constants DEF Allowed
  <2>3. CASE left < Allowed(room)
    <3>1. len' = left /\ size' = Allowed(room) /\ left' = 0 /\ scb' = scb \cup Ends
      BY <1>1, <1>3, <2>2, <2>3 DEF PlainFile, ShortRead
    <3> QED
      BY <1>1, <1>2, <3>1, WorkParts DEF Ends
  <2>4. CASE ~(left < Allowed(room))
    <3>1. left' < left
      BY <1>1, <1>3, <2>2, <2>4 DEF PlainFile
    <3>2. Work' < Work
      BY <1>1, <1>2, <3>1, WorkParts
    <3> QED
      BY <1>1, <3>2, WorkParts
  <2> QED
    BY <2>3, <2>4
<1>4. CASE ~PlainFile
  <2>1. left' = left
    BY <1>4 DEF SendFdata, Flush, SendFnohanle, NoBuffer, EmptyBuffer, file
  <2>2. Work' <= Work
    BY <1>1, <1>2, <2>1, WorkParts
  <2>3. room >= MinSend => at' = "loop" \/ scb' \cap Ends # {}
    <3>1. CASE Flush
      <4>1. room \in Nat /\ MinSend \in Nat
        BY Constants DEF TInv, TypeOK
      <4> QED
        BY <3>1, <4>1 DEF Flush
    <3>2. CASE SendFnohanle \/ NoBuffer
      BY <3>2 DEF SendFnohanle, NoBuffer, Ends
    <3>3. CASE EmptyBuffer
      BY <3>3 DEF EmptyBuffer, NothingSent
    <3> QED
      BY <1>4, <3>1, <3>2, <3>3 DEF SendFdata
  <2> QED
    BY <2>2, <2>3
<1> QED
  BY <1>3, <1>4

\* A callback asks to be called again for want of room only.
LEMMA RetryWrites ==
  ASSUME TInv, Loop, RetryCallback, len = 0, room = SndBuf
  PROVE  len' # 0 \/ "RETRYCB" \notin scb'
<1>1. at = "loop" /\ size = Allowed(SndBuf)
  BY DEF Loop, TInv, Shape
<1>2. size \in Nat /\ Need \in Nat /\ Need <= size
  BY <1>1, PageAssumption, Constants DEF Allowed, PageAssumption
<1>3. PICK o \in Outcomes(size - len) : Turn(len + o.n, After(scb, o.end))
  BY DEF RetryCallback
<1>4. CASE o.end = "again"
  <2>1. o.n \in 0 .. size /\ size - o.n < Need
    BY <1>2, <1>4 DEF Outcomes
  <2> QED
    BY <1>2, <1>3, <2>1 DEF Turn
<1>5. CASE o.end \in {"done", "close"}
  BY <1>3, <1>5 DEF Turn, After, Ends
<1> QED
  BY <1>4, <1>5 DEF Outcomes

\* The rest of a callback, and the client.
LEMMA OthersWork == ASSUME TInv, Send \/ Tail \/ Ack \/ Gone \/ UNCHANGED vars PROVE Work' <= Work
<1>1. /\ left \in Nat /\ reads \in Nat /\ nest \in Nat
      /\ left' = left /\ reads' = reads /\ nest' \in {0, nest}
  BY Constants DEF TInv, TypeOK, Send, Tail, Ack, Gone, file, vars
<1>2. "RETRYCB" \in scb' => "RETRYCB" \in scb
  BY DEF Send, Tail, Ack, Gone, vars
<1>3. left' <= left /\ 2 * reads' + nest' <= 2 * reads + nest /\ nest' \in Nat
  <2>1. CASE nest' = 0
    BY <1>1, <2>1
  <2>2. CASE nest' = nest
    BY <1>1, <2>2
  <2> QED
    BY <1>1, <2>1, <2>2
<1> QED
  BY <1>1, <1>2, <1>3, WorkParts

(***************************************************************************)
(* The safety half of PageEnds: the work that is left never grows but by   *)
(* the replacement of the disk, every turn of the loop and every callback  *)
(* that finds room does some of it or ends the page, and a callback that   *)
(* is called again writes something when the whole window is free.  So a   *)
(* page needs no more turns than it has pieces, however the                *)
(* acknowledgements come and whatever fails.                               *)
(***************************************************************************)
THEOREM PageAlwaysAdvances == Spec => PageWorks
<1>1. TInv /\ [Next]_vars => (at # "request" /\ ~DiskReplaced => Advances)
  <2> SUFFICES ASSUME TInv, [Next]_vars, at # "request", ~DiskReplaced
               PROVE  Advances
    OBVIOUS
  <2>1. CASE Loop
    <3>1. Work' < Work
      BY <2>1, LoopWorks
    <3>2. Work' <= Work
      BY <2>1, LoopWorks
    <3>3. ~SendFdata
      BY <2>1 DEF Loop, SendFdata
    <3> QED
      BY <2>1, <3>1, <3>2, <3>3, RetryWrites DEF Advances
  <2>2. CASE SendFdata
    BY <2>2, SendFdataWorks DEF Advances, Loop, SendFdata
  <2>3. CASE ~Loop /\ ~SendFdata
    <3>1. Send \/ Tail \/ Ack \/ Gone \/ UNCHANGED vars
      BY <2>3 DEF Next, Steps, Request, Found, Errors, DefaultContent, NoContent,
                      Redirect
    <3> QED
      BY <2>3, <3>1, OthersWork DEF Advances
  <2> QED
    BY <2>1, <2>2, <2>3
<1> QED
  BY <1>1, TypesHold, PTL DEF Spec, PageWorks

=============================================================================
