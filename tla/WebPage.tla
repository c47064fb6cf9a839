------------------------------ MODULE WebPage ------------------------------
(***************************************************************************)
(* How the HTTP server sends one answer: web_print_headers, then           *)
(* webserver_send_fdata, first from the receive callback and again from    *)
(* each sent callback of lwIP, until the page ends and web_int_disconnect  *)
(* marks the connection closed.                                            *)
(*                                                                         *)
(* A page is a plain file, a file with ~callback~ marks, one of the texts  *)
(* built into the program, or a dump of memory asked for with web.cgi.     *)
(* What a marked file contains is chosen as it is read: text, a mark, the  *)
(* end; of what is sent only lengths are kept, and whether the client can  *)
(* tell where the body ends.  One turn of the reading loop is a step, and  *)
(* nothing comes between the steps of a callback.  Lengths are scaled down.*)
(***************************************************************************)
EXTENDS Integers

CONSTANTS
  Scb,        \* SCB_SEND_SIZE: what is read at a time, and kept for a callback
  Pre, Suf,   \* RESCHKS_SEND_SIZE, RESCHKE_SEND_SIZE: room for chunk marks
  SndBuf,     \* TCP_SND_BUF
  Rooms,      \* bound: what may fit after an acknowledgement
  HeadLen,    \* length of a head, at most HTTP_SEND_SIZE
  Sizes,      \* lengths of a file
  Posts,      \* Content-Length of a request, 0 for none
  BuiltIn,    \* length of a text of the program
  Need,       \* the longest record a callback writes in one piece
  MaxNest,    \* files open at a time: sizeof(bffiles)
  MaxReads,   \* bound: turns of the loop that find more to read
  Faults      \* what may fail: "malloc", "write" (tcp_write), "close" (tcp_close)

Reserve == Pre + Suf
MinSend == 2 * Scb + Reserve    \* MIN_SEND_SIZE

ASSUME PageAssumption ==
  /\ {Scb, Pre, Suf, BuiltIn, MaxNest} \subseteq Nat \ {0}
  /\ {SndBuf, HeadLen, Need, MaxReads} \subseteq Nat
  /\ HeadLen + MinSend <= SndBuf /\ BuiltIn <= MinSend
  /\ Need + Reserve <= SndBuf
  /\ Rooms \subseteq 0 .. SndBuf
  /\ Sizes \subseteq Nat /\ Posts \subseteq Nat
  /\ Faults \subseteq {"malloc", "write", "close"}

VARIABLES
  at,      \* where the callback is
  page,    \* what is sent
  scb,     \* webflag
  nest,    \* open files
  left,    \* bytes of a plain file not yet read
  reads,   \* turns that may still find more
  size, len,  \* msgbufsize, msgbuflen
  room,    \* tcp_sndbuf
  tfree,   \* pcb_time_wait_free
  cut,     \* the TCP server has closed the connection but could not free it
  client,  \* the answer as the client has it
  cause    \* history: why the answer may not be whole

buffer == <<size, len>>
file == <<page, nest, left, reads>>
vars == <<at, file, scb, buffer, room, tfree, cut, client, cause>>

Pages == {"none", "plain", "parsed", "builtin", "dump"}
Flags == {"FCLOSE", "DISCONNECT", "CLOSED", "CHUNKED", "RETRYCB", "FINDCB"}
Ends == {"FCLOSE", "DISCONNECT"}

(* mode: how the client finds the end of the body; ended: it has seen the  *)
(* empty chunk; garbled: something that is no chunk came among the chunks  *)
Client == [mode : {"none", "length", "close", "chunked"}, announced : Nat,
           got : Nat, ended : BOOLEAN, garbled : BOOLEAN]

TypeOK ==
  /\ at \in {"request", "start", "loop", "send", "tail", "wait",
             "closed", "gone", "freed"}
  /\ page \in Pages
  /\ scb \subseteq Flags
  /\ nest \in 0 .. MaxNest
  /\ left \in Nat /\ reads \in 0 .. MaxReads
  /\ size \in 0 .. SndBuf /\ len \in 0 .. size
  /\ room \in 0 .. SndBuf
  /\ tfree \in BOOLEAN /\ cut \in BOOLEAN
  /\ client \in Client
  /\ cause \subseteq {"malloc", "write", "refused", "posted", "summed",
                      "empty", "appended", "bare", "replaced"}

-----------------------------------------------------------------------------
(* tcpsrv_int_sent_data(n).  When tcp_write fails the connection is closed *)
(* and, if tcp_close succeeds, freed under the caller.                     *)

SendOutcomes(n) ==
  IF cut THEN {"cut"}
  ELSE IF n > room THEN {"refused"}
  ELSE {"sent"} \cup (IF "write" \in Faults THEN {"freed"} ELSE {})
                \cup (IF {"write", "close"} \subseteq Faults THEN {"cut"} ELSE {})

Why(o) == CASE o = "sent"    -> {}
            [] o = "refused" -> {"refused"}
            [] OTHER         -> {"write"}

IntSent(n, told, why, next) ==
  \E o \in SendOutcomes(n) :
    /\ room' = IF o = "sent" THEN room - n ELSE room
    /\ client' = IF o = "sent" THEN told ELSE client
    /\ cut' = (o = "cut")
    /\ at' = IF o = "freed" THEN "freed" ELSE next
    /\ cause' = cause \cup why \cup Why(o)

\* bytes of the body are counted where their number was announced
Got(n) == [client EXCEPT !.got = IF client.mode = "length" THEN @ + n ELSE @]

NothingSent(why, next) ==
  /\ at' = next
  /\ cause' = cause \cup why
  /\ UNCHANGED <<room, cut, client>>

-----------------------------------------------------------------------------
(* web_print_headers.                                                      *)

Open(p, n) ==
  /\ page' = p
  /\ nest' = IF p = "none" THEN 0 ELSE 1
  /\ left' = IF p = "plain" THEN n ELSE 0
  /\ UNCHANGED <<reads, buffer>>

(* a body that goes out with the head                                      *)
Whole(n) == [mode |-> "length", announced |-> n, got |-> n, ended |-> FALSE,
             garbled |-> FALSE]

NoMemory(why) ==
  /\ "malloc" \in Faults
  /\ scb' = Ends
  /\ UNCHANGED tfree
  /\ NothingSent(why \cup {"malloc"}, "tail")

(* n is content_len; a page with callbacks has no known length, and for a  *)
(* client of HTTP 1.1 it goes out in chunks                                *)
Headers(p, n, v11, why) ==
  LET unknown == p \in {"parsed", "dump"}
      flags == IF n = 0 THEN Ends \cup {"CLOSED"}
               ELSE IF unknown /\ v11 THEN {"CHUNKED"} ELSE {}
      mode == IF n = 0 \/ ~unknown THEN "length"
              ELSE IF v11 THEN "chunked" ELSE "close" IN
  \/ NoMemory(why)
  \/ /\ scb' = flags \cup (IF p = "dump" THEN {"RETRYCB"} ELSE {})
     /\ UNCHANGED tfree
     /\ IntSent(HeadLen, [mode |-> mode,
                       announced |-> IF mode = "length" THEN n ELSE 0,
                       got |-> 0, ended |-> FALSE, garbled |-> FALSE],
                why, IF n = 0 THEN "tail" ELSE "start")

Length(p, n) == CASE p = "none"                 -> 0
                  [] p \in {"plain", "parsed"} -> n
                  [] p \in {"builtin", "dump"} -> BuiltIn

\* content_len as parse_header leaves it
Counted(p, n, post) == IF post # 0 /\ p # "none" THEN post ELSE Length(p, n)

(* The request opened its page; a dump is asked for by GET only.           *)
Found(p, n, post, v11) ==
  /\ at = "request"
  /\ p = "dump" => post = 0
  /\ Open(p, n)
  /\ Headers(p, Counted(p, n, post), v11,
             IF post = 0 THEN {} ELSE {"posted"})

(* Status other than 200: the file of the request, if there was one, is    *)
(* closed, and that of the status opened.  content_len goes on from there. *)
Errors(before, p, n, v11) ==
  /\ at = "request"
  /\ Open(p, n)
  /\ Headers(p, before + n, v11, IF before = 0 THEN {} ELSE {"summed"})

(* no such file either: a short text goes with the head                    *)
DefaultContent ==
  /\ at = "request"
  /\ Open("none", 0)
  /\ \/ NoMemory({})
     \/ /\ scb' = {"DISCONNECT", "CLOSED"}
        /\ UNCHANGED tfree
        /\ IntSent(HeadLen, Whole(BuiltIn), {}, "tail")

(* nor any text, as for 400: the head goes without a length and without    *)
(* the empty line that ends it                                             *)
NoContent ==
  /\ at = "request"
  /\ Open("none", 0)
  /\ \/ NoMemory({})
     \/ /\ scb' = {"DISCONNECT", "CLOSED"}
        /\ UNCHANGED tfree
        /\ IntSent(HeadLen, client, {"bare"}, "tail")

(* a head that says where to go and nothing of a body: it ends with the    *)
(* connection.  func_discon_cb closes what the request opened.             *)
Redirect ==
  /\ at = "request"
  /\ UNCHANGED <<file, buffer>>
  /\ \/ NoMemory({})
     \/ /\ scb' = {"DISCONNECT", "CLOSED"}
        /\ tfree' = TRUE
        /\ IntSent(HeadLen, [client EXCEPT !.mode = "close"], {}, "tail")

Request ==
  \/ \E p \in Pages \ {"none"}, n \in Sizes, post \in Posts, v11 \in BOOLEAN :
       Found(p, n, post, v11)
  \/ \E q \in Pages \ {"dump"}, m \in Sizes, post \in Posts,
        p \in {"plain", "parsed"}, n \in Sizes, v11 \in BOOLEAN :
       Errors(Counted(q, m, post), p, n, v11)
  \/ DefaultContent
  \/ NoContent
  \/ Redirect

-----------------------------------------------------------------------------
(* webserver_send_fdata up to the loop.                                    *)

\* Mutant: no room is kept for the marks of a chunk
AllowedAll(r) == r

\* msgbufsize
Allowed(r) == IF "CHUNKED" \in scb THEN r - Reserve ELSE r

\* Mutant: a read that fills the buffer is taken for the last
ShortReadAlways(n, most) == n <= most

ShortRead(n, most) == n < most

(* the text behind a handle that is no file: also what a dump falls into   *)
(* once its callback is done                                               *)
BuiltInText == page \in {"builtin", "dump"} /\ "RETRYCB" \notin scb

(* too little room: what is queued is pushed, and the sent callback tries  *)
(* again                                                                   *)
Flush ==
  /\ room < MinSend
  /\ UNCHANGED <<scb, file, buffer>>
  /\ NothingSent({}, "tail")

SendFnohanle ==
  /\ room >= MinSend /\ BuiltInText
  /\ scb' = scb \cup Ends
  /\ UNCHANGED <<file, buffer>>
  /\ IntSent(BuiltIn,
             [Got(BuiltIn) EXCEPT !.garbled = (client.mode = "chunked")],
             IF page = "dump" THEN {"appended"} ELSE {}, "tail")

NoBuffer ==
  /\ room >= MinSend /\ ~BuiltInText
  /\ "malloc" \in Faults
  /\ scb' = scb \cup Ends
  /\ UNCHANGED <<file, buffer>>
  /\ NothingSent({"malloc"}, "tail")

PlainFile ==
  /\ room >= MinSend /\ page = "plain"
  /\ size' = Allowed(room)
  /\ len' = IF left < size' THEN left ELSE size'
  /\ left' = left - len'
  /\ scb' = IF ShortRead(len', size') THEN scb \cup Ends ELSE scb
  /\ UNCHANGED <<page, nest, reads>>
  /\ NothingSent({}, "send")

EmptyBuffer ==
  /\ room >= MinSend /\ ~BuiltInText /\ page # "plain"
  /\ size' = Allowed(room)
  /\ len' = 0
  /\ UNCHANGED <<scb, file>>
  /\ NothingSent({}, "loop")

SendFdata ==
  /\ at = "start"
  /\ Flush \/ SendFnohanle \/ NoBuffer \/ PlainFile \/ EmptyBuffer
  /\ UNCHANGED tfree

-----------------------------------------------------------------------------
(* The loop that fills the buffer.                                         *)

\* Mutant: any room is enough for another turn
GoesOnAnyRoom(n, flags) ==
  size - n > 0 /\ flags \cap {"FCLOSE", "RETRYCB", "DISCONNECT"} = {}

GoesOn(n, flags) ==
  size - n >= Scb /\ flags \cap {"FCLOSE", "RETRYCB", "DISCONNECT"} = {}

Turn(n, flags) ==
  /\ len' = n
  /\ scb' = flags
  /\ at' = IF GoesOn(n, flags) THEN "loop" ELSE "send"
  /\ UNCHANGED <<page, left, size, room, tfree, cut, client, cause>>

Spend == reads > 0 /\ reads' = reads - 1

(* func_web_cb and web_int_callback: what a callback may do with the room  *)
(* it finds.  One that asks to be called again had no room for its next    *)
(* record.                                                                 *)
Outcomes(free) ==
  {[n |-> n, end |-> end] : n \in 0 .. free, end \in {"done", "close"}} \cup
  {[n |-> n, end |-> "again"] : n \in {k \in 0 .. free : free - k < Need}}

After(flags, end) ==
  CASE end = "done"  -> flags \ {"RETRYCB", "FINDCB"}
    [] end = "close" -> (flags \ {"RETRYCB", "FINDCB"}) \cup Ends
    [] end = "again" -> (flags \ {"FINDCB"}) \cup {"RETRYCB"}

RetryCallback ==
  /\ "RETRYCB" \in scb
  /\ \E o \in Outcomes(size - len) :
       /\ Turn(len + o.n, After(scb, o.end))
       /\ IF o.end = "again" THEN Spend ELSE UNCHANGED reads
  /\ UNCHANGED nest

Reading == "RETRYCB" \notin scb /\ page = "parsed"

StartMark ==
  /\ Reading /\ "FINDCB" \notin scb
  /\ Spend
  /\ \E k \in 0 .. Scb - 1 : Turn(len + k, scb \cup {"FINDCB"})
  /\ UNCHANGED nest

(* "~~" stands for a mark itself                                           *)
DoubleMark ==
  /\ Reading /\ "FINDCB" \in scb
  /\ Spend
  /\ Turn(len + 1, scb \ {"FINDCB"})
  /\ UNCHANGED nest

Callback ==
  /\ Reading /\ "FINDCB" \in scb
  /\ Spend
  /\ \E o \in Outcomes(size - len) : Turn(len + o.n, After(scb, o.end))
  /\ UNCHANGED nest

(* "~inc:file~"; the fifth file pushes the first out                       *)
Include ==
  /\ Reading /\ "FINDCB" \in scb
  /\ Spend
  /\ Turn(len, scb \ {"FINDCB"})
  /\ nest' = IF nest = MaxNest THEN MaxNest ELSE nest + 1

Text ==
  /\ Reading
  /\ Spend
  /\ Turn(len + Scb, scb \ {"FINDCB"})
  /\ UNCHANGED nest

\* Mutant: the end of a file is not seen when nothing is left to read
CloseUnlessEmpty(k, flags) ==
  /\ Turn(len + k, IF nest = 1 /\ k > 0 THEN flags \cup Ends ELSE flags)
  /\ nest' = IF k > 0 THEN nest - 1 ELSE nest

(* web_inc_fclose after k bytes: the last file ends the page               *)
Close(k, flags) ==
  /\ Turn(len + k, IF nest = 1 THEN flags \cup Ends ELSE flags)
  /\ nest' = nest - 1

(* the file ends after k bytes; the handle of a dump has none              *)
EndOfFile ==
  /\ "RETRYCB" \notin scb
  /\ \E k \in IF page = "dump" THEN {0} ELSE 0 .. Scb - 1 :
       Close(k, IF k > 0 THEN scb \ {"FINDCB"} ELSE scb)
  /\ UNCHANGED reads

Loop ==
  /\ at = "loop"
  /\ \/ RetryCallback \/ StartMark \/ DoubleMark \/ Callback \/ Include
     \/ Text \/ EndOfFile

-----------------------------------------------------------------------------
(* The buffer goes out, and the callback ends.                             *)

\* Mutant: every buffer that no callback goes on after is taken for the last
LastChunkEarly == "CHUNKED" \in scb /\ "RETRYCB" \notin scb

(* a chunk carries its length before, and the last one an empty chunk after*)
LastChunk == "CHUNKED" \in scb /\ "FCLOSE" \in scb

Wire == len + (IF "CHUNKED" \in scb THEN Pre ELSE 0)
            + (IF LastChunk THEN Suf ELSE 0)

Send ==
  /\ at = "send"
  /\ IF len = 0
     THEN NothingSent(IF LastChunk THEN {"empty"} ELSE {}, "tail")
     ELSE IntSent(Wire, [Got(len) EXCEPT !.ended = LastChunk], {}, "tail")
  /\ UNCHANGED <<file, scb, buffer, tfree>>

\* web_int_disconnect closes the connection itself
Disconnects == tfree /\ ~cut

(* Close_web_conn and web_int_disconnect, which marks the connection       *)
(* closed, freed or not.  Without either, the sent callback is waited for. *)
Tail ==
  /\ at = "tail"
  /\ IF scb \cap Ends = {}
     THEN at' = "wait" /\ UNCHANGED <<scb, nest>>
     ELSE /\ scb' = scb \cup {"DISCONNECT", "CLOSED"}
          /\ nest' = IF "FCLOSE" \in scb THEN 0 ELSE nest
          /\ \/ Disconnects /\ at' = "freed"
             \/ /\ ~Disconnects \/ "close" \in Faults
                /\ at' = "closed"
  /\ UNCHANGED <<page, left, reads, buffer, room, tfree, cut, client, cause>>

-----------------------------------------------------------------------------
(* The client takes what was sent, or goes away.                           *)

Ack ==
  /\ at = "wait" /\ ~cut
  /\ \E r \in Rooms : room < r /\ room' = r
  /\ at' = "start"
  /\ UNCHANGED <<file, scb, buffer, tfree, cut, client, cause>>

Gone ==
  /\ at = "wait"
  /\ at' = "gone"
  /\ UNCHANGED <<file, scb, buffer, room, tfree, cut, client, cause>>

(* Another session ends an upload, and WEBFSInit clears all handles: the   *)
(* next read finds nothing, or the file that was opened with this handle   *)
(* since.  Once is enough, for nothing is promised then but that the page  *)
(* ends; what a marked file holds is chosen as it is read in any case.     *)
DiskReplaced ==
  /\ at = "wait" /\ page = "plain" /\ "replaced" \notin cause
  /\ left' \in Sizes \cup {0}
  /\ cause' = cause \cup {"replaced"}
  /\ UNCHANGED <<at, page, nest, reads, scb, buffer, room, tfree, cut, client>>

Init ==
  /\ at = "request" /\ page = "none" /\ scb = {}
  /\ nest = 0 /\ left = 0 /\ reads = MaxReads
  /\ size = 0 /\ len = 0 /\ room = SndBuf
  /\ tfree \in BOOLEAN /\ cut = FALSE
  /\ client = [mode |-> "none", announced |-> 0, got |-> 0, ended |-> FALSE,
               garbled |-> FALSE]
  /\ cause = {}

Steps == Request \/ SendFdata \/ Loop \/ Send \/ Tail

Next == Steps \/ Ack \/ Gone \/ DiskReplaced

Spec == Init /\ [][Next]_vars

(* A callback runs to its end, and the client acknowledges what it is sent.*)
FairSpec == Spec /\ WF_vars(Steps) /\ WF_vars(Ack)

-----------------------------------------------------------------------------
(* Properties.                                                             *)

(* What webserver_send_fdata makes always fits into what lwIP takes, marks *)
(* of a chunk included: tcpsrv_int_sent_data, whose result is not looked   *)
(* at, never refuses it.                                                   *)
NeverRefused == "refused" \notin cause

(* An answer that was sent to its end is whole to the client: it was told  *)
(* where the body ends, and the body is as long as the head says, or ended *)
(* by the empty chunk with nothing but chunks before it.  What cause lists *)
(* are the exceptions: no memory; a failed write; the length of a          *)
(* request's own body announced for the page (web_srv.c:514) or added to   *)
(* that of an error page; a page whose last callback found nothing more to *)
(* send, and sends no empty chunk (web_srv.c:1000); a dump after whose     *)
(* last piece little room was left, to which a built-in text is appended   *)
(* (web_srv.c:912); a status without a text, whose head breaks off         *)
(* (web_srv.c:1125); a file under which the disk was replaced (webfs.c:85).*)
WholeUnlessFor ==
  cause = {} =>
    /\ ~client.garbled
    /\ at \in {"closed", "freed"} =>
         \/ client.mode = "length" /\ client.got = client.announced
         \/ client.mode = "chunked" /\ client.ended
         \/ client.mode = "close"

(* Nothing follows the empty chunk, whatever callbacks and sent callbacks  *)
(* come after the page was found to end.                                   *)
NothingAfterEnd == [][client.ended => client' = client]_vars

(* A page never stalls: once all that was sent is acknowledged there is    *)
(* something more to send, until the page ends.                            *)
PageEnds == at = "start" ~> (at \in {"closed", "gone", "freed"} \/ cut)
=============================================================================
