------------------------------ MODULE WebSock ------------------------------
(***************************************************************************)
(* The websocket side of a connection of the HTTP server: websock.c,       *)
(* web_websocket.c, and what web_srv.c and tcp_srv_conn.c do around them.  *)
(*                                                                         *)
(* The client's frames form a stream of bytes that TCP cuts into segments  *)
(* as it likes.  The receive buffer always holds an interval of it, sizei  *)
(* bytes, of which cntri count as handled.  Both callbacks of lwIP, data   *)
(* received and data acknowledged, run websock_rx_data; only the first is  *)
(* followed by recv_trim_bufi, which takes the handled bytes out of the    *)
(* buffer.  A callback is one "enter" step, one step for each turn of the  *)
(* loop and one "leave" step, and nothing comes between them.  A segment   *)
(* that recv_trim_bufi has no memory for is kept by lwIP and given again.  *)
(*                                                                         *)
(* Of the stream the model keeps where, seen from the start of the buffer, *)
(* the next frame begins whose head is not read yet; what frame that is    *)
(* gets chosen when it is read.  What frames say is left out: a text is    *)
(* "ws:ping" or a command.  Lengths are scaled down.                       *)
(***************************************************************************)
EXTENDS Integers, Sequences

CONSTANTS
  HeadLens,   \* lengths of a frame head as the client sends it
  Pays,       \* lengths of a payload
  MaxFrame,   \* bound: what continuations may make frame_len
  Segs,       \* lengths of a segment
  SndMax,     \* TCP_SND_BUF
  Rooms,      \* bound: what may fit after an acknowledgement
  Margin,     \* the 8 of MAX_WS_DATA_BLK_SIZE
  Reserve,    \* the 16 kept free of a callback's answer
  MinSend,    \* MIN_SEND_SIZE
  MaxRx,      \* MAX_RX_BUF_SIZE
  Short,      \* 126: the greatest length written in one byte
  Faults      \* what may fail: "write" (tcp_write), "malloc", "realloc"

ASSUME SockAssumption ==
  /\ HeadLens \subseteq Nat \ {0}
  /\ Pays \subseteq 0 .. MaxFrame
  /\ Segs \subseteq Nat \ {0}
  /\ {MaxFrame, SndMax, Margin, Reserve, MinSend, MaxRx, Short} \subseteq Nat
  /\ SndMax # 0 /\ Rooms \subseteq 1 .. SndMax
  /\ 2 < Margin /\ 2 < Reserve /\ Reserve <= MinSend
  /\ Faults \subseteq {"write", "malloc", "realloc"}

VARIABLES
  ahead,      \* where the next frame begins, from the start of the buffer;
              \* 0 once that is lost
  sizei,      \* bytes in the buffer
  cntri,      \* of these, handled
  gone,       \* pbufi is NULL although sizei is not 0
  ws,         \* WS_FRSTAT
  scb,        \* webflag
  room,       \* tcp_sndbuf
  pc, cb,     \* where the callback is, and which one it is
  out,        \* frames sent in the last step
  closeSent,  \* history: a close frame has been sent
  off,        \* history: bytes that do not begin a frame were read as a head
  cause       \* history: what took the reader out of step first

buffer == <<ahead, sizei, cntri, gone>>
sending == <<out, room, closeSent>>
vars == <<buffer, ws, scb, sending, pc, cb, off, cause>>

Op == {"text", "wsping", "binary", "ping", "pong", "cont", "close", "bad"}
Status == {"none", "text", "binary", "close", "ping", "pong"}

Frame == [head : HeadLens, op : Op, len : Pays, fin : BOOLEAN]

(* wsping is not in WS_FRSTAT: the frame is a text that says "ws:ping"     *)
FrStat == [status : Status, wsping : BOOLEAN, frame_len : Nat, cur_len : Nat,
           fin : BOOLEAN, close : BOOLEAN]

TypeOK ==
  /\ ahead \in Nat \cup {-1} /\ sizei \in Nat /\ cntri \in Nat
  /\ gone \in BOOLEAN
  /\ ws \in FrStat
  /\ scb \subseteq {"RETRYCB", "FCLOSE", "DISCONNECT", "CLOSED"}
  /\ room \in 0 .. SndMax
  /\ pc \in {"idle", "enter", "loop", "leave"}
  /\ cb \in {"none", "recv", "sent"}
  /\ out \in Seq([op : {"text", "binary", "cont", "pong", "close"},
                  fin : BOOLEAN, len : Nat])
  /\ closeSent \in BOOLEAN /\ off \in BOOLEAN
  /\ cause \in {"none", "continuation", "reread", "dropped", "starved", "lost"}

-----------------------------------------------------------------------------
(* WebsocketTxFrame: one byte holds the length, or stands for two more.    *)

\* Mutant: the greatest length of one byte is one too great
LongTooLate(n) == n > Short + 1

Long(n) == n > Short

LenByte(n) == IF Long(n) THEN Short ELSE n
Wire(n) == (IF Long(n) THEN 2 ELSE 1) + n

(* WebsocketHead: below 126 the byte is the length, at 126 the two bytes   *)
(* after it are                                                            *)
ReadsBack(n) == LenByte(n) < Short \/ (LenByte(n) = Short /\ Long(n))

\* Mutant: what does not fit is sent all the same
TxOutcomesUnchecked(n, r) == {TRUE}

\* may a frame of n bytes be sent when r bytes fit, and may it fail
TxOutcomes(n, r) ==
  {ok \in BOOLEAN : IF ok THEN Wire(n) <= r
                    ELSE Wire(n) > r \/ "write" \in Faults}

Sent(op, fin, n) == <<[op |-> op, fin |-> fin, len |-> n]>>

CloseLen == 2

(* websock_tx_close_err, after the frames in done were sent and r is left  *)
TxCloseErr(w, done, r, flags) ==
  \E ok \in TxOutcomes(CloseLen, r) :
    /\ out' = IF ok THEN done \o Sent("close", TRUE, CloseLen) ELSE done
    /\ room' = IF ok THEN r - Wire(CloseLen) ELSE r
    /\ ws' = [w EXCEPT !.close = @ \/ ok]
    /\ scb' = scb \cup flags \cup (IF ok THEN {} ELSE {"DISCONNECT"})
    /\ closeSent' = (closeSent \/ ok)

NoTx == out' = <<>> /\ UNCHANGED <<room, closeSent>>

-----------------------------------------------------------------------------
(* The client and the network.                                             *)

First(a, b) == IF a = "none" THEN b ELSE a

(* n bytes leave the buffer at its start: a beginning that is left behind  *)
(* stays at -1                                                             *)
Shifted(a, n, lost) == IF lost THEN 0 ELSE IF n <= a THEN a - n ELSE -1

(* recv_trim_bufi(newadd): what is not handled moves to the front, and n   *)
(* bytes are added behind it                                               *)
Unhandled == IF cntri < sizei THEN sizei - cntri ELSE 0

\* to a buffer that is gone nothing is added
Kept(n) == IF gone /\ n # 0 THEN 0 ELSE Unhandled

Refill(n) ==
  /\ ahead' = Shifted(ahead, sizei - Kept(n), off)
  /\ sizei' = Kept(n) + n
  /\ cntri' = 0
  /\ gone' = FALSE

(* it moves what is not handled, and the realloc that follows fails: the   *)
(* bytes are lost, but still count                                         *)
LoseBuffer ==
  /\ "realloc" \in Faults /\ Unhandled # 0
  /\ ahead' = IF off THEN 0 ELSE -1
  /\ sizei' = Unhandled
  /\ gone' = TRUE
  /\ cause' = First(cause, "lost")
  /\ UNCHANGED cntri

Recv(n) ==
  /\ pc = "idle" /\ "CLOSED" \notin scb
  /\ Refill(n)
  /\ pc' = "enter" /\ cb' = "recv"
  /\ out' = <<>>
  /\ UNCHANGED <<ws, scb, room, closeSent, off, cause>>

(* ERR_MEM.  The buffer is shortened by a realloc when n bytes are less    *)
(* than what is handled; one that is handled to its end is freed before    *)
(* the new one is asked for; in all other cases nothing has changed when   *)
(* the malloc fails.                                                       *)
RecvRefused(n) ==
  /\ pc = "idle" /\ "CLOSED" \notin scb
  /\ \/ n < cntri /\ ~gone /\ LoseBuffer
     \/ /\ "malloc" \in Faults /\ sizei # 0 /\ Unhandled = 0
        /\ gone' = TRUE
        /\ UNCHANGED <<ahead, sizei, cntri, cause>>
  /\ out' = <<>>
  /\ UNCHANGED <<ws, scb, room, closeSent, pc, cb, off>>

Ack(r) ==
  /\ pc = "idle" /\ "CLOSED" \notin scb
  /\ room < r
  /\ room' = r
  /\ pc' = "enter" /\ cb' = "sent"
  /\ out' = <<>>
  /\ UNCHANGED <<buffer, ws, scb, closeSent, off, cause>>

(* the client closes the connection, or the idle timeout does              *)
Gone ==
  /\ pc = "idle" /\ "CLOSED" \notin scb
  /\ scb' = scb \cup {"DISCONNECT", "CLOSED"}
  /\ out' = <<>>
  /\ UNCHANGED <<buffer, ws, room, closeSent, pc, cb, off, cause>>

-----------------------------------------------------------------------------
(* websock_rx_data up to the loop.                                         *)

\* Mutant: a close that was sent is forgotten
AlreadyClosedNever == FALSE

AlreadyClosed == ws.close

(* web_feee_bufi                                                           *)
FreeBuffer ==
  IF gone THEN UNCHANGED buffer
  ELSE /\ ahead' = Shifted(ahead, sizei, off) /\ sizei' = 0 /\ cntri' = 0
       /\ UNCHANGED gone

EnterEmpty ==
  /\ pc = "enter" /\ sizei = 0
  /\ pc' = "leave" /\ NoTx
  /\ UNCHANGED <<buffer, ws, scb, cb, off, cause>>

\* Mutant: the buffer is freed, and the connection goes on
EnterClosedStays ==
  /\ pc = "enter" /\ sizei # 0 /\ AlreadyClosed
  /\ FreeBuffer
  /\ pc' = "leave" /\ NoTx
  /\ UNCHANGED <<ws, scb, cb, off, cause>>

EnterClosed ==
  /\ pc = "enter" /\ sizei # 0 /\ AlreadyClosed
  /\ FreeBuffer
  /\ scb' = scb \cup {"DISCONNECT"}
  /\ pc' = "leave" /\ NoTx
  /\ UNCHANGED <<ws, cb, off, cause>>

EnterFull ==
  /\ pc = "enter" /\ ~AlreadyClosed /\ sizei > MaxRx
  /\ FreeBuffer
  /\ TxCloseErr(ws, <<>>, room, {"DISCONNECT"})
  /\ pc' = "leave"
  /\ UNCHANGED <<cb, off, cause>>

EnterLoop ==
  /\ pc = "enter" /\ sizei \in 1 .. MaxRx /\ ~AlreadyClosed
  /\ pc' = "loop" /\ NoTx
  /\ UNCHANGED <<buffer, ws, scb, cb, off, cause>>

-----------------------------------------------------------------------------
(* A turn of the loop.                                                     *)

Turn == pc = "loop" /\ (cntri < sizei \/ ws.fin)
InFrame == ws.fin \/ ws.frame_len > ws.cur_len

LoopEnds ==
  /\ pc = "loop" /\ ~(cntri < sizei \/ ws.fin)
  /\ pc' = "leave" /\ NoTx
  /\ UNCHANGED <<buffer, ws, scb, cb, off, cause>>

(* the buffer is read from its first byte although cntri of it are handled *)
Reread == IF cntri # 0 THEN "reread" ELSE "none"

(* web_trim_bufi(&pbufi[c], sizei - c): unless some but not all bytes are  *)
(* left behind c, the buffer is freed.  Of a buffer that is gone nothing   *)
(* can be freed, but a realloc makes a new one.                            *)

\* Mutant: one byte behind c is not enough to be kept
MovesTwo(c) == c \in 1 .. sizei - 2

Moves(c) == c \in 1 .. sizei - 1

TrimBufi(c, a) ==
  IF gone /\ ~Moves(c)
  THEN ahead' = Shifted(a, 0, off') /\ cntri' = c /\ UNCHANGED <<sizei, gone>>
  ELSE /\ ahead' = Shifted(a, IF Moves(c) THEN c ELSE sizei, off')
       /\ sizei' = IF Moves(c) THEN sizei - c ELSE 0
       /\ cntri' = IF sizei = 0 THEN c ELSE 0
       /\ gone' = FALSE

Dropped(c) == IF c = 0 /\ sizei # 0 THEN "dropped" ELSE "none"

(* the end of a turn that goes on: WS_FRSTAT is w, c bytes are handled, the *)
(* next frame begins at a, the frames in done were sent and r bytes fit;   *)
(* why says what went wrong before                                         *)
TrimAndGoOn(w, c, a, done, r, why) ==
  \/ /\ TrimBufi(c, a)
     /\ ws' = w /\ out' = done /\ room' = r
     /\ cause' = First(First(cause, why), Dropped(c))
     /\ pc' = "loop"
     /\ UNCHANGED <<scb, closeSent>>
  \/ /\ "realloc" \in Faults /\ Moves(c)
     /\ TxCloseErr(w, done, r, {"DISCONNECT"})
     /\ cntri' = c
     /\ cause' = First(cause, why)
     /\ pc' = "leave"
     /\ ahead' = Shifted(a, 0, off')
     /\ gone' = TRUE
     /\ UNCHANGED sizei

-----------------------------------------------------------------------------
(* A new head.                                                             *)

(* The bytes at the start of the buffer are taken for a head.  They are    *)
(* one when ahead = 0, and may look like any otherwise.                    *)
OffStep == off \/ ahead # 0 \/ gone

HeadWait ==
  /\ Turn /\ ~InFrame
  /\ \E f \in Frame : f.head > sizei
  /\ pc' = "leave" /\ NoTx
  /\ off' = OffStep
  /\ ahead' = Shifted(ahead, 0, off')
  /\ cause' = First(cause, Reread)
  /\ UNCHANGED <<sizei, cntri, gone, ws, scb, cb>>

Failed == [status |-> "close", wsping |-> FALSE, frame_len |-> 0,
           cur_len |-> 0, fin |-> FALSE, close |-> FALSE]

HeadBad ==
  /\ Turn /\ ~InFrame
  /\ \E f \in Frame : f.head <= sizei /\ f.op = "bad"
  /\ TxCloseErr(Failed, <<>>, room, {})
  /\ pc' = "leave"
  /\ off' = OffStep
  /\ ahead' = Shifted(ahead, 0, off')
  /\ cause' = First(cause, Reread)
  /\ UNCHANGED <<sizei, cntri, gone, cb>>

StatusOf(op) ==
  CASE op \in {"text", "wsping"} -> "text"
    [] op = "binary" -> "binary"
    [] op = "ping"   -> "pong"
    [] op = "pong"   -> "ping"
    [] op = "close"  -> "close"
    [] OTHER         -> ws.status

FrameLen(f) ==
  IF f.op = "cont" /\ ws.status # "pong" THEN ws.frame_len + f.len ELSE f.len

WebsocketHead(f) ==
  [status |-> StatusOf(f.op), wsping |-> f.op = "wsping", frame_len |-> FrameLen(f),
   cur_len |-> 0, fin |-> f.fin /\ f.op # "ping", close |-> FALSE]

HeadRead ==
  /\ Turn /\ ~InFrame
  /\ off' = OffStep
  /\ \E f \in Frame :
       /\ f.head <= sizei /\ f.op # "bad"
       /\ FrameLen(f) <= MaxFrame
       /\ TrimAndGoOn(WebsocketHead(f), cntri + f.head, f.head + f.len, <<>>, room,
            First(Reread, IF FrameLen(f) # f.len THEN "continuation" ELSE "none"))
  /\ UNCHANGED cb

-----------------------------------------------------------------------------
(* The data of a frame.                                                    *)

Least(a, b) == IF a < b THEN a ELSE b

Left == ws.frame_len - ws.cur_len

(* bytes to handle in this turn; the subtraction of Margin wraps, and then *)
(* only the frame is a limit                                               *)
Piece == IF room < Margin THEN Left
       ELSE Least(Left, Least(room - Margin, sizei))

Why == First(Reread, IF Piece > sizei THEN "starved" ELSE "none")

Begun == [ws EXCEPT !.fin = FALSE]
Advanced == [ws EXCEPT !.fin = FALSE, !.cur_len = @ + Piece]

Data(status) == Turn /\ InFrame /\ ws.status = status

Return(w) ==
  /\ ws' = w
  /\ pc' = "leave"
  /\ cause' = First(cause, Why)

(* a frame that cannot be sent: the connection is given up                 *)
TxFails(n) ==
  /\ FALSE \in TxOutcomes(n, room)
  /\ scb' = scb \cup {"DISCONNECT"}
  /\ NoTx

TxFrame(op, fin, n) ==
  /\ TRUE \in TxOutcomes(n, room)
  /\ out' = Sent(op, fin, n)
  /\ room' = room - Wire(n)
  /\ UNCHANGED closeSent

PieceOp(first) == IF ws.cur_len # 0 THEN "cont" ELSE first
LastPiece == ws.frame_len = ws.cur_len + Piece

(* a frame's data is echoed piece by piece                                 *)
DataBinary ==
  /\ UNCHANGED off
  /\ Data("binary")
  /\ \/ /\ ws.frame_len = 0
        /\ TrimAndGoOn(Advanced, cntri + Piece, ahead, <<>>, room, Why)
     \/ /\ ws.frame_len # 0
        /\ TRUE \in TxOutcomes(Piece, room)
        /\ TrimAndGoOn(Advanced, cntri + Piece, ahead,
                       Sent(PieceOp("binary"), LastPiece, Piece),
                       room - Wire(Piece), Why)
     \/ /\ ws.frame_len # 0
        /\ TxFails(Piece)
        /\ Return(Begun)
        /\ UNCHANGED buffer
  /\ UNCHANGED cb

(* the data of the client's ping is passed over, ...                       *)
DataPong ==
  /\ UNCHANGED off
  /\ Data("pong")
  /\ TrimAndGoOn(Advanced, cntri + Piece, ahead, <<>>, room, Why)
  /\ UNCHANGED cb

(* ... and the data of its pong is sent back as a pong                     *)
DataPing ==
  /\ Data("ping")
  /\ \/ /\ TxFrame(PieceOp("pong"), LastPiece, Piece)
        /\ Return(Advanced)
        /\ cntri' = cntri + Piece
        /\ UNCHANGED <<scb, ahead, sizei, gone>>
     \/ /\ TxFails(Piece)
        /\ Return(Begun)
        /\ UNCHANGED buffer
  /\ UNCHANGED <<cb, off>>

DataClose ==
  /\ Data("close")
  /\ \/ TxCloseErr(Begun, <<>>, room, {"DISCONNECT"})
     \/ /\ Piece >= 2    \* a code other than 1000
        /\ scb' = scb \cup {"DISCONNECT"}
        /\ ws' = Begun /\ NoTx
  /\ pc' = "leave"
  /\ cause' = First(cause, Why)
  /\ UNCHANGED <<buffer, cb, off>>

(* a continuation of nothing                                               *)
DataNone ==
  /\ Data("none")
  /\ TxCloseErr(Begun, <<>>, room, {"DISCONNECT"})
  /\ pc' = "leave"
  /\ cause' = First(cause, Why)
  /\ UNCHANGED <<buffer, cb, off>>

-----------------------------------------------------------------------------
(* Text: acted upon when the piece at hand is the last one.                *)

Whole == LastPiece /\ ws.frame_len # 0

TextPart ==
  /\ Data("text") /\ ~Whole
  /\ Return(Advanced)
  /\ cntri' = cntri + Piece
  /\ NoTx
  /\ UNCHANGED <<ahead, sizei, gone, scb, cb, off>>

TextGivenUp ==
  /\ Data("text") /\ Whole
  /\ room < MinSend \/ "malloc" \in Faults
  /\ TxCloseErr(Begun, <<>>, room, {"FCLOSE", "DISCONNECT"})
  /\ pc' = "leave"
  /\ cause' = First(cause, Why)
  /\ UNCHANGED <<buffer, cb, off>>

IsWsPing == ws.wsping /\ ws.cur_len = 0

TextPing ==
  /\ Data("text") /\ Whole /\ room >= MinSend /\ IsWsPing
  /\ \/ /\ TxFrame("text", TRUE, Piece)
        /\ Return(Advanced)
        /\ cntri' = cntri + Piece
        /\ UNCHANGED <<scb, ahead, sizei, gone>>
     \/ /\ TxFails(Piece)
        /\ Return(Begun)
        /\ UNCHANGED buffer
  /\ UNCHANGED <<cb, off>>

(* lengths of an answer: none, some, all that fits                         *)
Answers == {0, 1, room - Reserve} \cap 0 .. room - Reserve

\* webflag after the callback: it may want to be called again, or to close
Flags(retry, quit) ==
  (scb \ {"RETRYCB"}) \cup (IF retry THEN {"RETRYCB"} ELSE {})
                      \cup (IF quit THEN {"FCLOSE", "DISCONNECT"} ELSE {})

AnswerOp == IF "RETRYCB" \in scb THEN "cont" ELSE "text"

(* what is kept of the message once the callback was run                   *)
\* Mutant: the message counts as handled although it is not
AfterCallbackAdvanced(retry) == Advanced

AfterCallback(retry) == IF retry THEN Begun ELSE Advanced

TextCallback ==
  /\ Data("text") /\ Whole /\ room >= MinSend /\ ~IsWsPing
  /\ \E retry, quit \in BOOLEAN, n \in Answers :
       \/ /\ IF n = 0 THEN NoTx ELSE TxFrame(AnswerOp, ~retry, n)
          /\ scb' = Flags(retry, quit)
          /\ Return(AfterCallback(retry))
          /\ cntri' = IF retry THEN cntri ELSE cntri + Piece
       \/ /\ n # 0 /\ FALSE \in TxOutcomes(n, room)
          /\ scb' = Flags(retry, quit) \cup {"DISCONNECT"}
          /\ NoTx
          /\ Return(Begun)
          /\ UNCHANGED cntri
  /\ UNCHANGED <<ahead, sizei, gone, cb, off>>

-----------------------------------------------------------------------------
(* The rest of the callback: web_int_disconnect when a flag asks for it,   *)
(* and recv_trim_bufi(0) after data was received.  When that fails, lwIP   *)
(* keeps a segment that was freed already and gives it again: bytes that   *)
(* are no part of the stream.                                              *)
Ends == scb \cap {"FCLOSE", "DISCONNECT"} # {}

Leave ==
  /\ pc = "leave"
  /\ scb' = IF Ends THEN scb \cup {"DISCONNECT", "CLOSED"} ELSE scb
  /\ \/ /\ IF cb = "recv" THEN Refill(0) ELSE UNCHANGED buffer
        /\ UNCHANGED cause
     \/ cb = "recv" /\ cntri # 0 /\ LoseBuffer
  /\ pc' = "idle" /\ cb' = "none"
  /\ out' = <<>>
  /\ UNCHANGED <<ws, room, closeSent, off>>

Handler ==
  \/ EnterEmpty \/ EnterClosed \/ EnterFull \/ EnterLoop
  \/ LoopEnds
  \/ HeadWait \/ HeadBad \/ HeadRead
  \/ DataBinary \/ DataPong \/ DataPing \/ DataClose \/ DataNone
  \/ TextPart \/ TextGivenUp \/ TextPing \/ TextCallback
  \/ Leave

Received == \E n \in Segs : Recv(n) \/ RecvRefused(n)

Acked == \E r \in Rooms : Ack(r)

Next == Handler \/ Received \/ Acked \/ Gone

(* 101 Switching Protocols was sent, and the buffer freed                  *)
Init ==
  /\ ahead = 0 /\ sizei = 0 /\ cntri = 0 /\ gone = FALSE
  /\ ws = [status |-> "none", wsping |-> FALSE, frame_len |-> 0, cur_len |-> 0,
           fin |-> FALSE, close |-> FALSE]
  /\ scb = {} /\ room \in {SndMax, SndMax - 1}
  /\ pc = "idle" /\ cb = "none"
  /\ out = <<>> /\ closeSent = FALSE
  /\ off = FALSE /\ cause = "none"

Spec == Init /\ [][Next]_vars

(* lwIP's thread finishes a callback it has begun, and a connection that   *)
(* waits for an acknowledgement gets it or is closed by the idle timeout   *)
Fairness == WF_vars(Handler \/ Acked \/ Gone)

FairSpec == Spec /\ Fairness
-----------------------------------------------------------------------------
(* Properties.                                                             *)

(* However TCP cuts the stream and whatever fails, a head is read where a  *)
(* frame begins, unless one of five things happened before: a fragmented   *)
(* message was continued, the buffer was read again from its start in a    *)
(* sent callback, a turn handled nothing and web_trim_bufi freed the rest  *)
(* of the buffer, the send buffer was down to less than the margin, or a   *)
(* realloc of recv_trim_bufi failed and took unhandled bytes with it.      *)
LosesStepOnlyFor == off => cause # "none"

(* A callback that wants to be called again (SCB_RETRYCB) is called for    *)
(* the message it answers: no other frame is begun in between, and a new   *)
(* message is never answered by the callback of the one before.            *)
RetryBelongs ==
  "RETRYCB" \in scb =>
     \/ ws.status = "text" /\ ws.cur_len < ws.frame_len
     \/ "DISCONNECT" \in scb

(* A close frame is the last one: whichever path sent it, and whatever     *)
(* callbacks come before the connection ends, nothing follows it.          *)
NothingAfterClose ==
  [][/\ closeSent => out' = <<>>
     /\ \A i \in DOMAIN out' : out'[i].op = "close" => i = Len(out')]_vars

(* Every length but 126 that WebsocketTxFrame writes is the one that       *)
(* WebsocketHead would read; 126 goes into the length byte itself, where   *)
(* it announces two more bytes.                                            *)
LengthReadsBack ==
  \A i \in DOMAIN out : out[i].len # Short => ReadsBack(out[i].len)

(* A connection on which a close frame was sent is given up: the paths     *)
(* that do not do it at once find the bytes still in the buffer at the     *)
(* next callback.                                                          *)
CloseCompletes == closeSent ~> "CLOSED" \in scb
=============================================================================
