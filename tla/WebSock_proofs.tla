--------------------------- MODULE WebSock_proofs ---------------------------
(***************************************************************************)
(* What websock_rx_data keeps whatever the lengths, the limits and the     *)
(* faults are.                                                             *)
(***************************************************************************)
EXTENDS WebSock, SequenceTheorems, TLAPS

OutFrame == [op : {"text", "binary", "cont", "pong", "close"},
             fin : BOOLEAN, len : Nat]

(* cur_len never passes frame_len, and is 0 as long as WS_FLG_FIN is set   *)
WsOK == ws.cur_len <= ws.frame_len

Cause == {"none", "continuation", "reread", "dropped", "starved", "lost"}

(* Facts about the pieces the actions are built from.                      *)

\* What a frame writer sends is a sequence of frames.
LEMMA SentType ==
  ASSUME NEW op \in {"text", "binary", "cont", "pong", "close"},
         NEW fin \in BOOLEAN, NEW n \in Nat
  PROVE  Sent(op, fin, n) \in Seq(OutFrame)
BY DEF Sent, OutFrame

\* A frame that is sent had room.
LEMMA Fits ==
  ASSUME NEW n \in Nat, NEW r \in Nat, TRUE \in TxOutcomes(n, r)
  PROVE  Wire(n) \in Nat /\ Wire(n) <= r /\ r - Wire(n) \in 0 .. r
BY SockAssumption DEF TxOutcomes, Wire, Long, SockAssumption

\* The piece of a frame at hand is part of what is left of it.
LEMMA PieceType ==
  ASSUME TypeOK, WsOK
  PROVE  Left \in Nat /\ Piece \in Nat /\ Piece <= Left
BY SockAssumption, SMTT(30) DEF TypeOK, WsOK, FrStat, Left, Piece, Least, SockAssumption

\* The place of the next frame stays a place when the buffer is trimmed.
LEMMA ShiftedType ==
  ASSUME NEW a \in Nat \cup {-1}, NEW n \in Nat, NEW lost \in BOOLEAN
  PROVE  Shifted(a, n, lost) \in Nat \cup {-1}
BY DEF Shifted

(* what recv_trim_bufi leaves in the buffer                                *)
LEMMA RefillType ==
  ASSUME TypeOK, NEW n \in Nat, Refill(n)
  PROVE  /\ ahead' \in Nat \cup {-1} /\ sizei' \in Nat /\ cntri' \in Nat
         /\ gone' \in BOOLEAN
<1>1. Kept(n) \in Nat /\ sizei - Kept(n) \in Nat
  BY DEF Kept, Unhandled, TypeOK
<1>2. ahead' \in Nat \cup {-1}
  BY <1>1, ShiftedType DEF Refill, TypeOK
<1>3. sizei' = Kept(n) + n /\ cntri' = 0 /\ gone' = FALSE
  BY DEF Refill
<1>4. sizei' \in Nat /\ cntri' \in Nat
  BY <1>1, <1>3
<1> QED
  BY <1>2, <1>3, <1>4

(* a close frame that is sent, or not                                      *)
LEMMA CloseErr ==
  ASSUME NEW w \in FrStat, w.cur_len <= w.frame_len,
         NEW done \in Seq(OutFrame), NEW r \in 0 .. SndMax,
         NEW flags \in SUBSET {"FCLOSE", "DISCONNECT"},
         TypeOK, TxCloseErr(w, done, r, flags)
  PROVE  /\ out' \in Seq(OutFrame)
         /\ room' \in 0 .. SndMax
         /\ ws' \in FrStat
         /\ WsOK'
         /\ scb' \subseteq {"RETRYCB", "FCLOSE", "DISCONNECT", "CLOSED"}
         /\ closeSent' \in BOOLEAN
         /\ ws'.cur_len = w.cur_len /\ ws'.frame_len = w.frame_len
         /\ ws'.status = w.status /\ ws'.wsping = w.wsping /\ ws'.fin = w.fin
         /\ scb \cup flags \subseteq scb'
         /\ scb' \subseteq scb \cup flags \cup {"DISCONNECT"}
         /\ closeSent' => closeSent \/ ws'.close
         /\ w.close => ws'.close
<1>1. PICK ok \in TxOutcomes(CloseLen, r) :
        /\ out' = IF ok THEN done \o Sent("close", TRUE, CloseLen) ELSE done
        /\ room' = IF ok THEN r - Wire(CloseLen) ELSE r
        /\ ws' = [w EXCEPT !.close = @ \/ ok]
        /\ scb' = scb \cup flags \cup (IF ok THEN {} ELSE {"DISCONNECT"})
        /\ closeSent' = (closeSent \/ ok)
  BY Zenon DEF TxCloseErr
<1>2. ok \in BOOLEAN
  BY DEF TxOutcomes
<1>3. room' \in 0 .. SndMax
  <2>1. CloseLen \in Nat /\ r \in Nat /\ r <= SndMax
    BY SockAssumption DEF CloseLen, SockAssumption
  <2>2. CASE ok
    <3>1. TRUE \in TxOutcomes(CloseLen, r)
      BY <1>2, <2>2
    <3>2. r - Wire(CloseLen) \in 0 .. r
      BY <2>1, <3>1, Fits
    <3> QED
      BY <1>1, <2>1, <2>2, <3>2, SockAssumption DEF SockAssumption
  <2>3. CASE ~ok
    BY <1>1, <2>3
  <2> QED
    BY <2>2, <2>3
<1>4. out' \in Seq(OutFrame)
  <2>1. Sent("close", TRUE, CloseLen) \in Seq(OutFrame)
    BY SentType DEF CloseLen
  <2>2. done \o Sent("close", TRUE, CloseLen) \in Seq(OutFrame)
    BY <2>1, ConcatProperties
  <2> QED
    BY <1>1, <2>2
<1>5. /\ ws' = [w EXCEPT !.close = w.close \/ ok]
      /\ w.close \/ ok \in BOOLEAN
  BY <1>1, <1>2 DEF FrStat
<1>6. /\ ws' \in FrStat
      /\ ws'.cur_len = w.cur_len /\ ws'.frame_len = w.frame_len
      /\ ws'.status = w.status /\ ws'.wsping = w.wsping /\ ws'.fin = w.fin
      /\ ws'.close = (w.close \/ ok)
  BY <1>5 DEF FrStat
<1>7. /\ scb' \subseteq {"RETRYCB", "FCLOSE", "DISCONNECT", "CLOSED"}
      /\ scb \cup flags \subseteq scb'
      /\ scb' \subseteq scb \cup flags \cup {"DISCONNECT"}
  BY <1>1, <1>2 DEF TypeOK
<1>8. closeSent' \in BOOLEAN /\ (closeSent' => closeSent \/ ws'.close)
  BY <1>1, <1>2, <1>6 DEF TypeOK
<1> QED
  BY <1>3, <1>4, <1>6, <1>7, <1>8 DEF WsOK

\* Closing with an error keeps the types.
LEMMA CloseTypes ==
  ASSUME TypeOK, WsOK, NEW w \in {ws, Begun},
         NEW flags \in {{"DISCONNECT"}, {"FCLOSE", "DISCONNECT"}},
         TxCloseErr(w, <<>>, room, flags)
  PROVE  /\ out' \in Seq(OutFrame) /\ room' \in 0 .. SndMax
         /\ ws' \in FrStat /\ WsOK'
         /\ scb' \subseteq {"RETRYCB", "FCLOSE", "DISCONNECT", "CLOSED"}
         /\ closeSent' \in BOOLEAN
         /\ "DISCONNECT" \in scb'
         /\ closeSent' => closeSent \/ ws'.close
         /\ w.close => ws'.close
<1>1. w \in FrStat /\ w.cur_len <= w.frame_len
  BY DEF TypeOK, WsOK, Begun, FrStat
<1>2. flags \in SUBSET {"FCLOSE", "DISCONNECT"} /\ "DISCONNECT" \in flags
  OBVIOUS
<1>3. room \in 0 .. SndMax /\ <<>> \in Seq(OutFrame)
  BY DEF TypeOK
<1> QED
  BY <1>1, <1>2, <1>3, CloseErr

(* a turn that goes on                                                     *)
LEMMA GoOn ==
  ASSUME NEW w \in FrStat, w.cur_len <= w.frame_len,
         NEW c \in Nat, NEW a \in Nat \cup {-1},
         NEW done \in Seq(OutFrame), NEW r \in 0 .. SndMax,
         NEW why \in Cause, off' \in BOOLEAN,
         TypeOK, TrimAndGoOn(w, c, a, done, r, why), cb' = cb
  PROVE  TypeOK' /\ WsOK'
<1>1. CASE /\ TrimBufi(c, a)
           /\ ws' = w /\ out' = done /\ room' = r
           /\ cause' = First(First(cause, why), Dropped(c))
           /\ pc' = "loop"
           /\ UNCHANGED <<scb, closeSent>>
  <2>1. /\ ahead' \in Nat \cup {-1} /\ sizei' \in Nat /\ cntri' \in Nat
        /\ gone' \in BOOLEAN
    <3>1. sizei \in Nat /\ cntri \in Nat
      BY DEF TypeOK
    <3>2. CASE gone /\ ~Moves(c)
      BY <1>1, <3>1, <3>2, ShiftedType DEF TrimBufi, TypeOK
    <3>3. CASE ~(gone /\ ~Moves(c))
      <4>1. /\ ahead' = Shifted(a, IF Moves(c) THEN c ELSE sizei, off')
            /\ sizei' = IF Moves(c) THEN sizei - c ELSE 0
            /\ cntri' = IF sizei = 0 THEN c ELSE 0
            /\ gone' = FALSE
        BY <1>1, <3>3 DEF TrimBufi
      <4>2. (IF Moves(c) THEN c ELSE sizei) \in Nat
        BY <3>1
      <4>3. ahead' \in Nat \cup {-1}
        BY <4>1, <4>2, ShiftedType
      <4>4. sizei' \in Nat /\ cntri' \in Nat
        BY <3>1, <4>1 DEF Moves
      <4> QED
        BY <4>1, <4>3, <4>4
    <3> QED
      BY <3>2, <3>3
  <2>2. cause' \in Cause
    BY <1>1 DEF TypeOK, First, Dropped, Cause
  <2> QED
    BY <1>1, <2>1, <2>2 DEF TypeOK, WsOK, OutFrame, Cause
<1>2. CASE /\ "realloc" \in Faults /\ Moves(c)
           /\ TxCloseErr(w, done, r, {"DISCONNECT"})
           /\ cntri' = c
           /\ cause' = First(cause, why)
           /\ pc' = "leave"
           /\ ahead' = Shifted(a, 0, off')
           /\ gone' = TRUE
           /\ UNCHANGED sizei
  <2>1. ahead' \in Nat \cup {-1}
    BY <1>2, ShiftedType
  <2>2. cause' \in Cause
    BY <1>2 DEF TypeOK, First, Cause
  <2>3. {"DISCONNECT"} \in SUBSET {"FCLOSE", "DISCONNECT"}
    OBVIOUS
  <2>4. /\ out' \in Seq(OutFrame) /\ room' \in 0 .. SndMax
        /\ ws' \in FrStat /\ WsOK'
        /\ scb' \subseteq {"RETRYCB", "FCLOSE", "DISCONNECT", "CLOSED"}
        /\ closeSent' \in BOOLEAN
    BY <1>2, <2>3, CloseErr
  <2> QED
    BY <1>2, <2>1, <2>2, <2>4 DEF TypeOK, OutFrame, Cause
<1> QED
  BY <1>1, <1>2 DEF TrimAndGoOn

-----------------------------------------------------------------------------
(* The types, and cur_len <= frame_len, which Piece \in Nat needs.         *)

TInv == TypeOK /\ WsOK

\* The types hold when the websocket begins.
LEMMA TypeInit == Init => TInv
<1> SUFFICES ASSUME Init PROVE TInv
  OBVIOUS
<1>1. ws \in FrStat /\ WsOK
  BY DEF Init, WsOK, FrStat, Status
<1>2. room \in 0 .. SndMax
  BY SockAssumption DEF Init, SockAssumption
<1>3. out \in Seq(OutFrame)
  BY DEF Init
<1> QED
  BY <1>1, <1>2, <1>3 DEF Init, TInv, TypeOK, OutFrame

\* Every step keeps the types.
LEMMA TypeStep == TInv /\ [Next]_vars => TInv'
<1> SUFFICES ASSUME TInv, [Next]_vars PROVE TInv'
  OBVIOUS
<1> USE DEF TInv
<1>0. CASE UNCHANGED vars
  BY <1>0 DEF vars, buffer, sending, TypeOK, WsOK
<1>1. ASSUME NEW n \in Segs, Recv(n) PROVE TInv'
  <2>1. n \in Nat
    BY SockAssumption DEF SockAssumption
  <2>2. /\ ahead' \in Nat \cup {-1} /\ sizei' \in Nat /\ cntri' \in Nat
        /\ gone' \in BOOLEAN
    BY <1>1, <2>1, RefillType DEF Recv
  <2> QED
    BY <1>1, <2>2 DEF Recv, TypeOK, WsOK
<1>29. ASSUME LoseBuffer
       PROVE  /\ ahead' \in Nat \cup {-1} /\ sizei' \in Nat /\ cntri' \in Nat
              /\ gone' \in BOOLEAN /\ cause' \in Cause
  BY <1>29 DEF LoseBuffer, Unhandled, First, TypeOK, Cause
<1>30. ASSUME NEW n \in Segs, RecvRefused(n) PROVE TInv'
  <2>1. CASE LoseBuffer
    BY <1>29, <1>30, <2>1 DEF RecvRefused, TypeOK, WsOK, Cause
  <2>2. CASE gone' = TRUE /\ UNCHANGED <<ahead, sizei, cntri, cause>>
    BY <1>30, <2>2 DEF RecvRefused, TypeOK, WsOK
  <2> QED
    BY <1>30, <2>1, <2>2 DEF RecvRefused
<1>2. ASSUME NEW r \in Rooms, Ack(r) PROVE TInv'
  BY <1>2, SockAssumption DEF Ack, TypeOK, WsOK, buffer, SockAssumption
<1>3. CASE Gone
  BY <1>3 DEF Gone, TypeOK, WsOK, buffer
<1>4. CASE EnterEmpty
  BY <1>4 DEF EnterEmpty, NoTx, TypeOK, WsOK, buffer
<1>5. CASE EnterClosed
  <2>1. /\ ahead' \in Nat \cup {-1} /\ sizei' \in Nat /\ cntri' \in Nat
        /\ gone' \in BOOLEAN
    BY <1>5, ShiftedType DEF EnterClosed, FreeBuffer, TypeOK, buffer
  <2> QED
    BY <1>5, <2>1 DEF EnterClosed, NoTx, TypeOK, WsOK
<1>6. CASE EnterFull
  <2>1. /\ ahead' \in Nat \cup {-1} /\ sizei' \in Nat /\ cntri' \in Nat
        /\ gone' \in BOOLEAN
    BY <1>6, ShiftedType DEF EnterFull, FreeBuffer, TypeOK, buffer
  <2>2. TxCloseErr(ws, <<>>, room, {"DISCONNECT"})
    BY <1>6 DEF EnterFull
  <2> QED
    BY <1>6, <2>1, <2>2, CloseTypes DEF EnterFull, TypeOK, OutFrame
<1>7. CASE EnterLoop
  BY <1>7 DEF EnterLoop, NoTx, TypeOK, WsOK, buffer
<1>8. CASE LoopEnds
  BY <1>8 DEF LoopEnds, NoTx, TypeOK, WsOK, buffer
<1>9. CASE HeadWait
  <2>1. off' \in BOOLEAN /\ cause' \in Cause
    BY <1>9 DEF HeadWait, OffStep, First, Reread, TypeOK, Cause
  <2>2. ahead' \in Nat \cup {-1}
    BY <1>9, <2>1, ShiftedType DEF HeadWait, TypeOK
  <2> QED
    BY <1>9, <2>1, <2>2 DEF HeadWait, NoTx, TypeOK, WsOK, Cause
<1>10. CASE HeadBad
  <2>1. off' \in BOOLEAN /\ cause' \in Cause
    BY <1>10 DEF HeadBad, OffStep, First, Reread, TypeOK, Cause
  <2>2. ahead' \in Nat \cup {-1}
    BY <1>10, <2>1, ShiftedType DEF HeadBad, TypeOK
  <2>3. /\ out' \in Seq(OutFrame) /\ room' \in 0 .. SndMax
        /\ ws' \in FrStat /\ WsOK'
        /\ scb' \subseteq {"RETRYCB", "FCLOSE", "DISCONNECT", "CLOSED"}
        /\ closeSent' \in BOOLEAN
    <3>1. Failed \in FrStat /\ Failed.cur_len <= Failed.frame_len
      BY DEF Failed, FrStat, Status
    <3>2. TxCloseErr(Failed, <<>>, room, {})
      BY <1>10 DEF HeadBad
    <3>3. room \in 0 .. SndMax /\ <<>> \in Seq(OutFrame)
          /\ {} \in SUBSET {"FCLOSE", "DISCONNECT"}
      BY DEF TypeOK
    <3> QED
      BY <3>1, <3>2, <3>3, CloseErr
  <2> QED
    BY <1>10, <2>1, <2>2, <2>3 DEF HeadBad, TypeOK, OutFrame, Cause
<1>11. CASE HeadRead
  <2>1. PICK f \in Frame :
          /\ f.head <= sizei /\ f.op # "bad"
          /\ FrameLen(f) <= MaxFrame
          /\ TrimAndGoOn(WebsocketHead(f), cntri + f.head, f.head + f.len,
               <<>>, room, First(Reread,
                 IF FrameLen(f) # f.len THEN "continuation" ELSE "none"))
    BY <1>11 DEF HeadRead
  <2>2. f.head \in Nat /\ f.len \in Nat /\ f.fin \in BOOLEAN
    <3>1. (\A n \in HeadLens : n \in Nat) /\ (\A n \in Pays : n \in Nat)
      BY SockAssumption DEF SockAssumption
    <3>2. f.head \in HeadLens /\ f.len \in Pays /\ f.fin \in BOOLEAN
      BY DEF Frame
    <3> QED
      BY <3>1, <3>2
  <2>3. FrameLen(f) \in Nat
    BY <2>2 DEF FrameLen, TypeOK, FrStat
  <2>4. StatusOf(f.op) \in Status
    BY DEF StatusOf, Status, TypeOK, FrStat, Frame, Op
  <2>5. /\ WebsocketHead(f) \in FrStat
        /\ WebsocketHead(f).cur_len <= WebsocketHead(f).frame_len
    BY <2>2, <2>3, <2>4 DEF WebsocketHead, FrStat
  <2>6. First(Reread, IF FrameLen(f) # f.len THEN "continuation" ELSE "none")
          \in Cause
    BY DEF First, Reread, Cause
  <2>7. /\ cntri + f.head \in Nat /\ f.head + f.len \in Nat \cup {-1}
        /\ <<>> \in Seq(OutFrame) /\ room \in 0 .. SndMax
    BY <2>2 DEF TypeOK
  <2>8. off' \in BOOLEAN /\ cb' = cb
    BY <1>11 DEF HeadRead, OffStep, TypeOK
  <2> QED
    BY <2>1, <2>5, <2>6, <2>7, <2>8, GoOn
<1>12. Why \in Cause
  BY DEF Why, First, Reread, Cause
<1>13. Piece \in Nat /\ cntri + Piece \in Nat /\ ws.cur_len + Piece <= ws.frame_len
  BY PieceType DEF TypeOK, WsOK, FrStat, Left
<1>14. /\ Begun \in FrStat /\ Begun.cur_len <= Begun.frame_len
       /\ Advanced \in FrStat /\ Advanced.cur_len <= Advanced.frame_len
  <2>1. Begun \in FrStat /\ Begun.cur_len <= Begun.frame_len
    BY DEF Begun, TypeOK, WsOK, FrStat
  <2>2. /\ Advanced = [ws EXCEPT !.fin = FALSE, !.cur_len = ws.cur_len + Piece]
        /\ ws.cur_len + Piece \in Nat
    BY <1>13 DEF Advanced, TypeOK, FrStat
  <2>3. Advanced \in FrStat /\ Advanced.cur_len = ws.cur_len + Piece
        /\ Advanced.frame_len = ws.frame_len
    BY <2>2 DEF TypeOK, FrStat
  <2> QED
    BY <1>13, <2>1, <2>3
<1>15. \A n \in Nat : TRUE \in TxOutcomes(n, room) => room - Wire(n) \in 0 .. SndMax
  <2> SUFFICES ASSUME NEW n \in Nat, TRUE \in TxOutcomes(n, room)
               PROVE  room - Wire(n) \in 0 .. SndMax
    OBVIOUS
  <2>1. room \in Nat /\ room <= SndMax /\ SndMax \in Nat
    BY SockAssumption DEF TypeOK, SockAssumption
  <2>2. room - Wire(n) \in 0 .. room
    BY <2>1, Fits
  <2> QED
    BY <2>1, <2>2
<1>16. First(cause, Why) \in Cause
  BY <1>12 DEF First, TypeOK, Cause
<1>17. PieceOp("binary") \in {"binary", "cont"} /\ PieceOp("pong") \in {"pong", "cont"}
       /\ LastPiece \in BOOLEAN
  BY DEF PieceOp, LastPiece
<1>18. CASE DataBinary
  <2>1. CASE TrimAndGoOn(Advanced, cntri + Piece, ahead, <<>>, room, Why)
    <3>1. <<>> \in Seq(OutFrame) /\ room \in 0 .. SndMax
          /\ ahead \in Nat \cup {-1}
      BY DEF TypeOK
    <3> QED
      BY <1>12, <1>13, <1>14, <1>18, <2>1, <3>1, GoOn DEF DataBinary, TypeOK
  <2>2. CASE /\ TRUE \in TxOutcomes(Piece, room)
             /\ TrimAndGoOn(Advanced, cntri + Piece, ahead,
                  Sent(PieceOp("binary"), LastPiece, Piece),
                  room - Wire(Piece), Why)
    <3>1. Sent(PieceOp("binary"), LastPiece, Piece) \in Seq(OutFrame)
      BY <1>13, <1>17, SentType
    <3>2. room - Wire(Piece) \in 0 .. SndMax /\ ahead \in Nat \cup {-1}
      BY <1>13, <1>15, <2>2 DEF TypeOK
    <3> QED
      BY <1>12, <1>13, <1>14, <1>18, <2>2, <3>1, <3>2, GoOn DEF DataBinary, TypeOK
  <2>3. CASE TxFails(Piece) /\ Return(Begun) /\ UNCHANGED buffer
    BY <1>14, <1>16, <1>18, <2>3
       DEF DataBinary, TxFails, NoTx, Return, TypeOK, WsOK, buffer, Cause
  <2> QED
    BY <1>18, <2>1, <2>2, <2>3 DEF DataBinary
<1>19. CASE DataPong
  <2>1. /\ <<>> \in Seq(OutFrame) /\ room \in 0 .. SndMax
        /\ ahead \in Nat \cup {-1}
    BY DEF TypeOK
  <2> QED
    BY <1>12, <1>13, <1>14, <1>19, <2>1, GoOn DEF DataPong, TypeOK
<1>20. ASSUME NEW op \in {"text", "pong", "cont"}, NEW fin \in BOOLEAN,
              NEW n \in Nat, TxFrame(op, fin, n)
       PROVE  /\ out' \in Seq(OutFrame) /\ room' \in 0 .. SndMax
              /\ closeSent' \in BOOLEAN
  BY <1>15, <1>20, SentType DEF TxFrame, TypeOK
<1>21. CASE DataPing
  <2>1. CASE /\ TxFrame(PieceOp("pong"), LastPiece, Piece)
             /\ Return(Advanced)
             /\ cntri' = cntri + Piece
             /\ UNCHANGED <<scb, ahead, sizei, gone>>
    BY <1>13, <1>14, <1>16, <1>17, <1>20, <1>21, <2>1
       DEF DataPing, Return, TypeOK, WsOK, OutFrame, Cause
  <2>2. CASE TxFails(Piece) /\ Return(Begun) /\ UNCHANGED buffer
    BY <1>14, <1>16, <1>21, <2>2
       DEF DataPing, TxFails, NoTx, Return, TypeOK, WsOK, buffer, Cause
  <2> QED
    BY <1>21, <2>1, <2>2 DEF DataPing
<1>22. CASE DataClose
  <2>1. CASE TxCloseErr(Begun, <<>>, room, {"DISCONNECT"})
    BY <1>16, <1>22, <2>1, CloseTypes DEF DataClose, TypeOK, OutFrame, buffer, Cause
  <2>2. CASE scb' = scb \cup {"DISCONNECT"} /\ ws' = Begun /\ NoTx
    BY <1>14, <1>16, <1>22, <2>2 DEF DataClose, NoTx, TypeOK, WsOK, buffer, Cause
  <2> QED
    BY <1>22, <2>1, <2>2 DEF DataClose
<1>23. CASE DataNone
  <2>1. TxCloseErr(Begun, <<>>, room, {"DISCONNECT"})
    BY <1>23 DEF DataNone
  <2> QED
    BY <1>16, <1>23, <2>1, CloseTypes DEF DataNone, TypeOK, OutFrame, buffer, Cause
<1>24. CASE TextPart
  BY <1>13, <1>14, <1>16, <1>24 DEF TextPart, Return, NoTx, TypeOK, WsOK, Cause
<1>25. CASE TextGivenUp
  <2>1. TxCloseErr(Begun, <<>>, room, {"FCLOSE", "DISCONNECT"})
    BY <1>25 DEF TextGivenUp
  <2> QED
    BY <1>16, <1>25, <2>1, CloseTypes DEF TextGivenUp, TypeOK, OutFrame, buffer, Cause
<1>26. CASE TextPing
  <2>1. CASE /\ TxFrame("text", TRUE, Piece)
             /\ Return(Advanced)
             /\ cntri' = cntri + Piece
             /\ UNCHANGED <<scb, ahead, sizei, gone>>
    BY <1>13, <1>14, <1>16, <1>20, <1>26, <2>1
       DEF TextPing, Return, TypeOK, WsOK, OutFrame, Cause
  <2>2. CASE TxFails(Piece) /\ Return(Begun) /\ UNCHANGED buffer
    BY <1>14, <1>16, <1>26, <2>2
       DEF TextPing, TxFails, NoTx, Return, TypeOK, WsOK, buffer, Cause
  <2> QED
    BY <1>26, <2>1, <2>2 DEF TextPing
<1>27. CASE TextCallback
  <2>1. PICK retry \in BOOLEAN, quit \in BOOLEAN, n \in Answers :
       \/ /\ IF n = 0 THEN NoTx ELSE TxFrame(AnswerOp, ~retry, n)
          /\ scb' = Flags(retry, quit)
          /\ Return(AfterCallback(retry))
          /\ cntri' = IF retry THEN cntri ELSE cntri + Piece
       \/ /\ n # 0 /\ FALSE \in TxOutcomes(n, room)
          /\ scb' = Flags(retry, quit) \cup {"DISCONNECT"}
          /\ NoTx
          /\ Return(Begun)
          /\ UNCHANGED cntri
    BY <1>27 DEF TextCallback
  <2>2. n \in Nat
    BY SockAssumption DEF Answers, SockAssumption
  <2>3. scb' \subseteq {"RETRYCB", "FCLOSE", "DISCONNECT", "CLOSED"}
    BY <2>1 DEF Flags, TypeOK
  <2>4. ws' \in FrStat /\ WsOK' /\ pc' = "leave" /\ cause' \in Cause
    BY <1>14, <1>16, <2>1 DEF Return, AfterCallback, WsOK
  <2>5. cntri' \in Nat
    BY <1>13, <2>1 DEF TypeOK
  <2>6. /\ out' \in Seq(OutFrame) /\ room' \in 0 .. SndMax
        /\ closeSent' \in BOOLEAN
    <3>1. AnswerOp \in {"text", "pong", "cont"} /\ (~retry) \in BOOLEAN
      BY DEF AnswerOp
    <3>2. CASE NoTx
      BY <3>2 DEF NoTx, TypeOK
    <3>3. CASE TxFrame(AnswerOp, ~retry, n)
      BY <1>20, <2>2, <3>1, <3>3
    <3> QED
      BY <2>1, <3>2, <3>3
  <2> QED
    BY <1>27, <2>3, <2>4, <2>5, <2>6 DEF TextCallback, TypeOK, OutFrame, Cause
<1>28. CASE Leave
  <2>1. scb' \subseteq {"RETRYCB", "FCLOSE", "DISCONNECT", "CLOSED"}
    BY <1>28 DEF Leave, TypeOK
  <2>2. CASE LoseBuffer
    BY <1>28, <1>29, <2>1, <2>2 DEF Leave, TypeOK, WsOK, Cause
  <2>3. CASE /\ IF cb = "recv" THEN Refill(0) ELSE UNCHANGED buffer
             /\ UNCHANGED cause
    <3>1. /\ ahead' \in Nat \cup {-1} /\ sizei' \in Nat /\ cntri' \in Nat
          /\ gone' \in BOOLEAN
      <4>1. CASE Refill(0)
        BY <4>1, RefillType
      <4>2. CASE UNCHANGED buffer
        BY <4>2 DEF TypeOK, buffer
      <4> QED
        BY <2>3, <4>1, <4>2
    <3> QED
      BY <1>28, <2>1, <2>3, <3>1 DEF Leave, TypeOK, WsOK
  <2> QED
    BY <1>28, <2>2, <2>3 DEF Leave
<1> QED
  BY <1>0, <1>1, <1>2, <1>3, <1>4, <1>5, <1>6, <1>7, <1>8, <1>9, <1>10, <1>11,
     <1>18, <1>19, <1>21, <1>22, <1>23, <1>24, <1>25, <1>26, <1>27, <1>28, <1>30
     DEF Next, Handler, Received, Acked

(* Every variable keeps its type: what is sent always fits into the send   *)
(* buffer, and what is left of a frame never becomes negative.             *)
THEOREM TypeCorrect == Spec => []TypeOK
<1>1. Spec => []TInv
  BY TypeInit, TypeStep, PTL DEF Spec
<1> QED
  BY <1>1, PTL DEF TInv

(* What WebsocketTxFrame writes is read back, whatever the lengths are,    *)
(* but for a length of exactly 126.                                        *)
THEOREM LengthsReadBack == Spec => []LengthReadsBack
<1>1. ASSUME TypeOK PROVE LengthReadsBack
  <2>1. SUFFICES ASSUME NEW i \in DOMAIN out, out[i].len # Short
                 PROVE  ReadsBack(out[i].len)
    BY DEF LengthReadsBack
  <2>2. out[i].len \in Nat
    <3>1. out \in Seq(OutFrame)
      BY <1>1 DEF TypeOK, OutFrame
    <3>2. out[i] \in OutFrame
      BY <2>1, <3>1
    <3> QED
      BY <3>2 DEF OutFrame
  <2>3. Short \in Nat
    BY SockAssumption DEF SockAssumption
  <2> QED
    BY <2>1, <2>2, <2>3 DEF ReadsBack, LenByte, Long
<1> QED
  BY <1>1, TypeCorrect, PTL

-----------------------------------------------------------------------------
(* A close that was sent is remembered, and a connection that is given up  *)
(* runs no further callback.                                               *)

CloseInv ==
  /\ closeSent => ws.close /\ pc # "loop"
  /\ scb \cap {"FCLOSE", "DISCONNECT"} # {} =>
       pc = "leave" \/ (pc = "idle" /\ "CLOSED" \in scb)
  /\ "CLOSED" \in scb => pc = "idle"

CInv == TInv /\ CloseInv

\* A turn that goes on has not sent a close frame.
LEMMA GoOnClose ==
  ASSUME CInv, pc = "loop",
         NEW w \in FrStat, w.cur_len <= w.frame_len,
         NEW c, NEW a, NEW done \in Seq(OutFrame), NEW r \in 0 .. SndMax,
         NEW why, TrimAndGoOn(w, c, a, done, r, why)
  PROVE  CloseInv'
<1>1. CASE pc' = "loop" /\ UNCHANGED <<scb, closeSent>>
  BY <1>1 DEF CInv, CloseInv
<1>2. CASE TxCloseErr(w, done, r, {"DISCONNECT"}) /\ pc' = "leave"
  <2>1. {"DISCONNECT"} \in SUBSET {"FCLOSE", "DISCONNECT"}
    OBVIOUS
  <2>2. /\ scb' \subseteq scb \cup {"DISCONNECT"}
        /\ closeSent' => closeSent \/ ws'.close
    BY <1>2, <2>1, CloseErr DEF CInv, TInv
  <2> QED
    BY <1>2, <2>2 DEF CInv, CloseInv
<1> QED
  BY <1>1, <1>2 DEF TrimAndGoOn

(* what the turns hand to TrimAndGoOn                                      *)
LEMMA TurnTypes ==
  ASSUME TInv
  PROVE  /\ Begun \in FrStat /\ Begun.cur_len <= Begun.frame_len
         /\ Advanced \in FrStat /\ Advanced.cur_len <= Advanced.frame_len
         /\ Advanced.cur_len = ws.cur_len + Piece
         /\ Advanced.frame_len = ws.frame_len
         /\ Advanced.fin = FALSE /\ Advanced.status = ws.status
         /\ Advanced.wsping = ws.wsping
         /\ <<>> \in Seq(OutFrame) /\ room \in 0 .. SndMax
         /\ TRUE \in TxOutcomes(Piece, room) =>
              /\ Sent(PieceOp("binary"), LastPiece, Piece) \in Seq(OutFrame)
              /\ room - Wire(Piece) \in 0 .. SndMax
<1> USE DEF TInv
<1>1. Piece \in Nat /\ ws.cur_len + Piece <= ws.frame_len
  BY PieceType DEF TypeOK, WsOK, FrStat, Left
<1>2. Begun \in FrStat /\ Begun.cur_len <= Begun.frame_len
  BY DEF Begun, TypeOK, WsOK, FrStat
<1>3. /\ Advanced = [ws EXCEPT !.fin = FALSE, !.cur_len = ws.cur_len + Piece]
      /\ ws.cur_len + Piece \in Nat
  BY <1>1 DEF Advanced, TypeOK, FrStat
<1>4. /\ Advanced \in FrStat /\ Advanced.cur_len = ws.cur_len + Piece
      /\ Advanced.frame_len = ws.frame_len
      /\ Advanced.fin = FALSE /\ Advanced.status = ws.status
      /\ Advanced.wsping = ws.wsping
  BY <1>3 DEF TypeOK, FrStat
<1>5. <<>> \in Seq(OutFrame) /\ room \in 0 .. SndMax
  BY DEF TypeOK
<1>6. ASSUME TRUE \in TxOutcomes(Piece, room)
      PROVE  /\ Sent(PieceOp("binary"), LastPiece, Piece) \in Seq(OutFrame)
             /\ room - Wire(Piece) \in 0 .. SndMax
  <2>1. /\ PieceOp("binary") \in {"text", "binary", "cont", "pong", "close"}
        /\ LastPiece \in BOOLEAN
    BY DEF PieceOp, LastPiece
  <2>2. Sent(PieceOp("binary"), LastPiece, Piece) \in Seq(OutFrame)
    BY <1>1, <2>1, SentType
  <2>3. room \in Nat /\ room <= SndMax /\ SndMax \in Nat
    BY SockAssumption DEF TypeOK, SockAssumption
  <2>4. room - Wire(Piece) \in 0 .. room
    BY <1>1, <1>6, <2>3, Fits
  <2> QED
    BY <2>2, <2>3, <2>4
<1> QED
  BY <1>1, <1>2, <1>4, <1>5, <1>6

\* What the head parser returns is a frame status.
LEMMA HeadTypes ==
  ASSUME TInv, NEW f \in Frame
  PROVE  /\ WebsocketHead(f) \in FrStat
         /\ WebsocketHead(f).cur_len = 0
         /\ WebsocketHead(f).frame_len = FrameLen(f)
         /\ FrameLen(f) \in Nat /\ f.head \in Nat \ {0} /\ f.len \in Nat
<1> USE DEF TInv
<1>1. (\A n \in HeadLens : n \in Nat \ {0}) /\ (\A n \in Pays : n \in Nat)
  BY SockAssumption DEF SockAssumption
<1>2. f.head \in HeadLens /\ f.len \in Pays /\ f.fin \in BOOLEAN
  BY DEF Frame
<1>3. f.head \in Nat \ {0} /\ f.len \in Nat
  BY <1>1, <1>2
<1>4. FrameLen(f) \in Nat
  BY <1>3 DEF FrameLen, TypeOK, FrStat
<1>5. StatusOf(f.op) \in Status
  BY DEF StatusOf, Status, TypeOK, FrStat, Frame, Op
<1>6. WebsocketHead(f) \in FrStat
  BY <1>2, <1>4, <1>5 DEF WebsocketHead, FrStat
<1> QED
  BY <1>3, <1>4, <1>6 DEF WebsocketHead

\* Every step keeps what is known of close frames.
LEMMA CloseStep == CInv /\ [Next]_vars => CloseInv'
<1> SUFFICES ASSUME CInv, [Next]_vars PROVE CloseInv'
  OBVIOUS
<1>0. CASE UNCHANGED vars
  BY <1>0 DEF vars, buffer, sending, CInv, CloseInv
<1>1. ASSUME NEW n \in Segs, Recv(n) \/ RecvRefused(n) PROVE CloseInv'
  BY <1>1 DEF Recv, RecvRefused, CInv, CloseInv
<1>2. ASSUME NEW r \in Rooms, Ack(r) PROVE CloseInv'
  BY <1>2 DEF Ack, CInv, CloseInv
<1>3. CASE Gone
  BY <1>3 DEF Gone, CInv, CloseInv
<1>4. CASE EnterEmpty \/ LoopEnds \/ HeadWait
  BY <1>4 DEF EnterEmpty, LoopEnds, HeadWait, Turn, NoTx, CInv, CloseInv
<1>5. CASE EnterClosed
  BY <1>5 DEF EnterClosed, NoTx, CInv, CloseInv
<1>6. CASE EnterFull
  <2>1. TxCloseErr(ws, <<>>, room, {"DISCONNECT"}) /\ ~closeSent
    BY <1>6 DEF EnterFull, AlreadyClosed, CInv, CloseInv
  <2>2. {"DISCONNECT"} \in SUBSET {"FCLOSE", "DISCONNECT"}
    OBVIOUS
  <2>3. /\ ws \in FrStat /\ ws.cur_len <= ws.frame_len /\ TypeOK
        /\ <<>> \in Seq(OutFrame) /\ room \in 0 .. SndMax
    BY DEF CInv, TInv, TypeOK, WsOK
  <2>4. /\ scb' \subseteq scb \cup {"DISCONNECT"} \cup {"DISCONNECT"}
        /\ closeSent' => closeSent \/ ws'.close
    BY <2>1, <2>2, <2>3, CloseErr
  <2>5. pc' = "leave" /\ pc = "enter"
    BY <1>6 DEF EnterFull
  <2> QED
    BY <2>1, <2>4, <2>5 DEF CInv, CloseInv
<1>7. CASE EnterLoop
  BY <1>7 DEF EnterLoop, AlreadyClosed, NoTx, CInv, CloseInv
<1>8. CASE HeadBad
  <2>1. Failed \in FrStat /\ Failed.cur_len <= Failed.frame_len
    BY DEF Failed, FrStat, Status
  <2>2. TxCloseErr(Failed, <<>>, room, {}) /\ pc = "loop"
    BY <1>8 DEF HeadBad, Turn
  <2>3. <<>> \in Seq(OutFrame) /\ room \in 0 .. SndMax
        /\ {} \in SUBSET {"FCLOSE", "DISCONNECT"} /\ TypeOK
    BY DEF CInv, TInv, TypeOK
  <2>4. /\ scb' \subseteq scb \cup {} \cup {"DISCONNECT"}
        /\ closeSent' => closeSent \/ ws'.close
    BY <2>1, <2>2, <2>3, CloseErr
  <2>5. pc' = "leave"
    BY <1>8 DEF HeadBad
  <2> QED
    BY <2>2, <2>4, <2>5 DEF CInv, CloseInv
<1>9. CASE HeadRead
  <2>1. PICK f \in Frame :
          TrimAndGoOn(WebsocketHead(f), cntri + f.head, f.head + f.len,
               <<>>, room, First(Reread,
                 IF FrameLen(f) # f.len THEN "continuation" ELSE "none"))
    BY <1>9 DEF HeadRead
  <2>2. /\ WebsocketHead(f) \in FrStat
        /\ WebsocketHead(f).cur_len <= WebsocketHead(f).frame_len
    BY HeadTypes DEF CInv
  <2>3. <<>> \in Seq(OutFrame) /\ room \in 0 .. SndMax /\ pc = "loop"
    BY <1>9 DEF CInv, TInv, TypeOK, HeadRead, Turn
  <2> QED
    BY <2>1, <2>2, <2>3, GoOnClose
<1>10. CASE DataBinary
  <2>1. pc = "loop"
    BY <1>10 DEF DataBinary, Data, Turn
  <2>2. CASE TrimAndGoOn(Advanced, cntri + Piece, ahead, <<>>, room, Why)
    BY <2>1, <2>2, TurnTypes, GoOnClose DEF CInv
  <2>3. CASE /\ TRUE \in TxOutcomes(Piece, room)
             /\ TrimAndGoOn(Advanced, cntri + Piece, ahead,
                  Sent(PieceOp("binary"), LastPiece, Piece),
                  room - Wire(Piece), Why)
    BY <2>1, <2>3, TurnTypes, GoOnClose DEF CInv
  <2>4. CASE TxFails(Piece) /\ Return(Begun)
    BY <2>1, <2>4 DEF TxFails, NoTx, Return, CInv, CloseInv
  <2> QED
    BY <1>10, <2>2, <2>3, <2>4 DEF DataBinary
<1>11. CASE DataPong
  BY <1>11, TurnTypes, GoOnClose DEF DataPong, Data, Turn, CInv
<1>12. CASE DataPing
  <2>1. pc = "loop" /\ pc' = "leave" /\ UNCHANGED closeSent
    BY <1>12 DEF DataPing, Data, Turn, Return, TxFrame, TxFails, NoTx
  <2>2. scb' \subseteq scb \cup {"DISCONNECT"}
    BY <1>12 DEF DataPing, TxFails
  <2> QED
    BY <2>1, <2>2 DEF CInv, CloseInv
<1>13. ASSUME NEW flags \in {{"DISCONNECT"}, {"FCLOSE", "DISCONNECT"}},
              TxCloseErr(Begun, <<>>, room, flags), pc = "loop", pc' = "leave"
       PROVE  CloseInv'
  <2>1. flags \in SUBSET {"FCLOSE", "DISCONNECT"}
    OBVIOUS
  <2>2. /\ scb' \subseteq scb \cup {"FCLOSE", "DISCONNECT"}
        /\ closeSent' => closeSent \/ ws'.close
    BY <1>13, <2>1, TurnTypes, CloseErr DEF CInv, TInv
  <2> QED
    BY <1>13, <2>2 DEF CInv, CloseInv
<1>14. CASE DataClose
  <2>1. CASE TxCloseErr(Begun, <<>>, room, {"DISCONNECT"})
    BY <1>13, <1>14, <2>1 DEF DataClose, Data, Turn
  <2>2. CASE scb' = scb \cup {"DISCONNECT"} /\ ws' = Begun /\ NoTx
    BY <1>14, <2>2 DEF DataClose, Data, Turn, NoTx, CInv, CloseInv
  <2> QED
    BY <1>14, <2>1, <2>2 DEF DataClose
<1>15. CASE DataNone \/ TextGivenUp
  BY <1>13, <1>15 DEF DataNone, TextGivenUp, Data, Turn
<1>16. CASE TextPart
  BY <1>16 DEF TextPart, Data, Turn, NoTx, Return, CInv, CloseInv
<1>17. CASE TextPing
  <2>1. pc = "loop" /\ pc' = "leave" /\ UNCHANGED closeSent
    BY <1>17 DEF TextPing, Data, Turn, Return, TxFrame, TxFails, NoTx
  <2>2. scb' \subseteq scb \cup {"DISCONNECT"}
    BY <1>17 DEF TextPing, TxFails
  <2> QED
    BY <2>1, <2>2 DEF CInv, CloseInv
<1>18. CASE TextCallback
  <2>1. pc = "loop" /\ pc' = "leave" /\ UNCHANGED closeSent
    BY <1>18 DEF TextCallback, Data, Turn, Return, NoTx, TxFrame
  <2>2. scb' \subseteq scb \cup {"RETRYCB", "FCLOSE", "DISCONNECT"}
    BY <1>18 DEF TextCallback, Flags
  <2> QED
    BY <2>1, <2>2 DEF CInv, CloseInv
<1>19. CASE Leave
  BY <1>19 DEF Leave, Ends, CInv, CloseInv
<1> QED
  BY <1>0, <1>1, <1>2, <1>3, <1>4, <1>5, <1>6, <1>7, <1>8, <1>9, <1>10, <1>11,
     <1>12, <1>14, <1>15, <1>16, <1>17, <1>18, <1>19
     DEF Next, Handler, Received, Acked

\* Types and close frames, always.
LEMMA CloseInvariant == Spec => []CInv
<1>1. Init => CInv
  <2>1. Init => TInv
    BY TypeInit
  <2>2. Init => CloseInv
    BY DEF Init, CloseInv
  <2> QED
    BY <2>1, <2>2 DEF CInv
<1>2. CInv /\ [Next]_vars => CInv'
  BY TypeStep, CloseStep DEF CInv
<1> QED
  BY <1>1, <1>2, PTL DEF Spec

(* What one step sends: nothing, a frame, or a frame and a close.          *)
CloseLast(o) == \A i \in DOMAIN o : o[i].op = "close" => i = Len(o)

NoClose(o) == o = <<>> \/ (\E f \in OutFrame : f.op # "close" /\ o = <<f>>)

\* Where there is no close frame, it is last.
LEMMA NoCloseLast == ASSUME NEW o, NoClose(o) PROVE CloseLast(o)
BY DEF NoClose, CloseLast

\* The other frames are no close frames.
LEMMA SentNoClose ==
  ASSUME NEW op \in {"text", "binary", "cont", "pong"},
         NEW fin \in BOOLEAN, NEW n \in Nat
  PROVE  NoClose(Sent(op, fin, n))
BY DEF NoClose, Sent, OutFrame

\* A close for an error comes behind what was sent before it.
LEMMA CloseErrLast ==
  ASSUME NEW w, NEW done, NoClose(done), NEW r, NEW flags,
         TxCloseErr(w, done, r, flags)
  PROVE  CloseLast(out')
<1> DEFINE c == [op |-> "close", fin |-> TRUE, len |-> CloseLen]
<1>1. CASE out' = done
  BY <1>1, NoCloseLast
<1>2. CASE out' = done \o <<c>>
  <2>1. CASE done = <<>>
    <3>1. out' = <<c>>
      BY <1>2, <2>1
    <3> QED
      BY <3>1 DEF CloseLast
  <2>2. ASSUME NEW f \in OutFrame, f.op # "close", done = <<f>> PROVE CloseLast(out')
    <3>1. c \in OutFrame
      BY DEF OutFrame, CloseLen
    <3>2. <<f>> \in Seq(OutFrame) /\ <<c>> \in Seq(OutFrame)
      BY <2>2, <3>1
    <3> HIDE DEF c
    <3>3. /\ out' \in Seq(OutFrame) /\ Len(out') = 2
          /\ out'[1] = f
      BY <1>2, <2>2, <3>2, ConcatProperties
    <3>4. \A i \in DOMAIN out' : i = 1 \/ i = 2
      BY <3>3
    <3> QED
      BY <2>2, <3>3, <3>4 DEF CloseLast
  <2> QED
    BY <2>1, <2>2 DEF NoClose
<1> QED
  BY <1>1, <1>2 DEF TxCloseErr, Sent

\* A turn that goes on adds no close frame.
LEMMA GoOnLast ==
  ASSUME NEW w, NEW c, NEW a, NEW done, NoClose(done), NEW r, NEW why,
         TrimAndGoOn(w, c, a, done, r, why)
  PROVE  CloseLast(out')
BY CloseErrLast, NoCloseLast DEF TrimAndGoOn

\* In what one step sends, a close frame is last.
LEMMA LastStep == CInv /\ Next => CloseLast(out')
<1> SUFFICES ASSUME CInv, Next PROVE CloseLast(out')
  OBVIOUS
<1>1. NoClose(<<>>) /\ CloseLast(<<>>)
  BY DEF NoClose, CloseLast
<1>2. CASE \/ Received \/ Acked \/ Gone \/ Leave
           \/ EnterEmpty \/ EnterClosed \/ EnterLoop \/ LoopEnds \/ HeadWait \/ TextPart
  <2>1. out' = <<>>
    BY <1>2 DEF Received, Acked, Recv, RecvRefused, Ack, Gone, Leave, EnterEmpty, EnterClosed,
       EnterLoop, LoopEnds, HeadWait, TextPart, NoTx
  <2> QED
    BY <1>1, <2>1
<1>3. CASE EnterFull
  BY <1>1, <1>3, CloseErrLast DEF EnterFull
<1>4. CASE HeadBad
  BY <1>1, <1>4, CloseErrLast DEF HeadBad
<1>5. CASE HeadRead
  BY <1>1, <1>5, GoOnLast DEF HeadRead
<1>6. Piece \in Nat /\ LastPiece \in BOOLEAN
  BY PieceType DEF CInv, TInv, LastPiece
<1>7. /\ NoClose(Sent(PieceOp("binary"), LastPiece, Piece))
      /\ NoClose(Sent(PieceOp("pong"), LastPiece, Piece))
      /\ NoClose(Sent("text", TRUE, Piece))
  <2>1. PieceOp("binary") \in {"binary", "cont"} /\ PieceOp("pong") \in {"pong", "cont"}
    BY DEF PieceOp
  <2> QED
    BY <1>6, <2>1, SentNoClose
<1>8. CASE DataBinary
  <2>1. CASE TrimAndGoOn(Advanced, cntri + Piece, ahead, <<>>, room, Why)
    BY <1>1, <2>1, GoOnLast
  <2>2. CASE TrimAndGoOn(Advanced, cntri + Piece, ahead,
                 Sent(PieceOp("binary"), LastPiece, Piece), room - Wire(Piece), Why)
    BY <1>7, <2>2, GoOnLast
  <2>3. CASE TxFails(Piece)
    BY <1>1, <2>3 DEF TxFails, NoTx
  <2> QED
    BY <1>8, <2>1, <2>2, <2>3 DEF DataBinary
<1>9. CASE DataPong
  BY <1>1, <1>9, GoOnLast DEF DataPong
<1>10. CASE DataPing
  BY <1>1, <1>7, <1>10, NoCloseLast DEF DataPing, TxFrame, TxFails, NoTx
<1>11. CASE DataClose
  BY <1>1, <1>11, CloseErrLast DEF DataClose, NoTx
<1>12. CASE DataNone \/ TextGivenUp
  BY <1>1, <1>12, CloseErrLast DEF DataNone, TextGivenUp
<1>13. CASE TextPing
  BY <1>1, <1>7, <1>13, NoCloseLast DEF TextPing, TxFrame, TxFails, NoTx
<1>14. CASE TextCallback
  <2>1. ASSUME NEW retry \in BOOLEAN, NEW n \in Answers,
               TxFrame(AnswerOp, ~retry, n)
        PROVE  CloseLast(out')
    <3>1. n \in Nat /\ (~retry) \in BOOLEAN /\ AnswerOp \in {"text", "cont"}
      BY SockAssumption DEF Answers, AnswerOp, SockAssumption
    <3>2. NoClose(Sent(AnswerOp, ~retry, n))
      BY <3>1, SentNoClose
    <3> QED
      BY <2>1, <3>2, NoCloseLast DEF TxFrame
  <2>2. CASE NoTx
    BY <1>1, <2>2 DEF NoTx
  <2> QED
    BY <1>14, <2>1, <2>2 DEF TextCallback
<1> QED
  BY <1>2, <1>3, <1>4, <1>5, <1>8, <1>9, <1>10, <1>11, <1>12, <1>13, <1>14
     DEF Next, Handler

\* After a close frame a step sends nothing.
LEMMA SilentStep == CInv /\ closeSent /\ Next => out' = <<>>
<1> SUFFICES ASSUME CInv, closeSent, Next PROVE out' = <<>>
  OBVIOUS
<1>1. ws.close /\ pc # "loop"
  BY DEF CInv, CloseInv
<1>2. Received \/ Acked \/ Gone \/ Leave \/ EnterEmpty \/ EnterClosed
  BY <1>1 DEF Next, Handler, EnterFull, EnterLoop, AlreadyClosed, LoopEnds, HeadWait,
     HeadBad, HeadRead, DataBinary, DataPong, DataPing, DataClose, DataNone,
     TextPart, TextGivenUp, TextPing, TextCallback, Data, Turn
<1> QED
  BY <1>2 DEF Received, Acked, Recv, RecvRefused, Ack, Gone, Leave, EnterEmpty, EnterClosed, NoTx

(* Whatever the client sends and whatever fails, no frame follows a close: *)
(* neither in the step that sends it nor in a later one.                   *)
THEOREM CloseIsLast == Spec => NothingAfterClose
<1>1. CInv /\ [Next]_vars =>
        [/\ closeSent => out' = <<>>
         /\ \A i \in DOMAIN out' : out'[i].op = "close" => i = Len(out')]_vars
  BY LastStep, SilentStep DEF CloseLast
<1> QED
  BY <1>1, CloseInvariant, PTL DEF Spec, NothingAfterClose

-----------------------------------------------------------------------------
(* A callback is retried for the message it left unfinished.               *)

(* The message is not "ws:ping", which is answered without the callback,   *)
(* and a frame of which nothing is handled yet is at its beginning.        *)
RetryInv ==
  /\ "RETRYCB" \in scb =>
       \/ "DISCONNECT" \in scb
       \/ ws.status = "text" /\ ws.cur_len < ws.frame_len /\ ~IsWsPing
  /\ ws.fin => ws.cur_len = 0

\* A turn that goes on leaves no callback waiting to be called again.
LEMMA GoOnRetry ==
  ASSUME CInv, NEW w \in FrStat, w.cur_len <= w.frame_len, w.fin => w.cur_len = 0,
         "RETRYCB" \notin scb,
         NEW c, NEW a, NEW done \in Seq(OutFrame), NEW r \in 0 .. SndMax,
         NEW why, TrimAndGoOn(w, c, a, done, r, why)
  PROVE  RetryInv'
<1>1. CASE ws' = w /\ UNCHANGED scb
  BY <1>1 DEF RetryInv
<1>2. CASE TxCloseErr(w, done, r, {"DISCONNECT"})
  <2>1. {"DISCONNECT"} \in SUBSET {"FCLOSE", "DISCONNECT"} /\ TypeOK
    BY DEF CInv, TInv
  <2>2. /\ scb \cup {"DISCONNECT"} \subseteq scb'
        /\ ws'.fin = w.fin /\ ws'.cur_len = w.cur_len
    BY <1>2, <2>1, CloseErr
  <2> QED
    BY <2>2 DEF RetryInv
<1> QED
  BY <1>1, <1>2 DEF TrimAndGoOn

(* a turn begins with a connection that is not given up                    *)
LEMMA NotGivenUp == ASSUME CInv, pc = "loop" PROVE "DISCONNECT" \notin scb
BY DEF CInv, CloseInv

\* Every step keeps a waiting callback at its message.
LEMMA RetryStep == CInv /\ RetryInv /\ [Next]_vars => RetryInv'
<1> SUFFICES ASSUME CInv, RetryInv, [Next]_vars PROVE RetryInv'
  OBVIOUS
<1>0. CASE UNCHANGED <<ws, scb>>
  BY <1>0 DEF RetryInv, IsWsPing
<1>1. CASE \/ UNCHANGED vars \/ Received \/ Acked
           \/ EnterEmpty \/ EnterLoop \/ LoopEnds \/ HeadWait
  BY <1>0, <1>1 DEF vars, Received, Acked, Recv, RecvRefused, Ack, EnterEmpty, EnterLoop,
     LoopEnds, HeadWait
<1>2. CASE UNCHANGED ws /\ scb' = scb \cup {"DISCONNECT"}
  BY <1>2 DEF RetryInv
<1>3. CASE UNCHANGED ws /\ scb' = scb \cup {"DISCONNECT", "CLOSED"}
  BY <1>3 DEF RetryInv
<1>4. CASE Gone \/ EnterClosed \/ Leave
  BY <1>0, <1>2, <1>3, <1>4 DEF Gone, EnterClosed, Leave, Ends
<1>5. /\ Begun.fin = FALSE /\ Begun.status = ws.status /\ Begun.wsping = ws.wsping
      /\ Begun.cur_len = ws.cur_len /\ Begun.frame_len = ws.frame_len
  BY DEF Begun, CInv, TInv, TypeOK, FrStat
<1>6. /\ Piece \in Nat /\ ws.cur_len \in Nat /\ ws.frame_len \in Nat
      /\ ws.cur_len <= ws.frame_len /\ ws.cur_len + Piece <= ws.frame_len
  BY PieceType DEF CInv, TInv, TypeOK, WsOK, FrStat, Left
<1>7. ASSUME NEW w \in {ws, Begun, Failed}, NEW flags \in SUBSET {"FCLOSE", "DISCONNECT"},
             TxCloseErr(w, <<>>, room, flags),
             "DISCONNECT" \in flags \/ "RETRYCB" \notin scb
      PROVE  RetryInv'
  <2>1. Failed \in FrStat /\ Failed.cur_len = 0 /\ Failed.frame_len = 0
    BY DEF Failed, FrStat, Status
  <2>2. ws \in FrStat /\ (ws.fin => ws.cur_len = 0)
    BY DEF CInv, TInv, TypeOK, RetryInv
  <2>3. Begun \in FrStat
    BY TurnTypes DEF CInv
  <2>4. w \in FrStat /\ w.cur_len <= w.frame_len /\ (w.fin => w.cur_len = 0)
    <3>1. CASE w = ws
      BY <1>6, <2>2, <3>1
    <3>2. CASE w = Begun
      BY <1>5, <1>6, <2>3, <3>2
    <3>3. CASE w = Failed
      BY <2>1, <3>3
    <3> QED
      BY <3>1, <3>2, <3>3
  <2>5. TypeOK /\ <<>> \in Seq(OutFrame) /\ room \in 0 .. SndMax
    BY DEF CInv, TInv, TypeOK
  <2>6. /\ scb \cup flags \subseteq scb'
        /\ scb' \subseteq scb \cup flags \cup {"DISCONNECT"}
        /\ ws'.fin = w.fin /\ ws'.cur_len = w.cur_len
    BY <1>7, <2>4, <2>5, CloseErr
  <2> QED
    BY <1>7, <2>4, <2>6 DEF RetryInv
<1>8. CASE EnterFull
  <2>1. TxCloseErr(ws, <<>>, room, {"DISCONNECT"})
    BY <1>8 DEF EnterFull
  <2> QED
    BY <1>7, <2>1
<1>9. ASSUME pc = "loop", ~InFrame \/ ws.status # "text"
      PROVE  "RETRYCB" \notin scb
  BY <1>9, NotGivenUp DEF InFrame, RetryInv
<1>10. CASE HeadBad
  <2>1. TxCloseErr(Failed, <<>>, room, {}) /\ "RETRYCB" \notin scb
    BY <1>9, <1>10 DEF HeadBad, Turn
  <2> QED
    BY <1>7, <2>1
<1>11. CASE HeadRead
  <2>1. PICK f \in Frame :
          TrimAndGoOn(WebsocketHead(f), cntri + f.head, f.head + f.len,
               <<>>, room, First(Reread,
                 IF FrameLen(f) # f.len THEN "continuation" ELSE "none"))
    BY <1>11 DEF HeadRead
  <2>2. /\ WebsocketHead(f) \in FrStat /\ WebsocketHead(f).cur_len = 0
        /\ WebsocketHead(f).cur_len <= WebsocketHead(f).frame_len
    BY HeadTypes DEF CInv
  <2>3. <<>> \in Seq(OutFrame) /\ room \in 0 .. SndMax
    BY DEF CInv, TInv, TypeOK
  <2>4. "RETRYCB" \notin scb
    BY <1>9, <1>11 DEF HeadRead, Turn
  <2> QED
    BY <2>1, <2>2, <2>3, <2>4, GoOnRetry
<1>12. CASE DataBinary
  <2>1. "RETRYCB" \notin scb
    BY <1>9, <1>12 DEF DataBinary, Data, Turn
  <2>2. CASE TrimAndGoOn(Advanced, cntri + Piece, ahead, <<>>, room, Why)
    BY <2>1, <2>2, TurnTypes, GoOnRetry DEF CInv
  <2>3. CASE /\ TRUE \in TxOutcomes(Piece, room)
             /\ TrimAndGoOn(Advanced, cntri + Piece, ahead,
                  Sent(PieceOp("binary"), LastPiece, Piece),
                  room - Wire(Piece), Why)
    BY <2>1, <2>3, TurnTypes, GoOnRetry DEF CInv
  <2>4. CASE TxFails(Piece) /\ Return(Begun)
    BY <1>5, <2>1, <2>4 DEF TxFails, Return, RetryInv
  <2> QED
    BY <1>12, <2>2, <2>3, <2>4 DEF DataBinary
<1>13. CASE DataPong
  <2>1. "RETRYCB" \notin scb
    BY <1>9, <1>13 DEF DataPong, Data, Turn
  <2> QED
    BY <1>13, <2>1, TurnTypes, GoOnRetry DEF DataPong, CInv
<1>14. /\ Advanced.fin = FALSE /\ Advanced.status = ws.status
       /\ Advanced.wsping = ws.wsping
       /\ Advanced.cur_len = ws.cur_len + Piece
       /\ Advanced.frame_len = ws.frame_len
  BY TurnTypes DEF CInv
<1>15. ASSUME "RETRYCB" \notin scb, ws' \in {Begun, Advanced},
              scb' \subseteq scb \cup {"DISCONNECT"}
       PROVE  RetryInv'
  BY <1>5, <1>14, <1>15 DEF RetryInv
<1>16. CASE DataPing
  <2>1. "RETRYCB" \notin scb
    BY <1>9, <1>16 DEF DataPing, Data, Turn
  <2>2. ws' \in {Begun, Advanced} /\ scb' \subseteq scb \cup {"DISCONNECT"}
    BY <1>16 DEF DataPing, TxFails, Return
  <2> QED
    BY <1>15, <2>1, <2>2
<1>17. CASE DataClose
  <2>1. CASE TxCloseErr(Begun, <<>>, room, {"DISCONNECT"})
    BY <1>7, <2>1
  <2>2. CASE scb' = scb \cup {"DISCONNECT"} /\ ws' = Begun
    BY <1>5, <2>2 DEF RetryInv
  <2> QED
    BY <1>17, <2>1, <2>2 DEF DataClose
<1>18. CASE DataNone
  BY <1>7, <1>18 DEF DataNone
<1>19. CASE TextGivenUp
  BY <1>7, <1>19 DEF TextGivenUp
<1>20. CASE TextPart
  <2>1. /\ pc = "loop" /\ ~Whole /\ ws.status = "text" /\ UNCHANGED scb
        /\ ws' = Advanced
    BY <1>20 DEF TextPart, Data, Turn, Return
  <2>2. ASSUME "RETRYCB" \in scb PROVE ws.cur_len < ws.frame_len /\ ~IsWsPing
    BY <2>1, <2>2, NotGivenUp DEF RetryInv
  <2>3. ASSUME "RETRYCB" \in scb
        PROVE  ws.cur_len + Piece < ws.frame_len
    BY <1>6, <2>1, <2>2, <2>3 DEF Whole, LastPiece
  <2>4. ASSUME "RETRYCB" \in scb PROVE ~(ws.wsping /\ ws.cur_len + Piece = 0)
    BY <1>6, <2>2, <2>4 DEF IsWsPing
  <2> QED
    BY <1>14, <2>1, <2>3, <2>4 DEF RetryInv, IsWsPing
<1>21. CASE TextPing
  <2>1. "RETRYCB" \notin scb
    BY <1>21, NotGivenUp DEF TextPing, Data, Turn, RetryInv
  <2>2. ws' \in {Begun, Advanced} /\ scb' \subseteq scb \cup {"DISCONNECT"}
    BY <1>21 DEF TextPing, TxFails, Return
  <2> QED
    BY <1>15, <2>1, <2>2
<1>22. CASE TextCallback
  <2>1. /\ Whole /\ ~IsWsPing /\ ws.status = "text" /\ InFrame
        /\ ws' \in {Begun, Advanced}
    BY <1>22 DEF TextCallback, Data, Return, AfterCallback
  <2>2. ws.cur_len < ws.frame_len
    BY <1>6, <2>1 DEF Whole, InFrame, RetryInv
  <2>3. CASE ws' = Begun
    BY <1>5, <2>1, <2>2, <2>3 DEF RetryInv, IsWsPing
  <2>4. CASE "RETRYCB" \notin scb'
    BY <1>5, <1>14, <2>1, <2>4 DEF RetryInv
  <2> QED
    BY <1>22, <2>3, <2>4 DEF TextCallback, Return, AfterCallback, Flags
<1> QED
  BY <1>1, <1>4, <1>8, <1>10, <1>11, <1>12, <1>13, <1>16, <1>17, <1>18, <1>19,
     <1>20, <1>21, <1>22 DEF Next, Handler

(* A retried callback belongs to the text message that is still open: no   *)
(* other frame can have been begun in between.                             *)
THEOREM RetryIsForItsMessage == Spec => []RetryBelongs
<1>1. Init => RetryInv
  BY DEF Init, RetryInv
<1>2. RetryInv => RetryBelongs
  BY DEF RetryInv, RetryBelongs
<1> QED
  BY <1>1, <1>2, RetryStep, CloseInvariant, PTL DEF Spec

-----------------------------------------------------------------------------
(* The reader stays in step with the frames until one of the causes.       *)

(* A frame that is complete (WS_FLG_FIN) is acted upon before the loop is  *)
(* left, ...                                                               *)
FinInv == ws.fin => pc = "loop" \/ "DISCONNECT" \in scb

(* ... and behind the handled bytes comes what is left of the frame, and   *)
(* then the next one.  Only a buffer that is handled to its end goes       *)
(* without a cause.                                                        *)
StepInv ==
  cause = "none" =>
    /\ ~off
    /\ "DISCONNECT" \notin scb =>
         /\ ahead = Left + cntri /\ cntri <= sizei
         /\ gone => cntri = sizei /\ ~ws.fin

\* Every step keeps complete frames in the loop.
LEMMA FinStep == CInv /\ FinInv /\ [Next]_vars => FinInv'
<1> SUFFICES ASSUME CInv, FinInv, [Next]_vars PROVE FinInv'
  OBVIOUS
<1>1. Begun.fin = FALSE /\ Advanced.fin = FALSE /\ Failed.fin = FALSE
  BY TurnTypes DEF Begun, Failed, CInv, TInv, TypeOK, FrStat
<1>2. CASE ws'.fin = ws.fin /\ scb \subseteq scb' /\ pc # "loop"
  BY <1>2 DEF FinInv
<1>3. CASE \/ UNCHANGED vars \/ Received \/ Acked \/ Gone
           \/ EnterEmpty \/ EnterClosed \/ EnterLoop \/ Leave
  <2>1. CASE UNCHANGED vars
    BY <2>1 DEF vars, FinInv
  <2> QED
    BY <1>2, <1>3, <2>1 DEF Received, Acked, Recv, RecvRefused, Ack, Gone, EnterEmpty,
       EnterClosed, EnterLoop, Leave
<1>4. ASSUME NEW w, NEW done, NEW r, NEW flags, "DISCONNECT" \in flags,
             TxCloseErr(w, done, r, flags)
      PROVE  FinInv'
  BY <1>4 DEF TxCloseErr, FinInv
<1>5. CASE LoopEnds \/ HeadWait
  BY <1>5 DEF LoopEnds, HeadWait, InFrame, FinInv
<1>6. CASE EnterFull
  BY <1>4, <1>6 DEF EnterFull
<1>7. CASE HeadBad
  <2>1. /\ Failed \in FrStat /\ Failed.cur_len <= Failed.frame_len
        /\ {} \in SUBSET {"FCLOSE", "DISCONNECT"}
        /\ TypeOK /\ <<>> \in Seq(OutFrame) /\ room \in 0 .. SndMax
    BY DEF Failed, FrStat, Status, CInv, TInv, TypeOK
  <2>2. ws'.fin = Failed.fin
    BY <1>7, <2>1, CloseErr DEF HeadBad
  <2> QED
    BY <1>1, <2>2 DEF FinInv
<1>8. ASSUME NEW w, NEW c, NEW a, NEW done, NEW r, NEW why,
             TrimAndGoOn(w, c, a, done, r, why)
      PROVE  FinInv'
  BY <1>4, <1>8 DEF TrimAndGoOn, FinInv
<1>9. CASE HeadRead \/ DataPong
  BY <1>8, <1>9 DEF HeadRead, DataPong
<1>10. CASE ws' \in {Begun, Advanced}
  BY <1>1, <1>10 DEF FinInv
<1>11. CASE DataBinary
  BY <1>8, <1>10, <1>11 DEF DataBinary, Return
<1>12. CASE DataPing \/ TextPart \/ TextPing
  BY <1>10, <1>12 DEF DataPing, TextPart, TextPing, Return
<1>13. CASE TextCallback
  BY <1>10, <1>13 DEF TextCallback, Return, AfterCallback
<1>14. CASE DataClose \/ DataNone \/ TextGivenUp
  BY <1>4, <1>10, <1>14 DEF DataClose, DataNone, TextGivenUp
<1> QED
  BY <1>3, <1>5, <1>6, <1>7, <1>9, <1>11, <1>12, <1>13, <1>14 DEF Next, Handler

\* A turn that goes on stays where it is in the stream of frames, or notes why not.
LEMMA GoOnStep ==
  ASSUME TInv, NEW w \in FrStat, w.cur_len <= w.frame_len,
         NEW c \in Nat, NEW a \in Nat \cup {-1},
         NEW done \in Seq(OutFrame), NEW r \in 0 .. SndMax, NEW why \in Cause,
         TrimAndGoOn(w, c, a, done, r, why),
         cause = "none" /\ why = "none" =>
           ~off' /\ ~gone /\ a = (w.frame_len - w.cur_len) + c /\ c <= sizei
  PROVE  StepInv'
<1>1. CASE /\ TrimBufi(c, a) /\ ws' = w
           /\ cause' = First(First(cause, why), Dropped(c))
  <2> SUFFICES ASSUME cause' = "none"
               PROVE  ~off' /\ ~gone' /\ ahead' = Left' + cntri' /\ cntri' <= sizei'
    BY DEF StepInv
  <2>1. cause = "none" /\ why = "none" /\ ~(c = 0 /\ sizei # 0)
    BY <1>1 DEF First, Dropped
  <2>2. /\ w.frame_len \in Nat /\ w.cur_len \in Nat /\ sizei \in Nat
        /\ Left' = w.frame_len - w.cur_len
    BY <1>1 DEF FrStat, Left, TInv, TypeOK
  <2>3. ~off' /\ ~gone /\ a = Left' + c /\ c <= sizei /\ Left' \in Nat
    BY <2>1, <2>2
  <2>4. CASE Moves(c)
    <3>1. c \in 1 .. sizei - 1
      BY <2>4 DEF Moves
    <3> QED
      BY <1>1, <2>2, <2>3, <2>4, <3>1 DEF TrimBufi, Shifted
  <2>5. CASE ~Moves(c)
    <3>1. c = sizei
      BY <2>1, <2>2, <2>3, <2>5 DEF Moves
    <3> QED
      BY <1>1, <2>2, <2>3, <2>5, <3>1 DEF TrimBufi, Shifted
  <2> QED
    BY <2>4, <2>5
<1>2. CASE TxCloseErr(w, done, r, {"DISCONNECT"}) /\ cause' = First(cause, why)
  <2>1. {"DISCONNECT"} \in SUBSET {"FCLOSE", "DISCONNECT"}
    OBVIOUS
  <2>2. scb \cup {"DISCONNECT"} \subseteq scb'
    BY <1>2, <2>1, CloseErr DEF TInv
  <2>3. cause' = "none" => cause = "none" /\ why = "none"
    BY <1>2 DEF First
  <2> QED
    BY <2>2, <2>3 DEF StepInv
<1> QED
  BY <1>1, <1>2 DEF TrimAndGoOn

\* Every step keeps the reader in step.
LEMMA StepStep == CInv /\ FinInv /\ StepInv /\ [Next]_vars => StepInv'
<1> SUFFICES ASSUME CInv, FinInv, StepInv, [Next]_vars PROVE StepInv'
  OBVIOUS
<1>1. CASE UNCHANGED <<buffer, ws, scb, off, cause>>
  BY <1>1 DEF StepInv, Left, buffer
<1>2. CASE \/ UNCHANGED vars \/ Acked
           \/ EnterEmpty \/ EnterLoop \/ LoopEnds
  BY <1>1, <1>2 DEF vars, sending, Acked, Ack, EnterEmpty, EnterLoop, LoopEnds
<1>3. /\ ahead \in Nat \cup {-1} /\ sizei \in Nat /\ cntri \in Nat
      /\ ws.frame_len \in Nat /\ ws.cur_len \in Nat /\ ws.cur_len <= ws.frame_len
      /\ Left \in Nat /\ Piece \in Nat /\ Piece <= Left
  BY PieceType DEF CInv, TInv, TypeOK, WsOK, FrStat
<1>4. pc = "loop" => "DISCONNECT" \notin scb
  BY NotGivenUp
<1>5. ASSUME NEW n \in Nat, Refill(n), UNCHANGED <<ws, off, cause>>,
             "DISCONNECT" \in scb => "DISCONNECT" \in scb'
      PROVE  StepInv'
  <2> SUFFICES ASSUME cause = "none"
               PROVE  /\ ~off' /\ "DISCONNECT" \notin scb' =>
                        ahead' = Left' + cntri' /\ cntri' <= sizei' /\ ~gone'
    BY <1>5 DEF StepInv
  <2>1. ~off
    BY DEF StepInv
  <2>2. CASE "DISCONNECT" \in scb
    BY <1>5, <2>1, <2>2
  <2>3. CASE "DISCONNECT" \notin scb
    <3>1. ahead = Left + cntri /\ cntri <= sizei /\ (gone => cntri = sizei)
      BY <2>3 DEF StepInv
    <3>2. sizei - Kept(n) = cntri /\ Kept(n) \in Nat
      BY <1>3, <3>1 DEF Kept, Unhandled
    <3>3. ahead' = Left /\ cntri' = 0 /\ sizei' \in Nat /\ ~gone'
      BY <1>3, <1>5, <2>1, <3>1, <3>2 DEF Refill, Shifted
    <3> QED
      BY <1>3, <1>5, <2>1, <3>3 DEF Left
  <2> QED
    BY <2>2, <2>3
<1>28. CASE LoseBuffer
  <2>1. cause' # "none"
    BY <1>28 DEF LoseBuffer, First
  <2> QED
    BY <2>1 DEF StepInv
<1>29. ASSUME NEW n \in Segs, RecvRefused(n) PROVE StepInv'
  <2>1. CASE sizei # 0 /\ Unhandled = 0 /\ UNCHANGED <<ahead, sizei, cntri, cause>>
    <3> SUFFICES ASSUME cause = "none", "DISCONNECT" \notin scb
                 PROVE  /\ ~off' /\ ahead' = Left' + cntri' /\ cntri' <= sizei'
                        /\ cntri' = sizei' /\ ~ws'.fin
      BY <1>29, <2>1 DEF RecvRefused, StepInv
    <3>1. ~off /\ ahead = Left + cntri /\ cntri <= sizei
      BY DEF StepInv
    <3>2. cntri = sizei
      BY <1>3, <2>1, <3>1 DEF Unhandled
    <3>3. ~ws.fin
      BY <1>29 DEF RecvRefused, FinInv
    <3>4. Left' = Left /\ ws' = ws /\ off' = off
      BY <1>29 DEF RecvRefused, Left
    <3> QED
      BY <1>3, <2>1, <3>1, <3>2, <3>3, <3>4
  <2> QED
    BY <1>28, <1>29, <2>1 DEF RecvRefused
<1>6. CASE Received
  <2>1. PICK n \in Segs : Recv(n) \/ RecvRefused(n)
    BY <1>6 DEF Received
  <2>2. n \in Nat
    BY SockAssumption DEF SockAssumption
  <2> QED
    BY <1>5, <1>29, <2>1, <2>2 DEF Recv
<1>7. CASE Leave
  <2>1. CASE Refill(0) /\ UNCHANGED cause
    BY <1>5, <1>7, <2>1 DEF Leave
  <2>2. CASE UNCHANGED <<buffer, cause>>
    <3>1. /\ UNCHANGED <<ahead, sizei, cntri, gone, ws, off, cause>>
          /\ "DISCONNECT" \in scb => "DISCONNECT" \in scb'
      BY <1>7, <2>2 DEF Leave, buffer
    <3> QED
      BY <3>1 DEF StepInv, Left
  <2> QED
    BY <1>7, <1>28, <2>1, <2>2 DEF Leave
<1>8. ASSUME "DISCONNECT" \in scb', cause' = "none" => cause = "none", UNCHANGED off
      PROVE  StepInv'
  BY <1>8 DEF StepInv
<1>9. CASE Gone \/ EnterClosed
  BY <1>8, <1>9 DEF Gone, EnterClosed
<1>10. CASE EnterFull
  <2>1. "DISCONNECT" \in scb'
    BY <1>10 DEF EnterFull, TxCloseErr
  <2> QED
    BY <1>8, <1>10, <2>1 DEF EnterFull
<1>11. ASSUME Turn, cause = "none"
       PROVE  ~off /\ ~gone /\ ahead = Left + cntri /\ cntri <= sizei
  BY <1>3, <1>4, <1>11 DEF StepInv, Turn
<1>12. ASSUME Turn, cause = "none", ~InFrame, Reread = "none"
       PROVE  ~OffStep /\ ~gone /\ ahead = 0 /\ cntri = 0 /\ Left = 0
  <2>1. cntri = 0 /\ Left = 0
    BY <1>3, <1>12 DEF InFrame, Left, Reread
  <2> QED
    BY <1>11, <1>12, <2>1 DEF OffStep
<1>13. CASE HeadWait
  <2> SUFFICES ASSUME cause' = "none" PROVE StepInv'
    BY DEF StepInv
  <2>1. /\ cause = "none" /\ Reread = "none" /\ Turn /\ ~InFrame
        /\ off' = OffStep /\ UNCHANGED <<sizei, cntri, gone, ws, scb>>
        /\ ahead' = Shifted(ahead, 0, off')
    BY <1>13 DEF HeadWait, First
  <2>2. ~off' /\ ahead' = 0 /\ cntri' = 0
    BY <1>12, <2>1 DEF Shifted
  <2> QED
    BY <1>3, <1>12, <2>1, <2>2 DEF StepInv, Left
<1>14. CASE HeadBad
  <2> SUFFICES ASSUME cause' = "none" PROVE StepInv'
    BY DEF StepInv
  <2>1. /\ cause = "none" /\ Reread = "none" /\ Turn /\ ~InFrame
        /\ off' = OffStep /\ UNCHANGED <<sizei, cntri, gone>>
        /\ ahead' = Shifted(ahead, 0, off')
        /\ TxCloseErr(Failed, <<>>, room, {})
    BY <1>14 DEF HeadBad, First
  <2>2. ~off' /\ ahead' = 0 /\ cntri' = 0
    BY <1>12, <2>1 DEF Shifted
  <2>3. /\ Failed \in FrStat /\ Failed.cur_len = 0 /\ Failed.frame_len = 0
        /\ Failed.cur_len <= Failed.frame_len
    BY DEF Failed, FrStat, Status
  <2>4. /\ {} \in SUBSET {"FCLOSE", "DISCONNECT"}
        /\ TypeOK /\ <<>> \in Seq(OutFrame) /\ room \in 0 .. SndMax
    BY DEF CInv, TInv, TypeOK
  <2>5. ws'.cur_len = Failed.cur_len /\ ws'.frame_len = Failed.frame_len
    BY <2>1, <2>3, <2>4, CloseErr
  <2> QED
    BY <1>3, <1>12, <2>1, <2>2, <2>3, <2>5 DEF StepInv, Left
<1>15. CASE HeadRead
  <2>1. PICK f \in Frame :
          /\ f.head <= sizei
          /\ TrimAndGoOn(WebsocketHead(f), cntri + f.head, f.head + f.len,
               <<>>, room, First(Reread,
                 IF FrameLen(f) # f.len THEN "continuation" ELSE "none"))
    BY <1>15 DEF HeadRead
  <2> DEFINE why == First(Reread, IF FrameLen(f) # f.len THEN "continuation" ELSE "none")
  <2>2. /\ WebsocketHead(f) \in FrStat /\ WebsocketHead(f).cur_len = 0
        /\ WebsocketHead(f).frame_len = FrameLen(f)
        /\ WebsocketHead(f).cur_len <= WebsocketHead(f).frame_len
        /\ FrameLen(f) \in Nat /\ f.head \in Nat /\ f.len \in Nat
    BY HeadTypes DEF CInv
  <2>3. <<>> \in Seq(OutFrame) /\ room \in 0 .. SndMax
    BY DEF CInv, TInv, TypeOK
  <2>4. why \in Cause
    BY DEF First, Reread, Cause
  <2>5. ASSUME cause = "none", why = "none"
        PROVE  /\ ~off' /\ ~gone /\ cntri + f.head <= sizei
               /\ f.head + f.len = (FrameLen(f) - 0) + (cntri + f.head)
    <3>1. Reread = "none" /\ FrameLen(f) = f.len
      BY <2>5 DEF First, Reread
    <3>2. ~off' /\ ~gone /\ cntri = 0
      BY <1>12, <1>15, <2>5, <3>1 DEF HeadRead
    <3> QED
      BY <2>1, <2>2, <3>1, <3>2
  <2>6. cntri + f.head \in Nat /\ f.head + f.len \in Nat \cup {-1}
    BY <1>3, <2>2
  <2> QED
    BY <2>1, <2>2, <2>3, <2>4, <2>5, <2>6, GoOnStep DEF CInv
<1>16. ASSUME Turn, cause = "none", Why = "none", InFrame
       PROVE  /\ ~off /\ ~gone /\ cntri = 0 /\ ahead = Left /\ Piece <= sizei
  <2>1. cntri = 0 /\ Piece <= sizei
    BY <1>3, <1>16 DEF Why, Reread, First
  <2> QED
    BY <1>3, <1>11, <1>16, <2>1
<1>17. /\ Advanced \in FrStat /\ Advanced.cur_len <= Advanced.frame_len
       /\ Advanced.frame_len - Advanced.cur_len = Left - Piece
       /\ Begun.frame_len = ws.frame_len /\ Begun.cur_len = ws.cur_len
       /\ Why \in Cause
  <2>1. /\ Advanced \in FrStat /\ Advanced.cur_len <= Advanced.frame_len
        /\ Advanced.cur_len = ws.cur_len + Piece
        /\ Advanced.frame_len = ws.frame_len
    BY TurnTypes DEF CInv
  <2>2. Begun.frame_len = ws.frame_len /\ Begun.cur_len = ws.cur_len
    BY DEF Begun, CInv, TInv, TypeOK, FrStat
  <2> QED
    BY <1>3, <2>1, <2>2 DEF Left, Why, Reread, First, Cause
<1>18. ASSUME Turn, InFrame, UNCHANGED off,
              NEW done \in Seq(OutFrame), NEW r \in 0 .. SndMax,
              TrimAndGoOn(Advanced, cntri + Piece, ahead, done, r, Why)
       PROVE  StepInv'
  <2>1. cause = "none" /\ Why = "none" =>
          /\ ~off' /\ ~gone /\ cntri + Piece <= sizei
          /\ ahead = (Advanced.frame_len - Advanced.cur_len) + (cntri + Piece)
    BY <1>3, <1>16, <1>17, <1>18
  <2>2. cntri + Piece \in Nat
    BY <1>3
  <2> QED
    BY <1>3, <1>17, <1>18, <2>1, <2>2, GoOnStep DEF CInv
<1>19. ASSUME "DISCONNECT" \in scb', cause' = First(cause, Why), UNCHANGED off
       PROVE  StepInv'
  BY <1>8, <1>19 DEF First
<1>20. CASE DataBinary
  <2>1. Turn /\ InFrame /\ UNCHANGED off
    BY <1>20 DEF DataBinary, Data
  <2>2. CASE TrimAndGoOn(Advanced, cntri + Piece, ahead, <<>>, room, Why)
    BY <1>18, <2>1, <2>2, TurnTypes DEF CInv
  <2>3. CASE /\ TRUE \in TxOutcomes(Piece, room)
             /\ TrimAndGoOn(Advanced, cntri + Piece, ahead,
                  Sent(PieceOp("binary"), LastPiece, Piece),
                  room - Wire(Piece), Why)
    BY <1>18, <2>1, <2>3, TurnTypes DEF CInv
  <2>4. CASE TxFails(Piece) /\ Return(Begun)
    BY <1>19, <2>1, <2>4 DEF TxFails, Return
  <2> QED
    BY <1>20, <2>2, <2>3, <2>4 DEF DataBinary
<1>21. CASE DataPong
  BY <1>18, <1>21, TurnTypes DEF DataPong, Data, CInv
<1>22. ASSUME Turn, InFrame, UNCHANGED <<ahead, sizei, gone, off>>,
              cause' = First(cause, Why),
              \/ ws' = Advanced /\ cntri' = cntri + Piece
              \/ ws' = Begun /\ cntri' = cntri
       PROVE  StepInv'
  <2> SUFFICES ASSUME cause' = "none"
               PROVE  ~off' /\ ~gone' /\ ahead' = Left' + cntri' /\ cntri' <= sizei'
    BY DEF StepInv
  <2>1. ~off /\ ~gone /\ cntri = 0 /\ ahead = Left /\ Piece <= sizei
    BY <1>16, <1>22 DEF First
  <2>2. CASE ws' = Advanced /\ cntri' = cntri + Piece
    <3>1. Left' = Left - Piece
      BY <1>17, <2>2 DEF Left
    <3> QED
      BY <1>3, <1>22, <2>1, <2>2, <3>1
  <2>3. CASE ws' = Begun /\ cntri' = cntri
    <3>1. Left' = Left
      BY <1>17, <2>3 DEF Left
    <3> QED
      BY <1>3, <1>22, <2>1, <2>3, <3>1
  <2> QED
    BY <1>22, <2>2, <2>3
<1>23. CASE DataPing
  <2>1. Turn /\ InFrame /\ UNCHANGED off /\ cause' = First(cause, Why)
    BY <1>23 DEF DataPing, Data, Return
  <2>2. CASE TxFails(Piece)
    BY <1>19, <2>1, <2>2 DEF TxFails
  <2>3. CASE Return(Advanced) /\ cntri' = cntri + Piece /\ UNCHANGED <<scb, ahead, sizei, gone>>
    BY <1>22, <2>1, <2>3 DEF Return
  <2> QED
    BY <1>23, <2>2, <2>3 DEF DataPing
<1>24. CASE DataClose \/ DataNone \/ TextGivenUp
  <2>1. "DISCONNECT" \in scb'
    BY <1>24 DEF DataClose, DataNone, TextGivenUp, TxCloseErr
  <2> QED
    BY <1>19, <1>24, <2>1 DEF DataClose, DataNone, TextGivenUp
<1>25. CASE TextPart
  BY <1>22, <1>25 DEF TextPart, Data, Return
<1>26. CASE TextPing
  <2>1. Turn /\ InFrame /\ UNCHANGED off /\ cause' = First(cause, Why)
    BY <1>26 DEF TextPing, Data, Return
  <2>2. CASE TxFails(Piece)
    BY <1>19, <2>1, <2>2 DEF TxFails
  <2>3. CASE Return(Advanced) /\ cntri' = cntri + Piece /\ UNCHANGED <<scb, ahead, sizei, gone>>
    BY <1>22, <2>1, <2>3 DEF Return
  <2> QED
    BY <1>26, <2>2, <2>3 DEF TextPing
<1>27. CASE TextCallback
  <2>1. /\ Turn /\ InFrame /\ UNCHANGED <<off, ahead, sizei, gone>>
        /\ cause' = First(cause, Why)
    BY <1>27 DEF TextCallback, Data, Return
  <2>2. CASE "DISCONNECT" \in scb'
    BY <1>19, <2>1, <2>2
  <2>3. CASE "DISCONNECT" \notin scb'
    <3>1. \/ ws' = Advanced /\ cntri' = cntri + Piece
          \/ ws' = Begun /\ cntri' = cntri
      BY <1>27, <2>3 DEF TextCallback, Return, AfterCallback
    <3> QED
      BY <1>22, <2>1, <3>1
  <2> QED
    BY <2>2, <2>3
<1> QED
  BY <1>2, <1>6, <1>7, <1>9, <1>10, <1>13, <1>14, <1>15, <1>20, <1>21, <1>23,
     <1>24, <1>25, <1>26, <1>27 DEF Next, Handler

(* As long as no message is continued, no buffer is read twice, no turn    *)
(* handles nothing, the margin is kept and no realloc takes the buffer     *)
(* with it, every head is read where a frame begins, however TCP cuts the  *)
(* stream and whatever fails.                                              *)
THEOREM StaysInStep == Spec => []LosesStepOnlyFor
<1>1. Init => FinInv /\ StepInv
  BY SockAssumption DEF Init, FinInv, StepInv, Left, SockAssumption
<1>2. StepInv => LosesStepOnlyFor
  BY DEF StepInv, LosesStepOnlyFor
<1> QED
  BY <1>1, <1>2, FinStep, StepStep, CloseInvariant, PTL DEF Spec

-----------------------------------------------------------------------------
(* The end of a connection on which a close frame was sent.                *)

\* A path that sends it without giving the connection up leaves bytes in the
\* buffer, which the next callback finds.
EndInv ==
  closeSent =>
    /\ pc = "idle" => "CLOSED" \in scb \/ sizei # 0
    /\ pc = "enter" => sizei # 0
    /\ pc = "leave" => scb \cap {"FCLOSE", "DISCONNECT"} # {} \/ cntri < sizei

\* The callback after the close frame goes straight to its end and gives the
\* connection up; the end of a callback that has given it up closes it.
GivesUp ==
  closeSent =>
    /\ pc # "loop"
    /\ pc = "enter" => pc' = "leave" /\ "DISCONNECT" \in scb'
    /\ pc = "leave" =>
         /\ pc' = "idle"
         /\ scb \cap {"FCLOSE", "DISCONNECT"} # {} => "CLOSED" \in scb'
    /\ "CLOSED" \in scb => "CLOSED" \in scb'

CloseWorks == [][GivesUp]_vars

LEMMA SizesNat == ASSUME CInv PROVE sizei \in Nat /\ cntri \in Nat
  BY DEF CInv, TInv, TypeOK

\* from the step that sends the close frame on
LEMMA ErrEnds ==
  ASSUME NEW w, NEW done, NEW r, NEW flags, "DISCONNECT" \in flags,
         TxCloseErr(w, done, r, flags), pc' = "leave"
  PROVE  EndInv'
  BY DEF TxCloseErr, EndInv

LEMMA GoOnEnds ==
  ASSUME CInv, pc = "loop", NEW w, NEW c, NEW a, NEW done, NEW r, NEW why,
         TrimAndGoOn(w, c, a, done, r, why)
  PROVE  EndInv'
<1>1. CASE UNCHANGED closeSent
  BY <1>1 DEF CInv, CloseInv, EndInv
<1>2. CASE TxCloseErr(w, done, r, {"DISCONNECT"}) /\ pc' = "leave"
  BY <1>2, ErrEnds
<1> QED
  BY <1>1, <1>2 DEF TrimAndGoOn

LEMMA EndTurn == ASSUME CInv, pc = "loop", Handler PROVE EndInv'
<1>1. ~closeSent
  BY DEF CInv, CloseInv
<1>2. CASE UNCHANGED closeSent
  BY <1>1, <1>2 DEF EndInv
<1>3. CASE LoopEnds \/ HeadWait \/ DataPing \/ TextPart \/ TextPing \/ TextCallback
  <2>1. UNCHANGED closeSent
    BY <1>3 DEF LoopEnds, HeadWait, DataPing, TextPart, TextPing, TextCallback, TxFrame, TxFails, NoTx
  <2> QED
    BY <1>2, <2>1
<1>4. CASE HeadBad
  <2>1. pc' = "leave" /\ UNCHANGED <<sizei, cntri>>
    BY <1>4 DEF HeadBad
  <2>2. cntri < sizei
    BY <1>4 DEF HeadBad, Turn, InFrame
  <2> QED
    BY <2>1, <2>2 DEF EndInv
<1>5. CASE HeadRead \/ DataPong
  BY <1>5, GoOnEnds DEF HeadRead, DataPong, Data, Turn
<1>6. CASE DataBinary
  <2>1. CASE TxFails(Piece)
    BY <1>2, <2>1 DEF TxFails, NoTx
  <2> QED
    BY <1>6, <2>1, GoOnEnds DEF DataBinary
<1>7. CASE DataClose \/ DataNone \/ TextGivenUp
  <2>1. CASE NoTx
    BY <1>2, <2>1 DEF NoTx
  <2> QED
    BY <1>7, <2>1, ErrEnds DEF DataClose, DataNone, TextGivenUp
<1> QED
  BY <1>3, <1>4, <1>5, <1>6, <1>7
     DEF Handler, EnterEmpty, EnterClosed, EnterFull, EnterLoop, Leave

LEMMA EndStep == CInv /\ EndInv /\ [Next]_vars => EndInv' /\ (GivesUp \/ UNCHANGED vars)
<1> SUFFICES ASSUME CInv, EndInv, [Next]_vars PROVE EndInv' /\ (GivesUp \/ UNCHANGED vars)
  OBVIOUS
<1>1. sizei \in Nat /\ cntri \in Nat /\ Segs \subseteq Nat \ {0}
  BY SizesNat, SockAssumption DEF SockAssumption
<1>2. CASE UNCHANGED vars
  BY <1>2 DEF vars, buffer, sending, EndInv
<1>3. ASSUME NEW n \in Segs, Recv(n) PROVE EndInv' /\ GivesUp
  <2>1. pc = "idle" /\ pc' = "enter" /\ UNCHANGED scb /\ "CLOSED" \notin scb
    BY <1>3 DEF Recv
  <2>2. sizei' # 0
    BY <1>1, <1>3 DEF Recv, Refill, Kept, Unhandled
  <2> QED
    BY <2>1, <2>2 DEF EndInv, GivesUp
<1>12. ASSUME NEW n \in Segs, RecvRefused(n) PROVE EndInv' /\ GivesUp
  <2>1. sizei # 0 => sizei' # 0
    BY <1>1, <1>12 DEF RecvRefused, LoseBuffer
  <2> QED
    BY <1>12, <2>1 DEF RecvRefused, EndInv, GivesUp
<1>4. ASSUME NEW r \in Rooms, Ack(r) PROVE EndInv' /\ GivesUp
  BY <1>4 DEF Ack, buffer, EndInv, GivesUp
<1>5. CASE Gone
  BY <1>5 DEF Gone, EndInv, GivesUp
<1>6. CASE EnterEmpty \/ EnterLoop
  BY <1>6 DEF EnterEmpty, EnterLoop, NoTx, AlreadyClosed, CInv, CloseInv, EndInv, GivesUp
<1>7. CASE EnterClosed
  BY <1>7 DEF EnterClosed, NoTx, EndInv, GivesUp
<1>8. CASE EnterFull
  <2>1. EndInv'
    BY <1>8, ErrEnds DEF EnterFull
  <2>2. ~closeSent
    BY <1>8 DEF EnterFull, AlreadyClosed, CInv, CloseInv
  <2> QED
    BY <2>1, <2>2 DEF GivesUp
<1>9. CASE Leave
  <2>1. /\ pc = "leave" /\ pc' = "idle" /\ UNCHANGED closeSent /\ scb \subseteq scb'
        /\ scb \cap {"FCLOSE", "DISCONNECT"} # {} => "CLOSED" \in scb'
    BY <1>9 DEF Leave, Ends
  <2>2. cntri < sizei => sizei' # 0
    BY <1>1, <1>9 DEF Leave, Refill, Kept, LoseBuffer, Unhandled, buffer
  <2> QED
    BY <2>1, <2>2 DEF EndInv, GivesUp
<1>10. CASE pc = "loop" /\ Handler
  BY <1>10, EndTurn DEF CInv, CloseInv, GivesUp
<1>11. Handler => \/ EnterEmpty \/ EnterLoop \/ EnterClosed \/ EnterFull \/ Leave
                  \/ pc = "loop" /\ Handler
  BY DEF Handler, LoopEnds, HeadWait, HeadBad, HeadRead, DataBinary, DataPong, DataPing,
     DataClose, DataNone, TextPart, TextGivenUp, TextPing, TextCallback, Data, Turn
<1> QED
  BY <1>2, <1>3, <1>4, <1>5, <1>6, <1>7, <1>8, <1>9, <1>10, <1>11, <1>12
     DEF Next, Received, Acked

(***************************************************************************)
(* The safety half of CloseCompletes: after a close frame the loop is not  *)
(* entered again, there is always something that makes the next callback   *)
(* give the connection up if the present one does not, and the end of that *)
(* callback closes it.                                                     *)
(***************************************************************************)
THEOREM CloseAlwaysWorks == Spec => []EndInv /\ CloseWorks
<1>1. Init => EndInv
  BY DEF Init, EndInv
<1>2. CInv /\ EndInv /\ [Next]_vars => EndInv'
  BY EndStep
<1>3. CInv /\ EndInv /\ [Next]_vars => [GivesUp]_vars
  BY EndStep
<1> QED
  BY <1>1, <1>2, <1>3, CloseInvariant, PTL DEF Spec, CloseWorks

=============================================================================
