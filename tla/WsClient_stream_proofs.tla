------------------------ MODULE WsClient_stream_proofs -----------------------
(***************************************************************************)
(* StreamTotal for every value of the constants.  The streaming loop of   *)
(* example_8 adds the rows of each batch it reads to total_rows; the      *)
(* server adds the rows of each batch it sends to rowsSent.  While the    *)
(* loop runs, the rows still buffered on the connection are the          *)
(* difference.  The sum of the buffered rows is stated as a ledger: a    *)
(* running total g over the buffered frames that starts at total_rows and *)
(* ends at what the server sent.  A ledger needs no induction over the   *)
(* sequence: a send extends it by one entry, a read drops its first one.  *)
(***************************************************************************)
EXTENDS WsClient_proofs

\* g is a running total over the frames of d, from t0 to n.
Ledger(g, t0, d, n) ==
    /\ g[0] = t0
    /\ \A i \in 1 .. Len(d) : g[i] = g[i - 1] + d[i].rows
    /\ g[Len(d)] = n

RowsLedger(t0, d, n) == \E g \in [0 .. Len(d) -> Nat] : Ledger(g, t0, d, n)

\* Every request on a channel carries an id already drawn.
IdsSent == \A c \in Conns : \A k \in 1 .. Len(up[c]) : up[c][k].id <= nReq

\* No row has been sent for an id not yet drawn.
FreshIds == \A i \in Ids : i > nReq => rowsSent[i] = 0

\* The streaming query has a drawn id and is on no other channel.
StreamSole ==
    op = "stream" =>
      /\ req.id \in Ids
      /\ \A c \in Conns \ {websocket} : \A k \in 1 .. Len(up[c]) : up[c][k].id # req.id

\* The rows the loop has counted plus the rows still buffered are the
\* rows the server sent for the streaming query.
StreamLedger ==
    op = "stream" => RowsLedger(total_rows, down[websocket], rowsSent[req.id])

StreamInv ==
    /\ CorrelationInv
    /\ IdsSent
    /\ FreshIds
    /\ StreamSole
    /\ StreamLedger

-----------------------------------------------------------------------------
(* The ledger under a send, a read and the last read.                      *)

\* A frame appended to the buffer extends the ledger by its rows.
LEMMA LedgerAppend ==
    ASSUME NEW t0, NEW d \in Seq(Frame), NEW n \in Nat,
           NEW g \in [0 .. Len(d) -> Nat], Ledger(g, t0, d, n),
           NEW f, f.rows \in Nat
    PROVE  RowsLedger(t0, Append(d, f), n + f.rows)
<1> DEFINE h == [i \in 0 .. Len(d) + 1 |-> IF i <= Len(d) THEN g[i] ELSE n + f.rows]
<1>1. /\ Len(Append(d, f)) = Len(d) + 1
      /\ \A i \in 1 .. Len(d) : Append(d, f)[i] = d[i]
      /\ Append(d, f)[Len(d) + 1] = f
      /\ Len(d) \in Nat
  BY AppendProperties, LenProperties
<1>2. h \in [0 .. Len(Append(d, f)) -> Nat]
  BY <1>1
<1>3. h[0] = t0 /\ h[Len(d) + 1] = n + f.rows
  BY <1>1 DEF Ledger
<1>4. \A i \in 1 .. Len(d) : h[i] = h[i - 1] + Append(d, f)[i].rows
  BY <1>1 DEF Ledger
<1>5. h[Len(d) + 1] = h[Len(d)] + Append(d, f)[Len(d) + 1].rows
  BY <1>1 DEF Ledger
<1>6. Ledger(h, t0, Append(d, f), n + f.rows)
  BY <1>1, <1>3, <1>4, <1>5 DEF Ledger
<1>7. QED
  BY <1>2, <1>6 DEF RowsLedger

\* Reading the first buffered frame moves its rows to the loop's count.
LEMMA LedgerTail ==
    ASSUME NEW t0, NEW d \in Seq(Frame), d # <<>>, NEW n,
           NEW g \in [0 .. Len(d) -> Nat], Ledger(g, t0, d, n)
    PROVE  RowsLedger(t0 + Head(d).rows, Tail(d), n)
<1> DEFINE h == [i \in 0 .. Len(d) - 1 |-> g[i + 1]]
<1>1. /\ Len(d) \in Nat \ {0}
      /\ Head(d) = d[1]
      /\ Len(Tail(d)) = Len(d) - 1
      /\ \A i \in 1 .. Len(Tail(d)) : Tail(d)[i] = d[i + 1]
  BY HeadTailProperties, EmptySeq
<1>2. h \in [0 .. Len(Tail(d)) -> Nat]
  BY <1>1
<1>3. Ledger(h, t0 + Head(d).rows, Tail(d), n)
  BY <1>1 DEF Ledger
<1>4. QED
  BY <1>2, <1>3 DEF RowsLedger

\* With one frame left, the loop's count plus its rows is the total.
LEMMA LedgerLast ==
    ASSUME NEW t0, NEW d \in Seq(Frame), Len(d) = 1, NEW n,
           NEW g \in [0 .. Len(d) -> Nat], Ledger(g, t0, d, n)
    PROVE  t0 + d[1].rows = n
BY DEF Ledger

-----------------------------------------------------------------------------
(* The invariant.                                                          *)

LEMMA InitStreamInv == Init => StreamInv
<1> SUFFICES ASSUME Init PROVE StreamInv
  OBVIOUS
<1>1. CorrelationInv
  BY InitCorrelationInv
<1>2. IdsSent /\ FreshIds /\ StreamSole /\ StreamLedger
  BY DEF Init, IdsSent, FreshIds, StreamSole, StreamLedger
<1>3. QED
  BY <1>1, <1>2 DEF StreamInv

\* The id of a request on a channel is a number.
LEMMA ChannelIds ==
    ASSUME TypeOK, NEW c \in Conns, NEW k \in 1 .. Len(up[c])
    PROVE  up[c][k].id \in Nat
<1>1. up[c] \in Seq(Request)
  BY DEF TypeOK
<1>2. up[c][k] \in Request
  BY <1>1, ElementOfSeq
<1>3. QED
  BY <1>2 DEF Request, Ids, NoId

\* A send draws the next id, so the ids on the channels stay drawn.
LEMMA SendIds ==
    ASSUME TypeOK, IdsSent, FreshIds, NEW c \in Conns, NEW t \in RequestTypes,
           NEW s, NEW m, SendRequest(c, NewRequest(t, s), m), UNCHANGED rowsSent
    PROVE  IdsSent' /\ FreshIds'
<1>1. /\ nReq' = nReq + 1
      /\ up' = [up EXCEPT ![c] = Append(@, NewRequest(t, s))]
      /\ nReq \in Nat
  BY DEF SendRequest, TypeOK
<1>2. NewRequest(t, s).id <= nReq + 1
  BY <1>1 DEF NewRequest, NoId
<1>3. \A k \in 1 .. Len(up'[c]) : up'[c][k].id <= nReq'
  <2>1. up[c] \in Seq(Request)
    BY DEF TypeOK
  <2>2. /\ up'[c] = Append(up[c], NewRequest(t, s))
        /\ Len(up'[c]) = Len(up[c]) + 1
        /\ \A k \in 1 .. Len(up[c]) : up'[c][k] = up[c][k]
        /\ up'[c][Len(up[c]) + 1] = NewRequest(t, s)
    BY <1>1, <2>1, AppendProperties DEF TypeOK
  <2>3. \A k \in 1 .. Len(up[c]) : up[c][k].id <= nReq
    BY DEF IdsSent
  <2>4. \A k \in 1 .. Len(up[c]) : up[c][k].id \in Nat
    BY ChannelIds
  <2>5. QED
    BY <1>1, <1>2, <2>2, <2>3, <2>4
<1>4. IdsSent'
  <2>1. \A x \in Conns \ {c} : up'[x] = up[x]
    BY <1>1 DEF TypeOK
  <2>2. \A x \in Conns \ {c} : \A k \in 1 .. Len(up[x]) : up[x][k].id \in Nat
    BY ChannelIds
  <2>3. QED
    BY <1>1, <1>3, <2>1, <2>2 DEF IdsSent
<1>5. FreshIds'
  BY <1>1 DEF FreshIds, Ids
<1>6. QED
  BY <1>4, <1>5

\* The streaming loop starts on a drained connection with a fresh id.
LEMMA StreamStart ==
    ASSUME WellBehavedServer, StreamInv, stream_query
    PROVE  StreamSole' /\ StreamLedger'
<1>1. /\ TypeOK /\ IdleDrained
      /\ websocket # NoConn /\ websocket \in Conns
      /\ SendRequest(websocket, NewRequest("query", TRUE), "stream")
      /\ total_rows' = 0
      /\ UNCHANGED <<websocket, down, rowsSent>>
  BY CorrelationParts DEF StreamInv, stream_query, TypeOK, NoConn
<1>2. /\ nReq < MaxRequests /\ nReq \in Nat
      /\ op' = "stream"
      /\ req' = NewRequest("query", TRUE)
      /\ up' = [up EXCEPT ![websocket] = Append(@, req')]
  BY <1>1 DEF SendRequest, TypeOK
<1>6. req'.id = nReq + 1 /\ nReq + 1 \in Ids
  BY <1>2, ConstantsAssumption DEF NewRequest, Ids, ConstantsAssumption
<1>3. StreamSole'
  <2>1. \A c \in Conns \ {websocket} : up'[c] = up[c]
    BY <1>1, <1>2 DEF TypeOK
  <2>2. \A c \in Conns \ {websocket} : \A k \in 1 .. Len(up[c]) :
           up[c][k].id <= nReq
    BY DEF StreamInv, IdsSent
  <2>3. \A c \in Conns \ {websocket} : \A k \in 1 .. Len(up[c]) :
           up[c][k].id \in Nat
    BY <1>1, ChannelIds
  <2>4. ASSUME NEW c \in Conns \ {websocket}, NEW k \in 1 .. Len(up'[c])
        PROVE  up'[c][k].id # req'.id
    <3>1. up'[c] = up[c]
      BY <2>1
    <3>2. k \in 1 .. Len(up[c])
      BY <3>1
    <3>3. up[c][k].id <= nReq /\ up[c][k].id \in Nat
      BY <2>2, <2>3, <3>2
    <3>4. nReq \in Nat /\ req'.id = nReq + 1
      BY <1>2, <1>6
    <3>5. QED
      BY <3>1, <3>3, <3>4
  <2>5. QED
    BY <1>1, <1>2, <1>6, <2>4 DEF StreamSole
<1>4. StreamLedger'
  <2>1. down'[websocket] = <<>>
    BY <1>1 DEF IdleDrained, stream_query, Idle
  <2>2. rowsSent'[req'.id] = 0
    <3>1. rowsSent[nReq + 1] = 0
      BY <1>2, <1>6 DEF StreamInv, FreshIds
    <3>2. QED
      BY <1>1, <1>6, <3>1
  <2>3. [i \in 0 .. 0 |-> 0] \in [0 .. Len(<<>>) -> Nat]
    OBVIOUS
  <2>4. Ledger([i \in 0 .. 0 |-> 0], 0, <<>>, 0)
    BY DEF Ledger
  <2>5. RowsLedger(0, <<>>, 0)
    BY <2>3, <2>4 DEF RowsLedger
  <2>6. QED
    BY <1>1, <2>1, <2>2, <2>5 DEF StreamLedger
<1>5. QED
  BY <1>3, <1>4


\* Only the streaming loop has obligations on the stream.
LEMMA NotStreaming ==
    ASSUME op' # "stream" PROVE StreamSole' /\ StreamLedger'
BY DEF StreamSole, StreamLedger

\* The caller's steps keep StreamInv.
LEMMA CallerStreamInv ==
    ASSUME WellBehavedServer, StreamInv, Caller
    PROVE  StreamInv'
<1>0. CorrelationInv'
  BY CallerCorrelationInv DEF StreamInv
<1>a. TypeOK /\ IdsSent /\ FreshIds
  BY CorrelationParts DEF StreamInv
<1>1. CASE connect
  <2>1. CASE HasToken
    <3>1. /\ SendRequest(nConn + 1, NewRequest("auth", FALSE), "connect")
          /\ nConn + 1 \in Conns
          /\ UNCHANGED rowsSent
      <4>1. SendRequest(nConn + 1, NewRequest("auth", FALSE), "connect")
        BY <1>1, <2>1 DEF connect
      <4>2. nConn + 1 \in Conns
        <5>1. nConn < MaxConn
          BY <1>1 DEF connect
        <5>2. nConn \in Nat
          BY <1>a DEF TypeOK
        <5>3. QED
          BY <5>1, <5>2, ConstantsAssumption DEF Conns, ConstantsAssumption
      <4>3. QED
        BY <1>1, <4>1, <4>2 DEF connect
    <3>2. IdsSent' /\ FreshIds'
      BY <1>a, <3>1, SendIds DEF RequestTypes
    <3>3. op' = "connect"
      BY <3>1 DEF SendRequest
    <3>4. QED
      BY <1>0, <3>2, <3>3, NotStreaming DEF StreamInv
  <2>2. CASE ~HasToken
    <3>1. UNCHANGED <<up, nReq, rowsSent, op>> /\ op = "none"
      BY <1>1, <2>2 DEF connect, Idle
    <3>2. QED
      BY <1>0, <1>a, <3>1, NotStreaming DEF StreamInv, IdsSent, FreshIds
  <2>3. QED
    BY <2>1, <2>2
<1>2. CASE authenticate \/ execute_query \/ ping
  <2>1. websocket \in Conns /\ UNCHANGED rowsSent
    BY <1>2, <1>a DEF authenticate, execute_query, ping, TypeOK, NoConn
  <2>2. IdsSent' /\ FreshIds'
    <3>1. CASE authenticate
      BY <1>a, <2>1, <3>1, SendIds DEF authenticate, RequestTypes
    <3>2. CASE execute_query
      <4>1. PICK s \in QueryStreaming :
              SendRequest(websocket, NewRequest("query", s), "execute_query")
        BY <3>2 DEF execute_query
      <4>2. QED
        BY <1>a, <2>1, <4>1, SendIds DEF RequestTypes
    <3>3. CASE ping
      BY <1>a, <2>1, <3>3, SendIds DEF ping, RequestTypes
    <3>4. QED
      BY <1>2, <3>1, <3>2, <3>3
  <2>3. op' # "stream"
    BY <1>2 DEF authenticate, execute_query, ping, SendRequest
  <2>4. QED
    BY <1>0, <2>2, <2>3, NotStreaming DEF StreamInv
<1>3. CASE stream_query
  <2>1. websocket \in Conns /\ UNCHANGED rowsSent
        /\ SendRequest(websocket, NewRequest("query", TRUE), "stream")
    BY <1>3, <1>a DEF stream_query, TypeOK, NoConn
  <2>2. IdsSent' /\ FreshIds'
    BY <1>a, <2>1, SendIds DEF RequestTypes
  <2>3. StreamSole' /\ StreamLedger'
    BY <1>3, StreamStart
  <2>4. QED
    BY <1>0, <2>2, <2>3 DEF StreamInv
<1>4. CASE close
  <2>1. UNCHANGED <<up, nReq, rowsSent, op>> /\ op = "none"
    BY <1>4 DEF close, Idle
  <2>2. QED
    BY <1>0, <1>a, <2>1, NotStreaming DEF StreamInv, IdsSent, FreshIds
<1>5. QED
  BY <1>1, <1>2, <1>3, <1>4 DEF Caller

\* A method other than the streaming loop never enters it.
LEMMA ContinueNotStream ==
    ASSUME op # "stream", NEW resp, Continue(resp)
    PROVE  op' = "none"
BY DEF Continue, AuthReply, QueryReply, PingReply, StreamStep, Raise

\* What the streaming loop reads: the first buffered frame, a data batch or
\* an error for its query, with nothing behind it unless it has more.
LEMMA StreamRead ==
    ASSUME WellBehavedServer, CorrelationInv, Deliver, op = "stream"
    PROVE  /\ websocket \in Conns
           /\ down[websocket] \in Seq(Frame)
           /\ down[websocket] # <<>>
           /\ got' = Head(down[websocket])
           /\ Head(down[websocket]).type \in {"data", "error"}
           /\ ~NonFinal(Head(down[websocket])) => Len(down[websocket]) = 1
           /\ down'[websocket] = Tail(down[websocket])
           /\ StreamStep(Head(down[websocket]))
           /\ UNCHANGED <<websocket, req, up, nReq, rowsSent>>
<1> DEFINE d == down[websocket]
           h == Head(d)
<1>a. /\ TypeOK
      /\ ~Idle => websocket \in Conns
      /\ ReqShape
      /\ PendingAnswers
  BY CorrelationParts
<1>1. /\ ~Idle /\ d # <<>>
      /\ got' = Decode(h)
      /\ down' = [down EXCEPT ![websocket] = Tail(@)]
      /\ Continue(Decode(h))
      /\ UNCHANGED <<websocket, req, up, nReq, rowsSent>>
  BY DEF Deliver
<1>2. websocket \in Conns /\ d \in Seq(Frame)
  BY <1>a, <1>1 DEF TypeOK
<1>3. Answers(req, h) /\ (~NonFinal(h) => Tail(d) = <<>>)
  <2>1. AnswerSeq(req, d)
    BY <1>a, <1>1 DEF PendingAnswers
  <2>2. QED
    BY <1>1, <1>2, <2>1, AnswerSeqTail
<1>4. req.type = "query"
  BY <1>a, <1>1 DEF ReqShape
<1>5. h.type \in {"data", "error"} /\ Decode(h) = h
  BY <1>3, <1>4 DEF Answers, Answering, Decode
<1>6. ~NonFinal(h) => Len(d) = 1
  <2> SUFFICES ASSUME ~NonFinal(h) PROVE Len(d) = 1
    OBVIOUS
  <2>1. Len(Tail(d)) = Len(d) - 1 /\ Len(d) \in Nat
    BY <1>1, <1>2, HeadTailProperties
  <2>2. Len(Tail(d)) = 0
    <3>1. Tail(d) = << >>
      BY <1>3
    <3>2. QED
      BY <3>1, EmptySeq
  <2>3. QED
    BY <2>1, <2>2
<1>7. down'[websocket] = Tail(d)
  BY <1>a, <1>1, <1>2 DEF TypeOK
<1>8. StreamStep(h)
  <2>1. Continue(h)
    BY <1>1, <1>5
  <2>2. QED
    BY <2>1 DEF Continue, AuthReply, QueryReply, PingReply
<1>9. QED
  BY <1>1, <1>2, <1>5, <1>6, <1>7, <1>8

\* The receive step keeps StreamInv.
LEMMA ReceiveStreamInv ==
    ASSUME WellBehavedServer, StreamInv, receive_message
    PROVE  StreamInv'
<1>0. CorrelationInv'
  BY ReceiveCorrelationInv DEF StreamInv
<1>1. UNCHANGED <<websocket, req, up, nReq, rowsSent>>
  BY DEF receive_message, Deliver, TimeOut, ConnectionClosed
<1>2. IdsSent' /\ FreshIds'
  BY <1>1 DEF StreamInv, IdsSent, FreshIds
<1>3. CASE op = "stream" /\ Deliver
  <2> DEFINE d == down[websocket]
  <2>1. /\ websocket \in Conns /\ d \in Seq(Frame) /\ d # <<>>
        /\ Head(d).type \in {"data", "error"}
        /\ down'[websocket] = Tail(d)
        /\ StreamStep(Head(d))
    BY <1>3, StreamRead DEF StreamInv
  <2>2. CASE op' = "stream"
    <3>1. Head(d).type = "data" /\ total_rows' = total_rows + Head(d).rows
      BY <2>1, <2>2 DEF StreamStep, Raise
    <3>2. PICK g \in [0 .. Len(d) -> Nat] :
            Ledger(g, total_rows, d, rowsSent[req.id])
      BY <1>3 DEF StreamInv, StreamLedger, RowsLedger
    <3>3. RowsLedger(total_rows + Head(d).rows, Tail(d), rowsSent[req.id])
      BY <2>1, <3>2, LedgerTail
    <3>4. StreamLedger'
      BY <1>1, <2>1, <3>1, <3>3 DEF StreamLedger
    <3>5. StreamSole'
      BY <1>1, <1>3 DEF StreamInv, StreamSole
    <3>6. QED
      BY <1>0, <1>2, <3>4, <3>5 DEF StreamInv
  <2>3. CASE op' # "stream"
    BY <1>0, <1>2, <2>3, NotStreaming DEF StreamInv
  <2>4. QED
    BY <2>2, <2>3
<1>4. CASE op # "stream" /\ Deliver
  <2>1. op' = "none"
    BY <1>4, ContinueNotStream DEF Deliver
  <2>2. QED
    BY <1>0, <1>2, <2>1, NotStreaming DEF StreamInv
<1>5. CASE TimeOut
  <2>1. op' = "none"
    <3>1. Continue(NoFrame) /\ NoFrame.type = "none"
      BY <1>5 DEF TimeOut, NoFrame
    <3>2. QED
      BY <3>1 DEF Continue, AuthReply, QueryReply, PingReply, StreamStep, Raise
  <2>2. QED
    BY <1>0, <1>2, <2>1, NotStreaming DEF StreamInv
<1>6. CASE ConnectionClosed
  <2>1. op' = "none"
    BY <1>6 DEF ConnectionClosed, Raise
  <2>2. QED
    BY <1>0, <1>2, <2>1, NotStreaming DEF StreamInv
<1>7. QED
  BY <1>3, <1>4, <1>5, <1>6 DEF receive_message

\* AddRows(f) counts f's rows for f's id alone.
LEMMA AddRowsAt ==
    ASSUME rowsSent \in [Ids -> Nat], NEW f \in Frame, NEW i \in Ids
    PROVE  AddRows(f)[i] = IF f.type = "data" /\ f.id = i THEN rowsSent[i] + f.rows
                                                          ELSE rowsSent[i]
BY DEF AddRows

\* A server step that takes at most the head of one channel leaves on every
\* channel only requests that were on it.
LEMMA UpShrinks ==
    ASSUME TypeOK, NEW c \in Conns, up[c] # <<>>,
           up' = [up EXCEPT ![c] = Tail(@)] \/ up' = up
    PROVE  \A c2 \in Conns : \A k \in 1 .. Len(up'[c2]) :
             \E j \in 1 .. Len(up[c2]) : up'[c2][k] = up[c2][j]
<1> SUFFICES ASSUME NEW c2 \in Conns, NEW k \in 1 .. Len(up'[c2])
             PROVE  \E j \in 1 .. Len(up[c2]) : up'[c2][k] = up[c2][j]
  OBVIOUS
<1>1. up[c2] \in Seq(Request) /\ up[c] \in Seq(Request)
  BY DEF TypeOK
<1>2. CASE up' = up
  BY <1>2
<1>3. CASE up' = [up EXCEPT ![c] = Tail(@)] /\ c2 = c
  <2>1. up'[c] = Tail(up[c])
    BY <1>3 DEF TypeOK
  <2>2. Len(Tail(up[c])) = Len(up[c]) - 1
        /\ \A i \in 1 .. Len(up[c]) - 1 : Tail(up[c])[i] = up[c][i + 1]
    BY <1>1, HeadTailProperties
  <2>3. k \in 1 .. Len(up[c]) - 1
    BY <1>3, <2>1, <2>2
  <2>5. Len(up[c]) \in Nat /\ k \in Nat
    BY <1>1, <2>3
  <2>6. k + 1 \in 1 .. Len(up[c]) /\ up'[c][k] = up[c][k + 1]
    BY <2>1, <2>2, <2>3, <2>5
  <2>4. QED
    BY <1>3, <2>6
<1>4. CASE up' = [up EXCEPT ![c] = Tail(@)] /\ c2 # c
  <2>1. up'[c2] = up[c2]
    BY <1>4 DEF TypeOK
  <2>2. QED
    BY <2>1
<1>5. QED
  BY <1>2, <1>3, <1>4

\* A server step that takes at most the head of a channel and sends
\* nothing keeps the stream facts.
LEMMA ServerDrop ==
    ASSUME StreamInv, NEW c \in Conns, up[c] # <<>>,
           up' = [up EXCEPT ![c] = Tail(@)] \/ up' = up,
           UNCHANGED <<websocket, op, req, total_rows, nReq, down, rowsSent>>
    PROVE  IdsSent' /\ FreshIds' /\ StreamSole' /\ StreamLedger'
<1>1. TypeOK
  BY CorrelationParts DEF StreamInv
<1>2. \A c2 \in Conns : \A k \in 1 .. Len(up'[c2]) :
        \E j \in 1 .. Len(up[c2]) : up'[c2][k] = up[c2][j]
  BY <1>1, UpShrinks
<1>3. IdsSent'
  BY <1>2 DEF StreamInv, IdsSent
<1>4. StreamSole'
  BY <1>2 DEF StreamInv, StreamSole
<1>5. QED
  BY <1>3, <1>4 DEF StreamInv, FreshIds, StreamLedger

\* A server step that answers the head of a live channel with frame f
\* keeps the stream facts: on the streaming connection f extends the
\* ledger by the rows it counts, elsewhere f answers another query.
LEMMA ServerAppend ==
    ASSUME StreamInv, NEW c \in live, up[c] # <<>>,
           NEW f \in Frame, f.id = Head(up[c]).id, f.type = "data" \/ f.rows = 0,
           down' = [down EXCEPT ![c] = Append(@, f)],
           rowsSent' = AddRows(f),
           up' = [up EXCEPT ![c] = Tail(@)] \/ up' = up,
           UNCHANGED <<websocket, op, req, total_rows, nReq>>
    PROVE  IdsSent' /\ FreshIds' /\ StreamSole' /\ StreamLedger'
<1>a. /\ TypeOK
      /\ ~Idle => websocket \in Conns
      /\ PendingAnswers
  BY CorrelationParts DEF StreamInv
<1>b. c \in Conns
  BY <1>a, LiveConns, ConstantsAssumption
<1>c. rowsSent \in [Ids -> Nat] /\ down[c] \in Seq(Frame) /\ nReq \in Nat
  BY <1>a, <1>b DEF TypeOK
<1>d. f.rows \in Nat /\ f.id \in Nat
  <2>1. f.rows \in Rows \cup {0} /\ f.id \in Ids \cup {NoId}
    BY DEF Frame
  <2>2. Rows \cup {0} \subseteq Nat /\ Ids \cup {NoId} \subseteq Nat
    BY ConstantsAssumption DEF Ids, NoId, ConstantsAssumption
  <2>3. QED
    BY <2>1, <2>2, Zenon
<1>1. f.id <= nReq
  <2>1. up[c] \in Seq(Request) /\ 1 \in 1 .. Len(up[c]) /\ Head(up[c]) = up[c][1]
    BY <1>a, <1>b DEF TypeOK
  <2>2. QED
    BY <1>b, <2>1 DEF StreamInv, IdsSent
<1>2. \A c2 \in Conns : \A k \in 1 .. Len(up'[c2]) :
        \E j \in 1 .. Len(up[c2]) : up'[c2][k] = up[c2][j]
  BY <1>a, <1>b, UpShrinks
<1>3. IdsSent'
  BY <1>2 DEF StreamInv, IdsSent
<1>4. StreamSole'
  BY <1>2 DEF StreamInv, StreamSole
<1>5. FreshIds'
  <2> SUFFICES ASSUME NEW i \in Ids, i > nReq PROVE rowsSent'[i] = 0
    BY DEF FreshIds
  <2>1. i # f.id
    BY <1>1, <1>c, <1>d DEF Ids
  <2>2. rowsSent'[i] = rowsSent[i]
    BY <1>c, <2>1, AddRowsAt
  <2>3. QED
    BY <2>2 DEF StreamInv, FreshIds
<1>6. StreamLedger'
  <2> SUFFICES ASSUME op = "stream"
               PROVE  RowsLedger(total_rows, down'[websocket], rowsSent'[req.id])
    BY DEF StreamLedger
  <2>1. websocket \in Conns /\ req.id \in Ids
    BY <1>a DEF StreamInv, StreamSole, Idle
  <2>2. PICK g \in [0 .. Len(down[websocket]) -> Nat] :
          Ledger(g, total_rows, down[websocket], rowsSent[req.id])
    BY DEF StreamInv, StreamLedger, RowsLedger
  <2>3. CASE c = websocket
    <3>1. up[c] = <<req>>
      BY <1>a, <2>3 DEF PendingAnswers, Idle
    <3>2. f.id = req.id
      BY <3>1
    <3>5. rowsSent[req.id] \in Nat
      BY <1>c, <2>1
    <3>3. rowsSent'[req.id] = rowsSent[req.id] + f.rows
      <4>1. rowsSent'[req.id] = IF f.type = "data" /\ f.id = req.id
                                THEN rowsSent[req.id] + f.rows ELSE rowsSent[req.id]
        BY <1>c, <2>1, AddRowsAt
      <4>2. QED
        BY <1>d, <3>2, <3>5, <4>1
    <3>4. down'[websocket] = Append(down[websocket], f)
      BY <1>a, <1>b, <2>3 DEF TypeOK
    <3>7. RowsLedger(total_rows, Append(down[websocket], f), rowsSent[req.id] + f.rows)
      <4>1. down[websocket] \in Seq(Frame)
        BY <1>c, <2>3
      <4>2. QED
        BY <1>d, <2>2, <3>5, <4>1, LedgerAppend
    <3>6. QED
      BY <3>3, <3>4, <3>7
  <2>4. CASE c # websocket
    <3>1. f.id # req.id
      <4>1. up[c] \in Seq(Request) /\ 1 \in 1 .. Len(up[c]) /\ Head(up[c]) = up[c][1]
        BY <1>a, <1>b DEF TypeOK
      <4>2. QED
        BY <1>b, <2>4, <4>1 DEF StreamInv, StreamSole
    <3>2. rowsSent'[req.id] = rowsSent[req.id]
      BY <1>c, <2>1, <3>1, AddRowsAt
    <3>3. down'[websocket] = down[websocket]
      BY <1>a, <2>1, <2>4 DEF TypeOK
    <3>4. QED
      BY <2>2, <3>2, <3>3 DEF RowsLedger
  <2>5. QED
    BY <2>3, <2>4
<1>7. QED
  BY <1>3, <1>4, <1>5, <1>6

\* The server's steps keep StreamInv.
LEMMA ServerStreamInv ==
    ASSUME WellBehavedServer, StreamInv, Server
    PROVE  StreamInv'
<1>0. CorrelationInv'
  BY ServerCorrelationInv DEF StreamInv
<1>a. TypeOK
  BY CorrelationParts DEF StreamInv
<1>1. CASE ServerAnswer
  <2>1. PICK c \in live :
          /\ up[c] # <<>>
          /\ \E f \in FinalReplies(Head(up[c])) :
               /\ down' = [down EXCEPT ![c] = Append(@, f)]
               /\ rowsSent' = AddRows(f)
          /\ up' = [up EXCEPT ![c] = Tail(@)]
          /\ UNCHANGED <<websocket, op, req, total_rows, nReq>>
    BY <1>1 DEF ServerAnswer
  <2>2. PICK f \in FinalReplies(Head(up[c])) :
          /\ down' = [down EXCEPT ![c] = Append(@, f)]
          /\ rowsSent' = AddRows(f)
    BY <2>1
  <2>3. f \in Frame
    BY <1>a, <2>1, <2>2, ServerFrames, ConstantsAssumption
  <2>4. f.id = Head(up[c]).id /\ (f.type = "data" \/ f.rows = 0)
    BY <2>2 DEF FinalReplies, Reply
  <2>5. QED
    BY <1>0, <2>1, <2>2, <2>3, <2>4, ServerAppend DEF StreamInv
<1>2. CASE ServerBatch
  <2>1. PICK c \in live :
          /\ up[c] # <<>>
          /\ \E k \in Rows :
               /\ down' = [down EXCEPT ![c] = Append(@, Reply(Head(up[c]), "data", k, TRUE))]
               /\ rowsSent' = AddRows(Reply(Head(up[c]), "data", k, TRUE))
          /\ UNCHANGED <<websocket, op, req, total_rows, up, nReq>>
    BY <1>2 DEF ServerBatch
  <2>2. PICK k \in Rows :
          /\ down' = [down EXCEPT ![c] = Append(@, Reply(Head(up[c]), "data", k, TRUE))]
          /\ rowsSent' = AddRows(Reply(Head(up[c]), "data", k, TRUE))
    BY <2>1
  <2> DEFINE f == Reply(Head(up[c]), "data", k, TRUE)
  <2>3. f \in Frame
    BY <1>a, <2>1, ServerFrames, ConstantsAssumption
  <2>4. f.id = Head(up[c]).id /\ f.type = "data"
    BY DEF Reply
  <2>5. QED
    BY <1>0, <2>1, <2>2, <2>3, <2>4, ServerAppend DEF StreamInv
<1>3. CASE ServerIgnore
  <2>1. PICK c \in live :
          /\ up[c] # <<>>
          /\ up' = [up EXCEPT ![c] = Tail(@)]
          /\ UNCHANGED <<websocket, op, req, total_rows, nReq, down, rowsSent>>
    BY <1>3 DEF ServerIgnore
  <2>2. c \in Conns
    BY <1>a, LiveConns, ConstantsAssumption
  <2>3. QED
    BY <1>0, <2>1, <2>2, ServerDrop DEF StreamInv
<1>4. CASE ServerClose
  <2>1. UNCHANGED <<websocket, op, req, total_rows, nReq, up, down, rowsSent>>
    BY <1>4 DEF ServerClose
  <2>2. QED
    BY <1>0, <2>1 DEF StreamInv, IdsSent, FreshIds, StreamSole, StreamLedger
<1>5. CASE ServerBadFrame
  BY <1>5 DEF ServerBadFrame, WellBehavedServer
<1>6. QED
  BY <1>1, <1>2, <1>3, <1>4, <1>5 DEF Server

\* Stuttering keeps StreamInv.
LEMMA StutterStreamInv ==
    ASSUME StreamInv, UNCHANGED vars
    PROVE  StreamInv'
<1>1. CorrelationInv'
  BY StutterCorrelationInv DEF StreamInv
<1>2. QED
  BY <1>1 DEF StreamInv, vars, IdsSent, FreshIds, StreamSole, StreamLedger

LEMMA NextStreamInv ==
    ASSUME WellBehavedServer, StreamInv, [Next]_vars
    PROVE  StreamInv'
BY CallerStreamInv, ReceiveStreamInv, ServerStreamInv, StutterStreamInv DEF Next

-----------------------------------------------------------------------------
(* The streaming total.                                                    *)

\* The only step that ends the loop on a batch is the read of the last
\* frame buffered, and the ledger then leaves nothing uncounted.
LEMMA StreamTotalStep ==
    ASSUME WellBehavedServer, StreamInv, [Next]_vars
    PROVE  [ op = "stream" /\ op' = "none" /\ got'.type = "data"
               => total_rows' = rowsSent[req.id] ]_vars
<1> SUFFICES ASSUME op = "stream", op' = "none", got'.type = "data"
             PROVE  total_rows' = rowsSent[req.id]
  OBVIOUS
<1>1. CASE Caller
  BY <1>1 DEF Caller, connect, authenticate, execute_query, ping, stream_query,
             close, Idle
<1>2. CASE Server
  BY <1>2 DEF Server, ServerAnswer, ServerBatch, ServerIgnore, ServerClose,
             ServerBadFrame
<1>3. CASE TimeOut \/ ConnectionClosed
  BY <1>3 DEF TimeOut, ConnectionClosed, NoFrame
<1>4. CASE Deliver
  <2> DEFINE d == down[websocket]
  <2>1. /\ d \in Seq(Frame) /\ d # <<>>
        /\ got' = Head(d)
        /\ ~NonFinal(Head(d)) => Len(d) = 1
        /\ StreamStep(Head(d))
    BY <1>4, StreamRead DEF StreamInv
  <2>2. Head(d).type = "data" /\ ~Head(d).more
        /\ total_rows' = total_rows + Head(d).rows
    BY <2>1 DEF StreamStep, Raise
  <2>3. Len(d) = 1 /\ Head(d) = d[1]
    BY <2>1, <2>2 DEF NonFinal
  <2>4. PICK g \in [0 .. Len(d) -> Nat] : Ledger(g, total_rows, d, rowsSent[req.id])
    BY DEF StreamInv, StreamLedger, RowsLedger
  <2>5. total_rows + d[1].rows = rowsSent[req.id]
    BY <2>1, <2>3, <2>4, LedgerLast
  <2>6. QED
    BY <2>2, <2>3, <2>5
<1>5. CASE UNCHANGED vars
  BY <1>5 DEF vars
<1>6. QED
  BY <1>1, <1>2, <1>3, <1>4, <1>5 DEF Next, receive_message

\* StreamTotal for every value of the constants: with a server that answers
\* before the timeout, sends only envelopes, and execute_query called with
\* streaming=False, when example_8's loop ends on the batch with
\* has_more = false, total_rows is the number of rows the server sent for
\* that query.  StreamInv strengthens the correlation invariant with a
\* ledger: the rows counted plus the rows still buffered on the connection
\* are the rows sent for the streaming query's id, and no other channel
\* carries that id.
THEOREM StreamTotalHolds ==
    ASSUME WellBehavedServer
    PROVE  Spec => StreamTotal
<1>1. Init => StreamInv
  BY InitStreamInv
<1>2. StreamInv /\ [Next]_vars => StreamInv'
  BY NextStreamInv
<1>3. StreamInv /\ [Next]_vars =>
        [ op = "stream" /\ op' = "none" /\ got'.type = "data"
            => total_rows' = rowsSent[req.id] ]_vars
  BY StreamTotalStep
<1>4. QED
  BY <1>1, <1>2, <1>3, PTL DEF Spec, StreamTotal
=============================================================================
