--------------------------- MODULE WsClient_proofs ---------------------------
(***************************************************************************)
(* Proofs about WsClient, for every value of the constants that satisfies *)
(* ConstantsAssumption.                                                    *)
(***************************************************************************)
EXTENDS WsClient, SequenceTheorems, TLAPS

(***************************************************************************)
(* TypeOK is not inductive by itself: the receive step reads               *)
(* down[websocket], which is a frame sequence only if a method blocked in *)
(* receive_message has a connection.  The strengthening says so.          *)
(***************************************************************************)
TypeInv == TypeOK /\ (~Idle => websocket \in Conns)

\* A request built by NewRequest while the budget lasts is a Request.
LEMMA NewRequestType ==
    ASSUME ConstantsAssumption, nReq \in 0 .. MaxRequests, nReq < MaxRequests,
           NEW t \in RequestTypes, NEW s \in BOOLEAN
    PROVE  NewRequest(t, s) \in Request
BY DEF NewRequest, Request, Ids, NoId, RequestTypes

\* Every frame the server may send is a Frame.
LEMMA FinalRepliesType ==
    ASSUME ConstantsAssumption, NEW r \in Request
    PROVE  FinalReplies(r) \subseteq Frame
<1>1. r.id \in Ids \cup {NoId}
  BY DEF Request
<1>2. Answering(r.type) \subseteq ReplyTypes
  BY DEF Answering, ReplyTypes
<1>3. \A t \in Answering(r.type) \ {"data"} : Reply(r, t, 0, FALSE) \in Frame
  BY <1>1, <1>2 DEF Reply, Frame, FrameTypes
<1>4. \A k \in Rows : Reply(r, "data", k, FALSE) \in Frame
  BY <1>1 DEF Reply, Frame, FrameTypes, ReplyTypes
<1>5. QED
  BY <1>3, <1>4 DEF FinalReplies

\* The decoded value of a frame is what receive_message may return.
LEMMA DecodeType ==
    ASSUME NEW f \in Frame
    PROVE  Decode(f) \in Decoded
BY DEF Decode, Decoded, NoFrame, Frame, FrameTypes, ReplyTypes, NoId

LEMMA InitTypeInv == Init => TypeInv
<1> SUFFICES ASSUME Init PROVE TypeInv
  OBVIOUS
<1> USE ConstantsAssumption DEF ConstantsAssumption, Init
<1>1. req \in Request
  BY DEF NoReq, Request, NoId
<1>2. got \in Decoded
  BY DEF NoFrame, Decoded, Frame, FrameTypes, NoId
<1>3. up \in [Conns -> Seq(Request)] /\ down \in [Conns -> Seq(Frame)]
  OBVIOUS
<1>4. sent \in [Conns -> 0 .. (MaxBatches - 1)] /\ rowsSent \in [Ids -> Nat]
  OBVIOUS
<1>5. websocket \in Conns \cup {NoConn} /\ authConn \in Conns \cup {NoConn}
  BY DEF NoConn
<1>6. nConn \in 0 .. MaxConn /\ live \subseteq 1 .. nConn /\ nReq \in 0 .. MaxRequests
  OBVIOUS
<1>7. QED
  BY <1>1, <1>2, <1>3, <1>4, <1>5, <1>6 DEF TypeInv, TypeOK, Idle

\* A send keeps the type of the channels and of the request in flight.
LEMMA SendRequestType ==
    ASSUME TypeOK, ConstantsAssumption, NEW c \in Conns,
           NEW t \in RequestTypes, NEW s \in BOOLEAN, NEW m,
           SendRequest(c, NewRequest(t, s), m)
    PROVE  /\ nReq' \in 0 .. MaxRequests
           /\ up' \in [Conns -> Seq(Request)]
           /\ req' \in Request
           /\ got' \in Decoded
           /\ op' = m
<1>1. NewRequest(t, s) \in Request
  BY NewRequestType DEF TypeOK, SendRequest
<1>2. Append(up[c], NewRequest(t, s)) \in Seq(Request)
  BY <1>1, AppendProperties DEF TypeOK
<1>3. NoFrame \in Decoded
  BY DEF NoFrame, Decoded, Frame, FrameTypes, NoId
<1>4. QED
  BY <1>1, <1>2, <1>3 DEF TypeOK, SendRequest, ConstantsAssumption

\* The caller's steps keep the type invariant.
LEMMA CallerTypeInv == TypeInv /\ Caller => TypeInv'
<1> SUFFICES ASSUME TypeInv, Caller PROVE TypeInv'
  OBVIOUS
<1> USE ConstantsAssumption DEF ConstantsAssumption, TypeInv, TypeOK, Idle
<1>1. CASE connect
  <2>1. nConn + 1 \in Conns
    BY <1>1 DEF connect, Conns
  <2>2. CASE HasToken
    <3>1. SendRequest(nConn + 1, NewRequest("auth", FALSE), "connect")
      BY <1>1, <2>2 DEF connect
    <3>2. /\ nReq' \in 0 .. MaxRequests
          /\ up' \in [Conns -> Seq(Request)]
          /\ req' \in Request
          /\ got' \in Decoded
      BY <2>1, <3>1, SendRequestType DEF RequestTypes
    <3>3. /\ nConn' = nConn + 1 /\ live' = live \cup {nConn + 1}
          /\ websocket' = nConn + 1 /\ op' = "connect"
          /\ UNCHANGED <<reconnect_count, authenticated, total_rows, down, sent,
                         rowsSent, authConn>>
      BY <1>1, <2>2, <3>1 DEF connect, SendRequest
    <3>4. nConn' \in 0 .. MaxConn /\ live' \subseteq 1 .. nConn'
      BY <1>1, <3>3 DEF connect
    <3>5. QED
      BY <2>1, <3>2, <3>3, <3>4 DEF NoConn
  <2>3. CASE ~HasToken
    BY <1>1, <2>1, <2>3 DEF connect, Conns, NoConn
  <2>4. QED
    BY <2>2, <2>3
<1>2. CASE authenticate
  <2>1. websocket \in Conns
    BY <1>2 DEF authenticate, NoConn
  <2>2. QED
    BY <1>2, <2>1, SendRequestType DEF authenticate, RequestTypes
<1>3. CASE execute_query
  <2>1. websocket \in Conns
    BY <1>3 DEF execute_query, NoConn
  <2>2. PICK s \in QueryStreaming :
          SendRequest(websocket, NewRequest("query", s), "execute_query")
    BY <1>3 DEF execute_query
  <2>3. QED
    BY <1>3, <2>1, <2>2, SendRequestType DEF execute_query, RequestTypes
<1>4. CASE ping
  <2>1. websocket \in Conns
    BY <1>4 DEF ping, NoConn
  <2>2. QED
    BY <1>4, <2>1, SendRequestType DEF ping, RequestTypes
<1>5. CASE stream_query
  <2>1. websocket \in Conns
    BY <1>5 DEF stream_query, NoConn
  <2>2. QED
    BY <1>5, <2>1, SendRequestType DEF stream_query, RequestTypes
<1>6. CASE close
  BY <1>6 DEF close, NoConn
<1>7. QED
  BY <1>1, <1>2, <1>3, <1>4, <1>5, <1>6 DEF Caller

\* A decoded frame carries a row count.
LEMMA DecodedRows ==
    ASSUME Rows \subseteq Nat, NEW resp \in Decoded
    PROVE  resp.rows \in Nat
<1>1. resp \in Frame
  BY DEF Decoded
<1>2. resp.rows \in Rows \cup {0}
  BY <1>1 DEF Frame
<1>3. Rows \cup {0} \subseteq Nat
  OBVIOUS
<1>4. QED
  BY <1>2, <1>3, Zenon

\* Whatever the blocked method does with a decoded value keeps the types
\* of the object's fields.
LEMMA ContinueType ==
    ASSUME Rows \subseteq Nat, websocket \in Conns,
           authenticated \in BOOLEAN, reconnect_count \in Nat,
           total_rows \in Nat, authConn \in Conns \cup {NoConn},
           NEW resp, resp.rows \in Nat, Continue(resp)
    PROVE  /\ op' \in {"none", "connect", "authenticate", "execute_query", "ping", "stream"}
           /\ authenticated' \in BOOLEAN
           /\ reconnect_count' \in Nat
           /\ total_rows' \in Nat
           /\ authConn' \in Conns \cup {NoConn}
<1>2. CASE AuthReply(resp)
  <2>1. CASE resp.type = "untyped"
    BY <1>2, <2>1 DEF AuthReply, Raise
  <2>2. CASE resp.type # "untyped"
    <3>1. authenticated' \in BOOLEAN
      <4>1. authenticated' \in {TRUE, FALSE, authenticated}
        BY <1>2, <2>2 DEF AuthReply
      <4>2. QED
        BY <4>1
    <3>2. authConn' \in Conns \cup {NoConn}
      BY <1>2, <2>2 DEF AuthReply
    <3>3. reconnect_count' \in {0, reconnect_count}
      BY <1>2, <2>2 DEF AuthReply
    <3>4. op' = "none" /\ total_rows' = total_rows
      BY <1>2, <2>2 DEF AuthReply
    <3>5. QED
      BY <3>1, <3>2, <3>3, <3>4
  <2>3. QED
    BY <2>1, <2>2
<1>3. CASE QueryReply(resp)
  BY <1>3 DEF QueryReply
<1>4. CASE PingReply(resp)
  BY <1>4 DEF PingReply, Raise
<1>5. CASE StreamStep(resp)
  BY <1>5 DEF StreamStep, Raise
<1>6. QED
  BY <1>2, <1>3, <1>4, <1>5 DEF Continue

\* The receive step keeps the type invariant.
LEMMA ReceiveTypeInv == TypeInv /\ receive_message => TypeInv'
<1> SUFFICES ASSUME TypeInv, receive_message PROVE TypeInv'
  OBVIOUS
<1> USE ConstantsAssumption DEF ConstantsAssumption, TypeInv, TypeOK, Idle
<1>1. CASE Deliver
  <2>1. websocket \in Conns /\ down[websocket] \in Seq(Frame) /\ down[websocket] # <<>>
    BY <1>1 DEF Deliver
  <2>2. Head(down[websocket]) \in Frame /\ Tail(down[websocket]) \in Seq(Frame)
    BY <2>1, HeadTailProperties
  <2>3. Decode(Head(down[websocket])) \in Decoded
    BY <2>2, DecodeType
  <2>4. Continue(Decode(Head(down[websocket])))
    BY <1>1 DEF Deliver
  <2>5. /\ op' \in {"none", "connect", "authenticate", "execute_query", "ping", "stream"}
        /\ authenticated' \in BOOLEAN
        /\ reconnect_count' \in Nat
        /\ total_rows' \in Nat
        /\ authConn' \in Conns \cup {NoConn}
    BY <2>1, <2>3, <2>4, DecodedRows, ContinueType
  <2>6. QED
    BY <1>1, <2>1, <2>2, <2>3, <2>5 DEF Deliver
<1>2. CASE TimeOut
  <2>1. NoFrame \in Decoded /\ NoFrame.rows \in Nat
    BY DEF NoFrame, Decoded, Frame, FrameTypes, NoId
  <2>2. /\ op' \in {"none", "connect", "authenticate", "execute_query", "ping", "stream"}
        /\ authenticated' \in BOOLEAN
        /\ reconnect_count' \in Nat
        /\ total_rows' \in Nat
        /\ authConn' \in Conns \cup {NoConn}
    BY <1>2, <2>1, ContinueType DEF TimeOut, NoConn
  <2>3. QED
    BY <1>2, <2>1, <2>2 DEF TimeOut
<1>3. CASE ConnectionClosed
  BY <1>3 DEF ConnectionClosed, Raise, NoFrame, Decoded, Frame, FrameTypes, NoId
<1>4. QED
  BY <1>1, <1>2, <1>3 DEF receive_message

\* The server's count of rows stays a count.
LEMMA AddRowsType ==
    ASSUME rowsSent \in [Ids -> Nat], NEW f, f.rows \in Nat
    PROVE  AddRows(f) \in [Ids -> Nat]
<1>1. CASE f.type = "data" /\ f.id \in Ids
  BY <1>1 DEF AddRows
<1>2. CASE f.type = "data" /\ f.id \notin Ids
  <2>1. [rowsSent EXCEPT ![f.id] = @ + f.rows] = rowsSent
    BY <1>2
  <2>2. QED
    BY <1>2, <2>1 DEF AddRows
<1>3. CASE f.type # "data"
  BY <1>3 DEF AddRows
<1>4. QED
  BY <1>1, <1>2, <1>3

\* A connection the server acts on has a channel.
LEMMA LiveConns ==
    ASSUME TypeOK, ConstantsAssumption
    PROVE  live \subseteq Conns
BY DEF TypeOK, Conns, ConstantsAssumption

\* Every frame the server appends to a channel is a Frame.
LEMMA ServerFrames ==
    ASSUME TypeOK, ConstantsAssumption, NEW c \in live, up[c] # <<>>
    PROVE  /\ Head(up[c]) \in Request
           /\ Tail(up[c]) \in Seq(Request)
           /\ FinalReplies(Head(up[c])) \subseteq Frame
           /\ \A k \in Rows : Reply(Head(up[c]), "data", k, TRUE) \in Frame
<1>1. c \in Conns
  BY LiveConns
<1>2. up[c] \in Seq(Request)
  BY <1>1 DEF TypeOK
<1>3. Head(up[c]) \in Request /\ Tail(up[c]) \in Seq(Request)
  BY <1>2, HeadTailProperties
<1>4. FinalReplies(Head(up[c])) \subseteq Frame
  BY <1>3, FinalRepliesType
<1>5. Head(up[c]).id \in Ids \cup {NoId}
  BY <1>3 DEF Request
<1>6. \A k \in Rows : Reply(Head(up[c]), "data", k, TRUE) \in Frame
  BY <1>5 DEF Reply, Frame, FrameTypes, ReplyTypes
<1>7. QED
  BY <1>3, <1>4, <1>6

\* The server's steps keep the type invariant.
LEMMA ServerTypeInv == TypeInv /\ Server => TypeInv'
<1> SUFFICES ASSUME TypeInv, Server PROVE TypeInv'
  OBVIOUS
<1>0. /\ TypeOK
      /\ live \subseteq Conns
      /\ Rows \cup {0} \subseteq Nat
  <2>1. TypeOK
    BY DEF TypeInv
  <2>2. QED
    BY <2>1, LiveConns, ConstantsAssumption DEF ConstantsAssumption
<1> USE ConstantsAssumption DEF TypeInv, TypeOK, Idle
<1>1. CASE ServerAnswer
  <2>1. PICK c \in live :
          /\ up[c] # <<>>
          /\ \E f \in FinalReplies(Head(up[c])) :
               /\ down' = [down EXCEPT ![c] = Append(@, f)]
               /\ rowsSent' = AddRows(f)
          /\ up' = [up EXCEPT ![c] = Tail(@)]
          /\ sent' = [sent EXCEPT ![c] = 0]
          /\ UNCHANGED <<websocket, authenticated, reconnect_count, op, req, got,
                         total_rows, nConn, live, nReq, authConn>>
    BY <1>1 DEF ServerAnswer
  <2>2. PICK f \in FinalReplies(Head(up[c])) :
          /\ down' = [down EXCEPT ![c] = Append(@, f)]
          /\ rowsSent' = AddRows(f)
    BY <2>1
  <2>3. f \in Frame /\ Tail(up[c]) \in Seq(Request)
    BY <2>1, ServerFrames
  <2>4. f.rows \in Nat
    <3>1. f.rows \in Rows \cup {0}
      BY <2>3 DEF Frame
    <3>2. QED
      BY <1>0, <3>1, Zenon
  <2>5. Append(down[c], f) \in Seq(Frame)
    BY <1>0, <2>3, AppendProperties
  <2>6. rowsSent' \in [Ids -> Nat]
    BY <2>2, <2>4, AddRowsType
  <2>8. up' \in [Conns -> Seq(Request)]
    BY <1>0, <2>1, <2>3
  <2>9. down' \in [Conns -> Seq(Frame)]
    BY <1>0, <2>2, <2>5
  <2>10. sent' \in [Conns -> 0 .. (MaxBatches - 1)]
    BY <1>0, <2>1
  <2>7. QED
    BY <1>0, <2>1, <2>6, <2>8, <2>9, <2>10
<1>2. CASE ServerBatch
  <2>1. PICK c \in live :
          /\ up[c] # <<>>
          /\ sent[c] + 1 < MaxBatches
          /\ \E k \in Rows :
               LET f == Reply(Head(up[c]), "data", k, TRUE) IN
               /\ down' = [down EXCEPT ![c] = Append(@, f)]
               /\ rowsSent' = AddRows(f)
          /\ sent' = [sent EXCEPT ![c] = @ + 1]
          /\ UNCHANGED <<websocket, authenticated, reconnect_count, op, req, got,
                         total_rows, nConn, live, up, nReq, authConn>>
    BY <1>2 DEF ServerBatch
  <2>2. PICK k \in Rows :
          /\ down' = [down EXCEPT ![c] = Append(@, Reply(Head(up[c]), "data", k, TRUE))]
          /\ rowsSent' = AddRows(Reply(Head(up[c]), "data", k, TRUE))
    BY <2>1
  <2>3. Reply(Head(up[c]), "data", k, TRUE) \in Frame
    BY <2>1, ServerFrames
  <2>4. Append(down[c], Reply(Head(up[c]), "data", k, TRUE)) \in Seq(Frame)
    BY <1>0, <2>3, AppendProperties
  <2>5. rowsSent' \in [Ids -> Nat]
    <3>1. Reply(Head(up[c]), "data", k, TRUE).rows \in Nat
      BY <1>0 DEF Reply
    <3>2. QED
      BY <2>2, <3>1, AddRowsType
  <2>6. sent' \in [Conns -> 0 .. (MaxBatches - 1)]
    BY <1>0, <2>1
  <2>7. QED
    BY <1>0, <2>1, <2>2, <2>4, <2>5, <2>6
<1>3. CASE ServerIgnore
  <2>1. PICK c \in live : up[c] # <<>> /\ up' = [up EXCEPT ![c] = Tail(@)]
    BY <1>3 DEF ServerIgnore
  <2>2. Tail(up[c]) \in Seq(Request)
    BY <2>1, ServerFrames
  <2>3. QED
    BY <1>0, <1>3, <2>1, <2>2 DEF ServerIgnore
<1>4. CASE ServerClose
  BY <1>4 DEF ServerClose
<1>5. CASE ServerBadFrame
  <2>1. PICK c \in live, t \in {"malformed", "untyped"} :
          down' = [down EXCEPT ![c] = Append(@, [NoFrame EXCEPT !.type = t])]
    BY <1>5 DEF ServerBadFrame
  <2>2. [NoFrame EXCEPT !.type = t] \in Frame
    BY DEF NoFrame, Frame, FrameTypes, NoId
  <2>3. Append(down[c], [NoFrame EXCEPT !.type = t]) \in Seq(Frame)
    BY <1>0, <2>2, AppendProperties
  <2>4. QED
    BY <1>0, <1>5, <2>1, <2>3 DEF ServerBadFrame
<1>6. QED
  BY <1>1, <1>2, <1>3, <1>4, <1>5 DEF Server

\* A stuttering step changes no variable.
LEMMA StutterTypeInv == TypeInv /\ UNCHANGED vars => TypeInv'
BY DEF TypeInv, TypeOK, Idle, vars

\* Every step of the client, the transport and the server keeps TypeInv.
LEMMA NextTypeInv == TypeInv /\ [Next]_vars => TypeInv'
BY CallerTypeInv, ReceiveTypeInv, ServerTypeInv, StutterTypeInv DEF Next

\* Type correctness: in every behaviour of the client with any server,
\* self.websocket is None or a handle, the channels hold requests and
\* frames, receive_message returns a parsed object or None, and the
\* counters (reconnect_count, total_rows, the server's batch count) stay
\* in range, whatever the constants.
THEOREM TypeCorrect == Spec => []TypeOK
<1>1. Init => TypeInv
  BY InitTypeInv
<1>2. TypeInv /\ [Next]_vars => TypeInv'
  BY NextTypeInv
<1>3. TypeInv => TypeOK
  BY DEF TypeInv
<1>4. QED
  BY <1>1, <1>2, <1>3, PTL DEF Spec

-----------------------------------------------------------------------------
(***************************************************************************)
(* Correlation.  With a server that answers before the client's timeout,  *)
(* sends only envelopes, and execute_query called with streaming=False,   *)
(* the frame each method reads answers the request it sent.               *)
(***************************************************************************)
WellBehavedServer ==
    /\ ~LateReplies
    /\ ~BadFrames
    /\ QueryStreaming = {FALSE}

\* Connections not yet opened have empty channels.
FreshConns ==
    \A c \in Conns : c > nConn => up[c] = <<>> /\ down[c] = <<>> /\ sent[c] = 0

\* Between calls nothing is left on the current connection.
IdleDrained ==
    Idle /\ websocket # NoConn =>
        /\ down[websocket] = <<>>
        /\ websocket \in live => up[websocket] = <<>>

\* Only the streaming loop sends a streaming query.
ReqShape ==
    ~Idle => /\ req.streaming <=> op = "stream"
             /\ op = "stream" => req.type = "query"

\* The frames d buffered for request r answer it; all but the last are
\* batches with has_more, and batches come only for a streaming request.
AnswerSeq(r, d) ==
    /\ \A i \in 1 .. Len(d) : Answers(r, d[i])
    /\ \A i \in 1 .. Len(d) - 1 : NonFinal(d[i])
    /\ \A i \in 1 .. Len(d) : NonFinal(d[i]) => r.streaming

\* Every frame of d is a batch with has_more.
AllBatches(d) == \A i \in 1 .. Len(d) : NonFinal(d[i])

\* While a method waits, what is buffered on its connection answers its
\* request, and the server holds at most that one request; while it still
\* holds it, only batches have been sent, and some were if any are left.
PendingAnswers ==
    ~Idle =>
      /\ AnswerSeq(req, down[websocket])
      /\ websocket \in live =>
           \/ up[websocket] = <<>>
           \/ /\ up[websocket] = <<req>>
              /\ AllBatches(down[websocket])
              /\ sent[websocket] = 0 => down[websocket] = <<>>

CorrelationInv ==
    /\ TypeInv
    /\ websocket \in 0 .. nConn
    /\ FreshConns
    /\ IdleDrained
    /\ ReqShape
    /\ PendingAnswers
    /\ ResponseCorrelation

\* Reading the first buffered frame: it answers the request, what stays
\* buffered still does, and a frame that is not a batch was the last one.
LEMMA AnswerSeqTail ==
    ASSUME NEW r, NEW d \in Seq(Frame), d # <<>>, AnswerSeq(r, d)
    PROVE  /\ Answers(r, Head(d))
           /\ AnswerSeq(r, Tail(d))
           /\ NonFinal(Head(d)) => r.streaming
           /\ ~NonFinal(Head(d)) => Tail(d) = <<>>
           /\ AllBatches(d) => AllBatches(Tail(d)) /\ NonFinal(Head(d))
<1>1. /\ Len(d) \in Nat \ {0}
      /\ Head(d) = d[1]
      /\ Tail(d) \in Seq(Frame)
      /\ Len(Tail(d)) = Len(d) - 1
      /\ \A i \in 1 .. Len(Tail(d)) : Tail(d)[i] = d[i + 1]
  BY HeadTailProperties, EmptySeq
<1>2. Answers(r, Head(d)) /\ (NonFinal(Head(d)) => r.streaming)
  BY <1>1 DEF AnswerSeq
<1>3. AnswerSeq(r, Tail(d))
  BY <1>1 DEF AnswerSeq
<1>4. ~NonFinal(Head(d)) => Tail(d) = <<>>
  <2>1. ~NonFinal(Head(d)) => Len(d) = 1
    BY <1>1 DEF AnswerSeq
  <2>2. Len(d) = 1 => Len(Tail(d)) = Len(<<>>)
    BY <1>1, EmptySeq
  <2>3. QED
    BY <1>1, <2>1, <2>2, EmptySeq, SeqEqual, Zenon
<1>5. AllBatches(d) => AllBatches(Tail(d)) /\ NonFinal(Head(d))
  BY <1>1 DEF AllBatches
<1>6. QED
  BY <1>2, <1>3, <1>4, <1>5

\* The server sends one more frame for r after batches only.
LEMMA AnswerSeqAppend ==
    ASSUME NEW r, NEW d \in Seq(Frame), NEW f \in Frame,
           AnswerSeq(r, d), AllBatches(d), Answers(r, f),
           NonFinal(f) => r.streaming
    PROVE  /\ AnswerSeq(r, Append(d, f))
           /\ NonFinal(f) => AllBatches(Append(d, f))
<1>1. /\ Len(Append(d, f)) = Len(d) + 1
      /\ \A i \in 1 .. Len(d) : Append(d, f)[i] = d[i]
      /\ Append(d, f)[Len(d) + 1] = f
      /\ Len(d) \in Nat
  BY AppendProperties, LenProperties
<1>2. AnswerSeq(r, Append(d, f))
  BY <1>1 DEF AnswerSeq, AllBatches
<1>3. NonFinal(f) => AllBatches(Append(d, f))
  BY <1>1 DEF AllBatches
<1>4. QED
  BY <1>2, <1>3

\* A request sent on an empty channel is all the channel holds.
LEMMA AppendToEmpty ==
    ASSUME NEW r
    PROVE  Append(<<>>, r) = <<r>>
OBVIOUS

\* Nothing is buffered for a request that was just sent.
LEMMA AnswerSeqEmpty ==
    ASSUME NEW r
    PROVE  AnswerSeq(r, <<>>) /\ AllBatches(<<>>)
BY DEF AnswerSeq, AllBatches

LEMMA InitCorrelationInv == Init => CorrelationInv
<1> SUFFICES ASSUME Init PROVE CorrelationInv
  OBVIOUS
<1>1. TypeInv
  BY InitTypeInv
<1>2. websocket \in 0 .. nConn /\ FreshConns
  BY DEF Init, NoConn, FreshConns
<1>3. IdleDrained /\ ReqShape /\ PendingAnswers
  BY DEF Init, NoConn, IdleDrained, ReqShape, PendingAnswers, Idle
<1>4. ResponseCorrelation
  BY DEF Init, NoFrame, ResponseCorrelation, ReplyTypes
<1>5. QED
  BY <1>1, <1>2, <1>3, <1>4 DEF CorrelationInv

\* A method called between calls sends request r on the current
\* connection, which is then the only thing the server holds for it.
LEMMA SendOnCurrent ==
    ASSUME CorrelationInv, TypeInv', Idle, websocket # NoConn,
           NEW r, NEW m, m # "none",
           r.streaming <=> m = "stream",
           m = "stream" => r.type = "query",
           SendRequest(websocket, r, m),
           UNCHANGED <<websocket, nConn, live, down, sent>>
    PROVE  CorrelationInv'
<1> USE DEF CorrelationInv
<1>1. websocket \in 1 .. nConn /\ websocket \in Conns
  BY DEF TypeInv, TypeOK, NoConn
<1>2. /\ down[websocket] = <<>>
      /\ websocket \in live => up[websocket] = <<>>
  BY DEF IdleDrained
<1>3. /\ up' = [up EXCEPT ![websocket] = Append(@, r)]
      /\ req' = r /\ op' = m /\ got' = NoFrame
  BY DEF SendRequest
<1>4. FreshConns'
  BY <1>1, <1>3 DEF FreshConns, TypeInv, TypeOK
<1>5. IdleDrained' /\ ReqShape'
  BY <1>3 DEF IdleDrained, ReqShape, Idle
<1>6. PendingAnswers'
  <2>1. AnswerSeq(r, down[websocket]) /\ AllBatches(down[websocket])
    BY <1>2, AnswerSeqEmpty
  <2>2. websocket \in live => up'[websocket] = <<r>>
    BY <1>1, <1>2, <1>3 DEF TypeInv, TypeOK
  <2>3. QED
    BY <1>2, <1>3, <2>1, <2>2 DEF PendingAnswers
<1>7. ResponseCorrelation'
  BY <1>3 DEF ResponseCorrelation, NoFrame, ReplyTypes
<1>8. QED
  BY <1>1, <1>4, <1>5, <1>6, <1>7

\* The conjuncts of the correlation invariant, as separate facts.
LEMMA CorrelationParts ==
    ASSUME CorrelationInv
    PROVE  /\ TypeOK
           /\ ~Idle => websocket \in Conns
           /\ websocket \in 0 .. nConn
           /\ FreshConns
           /\ IdleDrained
           /\ ReqShape
           /\ PendingAnswers
           /\ ResponseCorrelation
BY DEF CorrelationInv, TypeInv

\* The caller's steps keep the correlation invariant.
LEMMA CallerCorrelationInv ==
    ASSUME WellBehavedServer, CorrelationInv, Caller
    PROVE  CorrelationInv'
<1>0. TypeInv'
  BY CallerTypeInv DEF CorrelationInv
<1>a. /\ TypeOK
      /\ websocket \in 0 .. nConn
      /\ FreshConns
      /\ IdleDrained
      /\ ReqShape
      /\ PendingAnswers
      /\ ResponseCorrelation
  BY CorrelationParts
<1>b. MaxConn \in Nat
  BY ConstantsAssumption DEF ConstantsAssumption
<1>1. CASE connect
  <2>1. /\ Idle /\ nConn < MaxConn
        /\ nConn' = nConn + 1 /\ websocket' = nConn + 1
        /\ live' = live \cup {nConn + 1}
        /\ UNCHANGED <<down, sent>>
    BY <1>1 DEF connect
  <2>2. nConn + 1 \in Conns
    BY <1>a, <1>b, <2>1 DEF TypeOK, Conns
  <2>3. up[nConn + 1] = <<>> /\ down[nConn + 1] = <<>> /\ sent[nConn + 1] = 0
    BY <1>a, <2>1, <2>2 DEF FreshConns, TypeOK
  <2>4. up' = up \/ \E r : up' = [up EXCEPT ![nConn + 1] = Append(@, r)]
    BY <1>1 DEF connect, SendRequest
  <2>5. FreshConns'
    <3>1. \A c \in Conns : c > nConn + 1 => up'[c] = up[c]
      BY <1>a, <2>4 DEF TypeOK
    <3>2. QED
      BY <1>a, <2>1, <3>1 DEF FreshConns, TypeOK
  <2>6. ResponseCorrelation'
    <3>1. CASE HasToken
      BY <1>1, <3>1 DEF connect, SendRequest, ResponseCorrelation, NoFrame, ReplyTypes
    <3>2. CASE ~HasToken
      BY <1>1, <1>a, <3>2 DEF connect, ResponseCorrelation
    <3>3. QED
      BY <3>1, <3>2
  <2>7. websocket' \in 0 .. nConn'
    BY <1>a, <2>1 DEF TypeOK
  <2>8. CASE HasToken
    <3>1. SendRequest(nConn + 1, NewRequest("auth", FALSE), "connect")
      BY <1>1, <2>8 DEF connect
    <3>2. /\ up'[nConn + 1] = <<NewRequest("auth", FALSE)>>
          /\ req' = NewRequest("auth", FALSE) /\ op' = "connect"
      <4>1. up' = [up EXCEPT ![nConn + 1] = Append(@, NewRequest("auth", FALSE))]
            /\ req' = NewRequest("auth", FALSE) /\ op' = "connect"
        BY <3>1 DEF SendRequest
      <4>2. up'[nConn + 1] = Append(<<>>, NewRequest("auth", FALSE))
        BY <1>a, <2>2, <2>3, <4>1 DEF TypeOK
      <4>3. QED
        BY <4>1, <4>2, AppendToEmpty
    <3>3. IdleDrained' /\ ReqShape'
      BY <3>2 DEF IdleDrained, ReqShape, Idle, NewRequest
    <3>4. PendingAnswers'
      BY <2>1, <2>3, <3>2, AnswerSeqEmpty DEF PendingAnswers
    <3>5. QED
      BY <1>0, <2>5, <2>6, <2>7, <3>3, <3>4 DEF CorrelationInv
  <2>9. CASE ~HasToken
    <3>1. UNCHANGED <<up, op, req, got>>
      BY <1>1, <2>9 DEF connect
    <3>2. IdleDrained' /\ ReqShape' /\ PendingAnswers'
      BY <2>1, <2>3, <3>1 DEF IdleDrained, ReqShape, PendingAnswers, Idle, NoConn
    <3>3. QED
      BY <1>0, <2>5, <2>6, <2>7, <3>2 DEF CorrelationInv
  <2>10. QED
    BY <2>8, <2>9
<1>2. CASE authenticate
  BY <1>2, SendOnCurrent, <1>0 DEF authenticate, NewRequest
<1>3. CASE execute_query
  <2>1. PICK s \in QueryStreaming :
          SendRequest(websocket, NewRequest("query", s), "execute_query")
    BY <1>3 DEF execute_query
  <2>2. s = FALSE
    BY DEF WellBehavedServer
  <2>3. QED
    BY <1>0, <1>3, <2>1, <2>2, SendOnCurrent DEF execute_query, NewRequest
<1>4. CASE ping
  BY <1>4, SendOnCurrent, <1>0 DEF ping, NewRequest
<1>5. CASE stream_query
  BY <1>5, SendOnCurrent, <1>0 DEF stream_query, NewRequest
<1>6. CASE close
  <2>1. /\ Idle /\ websocket' = NoConn
        /\ UNCHANGED <<op, req, got, nConn, up, down, sent>>
    BY <1>6 DEF close
  <2>2. FreshConns' /\ websocket' \in 0 .. nConn'
    BY <1>a, <2>1 DEF FreshConns, NoConn, TypeOK
  <2>3. IdleDrained' /\ ReqShape' /\ PendingAnswers' /\ ResponseCorrelation'
    BY <1>a, <2>1 DEF IdleDrained, ReqShape, PendingAnswers, ResponseCorrelation,
                      NoConn, Idle
  <2>4. QED
    BY <1>0, <2>2, <2>3 DEF CorrelationInv
<1>7. QED
  BY <1>1, <1>2, <1>3, <1>4, <1>5, <1>6 DEF Caller

\* What the blocked method does next with an envelope or None: only the
\* streaming loop keeps waiting, and, when it is given only the replies
\* to a query, only on a batch with has_more.
LEMMA ContinueOp ==
    ASSUME NEW resp, resp.type \in ReplyTypes \cup {"none"},
           op = "stream" => resp.type \in {"data", "error", "none"},
           Continue(resp)
    PROVE  /\ op' \in {"none", "stream"}
           /\ op' = "stream" => op = "stream" /\ NonFinal(resp)
           /\ op = "stream" /\ NonFinal(resp) => op' = "stream"
<1>1. resp.type # "untyped"
  BY DEF ReplyTypes
<1>2. CASE AuthReply(resp)
  BY <1>1, <1>2 DEF AuthReply
<1>3. CASE QueryReply(resp)
  BY <1>3 DEF QueryReply
<1>4. CASE PingReply(resp)
  BY <1>1, <1>4 DEF PingReply
<1>5. CASE StreamStep(resp)
  BY <1>1, <1>5 DEF StreamStep, NonFinal
<1>6. QED
  BY <1>2, <1>3, <1>4, <1>5 DEF Continue

\* The receive step keeps the correlation invariant.
LEMMA ReceiveCorrelationInv ==
    ASSUME WellBehavedServer, CorrelationInv, receive_message
    PROVE  CorrelationInv'
<1>0. TypeInv'
  BY ReceiveTypeInv DEF CorrelationInv
<1>a. /\ TypeOK
      /\ ~Idle => websocket \in Conns
      /\ websocket \in 0 .. nConn
      /\ FreshConns
      /\ IdleDrained
      /\ ReqShape
      /\ PendingAnswers
      /\ ResponseCorrelation
  BY CorrelationParts
<1>1. CASE Deliver
  <2> DEFINE d == down[websocket]
             h == Head(d)
  <2>1. /\ ~Idle /\ d # <<>>
        /\ got' = Decode(h)
        /\ down' = [down EXCEPT ![websocket] = Tail(@)]
        /\ Continue(Decode(h))
        /\ UNCHANGED <<websocket, req, nConn, live, up, sent>>
    BY <1>1 DEF Deliver
  <2>2. websocket \in Conns /\ websocket \in 1 .. nConn /\ d \in Seq(Frame)
    BY <1>a, <2>1 DEF TypeOK, NoConn, Conns
  <2>3. AnswerSeq(req, d)
    BY <1>a, <2>1 DEF PendingAnswers
  <2>4. /\ Answers(req, h)
        /\ AnswerSeq(req, Tail(d))
        /\ NonFinal(h) => req.streaming
        /\ ~NonFinal(h) => Tail(d) = <<>>
        /\ AllBatches(d) => NonFinal(h)
    BY <2>1, <2>2, <2>3, AnswerSeqTail
  <2>5. h.type \in ReplyTypes /\ Decode(h) = h
    BY <2>4 DEF Answers, Answering, ReplyTypes, Decode
  <2>6. /\ req.streaming <=> op = "stream"
        /\ op = "stream" => req.type = "query"
    BY <1>a, <2>1 DEF ReqShape
  <2>7. op = "stream" => h.type \in {"data", "error", "none"}
    BY <2>4, <2>6 DEF Answers, Answering
  <2>8. /\ op' \in {"none", "stream"}
        /\ op' = "stream" => op = "stream" /\ NonFinal(h)
        /\ op = "stream" /\ NonFinal(h) => op' = "stream"
    BY <2>1, <2>5, <2>7, ContinueOp
  <2>9. down'[websocket] = Tail(d)
    BY <1>a, <2>1, <2>2 DEF TypeOK
  <2>10. ResponseCorrelation'
    BY <2>1, <2>4, <2>5 DEF ResponseCorrelation
  <2>11. FreshConns' /\ websocket' \in 0 .. nConn'
    BY <1>a, <2>1, <2>2 DEF FreshConns, TypeOK
  <2>12. CASE op' = "none"
    <3>1. ~NonFinal(h)
      BY <2>4, <2>6, <2>8, <2>12
    <3>2. websocket \in live => up[websocket] = <<>>
      BY <1>a, <2>1, <2>4, <3>1 DEF PendingAnswers
    <3>3. IdleDrained'
      BY <2>1, <2>4, <2>9, <3>1, <3>2 DEF IdleDrained
    <3>4. ReqShape' /\ PendingAnswers'
      BY <2>12 DEF ReqShape, PendingAnswers, Idle
    <3>5. QED
      BY <1>0, <2>10, <2>11, <3>3, <3>4 DEF CorrelationInv
  <2>13. CASE op' = "stream"
    <3>1. op = "stream" /\ NonFinal(h)
      BY <2>8, <2>13
    <3>2. IdleDrained' /\ ReqShape'
      BY <2>1, <2>6, <2>13, <3>1 DEF IdleDrained, ReqShape, Idle
    <3>3. websocket \in live /\ up[websocket] = <<req>> => sent[websocket] # 0
      BY <1>a, <2>1 DEF PendingAnswers
    <3>4. AllBatches(d) => AllBatches(Tail(d))
      BY <2>1, <2>2, <2>3, AnswerSeqTail
    <3>5. PendingAnswers'
      BY <1>a, <2>1, <2>4, <2>9, <2>13, <3>3, <3>4 DEF PendingAnswers, Idle
    <3>6. QED
      BY <1>0, <2>10, <2>11, <3>2, <3>5 DEF CorrelationInv
  <2>14. QED
    BY <2>8, <2>12, <2>13
<1>2. CASE TimeOut
  <2>1. /\ ~Idle /\ down[websocket] = <<>> /\ websocket \in live
        /\ up[websocket] = <<>>
        /\ got' = NoFrame /\ Continue(NoFrame)
        /\ UNCHANGED <<websocket, req, nConn, live, up, down, sent>>
    BY <1>2 DEF TimeOut, WellBehavedServer
  <2>2. op' = "none"
    <3>1. NoFrame.type = "none" /\ ~NonFinal(NoFrame)
      BY DEF NoFrame, NonFinal
    <3>2. QED
      BY <2>1, <3>1, ContinueOp DEF ReplyTypes
  <2>3. QED
    BY <1>0, <1>a, <2>1, <2>2 DEF CorrelationInv, FreshConns, IdleDrained, ReqShape,
       PendingAnswers, ResponseCorrelation, Idle, NoFrame, ReplyTypes
<1>3. CASE ConnectionClosed
  <2>1. /\ ~Idle /\ down[websocket] = <<>> /\ websocket \notin live
        /\ got' = NoFrame /\ op' = "none"
        /\ UNCHANGED <<websocket, req, nConn, live, up, down, sent>>
    BY <1>3 DEF ConnectionClosed, Raise
  <2>2. QED
    BY <1>0, <1>a, <2>1 DEF CorrelationInv, FreshConns, IdleDrained, ReqShape,
       PendingAnswers, ResponseCorrelation, Idle, NoFrame, ReplyTypes
<1>4. QED
  BY <1>1, <1>2, <1>3 DEF receive_message

\* A final reply the server sends for r answers r and is not a batch.
LEMMA FinalRepliesAnswer ==
    ASSUME NEW r, NEW f \in FinalReplies(r)
    PROVE  Answers(r, f) /\ ~NonFinal(f)
BY DEF FinalReplies, Reply, Answers, Answering, NonFinal

\* A server step that leaves the current connection's channels alone, and
\* closes connections at most, keeps the correlation invariant.
LEMMA ServerElsewhere ==
    ASSUME CorrelationInv, TypeInv',
           UNCHANGED <<websocket, op, req, got, nConn>>,
           live' \subseteq live,
           websocket \in Conns =>
             /\ up'[websocket] = up[websocket]
             /\ down'[websocket] = down[websocket]
             /\ sent'[websocket] = sent[websocket],
           \A c \in Conns : c > nConn =>
             up'[c] = up[c] /\ down'[c] = down[c] /\ sent'[c] = sent[c]
    PROVE  CorrelationInv'
<1>a. /\ TypeOK
      /\ ~Idle => websocket \in Conns
      /\ websocket \in 0 .. nConn
      /\ FreshConns
      /\ IdleDrained
      /\ ReqShape
      /\ PendingAnswers
      /\ ResponseCorrelation
  BY CorrelationParts
<1>1. FreshConns' /\ websocket' \in 0 .. nConn'
  BY <1>a DEF FreshConns
<1>2. ReqShape' /\ ResponseCorrelation'
  BY <1>a DEF ReqShape, ResponseCorrelation, Idle
<1>3. IdleDrained'
  <2>1. CASE websocket \in Conns
    BY <1>a, <2>1 DEF IdleDrained, Idle
  <2>2. CASE websocket \notin Conns
    BY <1>a, <2>2 DEF IdleDrained, Idle, TypeOK, NoConn, Conns
  <2>3. QED
    BY <2>1, <2>2
<1>4. PendingAnswers'
  BY <1>a DEF PendingAnswers, Idle
<1>5. QED
  BY <1>1, <1>2, <1>3, <1>4 DEF CorrelationInv

\* When the server takes up a request on the current connection, a method
\* is waiting for it, and it is that method's request.
LEMMA ServerHoldsReq ==
    ASSUME CorrelationInv, NEW c \in live, c = websocket, up[c] # <<>>
    PROVE  /\ ~Idle
           /\ up[c] = <<req>>
           /\ AllBatches(down[c])
           /\ sent[c] = 0 => down[c] = <<>>
           /\ AnswerSeq(req, down[c])
<1>a. /\ TypeOK
      /\ IdleDrained
      /\ PendingAnswers
  BY CorrelationParts
<1>1. websocket # NoConn
  BY <1>a DEF TypeOK, NoConn
<1>2. ~Idle
  BY <1>a, <1>1 DEF IdleDrained
<1>3. QED
  BY <1>a, <1>2 DEF PendingAnswers

\* What a server step changes on the current connection, when it acts on
\* another one or only closes a connection.
LEMMA ServerStepFrame ==
    ASSUME TypeOK, NEW c \in live,
           NEW u, NEW w, NEW x,
           up' = [up EXCEPT ![c] = u], down' = [down EXCEPT ![c] = w],
           sent' = [sent EXCEPT ![c] = x]
    PROVE  /\ websocket \in Conns /\ c # websocket =>
                /\ up'[websocket] = up[websocket]
                /\ down'[websocket] = down[websocket]
                /\ sent'[websocket] = sent[websocket]
           /\ \A c2 \in Conns : c2 > nConn =>
                up'[c2] = up[c2] /\ down'[c2] = down[c2] /\ sent'[c2] = sent[c2]
BY DEF TypeOK

\* A server step on the current connection, while a method waits, keeps
\* the correlation invariant if it keeps PendingAnswers.
LEMMA ServerOnCurrent ==
    ASSUME CorrelationInv, TypeInv', NEW c \in live, c = websocket, ~Idle,
           UNCHANGED <<websocket, op, req, got, nConn, live>>,
           \A c2 \in Conns : c2 # c =>
             up'[c2] = up[c2] /\ down'[c2] = down[c2] /\ sent'[c2] = sent[c2],
           PendingAnswers'
    PROVE  CorrelationInv'
<1>a. /\ TypeOK
      /\ websocket \in 0 .. nConn
      /\ FreshConns
      /\ ReqShape
      /\ ResponseCorrelation
  BY CorrelationParts
<1>1. c \in 1 .. nConn
  BY <1>a DEF TypeOK
<1>2. FreshConns' /\ websocket' \in 0 .. nConn'
  BY <1>a, <1>1 DEF FreshConns, TypeOK
<1>3. ReqShape' /\ ResponseCorrelation' /\ IdleDrained'
  BY <1>a DEF ReqShape, ResponseCorrelation, IdleDrained, Idle
<1>4. QED
  BY <1>2, <1>3 DEF CorrelationInv


\* The server's steps keep the correlation invariant.
LEMMA ServerCorrelationInv ==
    ASSUME WellBehavedServer, CorrelationInv, Server
    PROVE  CorrelationInv'
<1>0. TypeInv'
  BY ServerTypeInv DEF CorrelationInv
<1>a. /\ TypeOK
      /\ websocket \in 0 .. nConn
      /\ FreshConns
      /\ ReqShape
      /\ ResponseCorrelation
  BY CorrelationParts
<1>b. live \subseteq Conns
  BY <1>a, LiveConns, ConstantsAssumption
<1>1. CASE ServerAnswer
  <2>1. PICK c \in live :
          /\ up[c] # <<>>
          /\ \E f \in FinalReplies(Head(up[c])) :
               down' = [down EXCEPT ![c] = Append(@, f)]
          /\ up' = [up EXCEPT ![c] = Tail(@)]
          /\ sent' = [sent EXCEPT ![c] = 0]
          /\ UNCHANGED <<websocket, op, req, got, nConn, live>>
    BY <1>1 DEF ServerAnswer
  <2>2. PICK f \in FinalReplies(Head(up[c])) :
          down' = [down EXCEPT ![c] = Append(@, f)]
    BY <2>1
  <2>3. CASE c # websocket
    BY <1>0, <1>a, <2>1, <2>2, <2>3, ServerStepFrame, ServerElsewhere
  <2>4. CASE c = websocket
    <3>1. /\ ~Idle /\ up[c] = <<req>>
          /\ AllBatches(down[c]) /\ AnswerSeq(req, down[c])
      BY <2>1, <2>4, ServerHoldsReq
    <3>2. Answers(req, f) /\ ~NonFinal(f) /\ f \in Frame
      <4>1. Head(up[c]) = req
        BY <3>1
      <4>2. f \in FinalReplies(req)
        BY <2>2, <4>1
      <4>3. FinalReplies(Head(up[c])) \subseteq Frame
        BY <1>a, <2>1, ServerFrames, ConstantsAssumption
      <4>4. QED
        BY <4>1, <4>2, <4>3, FinalRepliesAnswer
    <3>3. down[c] \in Seq(Frame)
      BY <1>a, <1>b DEF TypeOK
    <3>4. AnswerSeq(req, Append(down[c], f))
      BY <3>1, <3>2, <3>3, AnswerSeqAppend
    <3>5. down'[c] = Append(down[c], f) /\ up'[c] = <<>>
      BY <1>a, <1>b, <2>1, <2>2, <3>1 DEF TypeOK
    <3>6. PendingAnswers'
      BY <2>1, <2>4, <3>1, <3>4, <3>5 DEF PendingAnswers, Idle
    <3>7. \A c2 \in Conns : c2 # c =>
            up'[c2] = up[c2] /\ down'[c2] = down[c2] /\ sent'[c2] = sent[c2]
      BY <1>a, <2>1, <2>2 DEF TypeOK
    <3>8. QED
      BY <1>0, <2>1, <2>4, <3>1, <3>6, <3>7, ServerOnCurrent
  <2>5. QED
    BY <2>3, <2>4
<1>2. CASE ServerBatch
  <2>1. PICK c \in live :
          /\ up[c] # <<>>
          /\ Head(up[c]).type = "query"
          /\ Head(up[c]).streaming
          /\ \E k \in Rows :
               down' = [down EXCEPT ![c] = Append(@, Reply(Head(up[c]), "data", k, TRUE))]
          /\ sent' = [sent EXCEPT ![c] = @ + 1]
          /\ UNCHANGED <<websocket, op, req, got, nConn, live, up>>
    BY <1>2 DEF ServerBatch
  <2>2. PICK k \in Rows :
          down' = [down EXCEPT ![c] = Append(@, Reply(Head(up[c]), "data", k, TRUE))]
    BY <2>1
  <2>3. CASE c # websocket
    <3>1. up' = [up EXCEPT ![c] = up[c]]
      BY <1>a, <1>b, <2>1 DEF TypeOK
    <3>2. /\ websocket \in Conns =>
                /\ up'[websocket] = up[websocket]
                /\ down'[websocket] = down[websocket]
                /\ sent'[websocket] = sent[websocket]
          /\ \A c2 \in Conns : c2 > nConn =>
                up'[c2] = up[c2] /\ down'[c2] = down[c2] /\ sent'[c2] = sent[c2]
      BY <1>a, <2>1, <2>2, <2>3, <3>1, ServerStepFrame
    <3>3. QED
      BY <1>0, <2>1, <3>2, ServerElsewhere
  <2>4. CASE c = websocket
    <3> DEFINE f == Reply(req, "data", k, TRUE)
    <3>1. /\ ~Idle /\ up[c] = <<req>>
          /\ AllBatches(down[c]) /\ AnswerSeq(req, down[c])
      BY <2>1, <2>4, ServerHoldsReq
    <3>2. Head(up[c]) = req /\ req.type = "query" /\ req.streaming
      BY <2>1, <3>1
    <3>3. f \in Frame
      BY <1>a, <1>b, <2>1, <3>2, ServerFrames, ConstantsAssumption
    <3>4. Answers(req, f) /\ NonFinal(f)
      BY <3>2 DEF Reply, Answers, Answering, NonFinal
    <3>5. down[c] \in Seq(Frame)
      BY <1>a, <1>b DEF TypeOK
    <3>6. AnswerSeq(req, Append(down[c], f)) /\ AllBatches(Append(down[c], f))
      BY <3>1, <3>2, <3>3, <3>4, <3>5, AnswerSeqAppend
    <3>7. down'[c] = Append(down[c], f)
      <4>1. down'[c] = Append(down[c], Reply(Head(up[c]), "data", k, TRUE))
        BY <1>a, <1>b, <2>2 DEF TypeOK
      <4>2. QED
        BY <3>2, <4>1
    <3>11. sent'[c] # 0
      <4>1. sent[c] \in Nat /\ sent'[c] = sent[c] + 1
        BY <1>a, <1>b, <2>1 DEF TypeOK
      <4>2. QED
        BY <4>1
    <3>8. PendingAnswers'
      <4>1. up'[websocket] = <<req>> /\ req' = req /\ websocket' = websocket /\ op' = op
        BY <2>1, <2>4, <3>1
      <4>2. down'[websocket] = Append(down[c], f) /\ sent'[websocket] # 0
        BY <2>4, <3>7, <3>11
      <4>3. QED
        BY <3>1, <3>6, <4>1, <4>2 DEF PendingAnswers, Idle
    <3>9. \A c2 \in Conns : c2 # c =>
            up'[c2] = up[c2] /\ down'[c2] = down[c2] /\ sent'[c2] = sent[c2]
      BY <1>a, <2>1, <2>2 DEF TypeOK
    <3>10. QED
      BY <1>0, <2>1, <2>4, <3>1, <3>8, <3>9, ServerOnCurrent
  <2>5. QED
    BY <2>3, <2>4
<1>3. CASE ServerIgnore
  <2>1. PICK c \in live :
          /\ up[c] # <<>>
          /\ sent[c] = 0
          /\ up' = [up EXCEPT ![c] = Tail(@)]
          /\ UNCHANGED <<websocket, op, req, got, nConn, live, down, sent>>
    BY <1>3 DEF ServerIgnore
  <2>2. CASE c # websocket
    <3>1. down' = [down EXCEPT ![c] = down[c]] /\ sent' = [sent EXCEPT ![c] = sent[c]]
      BY <1>a, <1>b, <2>1 DEF TypeOK
    <3>2. /\ websocket \in Conns =>
                /\ up'[websocket] = up[websocket]
                /\ down'[websocket] = down[websocket]
                /\ sent'[websocket] = sent[websocket]
          /\ \A c2 \in Conns : c2 > nConn =>
                up'[c2] = up[c2] /\ down'[c2] = down[c2] /\ sent'[c2] = sent[c2]
      <4>1. up' = [up EXCEPT ![c] = Tail(up[c])]
        BY <2>1
      <4>2. QED
        BY <1>a, <2>1, <2>2, <4>1 DEF TypeOK
    <3>3. QED
      BY <1>0, <2>1, <3>2, ServerElsewhere
  <2>3. CASE c = websocket
    <3>1. /\ ~Idle /\ up[c] = <<req>> /\ down[c] = <<>>
      BY <2>1, <2>3, ServerHoldsReq
    <3>2. up'[c] = <<>>
      BY <1>a, <1>b, <2>1, <3>1 DEF TypeOK
    <3>3. PendingAnswers'
      BY <2>1, <2>3, <3>1, <3>2, AnswerSeqEmpty DEF PendingAnswers, Idle
    <3>4. \A c2 \in Conns : c2 # c =>
            up'[c2] = up[c2] /\ down'[c2] = down[c2] /\ sent'[c2] = sent[c2]
      BY <1>a, <2>1 DEF TypeOK
    <3>5. QED
      BY <1>0, <2>1, <2>3, <3>1, <3>3, <3>4, ServerOnCurrent
  <2>4. QED
    BY <2>2, <2>3
<1>4. CASE ServerClose
  BY <1>0, <1>4, ServerElsewhere DEF ServerClose
<1>5. CASE ServerBadFrame
  BY <1>5 DEF ServerBadFrame, WellBehavedServer
<1>6. QED
  BY <1>1, <1>2, <1>3, <1>4, <1>5 DEF Server


LEMMA StutterCorrelationInv == CorrelationInv /\ UNCHANGED vars => CorrelationInv'
BY DEF CorrelationInv, TypeInv, TypeOK, vars, FreshConns, IdleDrained, ReqShape,
       PendingAnswers, AnswerSeq, AllBatches, ResponseCorrelation, Idle

LEMMA NextCorrelationInv ==
    ASSUME WellBehavedServer, CorrelationInv, [Next]_vars
    PROVE  CorrelationInv'
BY CallerCorrelationInv, ReceiveCorrelationInv, ServerCorrelationInv,
   StutterCorrelationInv DEF Next

\* Correlation for every value of the constants: when the server answers
\* before receive_message's timeout, sends only JSON envelopes, and
\* execute_query is called with streaming=False, the frame that
\* authenticate, execute_query, ping or the streaming loop of example_8
\* reads always answers the request that method sent, although
\* receive_message never compares ids.  CorrelationInv strengthens it: the
\* current connection is drained between calls, and while a method waits
\* everything buffered on it answers that method's request.
THEOREM Correlation ==
    ASSUME WellBehavedServer
    PROVE  Spec => []ResponseCorrelation
<1>1. Init => CorrelationInv
  BY InitCorrelationInv
<1>2. CorrelationInv /\ [Next]_vars => CorrelationInv'
  BY NextCorrelationInv
<1>3. CorrelationInv => ResponseCorrelation
  BY DEF CorrelationInv
<1>4. QED
  BY <1>1, <1>2, <1>3, PTL DEF Spec

=============================================================================
