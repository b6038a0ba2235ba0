------------------------- MODULE WsClient_refinement -------------------------
(***************************************************************************)
(* The client implements spec.md 4.3's correlator (module Correlator)     *)
(* under the mapping Corr of WsClient: a call is outstanding while a      *)
(* method waits (~Idle), its request is req, what it was handed is got,    *)
(* and the id counter is nReq.  The proof rests on the correlation         *)
(* invariant of WsClient_proofs: every step of the client is a step of    *)
(* the correlator or leaves the mapped state unchanged.                    *)
(***************************************************************************)
EXTENDS WsClient_proofs, TLAPS

\* Every method's send is the correlator's Send: the request has the next
\* id, or none for a ping.
LEMMA SendRefines ==
    ASSUME TypeOK, Idle, NEW c, NEW t \in RequestTypes, NEW s \in BOOLEAN,
           NEW m, m # "none", SendRequest(c, NewRequest(t, s), m)
    PROVE  Corr!Send
<1>1. nReq + 1 \in Ids
  <2>1. nReq \in 0 .. MaxRequests /\ nReq < MaxRequests
    BY DEF TypeOK, SendRequest
  <2>2. QED
    BY <2>1, ConstantsAssumption DEF Ids, ConstantsAssumption
<1>2. /\ NewRequest(t, s) \in [type : RequestTypes, id : Ids \cup {NoId}, streaming : BOOLEAN]
      /\ NewRequest(t, s).id \in {NoId, nReq + 1}
  BY <1>1 DEF NewRequest
<1>3. /\ req' = NewRequest(t, s) /\ got' = NoFrame /\ op' = m
      /\ nReq' = nReq + 1
  BY DEF SendRequest
<1>4. QED
  BY <1>2, <1>3 DEF Corr!Send, Idle

\* Under a well-behaved server a read is the correlator's Complete: the
\* frame answers req, and the method keeps waiting exactly when it is a
\* batch of the streaming loop with has_more.
LEMMA DeliverRefines ==
    ASSUME WellBehavedServer, CorrelationInv, Deliver
    PROVE  Corr!Complete
<1> DEFINE d == down[websocket]
           h == Head(d)
<1>a. /\ TypeOK
      /\ ~Idle => websocket \in Conns
      /\ ReqShape
      /\ PendingAnswers
  BY CorrelationParts
<1>1. /\ ~Idle /\ d # <<>>
      /\ got' = Decode(h)
      /\ Continue(Decode(h))
      /\ UNCHANGED <<req, nReq>>
  BY DEF Deliver
<1>2. d \in Seq(Frame) /\ h \in Frame
  <2>1. websocket \in Conns
    BY <1>a, <1>1
  <2>2. d \in Seq(Frame)
    BY <1>a, <2>1 DEF TypeOK
  <2>3. QED
    BY <1>1, <2>2, HeadTailProperties
<1>3. Answers(req, h) /\ (NonFinal(h) => req.streaming)
  <2>1. AnswerSeq(req, d)
    BY <1>a, <1>1 DEF PendingAnswers
  <2>2. QED
    BY <1>1, <1>2, <2>1, AnswerSeqTail
<1>4. h.type \in ReplyTypes /\ Decode(h) = h
  BY <1>3 DEF Answers, Answering, ReplyTypes, Decode
<1>5. /\ req.streaming <=> op = "stream"
      /\ op = "stream" => req.type = "query"
  BY <1>a, <1>1 DEF ReqShape
<1>6. op = "stream" => h.type \in {"data", "error", "none"}
  BY <1>3, <1>5 DEF Answers, Answering
<1>7. /\ op' \in {"none", "stream"}
      /\ op' = "stream" => op = "stream" /\ NonFinal(h)
      /\ op = "stream" /\ NonFinal(h) => op' = "stream"
  BY <1>1, <1>4, <1>6, ContinueOp
<1>8. (op' # "none") = NonFinal(h)
  BY <1>3, <1>5, <1>7 DEF NonFinal
<1>9. QED
  BY <1>1, <1>2, <1>3, <1>4, <1>8 DEF Corr!Complete, Idle

\* A timeout, or a closed connection, is the correlator's Abandon: the
\* method returns None or raises.
LEMMA AbandonRefines ==
    ASSUME TimeOut \/ ConnectionClosed
    PROVE  Corr!Abandon
<1>1. CASE TimeOut
  <2>1. /\ ~Idle /\ got' = NoFrame /\ UNCHANGED <<req, nReq>>
        /\ Continue(NoFrame)
    BY <1>1 DEF TimeOut
  <2>2. op' = "none"
    BY <2>1 DEF Continue, AuthReply, QueryReply, PingReply, StreamStep, Raise,
               NoFrame
  <2>3. QED
    BY <2>1, <2>2 DEF Corr!Abandon, Idle
<1>2. CASE ConnectionClosed
  BY <1>2 DEF ConnectionClosed, Raise, Corr!Abandon, Idle
<1>3. QED
  BY <1>1, <1>2

\* Every step of the client maps to a step of the correlator or to none.
LEMMA NextRefines ==
    ASSUME WellBehavedServer, CorrelationInv, [Next]_vars
    PROVE  [Corr!Next]_Corr!vars
<1>a. TypeOK
  BY CorrelationParts
<1>1. CASE connect
  <2>1. CASE HasToken
    <3>1. SendRequest(nConn + 1, NewRequest("auth", FALSE), "connect") /\ Idle
      BY <1>1, <2>1 DEF connect
    <3>2. Corr!Send
      BY <1>a, <3>1, SendRefines DEF RequestTypes
    <3>3. QED
      BY <3>2 DEF Corr!Next
  <2>2. CASE ~HasToken
    BY <1>1, <2>2 DEF connect, Corr!vars, Idle
  <2>3. QED
    BY <2>1, <2>2
<1>2. CASE authenticate
  <2>1. SendRequest(websocket, NewRequest("auth", FALSE), "authenticate") /\ Idle
    BY <1>2 DEF authenticate
  <2>2. QED
    BY <1>a, <2>1, SendRefines DEF RequestTypes, Corr!Next
<1>3. CASE execute_query
  <2>1. PICK s \in QueryStreaming :
          SendRequest(websocket, NewRequest("query", s), "execute_query") /\ Idle
    BY <1>3 DEF execute_query
  <2>2. s \in BOOLEAN
    BY ConstantsAssumption DEF ConstantsAssumption
  <2>3. QED
    BY <1>a, <2>1, <2>2, SendRefines DEF RequestTypes, Corr!Next
<1>4. CASE ping
  <2>1. SendRequest(websocket, NewRequest("ping", FALSE), "ping") /\ Idle
    BY <1>4 DEF ping
  <2>2. QED
    BY <1>a, <2>1, SendRefines DEF RequestTypes, Corr!Next
<1>5. CASE stream_query
  <2>1. SendRequest(websocket, NewRequest("query", TRUE), "stream") /\ Idle
    BY <1>5 DEF stream_query
  <2>2. QED
    BY <1>a, <2>1, SendRefines DEF RequestTypes, Corr!Next
<1>6. CASE close
  BY <1>6 DEF close, Corr!vars, Idle
<1>7. CASE Deliver
  BY <1>7, DeliverRefines DEF Corr!Next
<1>8. CASE TimeOut \/ ConnectionClosed
  BY <1>8, AbandonRefines DEF Corr!Next
<1>9. CASE Server
  BY <1>9 DEF Server, ServerAnswer, ServerBatch, ServerIgnore, ServerClose,
             ServerBadFrame, Corr!vars, Idle
<1>10. CASE UNCHANGED vars
  BY <1>10 DEF vars, Corr!vars, Idle
<1>11. QED
  BY <1>1, <1>2, <1>3, <1>4, <1>5, <1>6, <1>7, <1>8, <1>9, <1>10
  DEF Next, Caller, receive_message

\* Refinement (CorrelatorSpec) for every value of the constants: with a
\* server that answers before receive_message's timeout, sends only JSON
\* envelopes, and execute_query called with streaming=False, the client is
\* spec.md 4.3's correlator.  Each method sends one request with a fresh
\* id (a ping with none), returns on a reply that answers it, or on None
\* or an exception, and only example_8's loop reads on after a batch with
\* has_more.  The step argument needs CorrelationInv: that what is
\* buffered on the connection answers the pending request.
THEOREM Refinement ==
    ASSUME WellBehavedServer
    PROVE  Spec => CorrelatorSpec
<1>1. Init => Corr!Init
  BY DEF Init, Corr!Init, Idle
<1>2. Init => CorrelationInv
  BY InitCorrelationInv
<1>3. CorrelationInv /\ [Next]_vars => CorrelationInv'
  BY NextCorrelationInv
<1>4. CorrelationInv /\ [Next]_vars => [Corr!Next]_Corr!vars
  BY NextRefines
<1>5. QED
  BY <1>1, <1>2, <1>3, <1>4, PTL DEF Spec, CorrelatorSpec, Corr!Spec

=============================================================================
