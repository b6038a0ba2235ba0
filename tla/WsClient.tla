------------------------------ MODULE WsClient ------------------------------
(***************************************************************************)
(* The RustyDB WebSocket client, src/examples/websocket_client.py.         *)
(*                                                                         *)
(* One caller drives one RustyDBWebSocketClient object: it calls connect,  *)
(* authenticate, execute_query, ping and close one at a time (asyncio, a   *)
(* single task), and it runs the streaming loop of example_8.  Every       *)
(* method that awaits receive_message is split at that await: the caller   *)
(* sends, then the server and the transport may act, then the receive      *)
(* step decides what the method returns.                                   *)
(*                                                                         *)
(* The RustyDB server and the transport are not in this repository's src: *)
(* they are modelled from spec.md section 6 as an environment that        *)
(* answers requests in order, may stream a query in several batches, may   *)
(* ignore a request, may close the connection, and, depending on the       *)
(* constants, may answer after the client has timed out or send frames     *)
(* that are not valid envelopes.                                           *)
(***************************************************************************)
EXTENDS Naturals, Sequences

CONSTANTS
    HasToken,       \* auth_token was given to __init__ (line 30)
    QueryStreaming, \* the values execute_query's streaming argument takes
    LateReplies,    \* the server may answer after the client's timeout fired
    BadFrames,      \* the server may send non-JSON frames or objects without "type"
    MaxConn,        \* bound: connections websockets.connect may open
    MaxRequests,    \* bound: requests the caller may send
    MaxBatches,     \* bound: data batches the server sends for one query
    Rows            \* row counts a data batch may carry

ASSUME ConstantsAssumption ==
    /\ HasToken \in BOOLEAN
    /\ QueryStreaming \subseteq BOOLEAN
    /\ LateReplies \in BOOLEAN
    /\ BadFrames \in BOOLEAN
    /\ MaxConn \in Nat
    /\ MaxRequests \in Nat
    /\ MaxBatches \in Nat \ {0}
    /\ Rows \subseteq Nat

VARIABLES
    websocket,       \* self.websocket: a connection handle, or NoConn for None
    authenticated,   \* self.authenticated
    reconnect_count, \* self.reconnect_count
    op,              \* the method the caller is blocked in at its receive, or "none"
    req,             \* the request that method sent
    got,             \* the value the last receive_message returned (NoFrame = None)
    total_rows,      \* total_rows of the streaming loop in example_8
    nConn,           \* connections opened so far (handles are 1..nConn)
    live,            \* connections neither side has closed
    up,              \* up[c]: requests sent on c, not yet taken by the server
    down,            \* down[c]: frames sent on c, not yet read by the client
    sent,            \* sent[c]: batches with has_more already sent for Head(up[c])
    nReq,            \* requests sent so far
    rowsSent,        \* rowsSent[i]: rows the server sent in data frames for id i
    authConn         \* the connection on which auth_success was last read

vars == <<websocket, authenticated, reconnect_count, op, req, got, total_rows,
          nConn, live, up, down, sent, nReq, rowsSent, authConn>>

-----------------------------------------------------------------------------
(* Data.                                                                   *)

NoConn == 0
Conns == 1 .. MaxConn
NoId == 0
Ids == 1 .. MaxRequests

\* The "type" values of the envelopes; "malformed" is a frame json.loads
\* rejects, "untyped" a JSON object with no "type" key, "none" the None
\* that receive_message returns.
RequestTypes == {"auth", "query", "ping"}
ReplyTypes == {"auth_success", "auth_error", "data", "error", "pong"}
FrameTypes == ReplyTypes \cup {"malformed", "untyped", "none"}

Request == [type : RequestTypes \cup {"none"}, id : Ids \cup {NoId},
            streaming : BOOLEAN]
Frame == [type : FrameTypes, id : Ids \cup {NoId},
          rows : Rows \cup {0}, more : BOOLEAN]

\* What receive_message returns: a parsed JSON object, or None.
Decoded == {f \in Frame : f.type # "malformed"}

NoReq == [type |-> "none", id |-> NoId, streaming |-> FALSE]
NoFrame == [type |-> "none", id |-> NoId, rows |-> 0, more |-> FALSE]

\* The reply types that answer each request type.
Answering(t) ==
    CASE t = "auth" -> {"auth_success", "auth_error"}
      [] t = "query" -> {"data", "error"}
      [] t = "ping" -> {"pong"}
      [] OTHER -> {}

\* Frame f is a reply to request r: it echoes r's id and has a reply type.
Answers(r, f) == f.id = r.id /\ f.type \in Answering(r.type)

\* A data batch after which the server sends more for the same query.
NonFinal(f) == f.type = "data" /\ f.more

-----------------------------------------------------------------------------
(* Initial state: __init__ (lines 27-49) and an idle transport.           *)

Init ==
    /\ websocket = NoConn
    /\ authenticated = FALSE
    /\ reconnect_count = 0
    /\ op = "none"
    /\ req = NoReq
    /\ got = NoFrame
    /\ total_rows = 0
    /\ nConn = 0
    /\ live = {}
    /\ up = [c \in Conns |-> <<>>]
    /\ down = [c \in Conns |-> <<>>]
    /\ sent = [c \in Conns |-> 0]
    /\ nReq = 0
    /\ rowsSent = [i \in Ids |-> 0]
    /\ authConn = NoConn

\* No method is awaiting receive_message (lines 106-126); the caller calls a
\* method only when the previous one has returned.
Idle == op = "none"

\* send_message (lines 98-104) of request r on connection c, the start of
\* method m: the frame is queued on the connection.  A send on a connection
\* the server closed is lost (a buffered write); the receive that follows
\* then raises.
SendRequest(c, r, m) ==
    /\ nReq < MaxRequests
    /\ nReq' = nReq + 1
    /\ up' = [up EXCEPT ![c] = Append(@, r)]
    /\ req' = r
    /\ got' = NoFrame
    /\ op' = m

\* Mutant of NewRequest: the id is taken from the counter before it is
\* advanced, so each request repeats the previous one's id.
NewRequestStale(t, s) == [type |-> t, id |-> IF t = "ping" THEN NoId ELSE nReq,
                          streaming |-> s]

\* A request of type t with the next fresh uuid.
NewRequest(t, s) == [type |-> t, id |-> IF t = "ping" THEN NoId ELSE nReq + 1,
                     streaming |-> s]

-----------------------------------------------------------------------------
(* The caller's operations, up to the await of receive_message.            *)

\* connect (lines 51-67) whose websockets.connect succeeds.  The new handle
\* replaces self.websocket; the old connection is not closed.  With a
\* token the method goes on into authenticate (lines 75-82) and waits for
\* the reply; without one it resets reconnect_count and returns.
\* (A websockets.connect that raises changes no state.)
connect ==
    /\ Idle
    /\ nConn < MaxConn
    /\ nConn' = nConn + 1
    /\ live' = live \cup {nConn + 1}
    /\ websocket' = nConn + 1
    /\ IF HasToken
         THEN /\ SendRequest(nConn + 1, NewRequest("auth", FALSE), "connect")
              /\ UNCHANGED reconnect_count
         ELSE /\ reconnect_count' = 0
              /\ UNCHANGED <<nReq, up, req, got, op>>
    /\ UNCHANGED <<authenticated, total_rows, down, sent, rowsSent, authConn>>

\* authenticate (lines 69-83) called on its own.  Without a token it
\* returns False and changes nothing, so only the token case is a step.
authenticate ==
    /\ Idle
    /\ HasToken
    /\ websocket # NoConn
    /\ SendRequest(websocket, NewRequest("auth", FALSE), "authenticate")
    /\ UNCHANGED <<websocket, authenticated, reconnect_count, total_rows,
                   nConn, live, down, sent, rowsSent, authConn>>

\* Mutant of execute_query: the payload hard-codes "streaming": True and
\* ignores the argument.
execute_query_always_streaming ==
    /\ Idle
    /\ websocket # NoConn
    /\ SendRequest(websocket, NewRequest("query", TRUE), "execute_query")
    /\ UNCHANGED <<websocket, authenticated, reconnect_count, total_rows,
                   nConn, live, down, sent, rowsSent, authConn>>

\* execute_query (lines 128-153): a query with a fresh uuid.
execute_query ==
    /\ Idle
    /\ websocket # NoConn
    /\ \E s \in QueryStreaming :
         SendRequest(websocket, NewRequest("query", s), "execute_query")
    /\ UNCHANGED <<websocket, authenticated, reconnect_count, total_rows,
                   nConn, live, down, sent, rowsSent, authConn>>

\* ping (lines 156-164): a ping carries no id.
ping ==
    /\ Idle
    /\ websocket # NoConn
    /\ SendRequest(websocket, NewRequest("ping", FALSE), "ping")
    /\ UNCHANGED <<websocket, authenticated, reconnect_count, total_rows,
                   nConn, live, down, sent, rowsSent, authConn>>

\* example_8 (lines 358-369): a streaming query, then total_rows = 0.
stream_query ==
    /\ Idle
    /\ websocket # NoConn
    /\ SendRequest(websocket, NewRequest("query", TRUE), "stream")
    /\ total_rows' = 0
    /\ UNCHANGED <<websocket, authenticated, reconnect_count,
                   nConn, live, down, sent, rowsSent, authConn>>

\* Mutant of close: self.websocket is dropped without websocket.close().
close_without_socket_close ==
    /\ Idle
    /\ websocket # NoConn
    /\ websocket' = NoConn
    /\ authenticated' = FALSE
    /\ UNCHANGED <<reconnect_count, op, req, got, total_rows, nConn, live, up,
                   down, sent, nReq, rowsSent, authConn>>

\* close (lines 169-175).
close ==
    /\ Idle
    /\ websocket # NoConn
    /\ live' = live \ {websocket}
    /\ websocket' = NoConn
    /\ authenticated' = FALSE
    /\ UNCHANGED <<reconnect_count, op, req, got, total_rows, nConn, up, down,
                   sent, nReq, rowsSent, authConn>>

-----------------------------------------------------------------------------
(* The receive step: receive_message (lines 106-126) returns, and the     *)
(* method blocked in it goes on with the decoded value resp.               *)

\* The method raises: the exception leaves the object as it is.
Raise ==
    /\ op' = "none"
    /\ UNCHANGED <<authenticated, reconnect_count, total_rows, authConn>>

\* authenticate after its receive (lines 87-96), and for connect the reset
\* of line 63.  `response and response["type"]` raises KeyError on an object
\* without "type", which connect re-raises (line 67); any other reply that
\* is neither auth_success nor auth_error leaves authenticated as it was.
AuthReply(resp) ==
    /\ op \in {"connect", "authenticate"}
    /\ \/ /\ resp.type = "untyped"
          /\ Raise
       \/ /\ resp.type # "untyped"
          /\ authenticated' = IF resp.type = "auth_success" THEN TRUE
                               ELSE IF resp.type = "auth_error" THEN FALSE
                               ELSE authenticated
          /\ authConn' = IF resp.type = "auth_success" THEN websocket ELSE authConn
          /\ reconnect_count' = IF op = "connect" THEN 0 ELSE reconnect_count
          /\ op' = "none"
          /\ UNCHANGED total_rows

\* execute_query returns the received value as it is (line 154).
QueryReply(resp) ==
    /\ op = "execute_query"
    /\ op' = "none"
    /\ UNCHANGED <<authenticated, reconnect_count, total_rows, authConn>>

\* ping (lines 166-167): `response["type"]` raises on an object without
\* "type"; otherwise it returns whether the frame is a pong.
PingReply(resp) ==
    /\ op = "ping"
    /\ \/ /\ resp.type = "untyped"
          /\ Raise
       \/ /\ resp.type # "untyped"
          /\ op' = "none"
          /\ UNCHANGED <<authenticated, reconnect_count, total_rows, authConn>>

\* Mutant of StreamStep: the final batch ends the loop before its rows are
\* added (the has_more test placed before `total_rows += len(rows)`).
StreamStepBreakFirst(resp) ==
    /\ op = "stream"
    /\ \/ /\ resp.type = "untyped"
          /\ Raise
       \/ /\ resp.type # "untyped"
          /\ total_rows' = IF resp.type = "data" /\ resp.more THEN total_rows + resp.rows
                                                            ELSE total_rows
          /\ op' = IF \/ resp.type \in {"none", "error"}
                      \/ resp.type = "data" /\ ~resp.more
                     THEN "none" ELSE "stream"
          /\ UNCHANGED <<authenticated, reconnect_count, authConn>>

\* Mutant of StreamStep: None (a timeout) does not end the loop
\* (`if not response: continue`).
StreamStepRetryOnNone(resp) ==
    /\ op = "stream"
    /\ \/ /\ resp.type = "untyped"
          /\ Raise
       \/ /\ resp.type # "untyped"
          /\ total_rows' = IF resp.type = "data" THEN total_rows + resp.rows
                                                ELSE total_rows
          /\ op' = IF \/ resp.type = "error"
                      \/ resp.type = "data" /\ ~resp.more
                     THEN "none" ELSE "stream"
          /\ UNCHANGED <<authenticated, reconnect_count, authConn>>

\* One iteration of the loop of example_8 (lines 370-390): None ends it,
\* an object without "type" raises KeyError, a data batch adds its rows
\* and ends the loop unless has_more, an error ends it, anything else is
\* skipped.
StreamStep(resp) ==
    /\ op = "stream"
    /\ \/ /\ resp.type = "untyped"
          /\ Raise
       \/ /\ resp.type # "untyped"
          /\ total_rows' = IF resp.type = "data" THEN total_rows + resp.rows
                                                ELSE total_rows
          /\ op' = IF \/ resp.type \in {"none", "error"}
                      \/ resp.type = "data" /\ ~resp.more
                     THEN "none" ELSE "stream"
          /\ UNCHANGED <<authenticated, reconnect_count, authConn>>

\* What the blocked method does with resp.
Continue(resp) ==
    \/ AuthReply(resp)
    \/ QueryReply(resp)
    \/ PingReply(resp)
    \/ StreamStep(resp)

\* Mutant of Decode: the text of a frame json.loads rejects is returned
\* as it is instead of None.
DecodeRaw(f) == f

\* json.loads (line 119): a frame that is not JSON becomes None (line 126).
Decode(f) == IF f.type = "malformed" THEN NoFrame ELSE f

\* recv() returns the next frame of the connection.
Deliver ==
    /\ ~Idle
    /\ down[websocket] # <<>>
    /\ got' = Decode(Head(down[websocket]))
    /\ down' = [down EXCEPT ![websocket] = Tail(@)]
    /\ Continue(Decode(Head(down[websocket])))
    /\ UNCHANGED <<websocket, req, nConn, live, up, sent, nReq, rowsSent>>

\* asyncio.wait_for times out (lines 113-123): None.  Unless the server may
\* answer late, the timer fires only when the server has nothing left to
\* answer on this connection.
TimeOut ==
    /\ ~Idle
    /\ down[websocket] = <<>>
    /\ websocket \in live
    /\ LateReplies \/ up[websocket] = <<>>
    /\ got' = NoFrame
    /\ Continue(NoFrame)
    /\ UNCHANGED <<websocket, req, nConn, live, up, down, sent, nReq, rowsSent>>

\* recv() on a closed connection with nothing buffered raises
\* ConnectionClosed, which no method catches.
ConnectionClosed ==
    /\ ~Idle
    /\ down[websocket] = <<>>
    /\ websocket \notin live
    /\ got' = NoFrame
    /\ Raise
    /\ UNCHANGED <<websocket, req, nConn, live, up, down, sent, nReq, rowsSent>>

receive_message == Deliver \/ TimeOut \/ ConnectionClosed

-----------------------------------------------------------------------------
(* The RustyDB server and the transport (spec.md sections 4 and 6).        *)

Reply(r, t, k, m) == [type |-> t, id |-> r.id, rows |-> k, more |-> m]

\* The replies that end the server's answer to request r.
FinalReplies(r) ==
    {Reply(r, t, 0, FALSE) : t \in Answering(r.type) \ {"data"}}
    \cup (IF r.type = "query" THEN {Reply(r, "data", k, FALSE) : k \in Rows}
                              ELSE {})

AddRows(f) == IF f.type = "data" THEN [rowsSent EXCEPT ![f.id] = @ + f.rows]
                                 ELSE rowsSent

\* The server answers the oldest request of a connection.
ServerAnswer ==
    \E c \in live :
      /\ up[c] # <<>>
      /\ \E f \in FinalReplies(Head(up[c])) :
           /\ down' = [down EXCEPT ![c] = Append(@, f)]
           /\ rowsSent' = AddRows(f)
      /\ up' = [up EXCEPT ![c] = Tail(@)]
      /\ sent' = [sent EXCEPT ![c] = 0]
      /\ UNCHANGED <<websocket, authenticated, reconnect_count, op, req, got,
                     total_rows, nConn, live, nReq, authConn>>

\* The server sends one batch of a streaming query with has_more = true.
ServerBatch ==
    \E c \in live :
      /\ up[c] # <<>>
      /\ Head(up[c]).type = "query"
      /\ Head(up[c]).streaming
      /\ sent[c] + 1 < MaxBatches
      /\ \E k \in Rows :
           LET f == Reply(Head(up[c]), "data", k, TRUE) IN
           /\ down' = [down EXCEPT ![c] = Append(@, f)]
           /\ rowsSent' = AddRows(f)
      /\ sent' = [sent EXCEPT ![c] = @ + 1]
      /\ UNCHANGED <<websocket, authenticated, reconnect_count, op, req, got,
                     total_rows, nConn, live, up, nReq, authConn>>

\* The server drops a request without answering it.
ServerIgnore ==
    \E c \in live :
      /\ up[c] # <<>>
      /\ sent[c] = 0
      /\ up' = [up EXCEPT ![c] = Tail(@)]
      /\ UNCHANGED <<websocket, authenticated, reconnect_count, op, req, got,
                     total_rows, nConn, live, down, sent, nReq, rowsSent, authConn>>

\* The server or the network closes a connection; frames already sent
\* stay readable.
ServerClose ==
    \E c \in live :
      /\ live' = live \ {c}
      /\ UNCHANGED <<websocket, authenticated, reconnect_count, op, req, got,
                     total_rows, nConn, up, down, sent, nReq, rowsSent, authConn>>

\* A frame that is not an envelope: not JSON, or an object without "type".
\* At most one is in flight per connection.
ServerBadFrame ==
    /\ BadFrames
    /\ \E c \in live, t \in {"malformed", "untyped"} :
         /\ \A i \in 1 .. Len(down[c]) : down[c][i].type \notin {"malformed", "untyped"}
         /\ down' = [down EXCEPT ![c] = Append(@, [NoFrame EXCEPT !.type = t])]
    /\ UNCHANGED <<websocket, authenticated, reconnect_count, op, req, got,
                   total_rows, nConn, live, up, sent, nReq, rowsSent, authConn>>

Server == ServerAnswer \/ ServerBatch \/ ServerIgnore \/ ServerClose \/ ServerBadFrame

-----------------------------------------------------------------------------

Caller == connect \/ authenticate \/ execute_query \/ ping \/ stream_query \/ close

Next == Caller \/ receive_message \/ Server

Spec == Init /\ [][Next]_vars

\* The asyncio loop runs the task blocked in recv() and fires its timer;
\* nothing is assumed of the server.
FairSpec == Spec /\ WF_vars(receive_message)

-----------------------------------------------------------------------------
(* Properties.                                                             *)

TypeOK ==
    /\ websocket \in Conns \cup {NoConn}
    /\ authenticated \in BOOLEAN
    /\ reconnect_count \in Nat
    /\ op \in {"none", "connect", "authenticate", "execute_query", "ping", "stream"}
    /\ req \in Request
    /\ got \in Decoded
    /\ total_rows \in Nat
    /\ nConn \in 0 .. MaxConn
    /\ live \subseteq 1 .. nConn
    /\ up \in [Conns -> Seq(Request)]
    /\ down \in [Conns -> Seq(Frame)]
    /\ sent \in [Conns -> 0 .. (MaxBatches - 1)]
    /\ nReq \in 0 .. MaxRequests
    /\ rowsSent \in [Ids -> Nat]
    /\ authConn \in Conns \cup {NoConn}

\* Correlation (spec.md 4.3 and 8): every reply a method reads from the
\* socket (authenticate's auth_success/auth_error, execute_query's data or
\* error, ping's pong, a batch of the streaming loop) answers the request
\* that method sent.  receive_message never looks at the id: this holds
\* only if nothing is left on the socket when a method returns.
ResponseCorrelation == got.type \in ReplyTypes => Answers(req, got)

\* Streaming (spec.md 8): when the loop of example_8 ends on the batch with
\* has_more = false, total_rows is the number of rows the server sent for
\* that query, every batch counted once.
StreamTotal ==
    [][ op = "stream" /\ op' = "none" /\ got'.type = "data"
          => total_rows' = rowsSent[req.id] ]_vars

\* The client seen as spec.md 4.3's correlator: a method waits from its
\* send to the return of receive_message that ends it; its request is req,
\* the value receive_message last returned is got, and uuid's counter is
\* nReq.  A ping carries no id (line 158).
Corr == INSTANCE Correlator WITH
          waiting <- ~Idle, pending <- req, returned <- got, lastId <- nReq,
          Requests <- [type : RequestTypes, id : Ids \cup {NoId}, streaming : BOOLEAN],
          Replies <- Frame, NoRequest <- NoReq, NoReply <- NoFrame

\* Refinement: every behaviour of the client is one of the correlator's.
\* Each method sends one request with a fresh id (or a ping with none) and
\* returns on a reply that answers it, on nothing after a timeout or a
\* closed connection, and keeps reading only in example_8's loop on a batch
\* with has_more.
CorrelatorSpec == Corr!Spec

\* Every method call returns: receive_message's timeout bounds each wait,
\* and the streaming loop ends, whatever the server does.
OpsReturn == ~Idle ~> Idle

\* Spec.md 4.5: between calls, authenticated means the handshake succeeded
\* on the current connection.  connect() replaces the connection and never
\* clears the flag, so a handshake that fails by timeout or by a closed
\* connection leaves the flag of the previous connection.
AuthFresh == Idle /\ authenticated => authConn = websocket

=============================================================================
