------------------------- MODULE MainExamples_proofs -------------------------
(***************************************************************************)
(* Proofs about main() and the examples, for every value of the constants *)
(* that satisfies ExamplesAssumption.                                      *)
(***************************************************************************)
EXTENDS MainExamples, SequenceTheorems, TLAPS

Example7Stages == {"loop", "work", "sleep", "close"}

(***************************************************************************)
(* RetrySchedule speaks of example_7's ghost variables only at the end of *)
(* the run; it is not inductive.  The strengthening ties the locals of    *)
(* the loop to where example_7 is: before it, nothing has happened; at    *)
(* the loop head and asleep, one attempt was made per failure counted;    *)
(* after a connect, one attempt more.  retry_delay is the delay the next  *)
(* sleep will last.                                                        *)
(***************************************************************************)
RetryInv ==
    /\ ex \in 1 .. 9
    /\ retry_count \in Nat /\ attempts \in Nat /\ slept \in Seq(Nat)
    /\ retry_delay \in Nat
    /\ retry_delay = IF slept = <<>> THEN InitialDelay
                     ELSE Min(2 * slept[Len(slept)], MaxDelay)
    /\ RetrySchedule
    /\ stage \in Example7Stages => ex = 7
    /\ ex = 7 => stage \in Example7Stages \cup {"new"}
    /\ ex = 9 => stage = "done"
    /\ ex < 7 \/ (ex = 7 /\ stage = "new") =>
          attempts = 0 /\ retry_count = 0 /\ slept = <<>>
    /\ ex = 7 /\ stage \in {"loop", "sleep"} =>
          attempts = retry_count /\ retry_count < MaxRetries
    /\ ex = 7 /\ stage = "loop" => Len(slept) = attempts
    /\ (ex = 7 /\ stage \in {"sleep", "work", "close"}) \/ ex > 7 =>
          attempts >= 1 /\ Len(slept) = attempts - 1

-----------------------------------------------------------------------------

LEMMA InitRetryInv == Init => RetryInv
BY ExamplesAssumption DEF Init, RetryInv, RetrySchedule, Example7Stages

\* A step that leaves example_7's locals and main's position alone.
LEMMA RetryUnchanged ==
    ASSUME RetryInv,
           UNCHANGED <<ex, stage, retry_count, retry_delay, slept, attempts>>
    PROVE  RetryInv'
BY DEF RetryInv, RetrySchedule, Example7Stages

\* A step of examples other than 7 that moves main between the stages of
\* an `async with` block.
LEMMA RetryOtherStage ==
    ASSUME RetryInv,
           stage \notin Example7Stages \cup {"new", "done"},
           stage' \notin Example7Stages \cup {"new", "done"},
           UNCHANGED <<ex, retry_count, retry_delay, slept, attempts>>
    PROVE  RetryInv'
BY DEF RetryInv, RetrySchedule, Example7Stages

\* Every step keeps RetryInv.
LEMMA NextRetryInv == RetryInv /\ [Next]_vars => RetryInv'
<1> SUFFICES ASSUME RetryInv, [Next]_vars PROVE RetryInv'
  OBVIOUS
<1> USE ExamplesAssumption
<1>1. CASE NewClient
  BY <1>1 DEF NewClient, RetryInv, RetrySchedule, Example7Stages
<1>2. CASE Enter
  <2>1. /\ stage \notin Example7Stages \cup {"new", "done"}
        /\ stage' \notin Example7Stages \cup {"new", "done"}
    BY <1>2 DEF Enter, Example7Stages
  <2>2. UNCHANGED <<ex, retry_count, retry_delay, slept, attempts>>
    BY <1>2 DEF Enter
  <2>3. QED
    BY <2>1, <2>2, RetryOtherStage
<1>3. CASE EnterFails
  <2>1. /\ stage \notin Example7Stages \cup {"new", "done"}
        /\ stage' \notin Example7Stages \cup {"new", "done"}
    BY <1>3 DEF EnterFails, Example7Stages
  <2>2. UNCHANGED <<ex, retry_count, retry_delay, slept, attempts>>
    BY <1>3 DEF EnterFails
  <2>3. QED
    BY <2>1, <2>2, RetryOtherStage
<1>4. CASE Entered
  <2>1. /\ stage \notin Example7Stages \cup {"new", "done"}
        /\ stage' \notin Example7Stages \cup {"new", "done"}
    BY <1>4 DEF Entered, Example7Stages
  <2>2. UNCHANGED <<ex, retry_count, retry_delay, slept, attempts>>
    BY <1>4 DEF Entered
  <2>3. QED
    BY <2>1, <2>2, RetryOtherStage
<1>5. CASE Body
  <2>1. /\ stage \notin Example7Stages \cup {"new", "done"}
        /\ stage' \notin Example7Stages \cup {"new", "done"}
    BY <1>5 DEF Body, Example7Stages
  <2>2. UNCHANGED <<ex, retry_count, retry_delay, slept, attempts>>
    BY <1>5 DEF Body
  <2>3. QED
    BY <2>1, <2>2, RetryOtherStage
<1>6. CASE Called
  <2>1. /\ stage \notin Example7Stages \cup {"new", "done"}
        /\ stage' \notin Example7Stages \cup {"new", "done"}
    BY <1>6 DEF Called, Example7Stages
  <2>2. UNCHANGED <<ex, retry_count, retry_delay, slept, attempts>>
    BY <1>6 DEF Called
  <2>3. QED
    BY <2>1, <2>2, RetryOtherStage
<1>7. CASE Exit
  <2>1. CASE stage = "exit_raise"
    <3>1. ex' = ex /\ stage' = "aborted"
      BY <1>7, <2>1 DEF Exit
    <3>2. QED
      BY <1>7, <3>1 DEF Exit, RetryInv, RetrySchedule, Example7Stages
  <2>2. CASE stage # "exit_raise"
    <3>1. /\ ex' = ex + 1 /\ stage' = IF ex = 8 THEN "done" ELSE "new"
          /\ stage \in {"exit", "close"} /\ ex \in 1 .. 8
          /\ UNCHANGED <<retry_count, retry_delay, slept, attempts>>
      BY <1>7, <2>2 DEF Exit, RetryInv
    <3>2. CASE ex < 7
      BY <3>1, <3>2 DEF RetryInv, RetrySchedule, Example7Stages
    <3>3. CASE ex = 7
      BY <3>1, <3>3 DEF RetryInv, RetrySchedule, Example7Stages
    <3>4. CASE ex = 8
      BY <3>1, <3>4 DEF RetryInv, RetrySchedule, Example7Stages
    <3>5. QED
      BY <3>1, <3>2, <3>3, <3>4
  <2>3. QED
    BY <2>1, <2>2
<1>8. CASE RetryConnect
  BY <1>8 DEF RetryConnect, RetryInv, RetrySchedule, Example7Stages
<1>9. CASE Work
  BY <1>9 DEF Work, RetryInv, RetrySchedule, Example7Stages
<1>10. CASE RetryFails
  BY <1>10 DEF RetryFails, RetryInv, RetrySchedule, Example7Stages
<1>11. CASE Backoff
  <2> DEFINE n == Len(slept)
  <2>1. /\ ex = 7 /\ stage' = "loop"
        /\ attempts = retry_count /\ retry_count < MaxRetries
        /\ attempts >= 1 /\ n = attempts - 1
        /\ UNCHANGED <<ex, retry_count, attempts>>
    BY <1>11 DEF Backoff, RetryInv, Example7Stages
  <2>2. /\ n \in Nat /\ slept \in Seq(Nat)
        /\ slept' \in Seq(Nat) /\ Len(slept') = n + 1
        /\ \A i \in 1 .. n : slept'[i] = slept[i]
        /\ slept'[n + 1] = retry_delay
    BY <1>11 DEF Backoff, RetryInv
  <2>3. retry_delay \in 0 .. MaxDelay
    BY DEF RetryInv, Min
  <2>4. retry_delay' = Min(2 * slept'[Len(slept')], MaxDelay) /\ retry_delay' \in Nat
    BY <1>11, <2>2, <2>3 DEF Backoff, Min
  <2>5. n > 0 => retry_delay = Min(2 * slept[n], MaxDelay)
    BY EmptySeq DEF RetryInv
  <2>6. n = 0 => retry_delay = Min(InitialDelay, MaxDelay)
    BY EmptySeq DEF RetryInv, Min
  <2>7. Len(slept') > 0 => slept'[1] = Min(InitialDelay, MaxDelay)
    <3>1. CASE n = 0
      BY <2>2, <2>6, <3>1
    <3>2. CASE n > 0
      <4>1. slept[1] = Min(InitialDelay, MaxDelay)
        BY <3>2 DEF RetryInv, RetrySchedule
      <4>2. QED
        BY <2>2, <3>2, <4>1
    <3>3. QED
      BY <3>1, <3>2, <2>2
  <2>8. \A i \in 2 .. Len(slept') : slept'[i] = Min(2 * slept'[i - 1], MaxDelay)
    <3> SUFFICES ASSUME NEW i \in 2 .. n + 1
                 PROVE  slept'[i] = Min(2 * slept'[i - 1], MaxDelay)
      BY <2>2
    <3>1. CASE i = n + 1
      <4>1. n > 0 /\ n \in 1 .. n
        BY <2>2, <3>1
      <4>2. slept'[i] = retry_delay /\ slept'[i - 1] = slept[n]
        BY <2>2, <3>1, <4>1
      <4>3. QED
        BY <2>5, <4>1, <4>2
    <3>2. CASE i <= n
      <4>1. slept[i] = Min(2 * slept[i - 1], MaxDelay)
        BY <3>2 DEF RetryInv, RetrySchedule
      <4>2. i \in 1 .. n /\ i - 1 \in 1 .. n
        BY <2>2, <3>2
      <4>3. slept'[i] = slept[i] /\ slept'[i - 1] = slept[i - 1]
        BY <2>2, <4>2
      <4>4. QED
        BY <4>1, <4>3
    <3>3. QED
      BY <3>1, <3>2, <2>2
  <2>9. attempts' <= MaxRetries /\ ~(ex' > 7)
    BY <2>1 DEF RetryInv
  <2>10. RetrySchedule'
    BY <2>7, <2>8, <2>9 DEF RetrySchedule
  <2>11. QED
    BY <2>1, <2>2, <2>4, <2>10 DEF RetryInv, Example7Stages
<1>12. CASE Receive
  BY <1>12, RetryUnchanged DEF Receive
<1>13. CASE Server
  BY <1>13, RetryUnchanged DEF Server, mainVars
<1>14. CASE UNCHANGED vars
  BY <1>14, RetryUnchanged DEF vars, mainVars
<1>15. QED
  BY <1>1, <1>2, <1>3, <1>4, <1>5, <1>6, <1>7, <1>8, <1>9, <1>10, <1>11,
     <1>12, <1>13, <1>14 DEF Next, Main

\* Example_7 makes at most max_retries attempts, sleeps only between two of
\* them, and its delays follow spec.md 3's capped doubling, for every
\* max_retries, initial delay and cap, whatever the server and the network
\* do (example_7's loop, lines 322-342).
THEOREM RetryScheduleHolds == Spec => []RetrySchedule
<1>1. Init => RetryInv
  BY InitRetryInv
<1>2. RetryInv /\ [Next]_vars => RetryInv'
  BY NextRetryInv
<1>3. RetryInv => RetrySchedule
  BY DEF RetryInv
<1>4. QED
  BY <1>1, <1>2, <1>3, PTL DEF Spec

-----------------------------------------------------------------------------
(***************************************************************************)
(* The type of main's state.  The client's part is WsClient_proofs'       *)
(* TypeInv, whose lemmas are used through an instance with the examples'  *)
(* constants.  It needs one fact of main: the client has a method blocked *)
(* in receive_message only while main is in connect (entered) or in the   *)
(* body's call (called), since NewClient drops self.websocket.            *)
(***************************************************************************)
CP == INSTANCE WsClient_proofs WITH HasToken <- FALSE, QueryStreaming <- {TRUE}
CTP == INSTANCE WsClient_proofs WITH HasToken <- TRUE, QueryStreaming <- {TRUE}

MainTypeInv ==
    /\ CP!TypeInv
    /\ stage \in Stages
    /\ raised \in BOOLEAN
    /\ qi \in 0 .. 3
    /\ retry_count <= MaxRetries
    /\ RetryInv
    /\ stage \notin {"entered", "called"} => C!Idle

(***************************************************************************)
(* NoLeak's strengthening, for a server that sends no bad frames.  The    *)
(* object holds at most one open connection, its own handle; none is open *)
(* where an example starts or connects, or where main ends; an exception  *)
(* is raised only by a connection that is closed, and only in connect or  *)
(* in the body's call, after which main aborts or runs __aexit__.  No     *)
(* frame without "type" is ever on a channel.                             *)
(***************************************************************************)
\* No frame of sequence s is an object without "type".
Typed(s) == \A i \in 1 .. Len(s) : s[i].type # "untyped"

\* The stages where the example's object holds no open connection.
Quiet == {"new", "enter", "loop", "sleep", "done", "aborted"}

LeakInv ==
    /\ MainTypeInv
    /\ live \subseteq {websocket}
    /\ stage \in Quiet => live = {}
    /\ raised => websocket \notin live
    /\ raised => stage \in {"entered", "called", "exit_raise", "aborted"}
    /\ \A c \in C!Conns : Typed(down[c])

(***************************************************************************)
(* The examples' client steps are the steps of WsClient_proofs' instance  *)
(* with the same constants.                                                *)
(***************************************************************************)
LEMMA SameConnect == C!connect => CP!connect
BY DEF C!connect, CP!connect, C!Idle, CP!Idle, C!SendRequest, CP!SendRequest,
       C!NewRequest, CP!NewRequest, C!NoFrame, CP!NoFrame, C!NoId, CP!NoId

LEMMA SameConnectTok == CTok!connect => CTP!connect
BY DEF CTok!connect, CTP!connect, CTok!Idle, CTP!Idle, CTok!SendRequest,
       CTP!SendRequest, CTok!NewRequest, CTP!NewRequest, CTok!NoFrame,
       CTP!NoFrame, CTok!NoId, CTP!NoId

LEMMA SameCall ==
    /\ C!execute_query => CP!execute_query
    /\ C!ping => CP!ping
    /\ C!stream_query => CP!stream_query
    /\ C!close => CP!close
BY DEF C!execute_query, CP!execute_query, C!ping, CP!ping, C!stream_query,
       CP!stream_query, C!close, CP!close, C!Idle, CP!Idle, C!SendRequest,
       CP!SendRequest, C!NewRequest, CP!NewRequest, C!NoConn, CP!NoConn,
       C!NoFrame, CP!NoFrame, C!NoId, CP!NoId

LEMMA SameContinue ==
    ASSUME NEW resp PROVE C!Continue(resp) <=> CP!Continue(resp)
BY DEF C!Continue, CP!Continue, C!AuthReply, CP!AuthReply, C!QueryReply,
       CP!QueryReply, C!PingReply, CP!PingReply, C!StreamStep, CP!StreamStep,
       C!Raise, CP!Raise, C!NoFrame, CP!NoFrame, C!NoId, CP!NoId

LEMMA SameReceive ==
    C!Deliver \/ C!TimeOut \/ C!ConnectionClosed => CP!receive_message
<1>1. C!Deliver => CP!Deliver
  <2>1. C!Decode(Head(down[websocket])) = CP!Decode(Head(down[websocket]))
    BY DEF C!Decode, CP!Decode, C!NoFrame, CP!NoFrame, C!NoId, CP!NoId
  <2>2. QED
    BY <2>1, SameContinue DEF C!Deliver, CP!Deliver, C!Idle, CP!Idle
<1>2. C!TimeOut => CP!TimeOut
  <2>1. C!NoFrame = CP!NoFrame
    BY DEF C!NoFrame, CP!NoFrame, C!NoId, CP!NoId
  <2>2. QED
    BY <2>1, SameContinue DEF C!TimeOut, CP!TimeOut, C!Idle, CP!Idle
<1>3. C!ConnectionClosed => CP!ConnectionClosed
  BY DEF C!ConnectionClosed, CP!ConnectionClosed, C!Idle, CP!Idle, C!Raise,
         CP!Raise, C!NoFrame, CP!NoFrame, C!NoId, CP!NoId
<1>4. QED
  BY <1>1, <1>2, <1>3 DEF CP!receive_message

LEMMA SameServer == C!Server => CP!Server /\ op' = op
BY DEF C!Server, CP!Server, C!ServerAnswer, CP!ServerAnswer, C!ServerBatch,
       CP!ServerBatch, C!ServerIgnore, CP!ServerIgnore, C!ServerClose,
       CP!ServerClose, C!ServerBadFrame, CP!ServerBadFrame, C!FinalReplies,
       CP!FinalReplies, C!Reply, CP!Reply, C!AddRows, CP!AddRows,
       C!Answering, CP!Answering, C!NoFrame, CP!NoFrame, C!NoId, CP!NoId

\* A step that leaves the client alone keeps its type.
LEMMA ClientUnchanged ==
    ASSUME CP!TypeInv, UNCHANGED clientVars PROVE CP!TypeInv'
<1>1. UNCHANGED CP!vars
  BY DEF clientVars, CP!vars
<1>2. QED
  BY <1>1, CP!StutterTypeInv, ExamplesAssumption

\* A method call of the examples keeps the client's type.
LEMMA ClientCall ==
    ASSUME CP!TypeInv, CP!Caller PROVE CP!TypeInv'
BY CP!CallerTypeInv, ExamplesAssumption

\* So does example_2's connect, with a token.
LEMMA ClientConnectTok ==
    ASSUME CP!TypeInv, CTok!connect PROVE CP!TypeInv'
<1>1. CTP!TypeInv <=> CP!TypeInv
  BY DEF CTP!TypeInv, CP!TypeInv, CTP!TypeOK, CP!TypeOK, CTP!Idle, CP!Idle,
         CTP!Request, CP!Request, CTP!Decoded, CP!Decoded, CTP!Frame, CP!Frame,
         CTP!NoConn, CP!NoConn, CTP!Conns, CP!Conns, CTP!Ids, CP!Ids,
         CTP!NoId, CP!NoId, CTP!RequestTypes, CP!RequestTypes, CTP!FrameTypes,
         CP!FrameTypes, CTP!ReplyTypes, CP!ReplyTypes
<1>2. CTP!Caller
  BY SameConnectTok DEF CTP!Caller
<1>3. CTP!TypeInv'
  BY <1>1, <1>2, CTP!CallerTypeInv, ExamplesAssumption
<1>4. CTP!TypeInv' <=> CP!TypeInv'
  BY DEF CTP!TypeInv, CP!TypeInv, CTP!TypeOK, CP!TypeOK, CTP!Idle, CP!Idle,
         CTP!Request, CP!Request, CTP!Decoded, CP!Decoded, CTP!Frame, CP!Frame,
         CTP!NoConn, CP!NoConn, CTP!Conns, CP!Conns, CTP!Ids, CP!Ids,
         CTP!NoId, CP!NoId, CTP!RequestTypes, CP!RequestTypes, CTP!FrameTypes,
         CP!FrameTypes, CTP!ReplyTypes, CP!ReplyTypes
<1>5. QED
  BY <1>3, <1>4

LEMMA InitMainTypeInv == Init => MainTypeInv
<1> SUFFICES ASSUME Init PROVE MainTypeInv
  OBVIOUS
<1>1. CP!Init
  BY DEF Init, C!Init, CP!Init, C!NoConn, CP!NoConn, C!NoReq, CP!NoReq,
         C!NoFrame, CP!NoFrame, C!NoId, CP!NoId, C!Conns, CP!Conns, C!Ids, CP!Ids
<1>2. CP!TypeInv
  BY <1>1, CP!InitTypeInv, ExamplesAssumption
<1>3. RetryInv
  BY InitRetryInv
<1>4. C!Idle
  BY DEF Init, C!Init, C!Idle
<1>5. stage \in Stages /\ raised \in BOOLEAN /\ qi \in 0 .. 3
      /\ retry_count <= MaxRetries
  <2>1. stage = "new" /\ raised = FALSE /\ qi = 0 /\ retry_count = 0
    BY DEF Init
  <2>2. stage \in Stages
    BY <2>1 DEF Stages
  <2>3. retry_count <= MaxRetries
    BY <2>1, ExamplesAssumption DEF ExamplesAssumption
  <2>4. qi \in 0 .. 3
    BY <2>1
  <2>5. raised \in BOOLEAN
    BY <2>1
  <2>6. QED
    BY <2>2, <2>3, <2>4, <2>5
<1>6. QED
  BY <1>2, <1>3, <1>4, <1>5 DEF MainTypeInv

\* Every step of main, of the receive and of the server keeps MainTypeInv.
LEMMA NextMainTypeInv == MainTypeInv /\ [Next]_vars => MainTypeInv'
<1> SUFFICES ASSUME MainTypeInv, [Next]_vars PROVE MainTypeInv'
  OBVIOUS
<1>0. RetryInv'
  BY NextRetryInv DEF MainTypeInv
<1>1. CASE NewClient
  <2>1. CP!TypeInv'
    BY <1>1 DEF NewClient, MainTypeInv, CP!TypeInv, CP!TypeOK, CP!Idle, C!Idle,
                NoConn, C!NoConn, CP!NoConn
  <2>2. QED
    BY <1>0, <1>1, <2>1 DEF NewClient, MainTypeInv, Stages, C!Idle
<1>2. CASE Enter
  <2>1. CP!TypeInv'
    <3>1. CASE ex = 2
      BY <1>2, <3>1, ClientConnectTok DEF Enter, MainTypeInv
    <3>2. CASE ex # 2
      BY <1>2, <3>2, SameConnect, ClientCall DEF Enter, MainTypeInv, CP!Caller
    <3>3. QED
      BY <3>1, <3>2
  <2>2. QED
    BY <1>0, <1>2, <2>1 DEF Enter, MainTypeInv, Stages
<1>3. CASE EnterFails \/ Entered \/ Called \/ Work \/ RetryFails \/ Backoff
  <2>1. UNCHANGED clientVars
    BY <1>3 DEF EnterFails, Entered, Called, Work, RetryFails, Backoff
  <2>2. CP!TypeInv'
    BY <2>1, ClientUnchanged DEF MainTypeInv
  <2>3. stage' \in Stages /\ raised' \in BOOLEAN /\ qi' \in 0 .. 3
        /\ retry_count' <= MaxRetries
    BY <1>3, ExamplesAssumption
       DEF EnterFails, Entered, Called, Work, RetryFails, Backoff,
           MainTypeInv, Stages, RetryInv, ExamplesAssumption
  <2>4. C!Idle
    BY <1>3 DEF EnterFails, Entered, Called, Work, RetryFails, Backoff,
                MainTypeInv
  <2>5. C!Idle'
    BY <2>1, <2>4 DEF clientVars, C!Idle
  <2>6. QED
    BY <1>0, <2>2, <2>3, <2>5 DEF MainTypeInv
<1>4. CASE Body
  <2>1. CP!TypeInv' /\ op' \in {op, "execute_query", "ping", "stream"}
    <3>1. CASE ex \in {1, 2}
      BY <1>4, <3>1, ClientUnchanged DEF Body, MainTypeInv, clientVars
    <3>2. CASE ex \notin {1, 2}
      BY <1>4, <3>2, SameCall, ClientCall DEF Body, MainTypeInv, CP!Caller,
         C!execute_query, C!ping, C!stream_query, C!SendRequest
    <3>3. QED
      BY <3>1, <3>2
  <2>2. stage' = "exit" => UNCHANGED op
    BY <1>4 DEF Body, clientVars
  <2>3. QED
    BY <1>0, <1>4, <2>1, <2>2 DEF Body, MainTypeInv, Stages, C!Idle
<1>5. CASE Exit
  <2>1. CP!TypeInv' /\ UNCHANGED op
    <3>1. CASE websocket # NoConn
      BY <1>5, <3>1, SameCall, ClientCall DEF Exit, CloseClient, MainTypeInv,
         CP!Caller, C!close
    <3>2. CASE websocket = NoConn
      BY <1>5, <3>2, ClientUnchanged DEF Exit, CloseClient, MainTypeInv, clientVars
    <3>3. QED
      BY <3>1, <3>2
  <2>2. QED
    BY <1>0, <1>5, <2>1 DEF Exit, MainTypeInv, Stages, C!Idle
<1>6. CASE RetryConnect
  <2>1. CP!TypeInv' /\ UNCHANGED op
    BY <1>6, SameConnect, ClientCall DEF RetryConnect, MainTypeInv, CP!Caller,
       C!connect
  <2>2. QED
    BY <1>0, <1>6, <2>1 DEF RetryConnect, MainTypeInv, Stages, C!Idle
<1>7. CASE Receive
  <2>1. CP!TypeInv'
    BY <1>7, SameReceive, CP!ReceiveTypeInv, ExamplesAssumption
       DEF Receive, MainTypeInv
  <2>2. ~C!Idle
    BY <1>7 DEF Receive, C!Deliver, C!TimeOut, C!ConnectionClosed
  <2>3. QED
    BY <1>0, <1>7, <2>1, <2>2 DEF Receive, MainTypeInv
<1>8. CASE Server
  <2>1. CP!TypeInv' /\ UNCHANGED op
    BY <1>8, SameServer, CP!ServerTypeInv, ExamplesAssumption
       DEF Server, MainTypeInv
  <2>2. QED
    BY <1>0, <1>8, <2>1 DEF Server, MainTypeInv, mainVars, C!Idle
<1>9. CASE UNCHANGED vars
  <2>1. CP!TypeInv'
    BY <1>9, ClientUnchanged DEF vars, MainTypeInv
  <2>2. QED
    BY <1>0, <1>9, <2>1 DEF vars, clientVars, mainVars, MainTypeInv, C!Idle
<1>10. QED
  BY <1>1, <1>2, <1>3, <1>4, <1>5, <1>6, <1>7, <1>8, <1>9 DEF Next, Main

\* MainTypeInv gives TypeOK: the client's part is the same formula.
LEMMA MainTypeOK == MainTypeInv => TypeOK
<1> SUFFICES ASSUME MainTypeInv PROVE TypeOK
  OBVIOUS
<1>1. C!TypeOK
  BY DEF MainTypeInv, CP!TypeInv, C!TypeOK, CP!TypeOK, C!Request, CP!Request,
         C!Decoded, CP!Decoded, C!Frame, CP!Frame, C!NoConn, CP!NoConn,
         C!Conns, CP!Conns, C!Ids, CP!Ids, C!NoId, CP!NoId, C!RequestTypes,
         CP!RequestTypes, C!FrameTypes, CP!FrameTypes, C!ReplyTypes,
         CP!ReplyTypes
<1>2. QED
  BY <1>1, ExamplesAssumption DEF MainTypeInv, RetryInv, RetrySchedule, TypeOK,
     ExamplesAssumption

\* Type correctness of main(): the client of every example keeps
\* WsClient's types (self.websocket None or a handle, the channels,
\* receive_message's value, the counters), main stays at one of its
\* stages, example_6's index in 1..3 once set, and example_7's counters in
\* 0..max_retries, for every value of the constants.
THEOREM TypeCorrect == Spec => []TypeOK
<1>1. Init => MainTypeInv
  BY InitMainTypeInv
<1>2. MainTypeInv /\ [Next]_vars => MainTypeInv'
  BY NextMainTypeInv
<1>3. MainTypeInv => TypeOK
  BY MainTypeOK
<1>4. QED
  BY <1>1, <1>2, <1>3, PTL DEF Spec

-----------------------------------------------------------------------------
(* NoLeak.                                                                 *)

\* Appending a typed frame, or dropping the head, keeps a channel typed.
LEMMA AppendTyped ==
    ASSUME NEW S, NEW s \in Seq(S), NEW f \in S, Typed(s), f.type # "untyped"
    PROVE  Typed(Append(s, f))
BY AppendProperties DEF Typed

LEMMA TailTyped ==
    ASSUME NEW S, NEW s \in Seq(S), s # <<>>, Typed(s)
    PROVE  Typed(Tail(s)) /\ Head(s).type # "untyped"
BY HeadTailProperties DEF Typed

\* Without bad frames the server only sends typed frames, and it never
\* opens a connection or touches self.websocket.
LEMMA ServerLeak ==
    ASSUME ~BadFrames, CP!TypeInv, \A c \in C!Conns : Typed(down[c]), C!Server
    PROVE  /\ live' \subseteq live
           /\ UNCHANGED websocket
           /\ \A c \in C!Conns : Typed(down'[c])
<1> USE DEF CP!TypeInv, CP!TypeOK, CP!Conns, C!Conns
<1>1. CASE C!ServerAnswer
  <2>0. PICK c \in live :
          /\ up[c] # <<>>
          /\ \E f \in C!FinalReplies(Head(up[c])) :
               down' = [down EXCEPT ![c] = Append(@, f)]
          /\ UNCHANGED <<websocket, live>>
    BY <1>1 DEF C!ServerAnswer
  <2>1. PICK f \in C!FinalReplies(Head(up[c])) :
          down' = [down EXCEPT ![c] = Append(@, f)]
    BY <2>0
  <2>2. f.type # "untyped"
    BY DEF C!FinalReplies, C!Reply, C!Answering
  <2>3. c \in C!Conns /\ f \in CP!Frame
    <3>1. Head(up[c]) \in CP!Request
      BY <2>0, HeadTailProperties, ExamplesAssumption DEF ExamplesAssumption
    <3>2. C!FinalReplies(Head(up[c])) = CP!FinalReplies(Head(up[c]))
      BY DEF C!FinalReplies, CP!FinalReplies, C!Reply, CP!Reply, C!Answering,
             CP!Answering
    <3>3. CP!FinalReplies(Head(up[c])) \subseteq CP!Frame
      BY <3>1, CP!FinalRepliesType, ExamplesAssumption
    <3>4. c \in C!Conns
      BY <2>0, ExamplesAssumption DEF ExamplesAssumption
    <3>5. QED
      BY <2>1, <3>2, <3>3, <3>4
  <2>4. Typed(Append(down[c], f))
    BY <2>2, <2>3, AppendTyped
  <2>5. QED
    BY <2>0, <2>1, <2>3, <2>4
<1>2. CASE C!ServerBatch
  <2>1. PICK c \in live, k \in Rows :
          /\ up[c] # <<>>
          /\ down' = [down EXCEPT ![c] = Append(@, C!Reply(Head(up[c]), "data", k, TRUE))]
          /\ UNCHANGED <<websocket, live>>
    BY <1>2 DEF C!ServerBatch
  <2>2. c \in C!Conns
    BY <2>1, ExamplesAssumption DEF ExamplesAssumption
  <2>3. C!Reply(Head(up[c]), "data", k, TRUE) \in CP!Frame
    BY <2>1, CP!ServerFrames, ExamplesAssumption DEF C!Reply, CP!Reply
  <2>4. Typed(Append(down[c], C!Reply(Head(up[c]), "data", k, TRUE)))
    BY <2>2, <2>3, AppendTyped DEF C!Reply
  <2>5. QED
    BY <2>1, <2>2, <2>4
<1>3. CASE C!ServerIgnore \/ C!ServerClose
  BY <1>3 DEF C!ServerIgnore, C!ServerClose
<1>4. QED
  BY <1>1, <1>2, <1>3 DEF C!Server, C!ServerBadFrame

\* The receive step keeps the channels typed and opens or closes nothing;
\* it raises only on a connection that is closed.
LEMMA ReceiveLeak ==
    ASSUME CP!TypeInv, \A c \in C!Conns : Typed(down[c]), Receive
    PROVE  /\ UNCHANGED <<live, websocket, stage>>
           /\ \A c \in C!Conns : Typed(down'[c])
           /\ raised' => websocket \notin live
           /\ ~C!Idle
<1>1. CASE C!Deliver /\ raised' = (got'.type = "untyped")
  <2>1. websocket \in C!Conns /\ down[websocket] # <<>>
    BY <1>1 DEF C!Deliver, C!Idle, CP!Idle, CP!TypeInv, CP!Conns, C!Conns
  <2>2. down[websocket] \in Seq(CP!Frame)
    BY <2>1 DEF CP!TypeInv, CP!TypeOK, CP!Conns, C!Conns
  <2>3. Typed(Tail(down[websocket])) /\ Head(down[websocket]).type # "untyped"
    BY <2>1, <2>2, TailTyped
  <2>4. got'.type # "untyped"
    BY <1>1, <2>3 DEF C!Deliver, C!Decode, C!NoFrame
  <2>5. \A c \in C!Conns : Typed(down'[c])
    BY <1>1, <2>1, <2>3 DEF C!Deliver, CP!TypeInv, CP!TypeOK, CP!Conns, C!Conns
  <2>6. QED
    BY <1>1, <2>4, <2>5 DEF C!Deliver, Receive
<1>2. CASE C!TimeOut /\ raised' = FALSE
  BY <1>2 DEF C!TimeOut, Receive
<1>3. CASE C!ConnectionClosed /\ raised' = TRUE
  BY <1>3 DEF C!ConnectionClosed, Receive
<1>4. QED
  BY <1>1, <1>2, <1>3 DEF Receive

\* connect opens one connection, the object's new handle.
LEMMA ConnectLeak ==
    ASSUME C!connect \/ CTok!connect
    PROVE  live' = live \cup {websocket'} /\ UNCHANGED down
BY DEF C!connect, CTok!connect

\* Without bad frames every step keeps LeakInv.
LEMMA NextLeakInv ==
    ASSUME ~BadFrames, LeakInv, [Next]_vars
    PROVE  LeakInv'
<1>1. MainTypeInv'
  BY NextMainTypeInv DEF LeakInv
<1>2. NoConn \notin live
  BY DEF LeakInv, MainTypeInv, CP!TypeInv, CP!TypeOK, NoConn, C!NoConn
<1>3. CASE NewClient
  BY <1>1, <1>3 DEF NewClient, LeakInv, Quiet
<1>4. CASE Enter
  <2>1. live' = live \cup {websocket'} /\ UNCHANGED down
    BY <1>4, ConnectLeak DEF Enter
  <2>2. QED
    BY <1>1, <1>4, <2>1 DEF Enter, LeakInv, Quiet
<1>5. CASE Entered
  <2>1. raised => live = {}
    BY DEF LeakInv
  <2>2. QED
    BY <1>1, <1>5, <2>1 DEF Entered, LeakInv, Quiet, clientVars
<1>6. CASE EnterFails \/ Called \/ Work \/ RetryFails \/ Backoff
  <2>1. UNCHANGED <<live, websocket, down, raised>>
    BY <1>6 DEF EnterFails, Called, Work, RetryFails, Backoff, clientVars
  <2>2. stage' \in Quiet => stage \in Quiet
    BY <1>6 DEF EnterFails, Called, Work, RetryFails, Backoff, Quiet
  <2>3. raised => stage' \in {"entered", "called", "exit_raise", "aborted"}
    <3>1. raised => stage = "called" /\ Called
      BY <1>6 DEF EnterFails, Called, Work, RetryFails, Backoff, LeakInv
    <3>2. Called /\ raised => stage' = "exit_raise"
      BY DEF Called
    <3>3. QED
      BY <3>1, <3>2
  <2>4. QED
    BY <1>1, <2>1, <2>2, <2>3 DEF LeakInv
<1>7. CASE Body
  <2>1. UNCHANGED <<live, websocket, down>>
    BY <1>7 DEF Body, clientVars, C!execute_query, C!ping, C!stream_query
  <2>2. QED
    BY <1>1, <1>7, <2>1 DEF Body, LeakInv, Quiet
<1>8. CASE Exit
  <2>1. live' = {} /\ UNCHANGED down
    <3>1. CASE websocket # NoConn
      BY <1>8, <3>1 DEF Exit, CloseClient, C!close, LeakInv
    <3>2. CASE websocket = NoConn
      BY <1>2, <1>8, <3>2 DEF Exit, CloseClient, clientVars, LeakInv
    <3>3. QED
      BY <3>1, <3>2
  <2>2. stage' \in {"aborted", "done", "new"} /\ UNCHANGED raised
    BY <1>8 DEF Exit
  <2>3. raised => stage' = "aborted"
    <3>1. raised => stage = "exit_raise"
      BY <1>8 DEF Exit, LeakInv
    <3>2. stage = "exit_raise" => stage' = "aborted"
      BY <1>8 DEF Exit
    <3>3. QED
      BY <3>1, <3>2
  <2>4. QED
    BY <1>1, <2>1, <2>2, <2>3 DEF LeakInv, Quiet
<1>9. CASE RetryConnect
  <2>1. live' = live \cup {websocket'} /\ UNCHANGED down
    BY <1>9, ConnectLeak DEF RetryConnect
  <2>2. QED
    BY <1>1, <1>9, <2>1 DEF RetryConnect, LeakInv, Quiet
<1>10. CASE Receive
  <2>1. /\ UNCHANGED <<live, websocket, stage>>
        /\ \A c \in C!Conns : Typed(down'[c])
        /\ raised' => websocket \notin live
        /\ ~C!Idle
    BY <1>10, ReceiveLeak DEF LeakInv, MainTypeInv
  <2>2. stage \in {"entered", "called"}
    BY <2>1 DEF LeakInv, MainTypeInv
  <2>3. QED
    BY <1>1, <2>1, <2>2 DEF LeakInv, Quiet
<1>11. CASE Server
  <2>1. /\ live' \subseteq live
        /\ UNCHANGED websocket
        /\ \A c \in C!Conns : Typed(down'[c])
    BY <1>11, ServerLeak DEF Server, LeakInv, MainTypeInv
  <2>2. QED
    BY <1>1, <1>11, <2>1 DEF Server, mainVars, LeakInv, Quiet
<1>12. CASE UNCHANGED vars
  BY <1>1, <1>12 DEF vars, clientVars, mainVars, LeakInv, Quiet
<1>13. QED
  BY <1>3, <1>4, <1>5, <1>6, <1>7, <1>8, <1>9, <1>10, <1>11, <1>12 DEF Next, Main

LEMMA InitLeakInv == Init => LeakInv
<1> SUFFICES ASSUME Init PROVE LeakInv
  OBVIOUS
<1>1. MainTypeInv
  BY InitMainTypeInv
<1>2. live = {} /\ ~raised /\ down = [c \in C!Conns |-> <<>>]
  BY DEF Init, C!Init
<1>3. \A c \in C!Conns : Typed(down[c])
  BY <1>2 DEF Typed
<1>4. QED
  BY <1>1, <1>2, <1>3 DEF LeakInv

\* No leaked connection (NoLeak): when main() returns or aborts, no
\* connection opened by an example is still open: __aexit__'s close, and
\* example_7's close at line 344, close the one handle each client object
\* ever holds, and an exception only leaves an example on a connection
\* that is already closed.  This holds for every value of the constants
\* when the server sends no bad frames; with them, the enter_leak run
\* shows example_2's connect raising KeyError on an untyped auth reply
\* and leaving its connection open.
THEOREM NoLeakHolds ==
    ASSUME ~BadFrames PROVE Spec => []NoLeak
<1>1. Init => LeakInv
  BY InitLeakInv
<1>2. LeakInv /\ [Next]_vars => LeakInv'
  BY NextLeakInv
<1>3. LeakInv => NoLeak
  BY DEF LeakInv, Quiet, NoLeak, MainEnded
<1>4. QED
  BY <1>1, <1>2, <1>3, PTL DEF Spec
=============================================================================
