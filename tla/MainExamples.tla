---------------------------- MODULE MainExamples ----------------------------
(***************************************************************************)
(* main() of src/examples/websocket_client.py (lines 393-420): the eight  *)
(* examples run one after the other against one server, each on a client *)
(* object of its own, inside one try block.  An exception that leaves an  *)
(* example ends main.                                                      *)
(*                                                                         *)
(* The client and the server are WsClient's: the examples call its        *)
(* actions.  Example 2 builds its client with a token, the others without *)
(* one, and every execute_query of the examples uses the default          *)
(* streaming=True.  Example 7 is the reconnection loop with exponential    *)
(* backoff (lines 306-344); its websockets.connect may fail, which the    *)
(* loop catches, while a failing connect anywhere else ends main.         *)
(***************************************************************************)
EXTENDS Naturals, Sequences

CONSTANTS
    LateReplies, BadFrames, MaxConn, MaxRequests, MaxBatches, Rows,
    MaxRetries,     \* max_retries of example_7 (line 318)
    InitialDelay,   \* the first retry_delay (line 320)
    MaxDelay        \* the cap of the backoff (line 342)

ASSUME ExamplesAssumption ==
    /\ LateReplies \in BOOLEAN
    /\ BadFrames \in BOOLEAN
    /\ MaxConn \in Nat
    /\ MaxRequests \in Nat
    /\ MaxBatches \in Nat \ {0}
    /\ Rows \subseteq Nat
    /\ MaxRetries \in Nat \ {0}
    /\ InitialDelay \in Nat \ {0}
    /\ MaxDelay \in Nat
    /\ InitialDelay <= MaxDelay     \* 1 <= 60 at lines 320 and 342

VARIABLES
    websocket, authenticated, reconnect_count, op, req, got, total_rows,
    nConn, live, up, down, sent, nReq, rowsSent, authConn,
    ex,          \* the example main is running, 1..8; 9 once all returned
    stage,       \* where that example is
    raised,      \* the last receive raised, in the method or in the example
    qi,          \* the index of example_6's query loop
    retry_count, \* example_7's locals
    retry_delay,
    slept,       \* ghost: the delays example_7 slept, in order
    attempts     \* ghost: the connect calls example_7 made

clientVars == <<websocket, authenticated, reconnect_count, op, req, got,
                total_rows, nConn, live, up, down, sent, nReq, rowsSent, authConn>>
mainVars == <<ex, stage, raised, qi, retry_count, retry_delay, slept, attempts>>
vars == <<clientVars, mainVars>>

\* The client object of each example: only example 2 passes auth_token,
\* and the examples call execute_query(sql) with its default streaming.
C == INSTANCE WsClient WITH HasToken <- FALSE, QueryStreaming <- {TRUE}
CTok == INSTANCE WsClient WITH HasToken <- TRUE, QueryStreaming <- {TRUE}

NoConn == C!NoConn
Min(a, b) == IF a < b THEN a ELSE b

-----------------------------------------------------------------------------

Init ==
    /\ C!Init
    /\ ex = 1
    /\ stage = "new"
    /\ raised = FALSE
    /\ qi = 0
    /\ retry_count = 0
    /\ retry_delay = InitialDelay
    /\ slept = <<>>
    /\ attempts = 0

\* RustyDBWebSocketClient(...) (lines 27-49): a fresh object; the
\* connection of the previous example's object is not touched.  Example 7
\* also sets its locals (lines 317-320).
NewClient ==
    /\ stage = "new"
    /\ ex \in 1 .. 8
    /\ websocket' = NoConn
    /\ authenticated' = FALSE
    /\ reconnect_count' = 0
    /\ stage' = IF ex = 7 THEN "loop" ELSE "enter"
    /\ qi' = 1
    /\ UNCHANGED <<op, req, got, total_rows, nConn, live, up, down, sent, nReq,
                   rowsSent, authConn, ex, raised, retry_count, retry_delay,
                   slept, attempts>>

\* __aenter__ (lines 177-180) calls connect; websockets.connect succeeds.
\* With a token the handshake is still waiting for its reply.
Enter ==
    /\ stage = "enter"
    /\ IF ex = 2 THEN CTok!connect ELSE C!connect
    /\ raised' = FALSE
    /\ stage' = "entered"
    /\ UNCHANGED <<ex, qi, retry_count, retry_delay, slept, attempts>>

\* websockets.connect raises (lines 56, 65-67): __aenter__ propagates it,
\* __aexit__ does not run, and main's except ends the run (line 414).
EnterFails ==
    /\ stage = "enter"
    /\ stage' = "aborted"
    /\ UNCHANGED <<clientVars, ex, raised, qi, retry_count, retry_delay,
                   slept, attempts>>

\* connect returned or raised: the body runs, or the exception leaves the
\* example without __aexit__.
Entered ==
    /\ stage = "entered"
    /\ C!Idle
    /\ stage' = IF raised THEN "aborted" ELSE "body"
    /\ UNCHANGED <<clientVars, ex, raised, qi, retry_count, retry_delay,
                   slept, attempts>>

\* The body's call: examples 1 and 2 make none (lines 195, 208-211);
\* 3 and 5 one execute_query (lines 225, 271); 4 a ping (line 253); 6 one
\* execute_query per iteration of its loop over three queries (lines
\* 290-295); 8 sends a streaming query and loops on receive (lines
\* 358-390).
Body ==
    /\ stage = "body"
    /\ \/ /\ ex \in {1, 2}
          /\ stage' = "exit"
          /\ UNCHANGED clientVars
       \/ /\ ex \in {3, 5, 6}
          /\ C!execute_query
          /\ stage' = "called"
       \/ /\ ex = 4
          /\ C!ping
          /\ stage' = "called"
       \/ /\ ex = 8
          /\ C!stream_query
          /\ stage' = "called"
    /\ raised' = FALSE
    /\ UNCHANGED <<ex, qi, retry_count, retry_delay, slept, attempts>>

\* Mutant of Called: example_6's index is advanced after its last query too.
CalledCountAlways ==
    /\ stage = "called"
    /\ C!Idle
    /\ stage' = CASE raised -> "exit_raise"
                  [] ~raised /\ ex = 6 /\ qi < 3 -> "body"
                  [] OTHER -> "exit"
    /\ qi' = IF ex = 6 THEN qi + 1 ELSE qi
    /\ UNCHANGED <<clientVars, ex, raised, retry_count, retry_delay, slept,
                   attempts>>

\* The call returned or raised: a KeyError of the method, or of the
\* example's `response["type"]` on an object without "type" (lines 227,
\* 273, 297), leaves the body through __aexit__; example 6 goes on with
\* its next query.
Called ==
    /\ stage = "called"
    /\ C!Idle
    /\ stage' = CASE raised -> "exit_raise"
                  [] ~raised /\ ex = 6 /\ qi < 3 -> "body"
                  [] OTHER -> "exit"
    /\ qi' = IF ex = 6 /\ qi < 3 THEN qi + 1 ELSE qi
    /\ UNCHANGED <<clientVars, ex, raised, retry_count, retry_delay, slept,
                   attempts>>

\* close (lines 169-175), which does nothing when self.websocket is None.
CloseClient ==
    IF websocket # NoConn THEN C!close ELSE UNCHANGED clientVars

\* __aexit__ (lines 182-184) closes the client; an exception from the body
\* then reaches main's except.  Example 7 closes its client at line 344.
Exit ==
    /\ stage \in {"exit", "exit_raise", "close"}
    /\ CloseClient
    /\ ex' = IF stage = "exit_raise" THEN ex ELSE ex + 1
    /\ stage' = CASE stage = "exit_raise" -> "aborted"
                  [] stage # "exit_raise" /\ ex = 8 -> "done"
                  [] OTHER -> "new"
    /\ UNCHANGED <<raised, qi, retry_count, retry_delay, slept, attempts>>

-----------------------------------------------------------------------------
(* example_7 (lines 322-342).  The while condition holds whenever the     *)
(* loop head is reached: the except branch breaks before retry_count can  *)
(* reach max_retries there.                                                *)

\* connect succeeds; the example sleeps a second and breaks (lines 323-329).
RetryConnect ==
    /\ stage = "loop"
    /\ retry_count < MaxRetries
    /\ C!connect
    /\ attempts' = attempts + 1
    /\ stage' = "work"
    /\ UNCHANGED <<ex, raised, qi, retry_count, retry_delay, slept>>

\* asyncio.sleep(1), then break.
Work ==
    /\ stage = "work"
    /\ stage' = "close"
    /\ UNCHANGED <<clientVars, ex, raised, qi, retry_count, retry_delay,
                   slept, attempts>>

\* Mutant of RetryFails: it gives up one failure too late.
RetryFailsLate ==
    /\ stage = "loop"
    /\ retry_count < MaxRetries
    /\ retry_count' = retry_count + 1
    /\ attempts' = attempts + 1
    /\ stage' = IF retry_count + 1 > MaxRetries THEN "close" ELSE "sleep"
    /\ UNCHANGED <<clientVars, ex, raised, qi, retry_delay, slept>>

\* connect raises; the except branch counts the failure and gives up at
\* max_retries (lines 331-335).
RetryFails ==
    /\ stage = "loop"
    /\ retry_count < MaxRetries
    /\ retry_count' = retry_count + 1
    /\ attempts' = attempts + 1
    /\ stage' = IF retry_count + 1 >= MaxRetries THEN "close" ELSE "sleep"
    /\ UNCHANGED <<clientVars, ex, raised, qi, retry_delay, slept>>

\* Mutant of Backoff: the delay is doubled before the sleep.
BackoffDoubleFirst ==
    /\ stage = "sleep"
    /\ slept' = Append(slept, Min(retry_delay * 2, MaxDelay))
    /\ retry_delay' = Min(retry_delay * 2, MaxDelay)
    /\ stage' = "loop"
    /\ UNCHANGED <<clientVars, ex, raised, qi, retry_count, attempts>>

\* Sleep retry_delay, then double it up to the cap (lines 339-342).
Backoff ==
    /\ stage = "sleep"
    /\ slept' = Append(slept, retry_delay)
    /\ retry_delay' = Min(retry_delay * 2, MaxDelay)
    /\ stage' = "loop"
    /\ UNCHANGED <<clientVars, ex, raised, qi, retry_count, attempts>>

-----------------------------------------------------------------------------

\* receive_message (lines 106-126) of the client's pending method, and whether
\* it raised: ConnectionClosed, or an object without "type" (a KeyError in
\* the method or in the example that reads the returned response).
Receive ==
    /\ \/ /\ C!Deliver
          /\ raised' = (got'.type = "untyped")
       \/ /\ C!TimeOut
          /\ raised' = FALSE
       \/ /\ C!ConnectionClosed
          /\ raised' = TRUE
    /\ UNCHANGED <<ex, stage, qi, retry_count, retry_delay, slept, attempts>>

Server ==
    /\ C!Server
    /\ UNCHANGED mainVars

Main ==
    \/ NewClient \/ Enter \/ EnterFails \/ Entered \/ Body \/ Called \/ Exit
    \/ RetryConnect \/ Work \/ RetryFails \/ Backoff

Next == Main \/ Receive \/ Server

Spec == Init /\ [][Next]_vars

\* main is one asyncio task: it is run whenever it can go on, its sleeps
\* end, and the receive it awaits returns, raises or times out.  Whether a
\* connect succeeds is the network's choice; nothing is assumed of the
\* server.
FairSpec == Spec /\ WF_vars(Main) /\ WF_vars(Receive)

-----------------------------------------------------------------------------
(* Properties.                                                             *)

Stages == {"new", "enter", "entered", "body", "called", "exit", "exit_raise",
           "loop", "work", "sleep", "close", "done", "aborted"}

\* Types of the client's and of main's state; example_6's index stays in
\* 1..3 and example_7 never makes more than max_retries attempts.
TypeOK ==
    /\ C!TypeOK
    /\ ex \in 1 .. 9
    /\ stage \in Stages
    /\ raised \in BOOLEAN
    /\ qi \in 0 .. 3
    /\ retry_count \in 0 .. MaxRetries
    /\ retry_delay \in Nat
    /\ slept \in Seq(Nat)
    /\ attempts \in 0 .. MaxRetries

MainEnded == stage \in {"done", "aborted"}

\* Spec.md 3 and 8 on example_7's loop: it calls connect at most
\* max_retries times, it sleeps only between two attempts (never after the
\* last), and its delays follow spec.md 3's BackoffSchedule
\* min(initialDelay * 2^n, maxDelay), n = 0, 1, ...: the first is the
\* initial delay and each later one is twice the one before, capped (the
\* same sequence, since min(2 * min(x, M), M) = min(2 * x, M)).
RetrySchedule ==
    /\ attempts <= MaxRetries
    /\ Len(slept) > 0 => slept[1] = Min(InitialDelay, MaxDelay)
    /\ \A i \in 2 .. Len(slept) : slept[i] = Min(2 * slept[i - 1], MaxDelay)
    /\ ex > 7 => Len(slept) = attempts - 1

\* example_7 seen as spec.md 4.1's reconnect loop: it is idle before its
\* loop starts, connecting at the loop head, in backoff before its sleep,
\* and then connected, or failed once it gave up after max_retries.
Phase7 ==
    CASE ex < 7 \/ (ex = 7 /\ stage = "new") -> "idle"
      [] ex = 7 /\ stage = "loop" -> "connecting"
      [] ex = 7 /\ stage = "sleep" -> "backoff"
      [] OTHER -> IF retry_count >= MaxRetries THEN "failed" ELSE "connected"

\* Its failure count is retry_count and its delay retry_delay; once
\* connected, spec.md 4.1 resets both.
RC == INSTANCE Reconnect WITH
        MaxAttempts <- MaxRetries, phase <- Phase7,
        attempt <- IF Phase7 = "connected" THEN 0 ELSE retry_count,
        delay <- IF Phase7 = "connected" THEN InitialDelay ELSE retry_delay,
        waited <- slept

\* Refinement: example_7's loop (lines 322-342) is spec.md 4.1's reconnect
\* loop.  It connects only from the loop head, never again once connected;
\* every failure is counted, the last allowed one gives up without a
\* sleep, any other is followed by one sleep of the current delay, and
\* the delay then doubles up to the cap.
ReconnectSpec == RC!Spec

\* Every connection the examples open is closed when main ends: async
\* with closes it on the way out of the body, and example_7 connects at
\* most once before it closes.  connect never closes a previous handle,
\* so a second connect on one object would leave the first open.
NoLeak == MainEnded => live = {}

\* main ends: every example returns or raises, example_7's loop and
\* example_8's streaming loop end, whatever the server does.
MainEnds == <>MainEnded

=============================================================================
