------------------------ MODULE MainExamples_refinement ------------------------
(***************************************************************************)
(* example_7's loop implements spec.md 4.1's reconnect loop (module       *)
(* Reconnect) under the mapping RC of MainExamples.  The proof rests on   *)
(* RetryInv of MainExamples_proofs: it says where example_7 can be, that  *)
(* nothing of its loop has happened before it starts (so the abstract     *)
(* loop is idle with a zero count and the initial delay), and that the    *)
(* loop head is reached only below max_retries.                            *)
(***************************************************************************)
EXTENDS MainExamples_proofs, TLAPS

\* A step that stays before example_7's loop, or after example_7, leaves
\* the mapped state alone when it leaves example_7's locals alone.
LEMMA OutsideExample7 ==
    ASSUME ex \in Nat, ex' \in Nat, UNCHANGED <<retry_count, retry_delay, slept>>,
           \/ /\ ex < 7 \/ (ex = 7 /\ stage = "new")
              /\ ex' < 7 \/ (ex' = 7 /\ stage' = "new")
           \/ ex > 7 /\ ex' > 7
    PROVE  UNCHANGED RC!vars
<1>1. CASE ex > 7 /\ ex' > 7
  BY <1>1 DEF Phase7, RC!vars
<1>2. CASE ~(ex > 7 /\ ex' > 7)
  BY <1>2 DEF Phase7, RC!vars
<1>3. QED
  BY <1>1, <1>2

\* A step of an `async with` example is no step of the reconnect loop.
LEMMA OtherStage ==
    ASSUME RetryInv, stage \notin Example7Stages \cup {"new", "done"},
           ex' = ex, UNCHANGED <<retry_count, retry_delay, slept>>
    PROVE  UNCHANGED RC!vars
<1>1. ex \in 1 .. 9 /\ ex # 7
  BY DEF RetryInv, Example7Stages
<1>2. QED
  BY <1>1, OutsideExample7

\* main creates example_7's client and enters its loop: the abstract loop
\* starts, with the count at zero and the initial delay.
LEMMA NewClientRefines ==
    ASSUME RetryInv, NewClient
    PROVE  [RC!Next]_RC!vars
<1>1. CASE ex = 7
  <2>1. /\ stage' = "loop" /\ ex' = 7 /\ stage = "new"
        /\ UNCHANGED <<retry_count, retry_delay, slept>>
    BY <1>1 DEF NewClient
  <2>2. retry_count = 0 /\ slept = <<>> /\ retry_delay = InitialDelay
    BY <1>1, <2>1 DEF RetryInv
  <2>3. Phase7 = "idle" /\ Phase7' = "connecting"
    BY <1>1, <2>1 DEF Phase7
  <2>4. RC!Start
    BY <2>1, <2>2, <2>3 DEF RC!Start
  <2>5. QED
    BY <2>4 DEF RC!Next
<1>2. CASE ex # 7
  <2>1. ex \in 1 .. 9 /\ ex' = ex /\ UNCHANGED <<retry_count, retry_delay, slept>>
    BY DEF NewClient, RetryInv
  <2>2. QED
    BY <1>2, <2>1, OutsideExample7
<1>3. QED
  BY <1>1, <1>2

\* connect succeeds at the loop head: the abstract loop is connected, and
\* its count and delay start over.
LEMMA RetryConnectRefines ==
    ASSUME RetryInv, RetryConnect
    PROVE  RC!Connected
<1>1. /\ ex = 7 /\ stage = "loop" /\ stage' = "work" /\ ex' = 7
      /\ retry_count < MaxRetries /\ retry_count \in Nat
      /\ UNCHANGED <<retry_count, retry_delay, slept>>
  BY DEF RetryConnect, RetryInv, Example7Stages
<1>2. Phase7 = "connecting" /\ Phase7' = "connected"
  BY <1>1, ExamplesAssumption DEF Phase7, ExamplesAssumption
<1>3. QED
  BY <1>1, <1>2 DEF RC!Connected

\* A failed connect is the abstract ConnectFailed: counted, and followed
\* by a sleep unless it was the last allowed.
LEMMA RetryFailsRefines ==
    ASSUME RetryInv, RetryFails
    PROVE  RC!ConnectFailed
<1>1. /\ ex = 7 /\ stage = "loop" /\ ex' = 7
      /\ retry_count \in Nat /\ retry_count' = retry_count + 1
      /\ stage' = IF retry_count + 1 >= MaxRetries THEN "close" ELSE "sleep"
      /\ UNCHANGED <<retry_delay, slept>>
  BY DEF RetryFails, RetryInv, Example7Stages
<1>2. Phase7 = "connecting"
  BY <1>1 DEF Phase7
<1>3. Phase7' = IF retry_count + 1 >= MaxRetries THEN "failed" ELSE "backoff"
  <2>1. CASE retry_count + 1 >= MaxRetries
    BY <1>1, <2>1 DEF Phase7
  <2>2. CASE ~(retry_count + 1 >= MaxRetries)
    BY <1>1, <2>2 DEF Phase7
  <2>3. QED
    BY <2>1, <2>2
<1>4. QED
  BY <1>1, <1>2, <1>3 DEF RC!ConnectFailed

\* The sleep is the abstract Wait, with the same capped doubling.
LEMMA BackoffRefines ==
    ASSUME RetryInv, Backoff
    PROVE  RC!Wait
<1>1. /\ ex = 7 /\ stage = "sleep" /\ stage' = "loop" /\ ex' = 7
      /\ UNCHANGED retry_count
      /\ slept' = Append(slept, retry_delay)
      /\ retry_delay' = Min(retry_delay * 2, MaxDelay)
      /\ retry_delay \in Nat
  BY DEF Backoff, RetryInv, Example7Stages
<1>2. Phase7 = "backoff" /\ Phase7' = "connecting"
  BY <1>1 DEF Phase7
<1>3. retry_delay' = IF 2 * retry_delay < MaxDelay THEN 2 * retry_delay
                     ELSE MaxDelay
  BY <1>1 DEF Min
<1>4. QED
  BY <1>1, <1>2, <1>3 DEF RC!Wait

\* After a connect, or after giving up, example_7 sleeps, closes its
\* client and main goes on: none of it is a step of the reconnect loop.
LEMMA Example7Stutters ==
    ASSUME RetryInv, Work \/ Exit
    PROVE  UNCHANGED RC!vars
<1>1. CASE Work
  <2>1. /\ ex = 7 /\ stage = "work" /\ stage' = "close" /\ ex' = 7
        /\ UNCHANGED <<retry_count, retry_delay, slept>>
    BY <1>1 DEF Work, RetryInv, Example7Stages
  <2>2. Phase7' = Phase7
    BY <2>1 DEF Phase7
  <2>3. QED
    BY <2>1, <2>2 DEF RC!vars
<1>2. CASE Exit /\ ex # 7
  <2>1. /\ ex \in 1 .. 9 /\ ex \notin {7, 9}
        /\ ex' = ex \/ (ex' = ex + 1 /\ (ex = 6 => stage' = "new"))
        /\ UNCHANGED <<retry_count, retry_delay, slept>>
    BY <1>2 DEF Exit, RetryInv, Example7Stages
  <2>2. QED
    BY <2>1, OutsideExample7
<1>3. CASE Exit /\ ex = 7
  <2>1. /\ stage = "close" /\ ex' = 8 /\ stage' = "new"
        /\ UNCHANGED <<retry_count, retry_delay, slept>>
    BY <1>3 DEF Exit, RetryInv, Example7Stages
  <2>2. Phase7' = Phase7
    BY <1>3, <2>1 DEF Phase7
  <2>3. QED
    BY <2>1, <2>2 DEF RC!vars
<1>4. QED
  BY <1>1, <1>2, <1>3

\* Every step of main, of the client and of the server maps to a step of
\* the reconnect loop or to none.
LEMMA NextRefines ==
    ASSUME RetryInv, [Next]_vars
    PROVE  [RC!Next]_RC!vars
<1>1. CASE NewClient
  BY <1>1, NewClientRefines
<1>2. CASE Enter \/ EnterFails \/ Entered \/ Body \/ Called
  <2>1. /\ stage \notin Example7Stages \cup {"new", "done"}
        /\ ex' = ex /\ UNCHANGED <<retry_count, retry_delay, slept>>
    BY <1>2 DEF Enter, EnterFails, Entered, Body, Called, Example7Stages
  <2>2. QED
    BY <2>1, OtherStage
<1>3. CASE Work \/ Exit
  BY <1>3, Example7Stutters
<1>4. CASE RetryConnect
  BY <1>4, RetryConnectRefines DEF RC!Next
<1>5. CASE RetryFails
  BY <1>5, RetryFailsRefines DEF RC!Next
<1>6. CASE Backoff
  BY <1>6, BackoffRefines DEF RC!Next
<1>7. CASE Receive \/ Server \/ UNCHANGED vars
  <2>1. UNCHANGED <<ex, stage, retry_count, retry_delay, slept>>
    BY <1>7 DEF Receive, Server, mainVars, vars
  <2>2. QED
    BY <2>1 DEF RC!vars, Phase7
<1>8. QED
  BY <1>1, <1>2, <1>3, <1>4, <1>5, <1>6, <1>7 DEF Next, Main

\* Refinement (ReconnectSpec) for every max_retries, initial delay and
\* cap, whatever the network and the server do: example_7's loop is
\* spec.md 4.1's reconnect loop.  It connects only from its loop head, and
\* a connect resets the count and the delay; every failure is counted, the
\* one that reaches max_retries gives up at once, and any other is
\* followed by exactly one sleep of the current delay, after which the
\* delay doubles up to the cap.  The step argument needs RetryInv: that
\* the loop's locals are untouched before it starts and the loop head is
\* reached only below max_retries.
THEOREM ReconnectRefinement == Spec => ReconnectSpec
<1>1. Init => RC!Init
  BY DEF Init, RC!Init, Phase7
<1>2. Init => RetryInv
  BY InitRetryInv
<1>3. RetryInv /\ [Next]_vars => RetryInv'
  BY NextRetryInv
<1>4. RetryInv /\ [Next]_vars => [RC!Next]_RC!vars
  BY NextRefines
<1>5. QED
  BY <1>1, <1>2, <1>3, <1>4, PTL DEF Spec, ReconnectSpec, RC!Spec

=============================================================================
