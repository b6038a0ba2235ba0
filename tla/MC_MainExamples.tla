--------------------------- MODULE MC_MainExamples ---------------------------
(***************************************************************************)
(* main() for TLC.  Nine connections and eight requests are what the      *)
(* eight examples can open and send (one more connection lets a second    *)
(* connect of example_7 happen); two batches of one row make example_8's  *)
(* stream, and every default-streaming query, span two frames.  The       *)
(* retry constants are the literals of example_7.                         *)
(***************************************************************************)
EXTENDS MainExamples

MCMaxConn == 9
MCMaxRequests == 8
MCMaxBatches == 2
MCRows == {1}
MCMaxRetries == 3
MCInitialDelay == 1
MCMaxDelay == 60

\* States that differ only in the channels of connections no one can use
\* again are merged: a connection that is closed and is not the current
\* object's handle is never read or written again, and rowsSent is read
\* only by StreamTotal.
MCView ==
    <<websocket, authenticated, reconnect_count, op, req, got, total_rows,
      nConn, live, nReq, authConn,
      [c \in live \cup ({websocket} \ {NoConn}) |-> <<up[c], down[c], sent[c]>>],
      ex, stage, raised, qi, retry_count, retry_delay, slept, attempts>>

=============================================================================
