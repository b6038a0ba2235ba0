----------------------------- MODULE MC_WsClient -----------------------------
(***************************************************************************)
(* Instances of WsClient for TLC.  Two connections let connect() replace a *)
(* live or a dead connection; four requests let a method time out and a  *)
(* later one read what was left on the socket; two batches of one or two  *)
(* rows make a streamed query span several frames with distinct totals.   *)
(***************************************************************************)
EXTENDS WsClient

MCMaxConn == 2
MCMaxRequests == 4
MCMaxBatches == 2
MCRows == {1, 2}

\* The instance for liveness under every server misbehaviour: fewer
\* requests and one row size keep the fair-behaviour graph small.
MCFewRequests == 2
MCOneRow == {1}

\* execute_query called with streaming=False only, or with its default True.
MCStreamingOff == {FALSE}
MCStreamingDefault == {TRUE}
MCStreamingAny == {FALSE, TRUE}

=============================================================================
