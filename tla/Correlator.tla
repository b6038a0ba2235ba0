----------------------------- MODULE Correlator -----------------------------
(***************************************************************************)
(* What the request correlator of spec.md 4.3 promises a caller that has  *)
(* at most one call outstanding, as RustyDB's client and its examples do. *)
(*                                                                         *)
(* A call sends one request.  Its id is the next token of a monotonically *)
(* increasing counter (spec.md 4.2), or no id at all for a request that   *)
(* is matched by type alone.  The call then completes with a reply that   *)
(* answers that request, or is abandoned (a timeout or an error) with     *)
(* nothing.  A streaming query stays open while the replies are batches   *)
(* with more to come (spec.md 4.4), and ends on its last batch or on an   *)
(* error; any other request ends on its first reply.  Nothing is handed   *)
(* to the caller between calls, and since the call is over once its final *)
(* reply is handed over, no request is completed twice.                    *)
(***************************************************************************)
EXTENDS Naturals

CONSTANTS
    Requests,       \* the requests a caller can send
    Replies,        \* the replies the correlator can hand over
    NoId,           \* the id of a request that carries none
    NoRequest,      \* the request before the first call
    NoReply,        \* what an abandoned call returns
    Answers(_, _),  \* Answers(r, f): reply f answers request r
    NonFinal(_)     \* a batch after which more of the same stream follow

VARIABLES
    waiting,        \* a call is outstanding
    pending,        \* the request of the last call
    returned,       \* what the last call has been handed
    lastId          \* the last token of the id counter

vars == <<waiting, pending, returned, lastId>>

Init ==
    /\ waiting = FALSE
    /\ pending = NoRequest
    /\ returned = NoReply
    /\ lastId = 0

\* A call sends a request with the next id, or with none.
Send ==
    /\ ~waiting
    /\ \E r \in Requests :
         /\ r.id \in {NoId, lastId + 1}
         /\ pending' = r
    /\ waiting' = TRUE
    /\ returned' = NoReply
    /\ lastId' = lastId + 1

\* The call is handed a reply to its request; only a batch of a streaming
\* query with more to come keeps it open.
Complete ==
    /\ waiting
    /\ \E f \in Replies :
         /\ Answers(pending, f)
         /\ NonFinal(f) => pending.streaming
         /\ returned' = f
         /\ waiting' = NonFinal(f)
    /\ UNCHANGED <<pending, lastId>>

\* The call ends with nothing: its deadline passed or the transport failed.
Abandon ==
    /\ waiting
    /\ waiting' = FALSE
    /\ returned' = NoReply
    /\ UNCHANGED <<pending, lastId>>

Next == Send \/ Complete \/ Abandon

Spec == Init /\ [][Next]_vars

=============================================================================
