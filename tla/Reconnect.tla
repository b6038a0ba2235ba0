------------------------------ MODULE Reconnect ------------------------------
(***************************************************************************)
(* The reconnect loop of spec.md 4.1, with the backoff schedule of spec.md *)
(* 3: a session connects; each failed attempt is counted and, unless it is *)
(* the last allowed, is followed by a wait of the current delay, after     *)
(* which the delay doubles up to the cap and the session tries again.      *)
(* After MaxAttempts consecutive failures the session has failed; a       *)
(* successful connect resets the count and the delay.                      *)
(***************************************************************************)
EXTENDS Naturals, Sequences

CONSTANTS MaxAttempts, InitialDelay, MaxDelay

VARIABLES
    phase,      \* "idle", "connecting", "backoff", "connected" or "failed"
    attempt,    \* consecutive failed attempts
    delay,      \* the wait before the next attempt
    waited      \* the waits so far, in order

vars == <<phase, attempt, delay, waited>>

Init ==
    /\ phase = "idle"
    /\ attempt = 0
    /\ delay = InitialDelay
    /\ waited = <<>>

\* The session starts connecting.
Start ==
    /\ phase = "idle"
    /\ phase' = "connecting"
    /\ UNCHANGED <<attempt, delay, waited>>

\* The transport opens: the count and the delay start over.
Connected ==
    /\ phase = "connecting"
    /\ phase' = "connected"
    /\ attempt' = 0
    /\ delay' = InitialDelay
    /\ UNCHANGED waited

\* The attempt fails: the session waits, or gives up after the last one.
ConnectFailed ==
    /\ phase = "connecting"
    /\ attempt' = attempt + 1
    /\ phase' = IF attempt + 1 >= MaxAttempts THEN "failed" ELSE "backoff"
    /\ UNCHANGED <<delay, waited>>

\* The wait of the current delay; the next one is twice as long, capped.
Wait ==
    /\ phase = "backoff"
    /\ waited' = Append(waited, delay)
    /\ delay' = IF 2 * delay < MaxDelay THEN 2 * delay ELSE MaxDelay
    /\ phase' = "connecting"
    /\ UNCHANGED attempt

Next == Start \/ Connected \/ ConnectFailed \/ Wait

Spec == Init /\ [][Next]_vars

=============================================================================
