---------------------------- MODULE RequestReply ----------------------------
(***************************************************************************)
(* What a caller of the bridge API is promised: a call made is settled at  *)
(* most once, with the reply the bridge gave to that very call or with a   *)
(* failure, and a settled call stays settled however late replies arrive.  *)
(***************************************************************************)
CONSTANT Request

VARIABLES
    call,             \* call[r]: idle, open, or how it was settled
    reply             \* reply[r]: what the bridge answered to r, if it did

requestReplyVars == <<call, reply>>

Answer == {"ok", "refused"}

RequestReplyInit ==
    /\ call = [r \in Request |-> "idle"]
    /\ reply = [r \in Request |-> "none"]

Open(r) ==
    /\ call[r] = "idle"
    /\ call' = [call EXCEPT ![r] = "open"]
    /\ UNCHANGED reply

(* The bridge answers a call once, whether or not anyone still waits.      *)
Reply(r, v) ==
    /\ call[r] # "idle"
    /\ reply[r] = "none"
    /\ reply' = [reply EXCEPT ![r] = v]
    /\ UNCHANGED call

SettleWithReply(r) ==
    /\ call[r] = "open"
    /\ reply[r] # "none"
    /\ call' = [call EXCEPT ![r] = reply[r]]
    /\ UNCHANGED reply

(* Closed, timed out, cancelled, or never sent.                            *)
Fail(r) ==
    /\ call[r] \in {"idle", "open"}
    /\ call' = [call EXCEPT ![r] = "failed"]
    /\ UNCHANGED reply

RequestReplyNext ==
    \E r \in Request :
        \/ Open(r) \/ SettleWithReply(r) \/ Fail(r)
        \/ \E v \in Answer : Reply(r, v)

RequestReplySpec == RequestReplyInit /\ [][RequestReplyNext]_requestReplyVars

=============================================================================
