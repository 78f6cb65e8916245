--------------------------- MODULE StratumSession ---------------------------
(***************************************************************************)
(* What the stratum client promises its user, who calls login() once and   *)
(* then runs the io_service: the client is always in exactly one phase,    *)
(* it logs in before it listens, it waits out the 5 second delay before    *)
(* every new connection, and it gets from each busy phase to the next.     *)
(* "lost" says that the write of a login has failed: since the client      *)
(* keeps such a request queued, the next connection is never logged in.    *)
(***************************************************************************)
CONSTANTS RpcIds, NoId

VARIABLES phase, lost, rpc_id

vars == <<phase, lost, rpc_id>>

Phases == {"idle", "connecting", "logging in", "listening", "waiting",
           "stuck", "dead"}

TypeOK ==
  /\ phase \in Phases
  /\ lost \in BOOLEAN
  /\ rpc_id \in RpcIds \cup {NoId}

Init == phase = "idle" /\ lost = FALSE /\ rpc_id = NoId

Go(from, to) == phase = from /\ phase' = to

Connect == /\ Go("idle", "connecting") \/ Go("waiting", "connecting")
           /\ UNCHANGED <<lost, rpc_id>>

Connected == /\ Go("connecting", IF lost THEN "stuck" ELSE "logging in")
             /\ UNCHANGED <<lost, rpc_id>>

ConnectFailed == Go("connecting", "waiting") /\ UNCHANGED <<lost, rpc_id>>

LoginSent == Go("logging in", "listening") /\ UNCHANGED <<lost, rpc_id>>

LoginLost == Go("logging in", "waiting") /\ lost' = TRUE /\ UNCHANGED rpc_id

(* A login reply gives, or replaces, the session id.                       *)
Listen == /\ Go("listening", "listening")
          /\ rpc_id' \in RpcIds
          /\ UNCHANGED lost

Disconnect == Go("listening", "waiting") /\ UNCHANGED <<lost, rpc_id>>

Fail == Go("listening", "dead") /\ UNCHANGED <<lost, rpc_id>>

Next == \/ Connect \/ Connected \/ ConnectFailed \/ LoginSent \/ LoginLost
        \/ Listen \/ Disconnect \/ Fail

Fairness == /\ WF_vars(Connect /\ phase = "waiting")
            /\ WF_vars(Connected \/ ConnectFailed)
            /\ WF_vars(LoginSent \/ LoginLost)

Spec == Init /\ [][Next]_vars /\ Fairness
=============================================================================
