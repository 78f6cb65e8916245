--------------------------- MODULE StratumMessage ---------------------------
(***************************************************************************)
(* What client::_on_message (src/src/stratum/client.cpp) decides about one *)
(* line from the pool.  A line is abstracted to the fields the handler     *)
(* looks at; the text of names, hashes and error messages is left out.     *)
(***************************************************************************)
CONSTANTS
  Jobs,    \* complete jobs: id, job_id, blob and target all present
  RpcIds,  \* session ids a pool hands out in a login reply
  NoJob,   \* the "job" child of a result, or "params", is missing
  BadJob,  \* the child is there but lacks one of the four fields
  NoId     \* no session id

ASSUME MarkersAreNotData ==
  /\ Jobs \cap {NoJob, BadJob} = {}
  /\ NoJob # BadJob
  /\ NoId \notin RpcIds

(* "error": missing; without children (null or a bare string); with a      *)
(* message that is harmless or missing; with one of the three fatal texts. *)
CriticalErrors == {"Unauthenticated", "your IP is banned",
                   "IP Address currently banned"}
ErrorKinds == {"absent", "empty", "other"} \cup CriticalErrors

(* get_optional<int64_t>("id") yields nothing for a missing id, for null   *)
(* and for any text that is not a number: all three are "absent" here.     *)
MessageType ==
  [ wellFormed : BOOLEAN,                      \* read_json accepts the line
    jsonrpc    : {"2.0", "other", "absent"},
    id         : {"1", "other", "absent"},
    error      : ErrorKinds,
    hasResult  : BOOLEAN,
    status     : {"OK", "other", "absent"},    \* result.status
    rpcId      : RpcIds \cup {NoId},           \* result.id
    method     : {"job", "other", "absent"},
    job        : Jobs \cup {NoJob, BadJob} ]   \* result.job, or params

(* read_json on a malformed line and get<std::string>("jsonrpc") on a line *)
(* without that member throw, and nothing above io_service.run() catches.  *)
Throws(m) == ~m.wellFormed \/ m.jsonrpc = "absent"

is_critical_error(e) == e \in CriticalErrors

IsResponse(m) == m.id # "absent"

HasError(m) == m.error \notin {"absent", "empty"}

(* The branch commented "Login": a result, no error, and id 1.             *)
IsLoginReply(m) == IsResponse(m) /\ ~HasError(m) /\ m.hasResult /\ m.id = "1"

LoginAccepted(m) == IsLoginReply(m) /\ m.status = "OK" /\ m.rpcId # NoId

(* The three early returns that give the connection up.                    *)
Reconnects(m) ==
  \/ IsResponse(m) /\ HasError(m) /\ is_critical_error(m.error)
  \/ IsLoginReply(m) /\ m.status = "absent"
  \/ IsLoginReply(m) /\ m.status = "OK" /\ m.rpcId = NoId

(* Mutated form of JobReported: a job that lacks a field is reported, too. *)
JobReported_unchecked(m) ==
  LoginAccepted(m) \/ (~IsResponse(m) /\ m.method = "job")

(* _parse_job runs for an accepted login that carries a job and for a job  *)
(* notification with params; it calls _on_job for a complete job only.     *)
JobReported(m) ==
  /\ LoginAccepted(m) \/ (~IsResponse(m) /\ m.method = "job")
  /\ m.job \in Jobs
=============================================================================
