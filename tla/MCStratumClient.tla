--------------------------- MODULE MCStratumClient ---------------------------
(* Instances of StratumClient for TLC: a pool that sends one line of each  *)
(* kind the client tells apart.                                            *)
EXTENDS StratumClient

CONSTANTS j1, s1

MCJobs == {j1}
MCRpcIds == {s1}

(* A notification with nothing in it; the lines below are variations.      *)
Plain == [wellFormed |-> TRUE, jsonrpc |-> "2.0", id |-> "absent",
          error |-> "absent", hasResult |-> FALSE, status |-> "absent",
          rpcId |-> NoId, method |-> "absent", job |-> NoJob]

LoginReply == [Plain EXCEPT !.id = "1", !.error = "empty", !.hasResult = TRUE,
                            !.status = "OK", !.rpcId = s1, !.job = j1]

JobNotice == [Plain EXCEPT !.method = "job", !.job = j1]

Banned == [Plain EXCEPT !.id = "other", !.error = "your IP is banned"]

GoodLines == {LoginReply, JobNotice}

FewLines == GoodLines \cup {Banned}

AllLines == FewLines \cup
  { [Plain EXCEPT !.wellFormed = FALSE],
    [Plain EXCEPT !.jsonrpc = "absent"],
    [Plain EXCEPT !.jsonrpc = "other"],
    [JobNotice EXCEPT !.job = BadJob],
    [JobNotice EXCEPT !.method = "other"],
    [LoginReply EXCEPT !.status = "absent"],
    [LoginReply EXCEPT !.status = "other"],
    [LoginReply EXCEPT !.rpcId = NoId],
    [LoginReply EXCEPT !.error = "Unauthenticated"],
    [LoginReply EXCEPT !.error = "other"],
    [LoginReply EXCEPT !.id = "other"] }
=============================================================================
