---------------------------- MODULE MCHttpServer ---------------------------
(* Two clients, one of which sends a request that does not parse.          *)
EXTENDS HttpServer

MCFrom == [a |-> "c1", b |-> "c1", j |-> "c1", r |-> "c2", u |-> "c2"]
MCKind == [a |-> "good", b |-> "failing", j |-> "notJSON",
           r |-> "noRoute", u |-> "unparsable"]
=============================================================================
