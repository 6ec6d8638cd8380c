--------------------------- MODULE MCHttpResponse ---------------------------
(* A small instance of HttpResponse for TLC. *)
EXTENDS HttpResponse

(* Bytes are only compared with one another: it is enough to look at the    *)
(* texts that begin with one of them.                                       *)
First == CHOOSE letter \in Letters : TRUE
MCInit == ResponseInit /\ (data # <<>> => data[1] = First)
MCSpec == MCInit /\ [][ResponseNext]_all /\ WF_all(ResponseSteps)
=============================================================================
