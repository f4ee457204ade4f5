------------------------- MODULE MCHttpClientPools -------------------------
(***************************************************************************)
(* A small instance of HttpClientPools.                                    *)
(***************************************************************************)
EXTENDS HttpClientPools

CONSTANTS t1, t2, t3, c1, c2, u1, u2, b1, b2

(* A call that gives a body, calls that send none of their own, a post     *)
(* that should not give none, and a call that is turned away.              *)
MCCalls ==
  { [op |-> "post", method |-> "POST", url |-> u1, body |-> b1],
    [op |-> "post", method |-> "POST", url |-> u1, body |-> NoBody],
    [op |-> "send", method |-> "POST", url |-> u2, body |-> NoBody],
    [op |-> "send", method |-> "PUT", url |-> u2, body |-> b2],
    [op |-> "get", method |-> "GET", url |-> u2, body |-> NoBody],
    [op |-> "get", method |-> "GET", url |-> NoUrl, body |-> NoBody] }

=============================================================================
