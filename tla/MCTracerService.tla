-------------------------- MODULE MCTracerService --------------------------
(***************************************************************************)
(* Small instances of TracerService.  The requests a1 and a2 agree up to a *)
(* NUL byte and so share an id; b is a request whose serialized form does  *)
(* not parse.                                                              *)
(***************************************************************************)
EXTENDS TracerService, TLC

CONSTANTS a1, a2, b, a, w1, w2

SharedActionIds == {a1, a2}
DaysActionIds == {a1, b}

MCCString(p) ==
  IF p.action_id \in {a1, a2} THEN [p EXCEPT !.action_id = a] ELSE p

MCMurmur(bytes) == <<"murmur", bytes>>

MCParses(p) == p.action_id # b

MCRenders(p) == TRUE

(* The values of b keep its template from rendering.                       *)
DaysRenders(p) == p.action_id # b

Tracer(action, x) ==
  [cqid |-> TRUE, action |-> action, action_id |-> x, mts |-> "number"]

Back(k) == [id |-> k, biz_type |-> 1, complete |-> TRUE]

IdOf(action, x) == Hash([action |-> action, action_id |-> x])

(* Queries extract2TracerReqProto refuses.                                 *)
Refused ==
  { [Tracer(1, a1) EXCEPT !.cqid = FALSE],
    Tracer(9, a1), Tracer(NotANumber, a1), Tracer(1, Empty),
    [Tracer(1, a1) EXCEPT !.mts = "malformed"] }

RefusedCallbacks ==
  { [Back(IdOf(1, a1)) EXCEPT !.complete = FALSE],
    [Back(IdOf(1, a1)) EXCEPT !.biz_type = NotANumber], Back(Empty) }

(* Two threads, two clicks that share an id, and callbacks for that id and *)
(* for the key of the configuration.                                       *)
SharedQueries == {Tracer(1, a1), Tracer(1, a2), Tracer(1, Empty)}
SharedCallbacks == {Back(IdOf(1, a1)), Back(ConfigKey), Back(Empty)}

(* One thread, two ids: a request that is forwarded, and one whose         *)
(* rendering does not end and whose record does not parse.                 *)
DaysQueries == Refused \cup {Tracer(1, a1), Tracer(1, b)}
DaysCallbacks == RefusedCallbacks \cup {Back(IdOf(1, b)), Back(ConfigKey)}

(* The threads are alike, and so are the two clicks that share an id: both *)
(* parse and render, and a query that is refused is forgotten.             *)
SharedSymmetry == Permutations({w1, w2}) \cup Permutations({a1, a2})

=============================================================================
