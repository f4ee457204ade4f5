-------------------------- MODULE MCMainHttpServer --------------------------
(***************************************************************************)
(* Small instances of MainHttpServer: processes that want the same port,   *)
(* the same database, or neither.                                          *)
(***************************************************************************)
EXTENDS MainHttpServer

CONSTANTS p1, p2, w1, w2, d1, d2, n1, n2

MCOptions ==
  { [http_port |-> n1, db_path |-> d1], [http_port |-> n1, db_path |-> d2],
    [http_port |-> n2, db_path |-> d1] }

=============================================================================
