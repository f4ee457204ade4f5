--------------------------- MODULE MCCommandLine ---------------------------
(***************************************************************************)
(* The options of http_server (include/main_http_server.hpp:91-93) on      *)
(* short command lines, and a program that adds an option with the letter  *)
(* of help.  Ports are numbers of two digits in a range.                   *)
(***************************************************************************)
EXTENDS CommandLine, CommandText

HttpPort == "http_port"
DbPath == "db_path"

Digits(d, e) == Word(<<48 + d, 48 + e>>)
Path == Word(<<47>>)
PortOption == (HttpPort :> Valued("p", FALSE, Digits(2, 0)))

ServerOptions == PortOption @@ (DbPath :> Valued("d", TRUE, Word(<<>>)))
MCParsers == {ServerOptions, PortOption @@ ("verbose" :> Flag("?"))}

MCReads(name, a) ==
  name = HttpPort => a.form = "word" /\ RangeReads(a.text, 10, 35)

Arguments ==
  { Long(HttpPort), Long(DbPath), Long("nothing"), Long("help"),
    Assign(HttpPort, Digits(3, 5)), Assign(HttpPort, Digits(3, 6)),
    Assign(DbPath, Path), Assign("help", Path),
    Dash(<<>>), Dash(<<"d">>), Dash(<<"?">>), Dash(<<"p", "d">>), Dash(<<"?", "p">>),
    Dash(<<"x">>), Digits(1, 0), Path }

MCCommandLines ==
  {<<>>} \cup {<<Word(<<>>)>> \o line : line \in BoundedSeq(Arguments, 4)}

=============================================================================
