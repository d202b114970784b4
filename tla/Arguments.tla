------------------------------ MODULE Arguments ------------------------------
(***************************************************************************)
(* The installer's command line: parse_arg (shared/argparse.hpp) and what   *)
(* main (installer/main.cpp) makes of it.  A token is a word with or        *)
(* without leading dashes; argv does not count the program's name.          *)
(***************************************************************************)
EXTENDS Naturals, Sequences, FiniteSetsExt

Option(name) == [word |-> name, dash |-> TRUE]
Value(word) == [word |-> word, dash |-> FALSE]

\* (slip) the loop stops before an option at the end of the line.
RoomBehind(argv, i, size) == i + size < Len(argv)

\* All size values have to be there, the optional ones too.
Room(argv, i, size) == i + size <= Len(argv)

\* parse_arg<size>(name, required): the first token that is the name, with or
\* without dashes, and the tokens after it up to one with a dash.  Without room
\* nothing is read; "written" wraps around then and no message is printed.
ParseArg(argv, name, size, required) ==
  LET hits == {i \in DOMAIN argv : argv[i].word = name}
      i == Min(hits)
      stops == {n \in 0 .. size : n = size \/ argv[i + n + 1].dash}
  IN  IF hits = {} \/ ~Room(argv, i, size) \/ Min(stops) < required
      THEN [given |-> FALSE, values |-> <<>>]
      ELSE [given |-> TRUE, values |-> SubSeq(argv, i + 1, i + Min(stops))]

DefaultAgent == Value("win_agent.dll")

Usage == [action |-> "usage", target |-> <<>>, agent |-> DefaultAgent, parameters |-> <<>>]

\* main: what perform_static_init or perform_dynamic_init is called with.
Request(argv) ==
  LET static == ParseArg(argv, "s", 2, 1)
      dynamic == ParseArg(argv, "d", 1, 1)
      agent == ParseArg(argv, "a", 1, 1)
  IN  IF ParseArg(argv, "help", 0, 0).given \/ static.given = dynamic.given
      THEN Usage
      ELSE [action |-> IF static.given THEN "static" ELSE "dynamic",
            target |-> IF static.given THEN static.values ELSE dynamic.values,
            agent |-> IF agent.given THEN agent.values[1] ELSE DefaultAgent,
            parameters |-> ParseArg(argv, "p", 2, 2).values]
=============================================================================
