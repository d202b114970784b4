------------------------------- MODULE MCAttach -------------------------------
(***************************************************************************)
(* An instance of Attach: command lines of up to three options in any       *)
(* order, complete or not, and functions that begin in the ways that matter *)
(* to replace_function.                                                     *)
(***************************************************************************)
EXTENDS Attach

Plain(n) == [length |-> n, encoded |-> n]

MCPrologues == {
  <<Plain(7), Plain(7), Plain(7), Plain(7), Plain(7)>>,
  <<Plain(13), Plain(15)>>,
  \* the redundant prefix of a push is lost
  <<[length |-> 2, encoded |-> 1], Plain(13), Plain(4)>>,
  \* the second instruction refers to what only its neighbourhood can reach
  <<Plain(4), [length |-> 7, encoded |-> Unencodable], Plain(4)>>,
  \* there is no request for the second instruction
  <<Plain(5), [length |-> 6, encoded |-> 0], Plain(5)>>,
  \* data follows a short function
  <<Plain(3)>> }

MCHooks == <<"malloc", "realloc">>

Line(name, values) == <<Option(name)>> \o values

Options == {
  Line("s", <<Value("program"), Value("cli")>>), Line("s", <<Value("program")>>),
  Line("d", <<Value("program")>>), Line("d", <<>>),
  Line("a", <<Value("agent")>>), Line("a", <<Value("absent")>>),
  Line("p", <<Value("export"), Value("parameter")>>), Line("p", <<Value("export")>>),
  Line("help", <<>>), <<>> }

MCLines == [1 .. MaxOptions -> Options]

MCFiles == {DefaultAgent, Value("agent")}
=============================================================================
