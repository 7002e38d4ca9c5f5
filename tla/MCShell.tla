------------------------------ MODULE MCShell ------------------------------
(* Five operators, so that the keys that depend on one another meet and the *)
(* state spaces of the others add up instead of multiplying.                *)
EXTENDS Shell

MCPrintable == {"b", "f", "[", " ", "/", "#"}

MCDigits == [d \in {"NAWS", "3"} |-> IF d = "NAWS" THEN 1 ELSE 3]

MCCompletions == {<<"f">>, <<"b", " ">>}

Motion == {"C-A", "C-B", "C-E", "C-F", "ESC"}

MCTypists ==
  { [keys |-> Motion \cup {"b", " ", "/", "C-H", "C-D", "DEL", "C-W", "C-K", "C-U", "C-Y"},
     maxline |-> 4, maxcommands |-> 0],
    [keys |-> Motion \cup {"f", " ", "[", "C-L", "C-R", "C-W", "C-Y"},
     maxline |-> 4, maxcommands |-> 0],
    [keys |-> {"b", " ", "#", "C-B", "C-I", "?", "C-J"},
     maxline |-> 3, maxcommands |-> 1],
    [keys |-> {"b", "C-J", "C-M", "C-P", "C-N", "C-U"},
     maxline |-> 2, maxcommands |-> 5],
    [keys |-> {"b", "ESC", "IAC", "SB", "SE", "WILL", "NAWS", "3"},
     maxline |-> 1, maxcommands |-> 0] }

=============================================================================
