--------------------------- MODULE MCCommandTree ---------------------------
(* Commands of the repository with their words cut to a few letters:        *)
(*   show port (|<0-16>|all)          show port (<0-16>|all) promiscuous    *)
(*   set nettlp psmem-size (<WORD>|256M)    set nettlp payload-string <LINE>*)
(*   (exit|quit|logout)     exit     shutdown     (set|no|) pager           *)
EXTENDS CommandTree

Show == <<"s", "h", "o">>
Shutdown == <<"s", "h", "u">>
Set == <<"s", "e">>
Port == <<"p">>
All == <<"a", "l">>
Size == <<"p", "s">>
String == <<"p", "a">>
Number == <<"<", "0">>
Word == <<"<", "W">>
Line == <<"<", "L">>
M256 == <<"2", "5">>
Exit == <<"e">>

MCCommands ==
  { [line |-> <<<<Show>>, <<Port>>, <<<<>>, Number, All>>>>, func |-> "show_port"],
    [line |-> <<<<Show>>, <<Port>>, <<Number, All>>, <<Port>>>>, func |-> "show_port_promiscuous"],
    [line |-> <<<<Set>>, <<Size>>, <<Word, M256>>>>, func |-> "set_size"],
    [line |-> <<<<Set>>, <<String>>, <<Line>>>>, func |-> "set_string"],
    [line |-> <<<<Exit, Set>>>>, func |-> "vty_exit"],
    [line |-> <<<<Exit>>>>, func |-> "exit"],
    [line |-> <<<<Shutdown>>>>, func |-> "shutdown"],
    [line |-> <<<<Set, Shutdown, <<>>>>, <<Port>>>>, func |-> "pager"] }

MCTypedWords ==
  { Show, Shutdown, Set, Port, All, Size, String, M256, Exit,
    <<"s", "h">>, <<"a">>, <<"2">>, <<"1">>, <<>> }

MCVariables ==
  [v \in {Number, Word, Line} |->
     CASE v = Number -> [pri |-> 4, values |-> {<<"1">>, <<"2">>, <<>>}]
       [] v = Word -> [pri |-> -1, values |-> MCTypedWords]
       [] v = Line -> [pri |-> 0, values |-> MCTypedWords]]

=============================================================================
