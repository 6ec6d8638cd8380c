------------------------------ MODULE MCStartup ------------------------------
(* Command lines for TLC to check Startup with.  int32 and uint16 have two  *)
(* bits, int64 and uint64 have four.                                        *)
EXTENDS Startup

MCNumeral ==
  [s \in {"0", "1", "2", "6", "18", "-2", "-14"} |->
     CASE s = "0" -> 0 [] s = "1" -> 1 [] s = "2" -> 2 [] s = "6" -> 6
       [] s = "18" -> 18 [] s = "-2" -> -2 [] s = "-14" -> -14]

Flag(name, value) == Text(2, <<name>>, TRUE, value)
Spaced(text) == [text EXCEPT !.blanks = TRUE]

Verbosities == {Flag("v", <<n>>) : n \in {"1", "2", "-2"}} \union {Flag("v", <<>>)}
Others ==
  {Flag("v", <<"1", "x">>), Text(1, <<"v">>, TRUE, <<"1">>), Spaced(Flag("v", <<" ", "1">>)),
   Text(2, <<"help">>, FALSE, <<>>),
   Flag("port", <<"2">>), Flag("port", <<"0">>), Flag("port", <<"6">>),
   Flag("port", <<"18">>), Flag("port", <<"-14">>), Flag("port", <<" ", "1">>),
   Text(2, <<"colour">>, FALSE, <<>>), Flag("colour", <<"f">>),
   kSwitchTerminator, Text(1, <<>>, FALSE, <<>>), Text(2, <<>>, TRUE, <<>>),
   Word(<<"a">>), Word(<<>>), Spaced(Word(<<>>)), Spaced(Word(<<"a">>)),
   Flag("enable_features", <<"A", ",", " ", "B", ",">>),
   Flag("disable_features", <<"B">>), Flag("disable_features", <<"A", ",", " ">>),
   Flag("disable_features", <<"A", ",", " ", ",", "B">>),
   Flag("v", <<"1", " ">>), Text(2, <<"help", " ">>, FALSE, <<>>),
   Text(2, <<"s", " ">>, TRUE, <<" ">>), Text(2, <<" ">>, FALSE, <<>>),
   Word(<<"a", " ">>)}
Mixed == {Flag("v", <<"1">>), Flag("v", <<"-2">>),
          kSwitchTerminator, Word(<<"a">>), Text(1, <<"s">>, TRUE, <<"1">>)}
Pairs ==
  Mixed \union
  {Flag("v", <<"2">>), Text(2, <<"help">>, FALSE, <<>>), Flag("port", <<"2">>),
   Flag("colour", <<"f">>), Flag("enable_features", <<"A", ",", "B">>),
   Flag("disable_features", <<"B">>)}

MCCommandLines ==
  {<<>>} \union {<<a>> : a \in Verbosities \union Others}
  \union {<<a, b>> : a, b \in Pairs} \union {<<a, b, c>> : a, b, c \in Mixed}

MCSwitches ==
  {Switch(0, <<"disable_features">>, <<"A">>),
   Switch(2, <<"enable_features">>, <<"B">>), Switch(1, <<"s">>, <<>>),
   Switch(0, <<>>, <<>>), Switch(0, <<"s">>, <<"1", " ">>)}
MCArguments == {kSwitchTerminator, Word(<<"a", " ">>), Text(2, <<"s">>, FALSE, <<>>), Word(<<"a">>)}
MCFeatures == {<<"A">>, <<"B">>}
MCEnabledByDefault == {<<"A">>}
=============================================================================
