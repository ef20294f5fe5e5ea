------------------------------ MODULE MCReaders ------------------------------
(* Instances of Readers for TLC: forms of up to two parts, keys for URLs that *)
(* begin like each other, endpoints of two URLs with and without routes.      *)
EXTENDS Readers

Blocks == {"Model", "Stream", "Nameless", "File"}

Says == [h \in Blocks |->
    CASE h = "Model" -> [name |-> "model", file |-> FALSE]
      [] h = "Stream" -> [name |-> "stream", file |-> FALSE]
      [] h = "Nameless" -> [name |-> Nothing, file |-> FALSE]
      [] h = "File" -> [name |-> "model", file |-> TRUE]]

AllContents ==
    {<<>>, <<NewLine>>, Blank, <<Dashes>>, <<"m">>, <<"true">>, <<"m", NewLine, NewLine, Dashes>>,
     <<"Model", NewLine, NewLine, "m">>}

\* h, h1, h/a, h/ab, h/a/b, with and without slashes at the end.
AllUrls ==
    {<<"h">>, <<"h", "/">>, <<"h", "1">>, <<"h", "/", "a">>, <<"h", "/", "a", "b">>,
     <<"h", "/", "a", "/", "b">>, <<"h", "/", "a", "/">>, <<"h", "1", "/", "a">>}

Routed(m, R) == [x \in {m} |-> R]

AllEndpoints ==
    [url : {"u", "v"}, source : {"port", "static"}, id : {Nothing}, models : {{"m"}, {"n"}}, paths : {<<>>}]
    \cup [url : {"u"}, source : {"docker", "static"}, id : {"x"}, models : {{"m", "n"}},
         paths : {Routed("m", {<<"x">>}), Routed("m", {<<"x", "y">>}), Routed("n", {<<"x">>})}]
=============================================================================
