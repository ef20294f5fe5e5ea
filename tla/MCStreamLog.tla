----------------------------- MODULE MCStreamLog -----------------------------
(* Instances of StreamLog for TLC: a chat stream of two choices with a tool  *)
(* call in pieces, a stream of the Responses API that leaves its function    *)
(* call to the final object, one that ends without its deltas.               *)
EXTENDS StreamLog

Piece(slot, id, p) == [slot |-> slot, id |-> id, arguments |-> <<p>>]

Chat == <<Chunk(<<Delta(0, <<"a">>, <<"t">>, <<>>, Nothing), Delta(1, <<"b">>, <<>>, <<>>, Nothing)>>, Nothing),
          Chunk(<<Delta(1, <<>>, <<>>, <<Piece(1, "c1", "x"), Piece(0, "c0", "y")>>, Nothing)>>, Nothing),
          Noise,
          Chunk(<<Delta(1, <<"d">>, <<>>, <<Piece(1, Nothing, "z")>>, "stop")>>, Nothing),
          Chunk(<<>>, "tokens")>>

Called == [type |-> "function_call", call |-> [id |-> "f", arguments |-> <<"x">>]]
Output(texts, thoughts) ==
    [output |-> <<[type |-> "reasoning", text |-> thoughts], Called, [type |-> "message", text |-> texts]>>,
     status |-> "completed", usage |-> "tokens"]

Responses == <<Thought("t"), Text("a"), Other, Text("b"), Final(Output(<<"a", "b">>, <<"t">>))>>
Silent == <<Noise, Final(Output(<<"a">>, <<>>))>>

AllPieces == {"a", "b", "d", "t", "x", "y", "z", "c0", "c1", "f", "stop", "tokens", "completed"}

AllScripts == {Chat, Responses, Silent}
=============================================================================
