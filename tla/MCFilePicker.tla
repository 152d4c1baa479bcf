---------------------------- MODULE MCFilePicker ----------------------------
(* FilePicker with three documents and three files that are not listed: one   *)
(* too deep, one hidden, one of another kind.                                 *)
EXTENDS FilePicker, TLC

CONSTANTS ab, ba, aab, deep, dot, odt

Six == {ab, ba, aab, deep, dot, odt}
Alphabet == {"a", "b", "c"}
Names == ab :> <<"a", "b">> @@ ba :> <<"b", "a">> @@ aab :> <<"a", "c", "b">>
         @@ [f \in {deep, dot, odt} |-> <<"a">>]
Depths == [f \in Six |-> IF f = deep THEN 6 ELSE 5]
OneHidden == {dot}
Documents == Six \ {odt}
Typed == {<<>>, <<"b">>, <<"a", "b">>}
Matches == [t \in Typed |-> IF t = <<"b">> THEN {<<ba, 2>>}
                            ELSE IF t = <<>> THEN {} ELSE {<<ab, 1>>, <<ba, 3>>}]
=============================================================================
