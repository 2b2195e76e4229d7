------------------------------- MODULE MCNames -------------------------------
(* Names on a small instance: names of at most two characters. *)
EXTENDS NamesProps

CONSTANTS n1, b1

MCConns == {n1, b1}
MCDoor == {b1}
MCLower == {"a", "b", "1"}
MCUpper == {"A"}
MCOthers == {"_"}
MCLowercase == [c \in MCUpper |-> "a"]
MCBrowser == <<"b">>
MCKinds == {<<"a">>, MCBrowser}
MCLocal == <<"1", "1">>
MCHostnames == {<<>>, <<"A", "_">>, <<"b", "-", "a">>}
MCTexts == {<<>>, <<"-">>, <<"a">>, <<"b">>, <<"A">>, <<"a", "_">>, <<"b", "-">>,
            <<"a", "b", "1">>}
MCProposals ==
    (({<<"a">>, <<"A">>, MCBrowser} \X MCTexts)
        \cup (MCKinds \X {<<>>, <<"b">>} \X {<<"a">>, <<"b">>, <<"-">>}))
    \cup {<<<<>>>>, <<<<"b">>>>, <<<<"b">>, <<>>, <<"b">>, <<"a">>>>}
=============================================================================
