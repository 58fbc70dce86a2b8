---------------------------- MODULE MCRalyParse ----------------------------
(* What is typed: an expression, a type, a file of declarations, a body.     *)
EXTENDS RalyParse

Names1 == {"a", "left", "load", "roles", "clean"}

TopicOpenings ==
    [expr |-> <<"let", "a", "=">>,
     type |-> <<"fn", "a", "(", "a", ":">>,
     item |-> <<>>,
     body |-> <<"fn", "a", "(", ")", "{">>]

Operators == {<<"|>">>, <<"+">>, <<"*">>, <<"==">>, <<"-">>}
SomeItem == <<"type", "a", "=", "a">>

TopicPieces ==
    [expr |-> {<<o[1], "a">> : o \in Operators}
                \cup {<<"a">>, <<"int">>, <<"-">>, <<"|>", "cleanup">>, <<"bundle">>,
                      <<".", "left">>, <<"(">>, <<")">>, <<",">>, <<"if">>, <<"{", "}">>,
                      <<"for">>, SomeItem},
     type |-> {<<"a">>, <<"[">>, <<"]">>, <<"(">>, <<")">>, <<",">>, <<";">>, <<"->">>,
               <<"load", "int">>, <<"roles", "{">>, <<"clean">>, <<"a", ",", "a">>, <<"}">>,
               <<"{", "}">>, SomeItem},
     item |-> {<<"a">>, <<"int">>, <<"space", "a">>, <<"=">>, <<"[", "int", "]">>, <<"role">>,
               <<"in">>, <<",">>, <<"fn">>, <<"(", "a", ")">>, <<"{", "}">>, <<")">>, <<"(">>,
               <<"struct">>, <<"import", "a", "::">>, <<"where">>, SomeItem},
     body |-> {<<"let">>, <<"a">>, <<"=">>, <<"return">>, <<";">>, <<"}">>, <<"{">>, <<"if", "a">>,
               <<"else">>, <<"fn", "a", "(", ")">>, <<"+">>, <<")">>, <<"unbind", "(">>, SomeItem}]
=============================================================================
