---------------------------- MODULE MC_SplitSQL ----------------------------
(* splitSQL on every script of up to four of the pieces below, with and      *)
(* without a semicolon at the end: every way to open and close a comment or  *)
(* quote, halves of them, and tags with a letter of one and of two bytes.    *)
EXTENDS SplitSQL

AllRunes == Marks \cup Word

Pieces ==
  {<<>>, <<"sq">>, <<"dq">>, <<"-">>, <<"-", "-">>, <<"/", "*">>, <<"*", "/">>, <<"*">>,
   <<"nl">>, <<"$">>, <<"$", "$">>, <<"$", "x", "$">>, <<"$", "w", "$">>, <<"$", "1", "$">>,
   <<"semi">>, <<"x">>}

Scripts == {a \o b \o c \o d \o e : a, b, c, d \in Pieces, e \in {<<>>, <<"semi">>}}
=============================================================================
