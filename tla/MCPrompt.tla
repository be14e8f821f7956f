------------------------------ MODULE MCPrompt ------------------------------
(***************************************************************************)
(* Lines of up to three pieces: statements, parts of them, quotes, spaces. *)
(***************************************************************************)
EXTENDS Prompt

Pieces == {<<"sp">>, <<";">>, <<"'">>, <<"dq">>, <<"word">>, <<"word", ";">>, <<"begin", ";">>,
           <<"commit", ";">>, <<"rollback", ";">>}

MCLines ==
    {<<>>, <<"sp", "quit">>} \cup Pieces
    \cup {p \o q : p, q \in Pieces} \cup {p \o q \o r : p, q, r \in Pieces}
=============================================================================
