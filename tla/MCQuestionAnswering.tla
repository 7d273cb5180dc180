------------------------ MODULE MCQuestionAnswering ------------------------
(***************************************************************************)
(* QuestionAnswering on small instances of its parts.                      *)
(***************************************************************************)
EXTENDS QuestionAnswering, TLC

\* The tools that the model calls in one message, two of them mixing a search with others.
SomeCalls == {<<"search">>, <<"search", "search">>, <<"read">>, <<"read", "read">>, <<"finalize">>,
              <<"next_hop">>, <<"next_hop", "next_hop">>, <<"search", "read">>,
              <<"next_hop", "search">>}

Symmetry == Permutations(Message)
=============================================================================
