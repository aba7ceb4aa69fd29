-------------------------------- MODULE MCSh --------------------------------
(* Instance of Sh for TLC: the lines that are typed.                         *)
EXTENDS Sh

\* Every line of up to four tokens, and longer ones: nested pipelines, lists
\* and blocks in pipelines, background commands and redirected blocks.
UpToFour == UNION {[1..n -> Token] : n \in 0..4}

Longer == {
  <<"w", "|", "w", "|", "w">>,
  <<"(", "w", "|", "w", ")", "|", "w">>,
  <<"(", "w", ";", "w", ")", "|", "w">>,
  <<"(", "w", "&", ")", "|", "w", "&">>,
  <<"w", "|", "(", "w", "<", "w", ";", "w", ")">>,
  <<"(", "w", "|", "w", ")", ">", "w", "<", "w">>,
  <<"w", "<", "w", ">", "w", "|", "w", ">", "w", ">>", "w">>,
  <<"(", "w", ";", "w", "&", ";", "w", ")", ">", "w", ";", "w">>,
  <<"(", "w", ")", "w">>, <<"w", "&", "w", ";", "w">>, <<"w", "w", "w", "w", ";">> }

TypedLines == UpToFour \cup Longer
=============================================================================
