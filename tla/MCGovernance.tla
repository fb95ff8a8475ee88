----------------------------- MODULE MCGovernance -----------------------------
(* Values of the constants of PolicyGovernance for TLC.                    *)
EXTENDS PolicyGovernance

CONSTANTS c1, c2, c3

\* Columns in two steps from each other, by keys of opposite directions.
TwoPairs == {<<c1, c2>>, <<c3, c2>>}

SomeHandlings == {<<Masking, FALSE>>, <<Tokenization, TRUE>>}
=============================================================================
