--------------------------- MODULE MCCorrelation ---------------------------
(* Small instances of Correlation: two digits, keys of two digits. *)
EXTENDS Correlation, TLC

\* Numbers of one to three digits, two that share a key, one given with a sign
\* and one with a separator; a text that is no number, a code that is none.
MCRequests ==
  {[phone |-> <<1, 1>>, country |-> <<1>>],
   [phone |-> <<0, 1, 1>>, country |-> <<Plus, 0>>],
   [phone |-> <<Plus, 0, 1>>, country |-> <<1>>],
   [phone |-> <<1>>, country |-> <<1>>],
   [phone |-> <<Separator>>, country |-> <<1>>],
   [phone |-> <<1, Separator, 0>>, country |-> <<Plus>>]}

MCConsoleMobiles == {<<>>, <<1, 1>>}

Symmetry == Permutations(CallId) \cup Permutations(Conv)
=============================================================================
