---------------------------- MODULE MCLoadPolls ----------------------------
(* Two hives: one a member of the other, or each a member of the other. *)
EXTENDS LoadPolls

CONSTANTS a, b, s, t

Chain == {<<a, b>>, <<b, s>>}
Mutual == {<<a, b>>, <<b, a>>, <<a, s>>, <<b, t>>}
AllButFirst == Mutual \ {<<a, b>>}

\* A vLLM with and without load tracking, one that hides its metrics, another
\* server, and one that serves several models.
Zoo == {[metrics |-> TRUE, load |-> "tracked", alone |-> TRUE],
        [metrics |-> TRUE, load |-> "zero", alone |-> TRUE],
        [metrics |-> FALSE, load |-> "zero", alone |-> TRUE],
        [metrics |-> FALSE, load |-> "none", alone |-> TRUE],
        [metrics |-> FALSE, load |-> "tracked", alone |-> FALSE]}
Plain == {[metrics |-> TRUE, load |-> "none", alone |-> FALSE]}
=============================================================================
