----------------------------- MODULE MCWolProxy -----------------------------
EXTENDS WolProxy
\* WolProxy with a startup command, and LlamaCppWolProxy without.
MCKinds == {[llama |-> FALSE, ssh |-> TRUE], [llama |-> TRUE, ssh |-> FALSE]}
=============================================================================
