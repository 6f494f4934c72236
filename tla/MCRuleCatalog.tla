--------------------------- MODULE MCRuleCatalog ---------------------------
EXTENDS RuleCatalog, TLC

\* Threads and bodies are interchangeable, and only safety is checked.
Symmetric == Permutations(Thread) \cup Permutations(Body)
============================================================================
