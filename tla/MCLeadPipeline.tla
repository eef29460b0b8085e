---------------------------- MODULE MCLeadPipeline -----------------------------
EXTENDS LeadPipeline, TLC

\* Both sides of every threshold: 0 and 100 are the score's range, 40 and 70
\* the classes'.
EdgeScores == {-1, 0, 39, 40, 69, 70, 100, 101}

Symmetry == Permutations(Requests)
================================================================================
