---------------------------- MODULE MCAssignment ----------------------------
EXTENDS Assignment, TLC

Interchangeable ==
  Permutations(Conversations) \cup Permutations(Agents) \cup Permutations(Teams)
    \cup Permutations(Requests)
=============================================================================
