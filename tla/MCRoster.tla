------------------------------ MODULE MCRoster ------------------------------
EXTENDS Roster, TLC

OneUse == [l \in Links |-> 1]

\* Handlers, links and the people who are not the founder are interchangeable.
Symmetry ==
  Permutations(Workers) \cup Permutations(Links) \cup Permutations(Persons \ {Founder})

=============================================================================
