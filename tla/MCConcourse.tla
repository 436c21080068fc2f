---------------------------- MODULE MCConcourse ----------------------------
\* Two researchers with two PATCH requests between them, two languages and two
\* statuses.
EXTENDS Concourse, TLC

\* Nothing tells two editors, languages or requests apart.
Symmetric == Permutations(Requests) \cup Permutations(Languages) \cup Permutations(Editors)
============================================================================
