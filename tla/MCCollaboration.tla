-------------------------- MODULE MCCollaboration --------------------------
EXTENDS Collaboration, TLC

CONSTANTS c1, c2, e1

\* The other one types too, without anything that is followed.
MCAuthor == e1 :> c1

=============================================================================
