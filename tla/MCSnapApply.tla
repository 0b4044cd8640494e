---------------------------- MODULE MCSnapApply ----------------------------
EXTENDS SnapApply

\* A holds both cells and keeps the first; B, of which there is no peer yet, gets the second.
MCBranes == {"A", "B"}
MCCone == [A |-> <<{1, 2}, {1}>>, B |-> <<{2}>>]
MCPresent == {"A"}
=============================================================================
