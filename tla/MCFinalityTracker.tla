-------------------------- MODULE MCFinalityTracker --------------------------
(* A small instance of FinalityTracker for TLC.                            *)
EXTENDS FinalityTracker

\* One incident is enough for a callback to meet one, and the callbacks in
\* flight are bounded with the counted reorgs.
Bounded == Cardinality({n \in Heights : incidents[n] # "none"}) <= 1
=============================================================================
