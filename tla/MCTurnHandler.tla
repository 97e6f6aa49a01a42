--------------------------- MODULE MCTurnHandler ----------------------------
EXTENDS TurnHandler, TLC

(* Requests and session ids are interchangeable; no liveness is checked. *)
Symmetry == Permutations(Requests) \cup Permutations(Sessions)

=============================================================================
