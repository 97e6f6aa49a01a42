----------------------------- MODULE MCLicense -----------------------------
EXTENDS License, TLC

(* Relays are interchangeable; no liveness is checked. *)
Symmetry == Permutations(Relays)

Anything == {}

MCRules ==
  << [class |-> {"bug"}, severity |-> Anything, to |-> "linear"],
     [class |-> Anything, severity |-> {"high"}, to |-> "zendesk"],
     [class |-> {"bug"}, severity |-> Anything, to |-> "webhook"] >>

MCRulesNone == << >>

(* One license that names an adapter and one that grants them all. *)
MCLicenses ==
  { [adapters |-> {"linear"}, hosted |-> FALSE, expires |-> 2],
    [adapters |-> {}, hosted |-> TRUE, expires |-> 1] }

=============================================================================
