------------------------------- MODULE Router -------------------------------
(***************************************************************************)
(* internal/router: which adapter a payload goes to.  A payload is what    *)
(* Route looks at: the client's routing_hint and the classification and    *)
(* severity the classifier settled on.                                     *)
(***************************************************************************)
EXTENDS Naturals, Sequences

CONSTANTS
  Adapters,     (* adapter names                                            *)
  NoAdapter,    (* a routing_hint that is nil, empty or no adapter's name   *)
  Classes,      (* conversation.classification                              *)
  Severities    (* conversation.severity_guess                              *)

ASSUME RouterAssumption == NoAdapter \notin Adapters

Payloads == [hint : Adapters \cup {NoAdapter}, class : Classes, severity : Severities]

(* config.Rule; an empty set matches everything. *)
RuleType == [class : SUBSET Classes, severity : SUBSET Severities, to : Adapters]

Matches(want, got) == want = {} \/ got \in want

(* New is fatal if the default is not registered ... *)
NewOK(registry, default) == default \in registry

(* Mutant: New keeps every rule. *)
KeptAll(registry, rules) == DOMAIN rules

(* ... and drops the rules whose target is not; here by their positions. *)
Kept(registry, rules) == {i \in DOMAIN rules : rules[i].to \in registry}

Hits(registry, rules, p) ==
  {i \in Kept(registry, rules) : /\ Matches(rules[i].class, p.class)
                                 /\ Matches(rules[i].severity, p.severity)}

Route(registry, rules, default, p) ==
  LET hits == Hits(registry, rules, p)
  IN  IF p.hint \in registry THEN p.hint
      ELSE IF hits = {} THEN default
      ELSE rules[CHOOSE i \in hits : \A j \in hits : i <= j].to

=============================================================================
