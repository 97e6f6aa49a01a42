---------------------------- MODULE MCEmailCodes ----------------------------
EXTENDS SignIn, TLC

(* Requests, addresses and codes are interchangeable; no liveness is checked. *)
Symmetry == Permutations(Requests) \cup Permutations(Emails) \cup Permutations(Codes)

SSO(alg, keys, issuer) ==
  [alg |-> alg, keys |-> keys, issuer |-> issuer, audience |-> "relay", userID |-> "sub"]

(* SSO off, HS256 with the secret of email mode, RS256; and the operator   *)
(* who gives SSO the issuer of email mode.                                 *)
MCRelays ==
  [email : BOOLEAN,
   sso : {SSO("HS256", {}, "host"), SSO("RS256", {"host"}, "host")}
           \cup {SSO("HS256", {"secret"}, i) : i \in {"host", "intake-email"}}]

MCHostTokens ==
  [alg : {"HS256", "RS256"}, key : {"secret", "host"}, iss : {"host", "intake-email"},
   aud : {{}, {"relay", "other"}},
   claims : [{"sub"} -> Emails] \cup [{"name"} -> Emails],
   exp : {{}, {2}}, nbf : {{}, {1}}]

=============================================================================
