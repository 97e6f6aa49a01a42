------------------------------- MODULE Bearer -------------------------------
(***************************************************************************)
(* The signed tokens a request may carry: what the relay mints for an      *)
(* address (auth/emailjwt), what it accepts of them and of the host's own  *)
(* tokens (auth/sso), and whom the middleware takes the bearer for         *)
(* (auth/middleware.go).  Nothing here keeps state.                        *)
(*                                                                         *)
(* A token is what golang-jwt reads from it: the algorithm of its header,  *)
(* the key that signed it, and its claims.  A date that may be absent is a *)
(* set of at most one time; a claim that is missing, empty or not a string *)
(* is not in the domain of claims.  A configuration of the relay is        *)
(*   [email |-> is email mode on,                                          *)
(*    sso |-> [alg, keys, issuer, audience, userID]]                       *)
(* where keys holds the shared secret (HS256) or the keys of the host's    *)
(* JWKS (RS256), and is empty when SSO is off.                             *)
(***************************************************************************)
EXTENDS Naturals

CONSTANTS
  EmailKey,   (* the secret of email mode                                  *)
  TokenTTL,   (* auth.email token lifetime, in ticks                       *)
  Skew        (* sso.clockSkew, in ticks                                   *)

ASSUME BearerAssumption == TokenTTL \in Nat /\ Skew \in Nat

Issuer == "intake-email"

Mint(e, now) ==
  [alg |-> "HS256", key |-> EmailKey, iss |-> Issuer, aud |-> {},
   claims |-> [sub |-> e], exp |-> {now + TokenTTL}, nbf |-> {}]

(* golang-jwt's check of the dates a token has. *)
Timely(t, now, leeway) ==
  /\ \A x \in t.exp : now < x + leeway
  /\ \A x \in t.nbf : x <= now + leeway

(* emailjwt.Verify: the expiry is required and there is no leeway. *)
EmailVerify(t, now) ==
  /\ t.alg = "HS256"
  /\ t.key = EmailKey
  /\ t.iss = Issuer
  /\ t.exp # {}
  /\ Timely(t, now, 0)
  /\ "sub" \in DOMAIN t.claims

(* Mutant: no defence against an operator who configures the issuer of     *)
(* email mode for SSO.                                                     *)
ValidateAnyIssuer(sso, t) ==
  /\ t.iss = sso.issuer
  /\ sso.audience \in t.aud
  /\ sso.userID \in DOMAIN t.claims

(* The checks the two verifiers share. *)
Validate(sso, t) ==
  /\ t.iss # Issuer
  /\ t.iss = sso.issuer
  /\ sso.audience \in t.aud
  /\ sso.userID \in DOMAIN t.claims

(* HS256Verifier.Verify and RS256Verifier.Verify. *)
SSOVerify(sso, t, now) ==
  /\ t.alg = sso.alg
  /\ t.key \in sso.keys
  /\ Timely(t, now, Skew)
  /\ Validate(sso, t)

EmailUser(e) == [mode |-> "email", user |-> e]
SSOUser(u) == [mode |-> "sso", user |-> u]

(* 401 unauthorized *)
Nobody == [mode |-> "none"]

(* The middleware asks the verifiers in this order. *)
Identity(relay, t, now) ==
  IF relay.email /\ EmailVerify(t, now) THEN EmailUser(t.claims["sub"])
  ELSE IF SSOVerify(relay.sso, t, now) THEN SSOUser(t.claims[relay.sso.userID])
  ELSE Nobody

=============================================================================
