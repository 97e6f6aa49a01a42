------------------------------- MODULE SignIn -------------------------------
(***************************************************************************)
(* Email sign-in together with what its tokens are good for: every         *)
(* successful verify mints a token, and the token outlives the code, the   *)
(* mail, a restart of the relay and a change of its configuration.         *)
(***************************************************************************)
EXTENDS EmailCodes, Bearer

CONSTANTS
  Relays,       (* configurations the relay may be running with             *)
  HostTokens    (* tokens the host's application may have signed            *)

VARIABLE tokens   (* the tokens handed out by POST /v1/intake/auth/email/verify *)

signInVars == <<vars, tokens>>

SignInInit == Init /\ tokens = {}

(* The tokens of this step: one for the address whose code was accepted. *)
Minted == {Mint(e, clock) : e \in {x \in Emails : minted'[x] # minted[x]}}

SignInNext == Next /\ tokens' = tokens \cup Minted

SignInSpec == SignInInit /\ [][SignInNext]_signInVars

-----------------------------------------------------------------------------
(* Whoever holds a token the relay minted is that address until it expires *)
(* and nobody from then on, also where SSO shares the secret or the issuer *)
(* and would grant its leeway, and nobody at all once email mode is off.   *)
MintedIdentity ==
  \A t \in tokens, relay \in Relays :
    Identity(relay, t, clock) =
      IF relay.email /\ \A x \in t.exp : clock < x
      THEN EmailUser(t.claims["sub"])
      ELSE Nobody

(* No token of the host changes hands: whoever it stands for at one time,  *)
(* it stands for at every time it is accepted.                             *)
HostIdentity ==
  \A t \in HostTokens, relay \in Relays : \A n, m \in 0..MaxClock :
    LET early == Identity(relay, t, n)
        late == Identity(relay, t, m) IN
    early # Nobody /\ late # Nobody => early = late

(* A token is one identity for its whole life, whatever the relay's        *)
(* configuration: the two verifiers the middleware asks in turn never      *)
(* disagree about it, neither at its expiry nor across the leeway.         *)
OneIdentity == MintedIdentity /\ HostIdentity

=============================================================================
