---------------------------- MODULE OneTimeCodes ----------------------------
(***************************************************************************)
(* What the email sign-in promises, stated without its data structures: an *)
(* address has at most one code in force, for CodeTTL at most, and that    *)
(* code buys one token.                                                    *)
(***************************************************************************)
EXTENDS GoBasics

CONSTANTS Emails, Codes, CodeTTL

VARIABLES
  clock,     (* time                                  *)
  inForce,   (* address -> the code that signs it in  *)
  minted     (* address -> tokens minted for it       *)

codeVars == <<clock, inForce, minted>>

CodesInit ==
  /\ clock = 0
  /\ inForce = EmptyMap
  /\ minted = [e \in Emails |-> 0]

(* A code ends when it is older than CodeTTL, whoever looks. *)
Elapse ==
  /\ clock' = clock + 1
  /\ inForce' = Restrict(inForce, {e \in DOMAIN inForce : clock' - inForce[e].issuedAt <= CodeTTL})
  /\ UNCHANGED minted

(* A new code replaces the one in force. *)
NewCode(e, c) ==
  /\ inForce' = Put(inForce, e, [code |-> c, issuedAt |-> clock])
  /\ UNCHANGED <<clock, minted>>

Redeem(e) ==
  /\ e \in DOMAIN inForce
  /\ inForce' = Delete(inForce, e)
  /\ minted' = [minted EXCEPT ![e] = @ + 1]
  /\ UNCHANGED clock

Forget ==
  /\ inForce' = EmptyMap
  /\ UNCHANGED <<clock, minted>>

CodesNext ==
  \/ Elapse
  \/ Forget
  \/ \E e \in Emails : Redeem(e) \/ \E c \in Codes : NewCode(e, c)

CodesSpec == CodesInit /\ [][CodesNext]_codeVars

=============================================================================
