----------------------------- MODULE TurnPolicy -----------------------------
(***************************************************************************)
(* What the relay promises about the turns it lets through to the LLM,     *)
(* stated without its data structures: sessions vanish the moment they     *)
(* expire, a day's spend is forgotten the moment the day ends, and no map  *)
(* entry is left over from either.  TurnHandler shows that the lazy        *)
(* eviction of the session store and the lazy reset of the budget counters *)
(* cannot be told from this.                                               *)
(***************************************************************************)
EXTENDS GoBasics

CONSTANTS
  Sessions, Tenants, Requests,
  MaxTurns, MaxInputTokens, SessionTTL,
  MaxDailyIn, MaxDailyOut,
  MaxTokens,                  (* the output estimate of every turn      *)
  Estimates,                  (* the input estimates a turn may have    *)
  MaxActualIn, MaxActualOut   (* what one turn may be charged           *)

VARIABLES
  clock,      (* time                                                   *)
  issued,     (* every session id handed out                            *)
  book,       (* unexpired session -> what it has used                  *)
  spent,      (* tenant -> tokens charged to it today                   *)
  admitted    (* request past the session gate -> its progress          *)

policyVars == <<clock, issued, book, spent, admitted>>

Nothing == [in |-> 0, out |-> 0]

Within(total, cap) == cap = 0 \/ total <= cap

Unexpired(c, b) ==
  Restrict(b, {s \in DOMAIN b : SessionTTL = 0 \/ c - b[s].createdAt < SessionTTL})

PolicyInit ==
  /\ clock = 0
  /\ issued = {}
  /\ book = EmptyMap
  /\ spent = [t \in Tenants |-> Nothing]
  /\ admitted = EmptyMap

Elapse ==
  /\ clock' = clock + 1
  /\ book' = Unexpired(clock', book)
  /\ UNCHANGED <<issued, spent, admitted>>

DayEnds ==
  /\ spent' = [t \in Tenants |-> Nothing]
  /\ UNCHANGED <<clock, issued, book, admitted>>

Open(s) ==
  /\ s \notin issued
  /\ issued' = issued \cup {s}
  /\ book' = Put(book, s, [createdAt |-> clock, turns |-> 0, cumInputTokens |-> 0])
  /\ UNCHANGED <<clock, spent, admitted>>

(* A turn passes the session gate only for an unexpired session with both  *)
(* caps unreached.                                                         *)
Pass(r, s, t, e) ==
  /\ r \notin DOMAIN admitted
  /\ s \in DOMAIN book
  /\ MaxTurns > 0 => book[s].turns < MaxTurns
  /\ MaxInputTokens > 0 => book[s].cumInputTokens < MaxInputTokens
  /\ admitted' = Put(admitted, r, [stage |-> "passed", session |-> s, tenant |-> t,
                                   estIn |-> e, in |-> 0])
  /\ UNCHANGED <<clock, issued, book, spent>>

(* It reaches the LLM only if what today's turns used plus its own         *)
(* estimate stays within the daily caps.                                   *)
Grant(r) ==
  LET a == admitted[r] IN
  /\ r \in DOMAIN admitted /\ a.stage = "passed"
  /\ Within(spent[a.tenant].in + a.estIn, MaxDailyIn)
  /\ Within(spent[a.tenant].out + MaxTokens, MaxDailyOut)
  /\ admitted' = [admitted EXCEPT ![r].stage = "granted"]
  /\ UNCHANGED <<clock, issued, book, spent>>

(* Only a granted turn is charged, once, to the tenant it was granted for. *)
Charge(r, in, out) ==
  LET a == admitted[r] IN
  /\ r \in DOMAIN admitted /\ a.stage = "granted"
  /\ spent' = [spent EXCEPT ![a.tenant] = [in |-> @.in + in, out |-> @.out + out]]
  /\ admitted' = [admitted EXCEPT ![r].stage = "charged", ![r].in = in]
  /\ UNCHANGED <<clock, issued, book>>

(* Every charged turn is counted, once, against its session if that still  *)
(* lives.                                                                  *)
Settle(r) ==
  LET a == admitted[r] IN
  /\ r \in DOMAIN admitted /\ a.stage = "charged"
  /\ book' = [s \in DOMAIN book |->
                IF s = a.session
                THEN [book[s] EXCEPT !.turns = @ + 1, !.cumInputTokens = @ + a.in]
                ELSE book[s]]
  /\ admitted' = Delete(admitted, r)
  /\ UNCHANGED <<clock, issued, spent>>

(* A turn refused by the budget, failed or abandoned costs nothing; one    *)
(* already charged is not abandoned.                                       *)
Abandon(r) ==
  /\ r \in DOMAIN admitted /\ admitted[r].stage # "charged"
  /\ admitted' = Delete(admitted, r)
  /\ UNCHANGED <<clock, issued, book, spent>>

Restart ==
  /\ book' = EmptyMap
  /\ spent' = [t \in Tenants |-> Nothing]
  /\ admitted' = EmptyMap
  /\ UNCHANGED <<clock, issued>>

PolicyNext ==
  \/ Elapse
  \/ DayEnds
  \/ Restart
  \/ \E s \in Sessions : Open(s)
  \/ \E r \in Requests :
       \/ \E s \in Sessions, t \in Tenants, e \in Estimates : Pass(r, s, t, e)
       \/ Grant(r)
       \/ \E in \in 0..MaxActualIn, out \in 0..MaxActualOut : Charge(r, in, out)
       \/ Settle(r)
       \/ Abandon(r)

PolicySpec == PolicyInit /\ [][PolicyNext]_policyVars

=============================================================================
