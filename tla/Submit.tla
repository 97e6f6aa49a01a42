------------------------------- MODULE Submit -------------------------------
(***************************************************************************)
(* POST /submit: the handler (server/submit.go) with its classification    *)
(* (classify/classify.go), the payload it builds and validates, and the    *)
(* Create of the five adapters against the downstream systems.             *)
(*                                                                         *)
(* A submission is known by its submission.id, which is fresh for every    *)
(* request: a user's second try is another submission.  A downstream call  *)
(* is sent, then carried out or declined, then answered; a call that is    *)
(* lost stays on the wire.  The relay may give up on any call (a client    *)
(* timeout, a cut connection, its own client's leaving), and a call it     *)
(* gave up on may still be carried out, however late.                      *)
(***************************************************************************)
EXTENDS Router, Attachments

CONSTANTS
  Submissions,     (* submission ids                                        *)
  Registry,        (* the adapters main registered                          *)
  Rules,           (* routing.rules                                         *)
  Default,         (* routing.default_adapter                               *)
  Emails,          (* e-mail addresses of signed-in users                   *)
  NoEmail,         (* an anonymous user                                     *)
  Requests,        (* bound of the model: what each submission may carry    *)
  MaxAttempts      (* adapters.webhook.retry.max_attempts                   *)

(* email is the session's, hint the routing_hint, invalid whether the       *)
(* schema will reject the payload.                                         *)
RequestType ==
  [email : Emails \cup {NoEmail}, atts : Seq(AttachmentType),
   hint : Adapters \cup {NoAdapter}, invalid : BOOLEAN]

ASSUME SubmitAssumption ==
  /\ Adapters = {"webhook", "chatwoot", "fider", "zendesk", "linear"}
  /\ Registry \subseteq Adapters
  /\ Rules \in Seq(RuleType)
  /\ NewOK(Registry, Default)
  /\ "other" \in Classes
  /\ "unknown" \in Severities
  /\ NoEmail \notin Emails
  /\ Requests \in [Submissions -> SUBSET RequestType]
  /\ MaxAttempts \in Nat \ {0}

VARIABLES
  sub,    (* the submissions                                                *)
  wire,   (* calls on their way to a downstream system                      *)
  desk    (* calls a downstream system has carried out                      *)

vars == <<sub, wire, desk>>

Kinds == {"ticket", "contact", "conversation", "message", "upload"}

(* n numbers a submission's calls; part is the attachment of an upload;    *)
(* refs are the uploads a call names, by the calls that made them.         *)
CallType == [id : Submissions, kind : Kinds, n : Nat \ {0}, part : Nat \ {0}, refs : SUBSET Nat]

(* What a call comes back with: "odd" is a 2xx without the fields that     *)
(* Create reads, "hollow" a 2xx of a system that did nothing (a redirect   *)
(* net/http followed with GET, a GraphQL error), "422" a 4xx for a contact *)
(* that exists, "none" no response.                                        *)
Replies == {"ok", "odd", "hollow", "3xx", "4xx", "422", "5xx", "none"}

PCs == {"idle", "classify", "reclassify", "build", "await", "backoff", "done"}

(* The statuses of the response, 0 while there is none                     *)
Answers == {0, 200, 400, 401, 413, 415, 502}

(* reply is that to the latest call; gone: the client has left.            *)
SubmissionType ==
  [pc : PCs, req : RequestType, class : Classes, severity : Severities,
   adapter : Adapters \cup {NoAdapter},
   step : Nat \ {0}, attempt : Nat, n : Nat, refs : SUBSET Nat,
   reply : Replies \cup {"waiting"}, gone : BOOLEAN,
   answer : Answers]

TypeOK ==
  /\ sub \in [Submissions -> SubmissionType]
  /\ wire \subseteq CallType
  /\ desk \subseteq CallType

(* One request for each submission *)
Choices == {req \in [Submissions -> UNION {Requests[r] : r \in Submissions}] :
              \A r \in Submissions : req[r] \in Requests[r]}

(* class and severity begin as safeDefaults. *)
Idle(req) ==
  [pc |-> "idle", req |-> req, class |-> "other", severity |-> "unknown",
   adapter |-> NoAdapter, step |-> 1, attempt |-> 1, n |-> 0, refs |-> {},
   reply |-> "waiting", gone |-> FALSE, answer |-> 0]

Init ==
  /\ \E req \in Choices : sub = [r \in Submissions |-> Idle(req[r])]
  /\ wire = {}
  /\ desk = {}

Become(r, s) == sub' = [sub EXCEPT ![r] = s]

(* The response; nobody reads it if the client has left. *)
Answered(s, status) == [s EXCEPT !.pc = "done", !.answer = status]

-----------------------------------------------------------------------------
(* The handler up to the adapter *)

Unpublished(s) == s.req.atts # <<>> /\ PublishedMIMETypes = {}

Arrive(r) ==
  /\ sub[r].pc = "idle" /\ ~Unpublished(sub[r])
  /\ Become(r, [sub[r] EXCEPT !.pc = "classify"])
  /\ UNCHANGED <<wire, desk>>

(* A body over the cap, malformed JSON, no session, or attachments where   *)
(* none are published.                                                     *)
ArriveRefused(r) ==
  /\ sub[r].pc = "idle"
  /\ \E status \in IF Unpublished(sub[r]) THEN {400, 413} ELSE {400, 401, 413} :
       Become(r, Answered(sub[r], status))
  /\ UNCHANGED <<wire, desk>>

(* One of the two attempts yields a result that validateResult accepts. *)
Classified(r) ==
  /\ sub[r].pc \in {"classify", "reclassify"}
  /\ \E c \in Classes, v \in Severities :
       Become(r, [sub[r] EXCEPT !.pc = "build", !.class = c, !.severity = v])
  /\ UNCHANGED <<wire, desk>>

(* Mutant: Classify's error is the submission's. *)
ClassifyFailsFatal(r) ==
  /\ sub[r].pc \in {"classify", "reclassify"}
  /\ Become(r, IF sub[r].pc = "classify" THEN [sub[r] EXCEPT !.pc = "reclassify"]
               ELSE Answered(sub[r], 502))
  /\ UNCHANGED <<wire, desk>>

(* The second failure leaves safeDefaults, which Idle has set already. *)
ClassifyFails(r) ==
  /\ sub[r].pc \in {"classify", "reclassify"}
  /\ Become(r, [sub[r] EXCEPT !.pc = IF @ = "classify" THEN "reclassify" ELSE "build"])
  /\ UNCHANGED <<wire, desk>>

-----------------------------------------------------------------------------
(* Create: each adapter makes its calls one after the other *)

UploadsFirst(s) == s.adapter \in {"zendesk", "linear"}

Steps(s) ==
  IF UploadsFirst(s) THEN Len(s.req.atts) + 1
  ELSE IF s.adapter = "chatwoot" THEN IF s.req.atts = <<>> THEN 2 ELSE 3
  ELSE 1

Kind(s) ==
  IF UploadsFirst(s) THEN IF s.step <= Len(s.req.atts) THEN "upload" ELSE "ticket"
  ELSE IF s.adapter = "chatwoot" THEN <<"contact", "conversation", "message">>[s.step]
  ELSE "ticket"

(* Zendesk's later uploads name the token of the first; Linear's name none.*)
Call(r, s) ==
  [id |-> r, kind |-> Kind(s), n |-> s.n, part |-> s.step,
   refs |-> IF Kind(s) = "upload" /\ s.adapter = "linear" THEN {} ELSE s.refs]

(* Mutant: the request is not made with the handler's context. *)
SendDetached(r, s) ==
  LET t == [s EXCEPT !.pc = "await", !.reply = "waiting", !.n = @ + 1]
  IN  Become(r, t) /\ wire' = wire \cup {Call(r, t)}

(* net/http does not send a request whose context is cancelled, and no     *)
(* adapter goes on without it.                                             *)
Send(r, s) ==
  LET t == [s EXCEPT !.pc = "await", !.reply = "waiting", !.n = @ + 1]
  IN  IF s.gone THEN Become(r, Answered(s, 502)) /\ UNCHANGED wire
      ELSE Become(r, t) /\ wire' = wire \cup {Call(r, t)}

(* Build, ValidateAll, Route and the first step of Create *)
Dispatch(r) ==
  LET s    == sub[r]
      code == ValidateAll(s.req.atts)
      to   == Route(Registry, Rules, Default,
                    [hint |-> s.req.hint, class |-> s.class, severity |-> s.severity])
  IN  /\ s.pc = "build"
      /\ IF s.req.invalid THEN Become(r, Answered(s, 400)) /\ UNCHANGED wire
         ELSE IF code # "ok" THEN Become(r, Answered(s, StatusOf(code))) /\ UNCHANGED wire
         ELSE Send(r, [s EXCEPT !.adapter = to])
      /\ UNCHANGED desk

(* Fider's create tolerates any body of a 2xx. *)
AnyBody(reply) == reply \in {"ok", "odd", "hollow"}

(* webhook.go takes any status below 400. *)
WebhookTakes(reply) == AnyBody(reply) \/ reply = "3xx"

(* Mutant: the adapters do not look for the fields they need. *)
SatisfiesUnparsed(s, reply) ==
  \/ reply \in {"ok", "odd", "hollow"}
  \/ reply = "3xx" /\ s.adapter = "webhook"

(* Chatwoot's contact and conversation, Zendesk and Linear need the ids of *)
(* the response; Chatwoot's message needs its status only.                 *)
Satisfies(s, reply) ==
  \/ reply = "ok"
  \/ s.adapter = "webhook" /\ WebhookTakes(reply)
  \/ (s.adapter = "fider" \/ Kind(s) = "message") /\ AnyBody(reply)

(* Mutant: one attempt too many. *)
RetriesOneMore(s, reply) ==
  s.adapter = "webhook" /\ reply \in {"5xx", "none"} /\ s.attempt <= MaxAttempts

Retries(s, reply) ==
  s.adapter = "webhook" /\ reply \in {"5xx", "none"} /\ s.attempt < MaxAttempts

(* The token or url of the upload that call n made, if it named refs *)
Token(refs, n) == IF refs = {} THEN n ELSE CHOOSE t \in refs : TRUE

(* Zendesk keeps one token, Linear collects the urls. *)
ZendeskToken(s) == {Token(s.refs, s.n)}
LinearLinks(s) == s.refs \cup {s.n}

(* Mutant: every upload gets a token of its own, the ticket the last. *)
RefsUnchained(s, reply) ==
  IF Kind(s) # "upload" \/ reply # "ok" THEN s.refs
  ELSE {s.n}

(* What the next call names of the uploads so far *)
Refs(s, reply) ==
  IF Kind(s) # "upload" \/ reply # "ok" THEN s.refs
  ELSE IF s.adapter = "zendesk" THEN ZendeskToken(s)
  ELSE LinearLinks(s)

Proceed(r, s, reply) ==
  \/ /\ Satisfies(s, reply) /\ s.step = Steps(s)
     /\ Become(r, Answered(s, 200))
     /\ UNCHANGED wire
  \/ /\ Satisfies(s, reply) /\ s.step < Steps(s)
     /\ Send(r, [s EXCEPT !.step = @ + 1, !.refs = Refs(s, reply)])
  \/ /\ ~Satisfies(s, reply) /\ Retries(s, reply)
     /\ Become(r, [s EXCEPT !.pc = "backoff"])
     /\ UNCHANGED wire
  \/ /\ ~Satisfies(s, reply) /\ ~Retries(s, reply)
     /\ Become(r, Answered(s, 502))
     /\ UNCHANGED wire

(* The response arrives. *)
Returns(r) ==
  /\ sub[r].pc = "await" /\ sub[r].reply # "waiting"
  /\ Proceed(r, sub[r], sub[r].reply)
  /\ UNCHANGED desk

(* Mutant: an http.Client without a timeout. *)
GiveUpWhenGone(r) ==
  /\ sub[r].pc = "await" /\ sub[r].gone
  /\ Proceed(r, [sub[r] EXCEPT !.reply = "none"], "none")
  /\ UNCHANGED desk

(* A network error, the client's timeout or the cancelled context, before  *)
(* the response is read.                                                   *)
GiveUp(r) ==
  /\ sub[r].pc = "await"
  /\ Proceed(r, [sub[r] EXCEPT !.reply = "none"], "none")
  /\ UNCHANGED desk

(* The backoff is over, or the context: Send tells them apart. *)
Retry(r) ==
  /\ sub[r].pc = "backoff"
  /\ Send(r, [sub[r] EXCEPT !.attempt = @ + 1])
  /\ UNCHANGED desk

-----------------------------------------------------------------------------
(* The surroundings *)

(* Chatwoot keeps one contact per e-mail address. *)
Taken(c) ==
  /\ c.kind = "contact"
  /\ sub[c.id].req.email # NoEmail
  /\ \E d \in desk : d.kind = "contact" /\ sub[d.id].req.email = sub[c.id].req.email

Waits(c) == sub[c.id].pc = "await" /\ sub[c.id].n = c.n /\ sub[c.id].reply = "waiting"

(* The relay is answered if it still waits. *)
Respond(c, reply) ==
  sub' = IF Waits(c) THEN [sub EXCEPT ![c.id] = [@ EXCEPT !.reply = reply]] ELSE sub

(* A downstream system carries a call out; it may still answer 5xx. *)
Process(c, reply) ==
  /\ c \in wire /\ ~Taken(c)
  /\ reply \in {"ok", "odd", "5xx"}
  /\ desk' = desk \cup {c}
  /\ wire' = wire \ {c}
  /\ Respond(c, reply)

(* It does not, and says so. *)
Decline(c, reply) ==
  /\ c \in wire /\ Waits(c)
  /\ reply \in IF Taken(c) THEN {"422"} ELSE {"hollow", "3xx", "4xx", "5xx"}
  /\ wire' = wire \ {c}
  /\ Respond(c, reply)
  /\ UNCHANGED desk

(* The client closes the connection. *)
Leave(r) ==
  /\ sub[r].pc \notin {"idle", "done"} /\ ~sub[r].gone
  /\ Become(r, [sub[r] EXCEPT !.gone = TRUE])
  /\ UNCHANGED <<wire, desk>>

(* The relay stops: whatever was in progress is never answered. *)
Stop ==
  /\ \E r \in Submissions : sub[r].pc \notin {"idle", "done"}
  /\ sub' = [r \in Submissions |->
               IF sub[r].pc = "idle" THEN sub[r] ELSE [sub[r] EXCEPT !.pc = "done"]]
  /\ UNCHANGED <<wire, desk>>

Handler(r) ==
  \/ Arrive(r) \/ ArriveRefused(r) \/ Classified(r) \/ ClassifyFails(r)
  \/ Dispatch(r) \/ Returns(r) \/ GiveUp(r) \/ Retry(r)

Downstream(c) == \E reply \in Replies : Process(c, reply) \/ Decline(c, reply)

Next ==
  \/ \E r \in Submissions : Handler(r) \/ Leave(r)
  \/ \E c \in wire : Downstream(c)
  \/ Stop

Spec == Init /\ [][Next]_vars

(* The handler's own steps are taken, and the adapters' http.Clients time  *)
(* out after 15 s.  The LLM may stall for ever, but not when the context   *)
(* is cancelled.                                                           *)
Fairness ==
  \A r \in Submissions :
    /\ WF_vars(Dispatch(r))
    /\ WF_vars(sub[r].gone /\ (Classified(r) \/ ClassifyFails(r)))
    /\ WF_vars(GiveUp(r))
    /\ WF_vars(Retry(r))

FairSpec == Spec /\ Fairness

-----------------------------------------------------------------------------
(* Properties *)

(* The uploads a ticket shows: those whose token or url it names. *)
Shown(c) ==
  {u.part : u \in {u \in desk : u.id = c.id /\ u.kind = "upload" /\ Token(u.refs, u.n) \in c.refs}}

(* Zendesk's ticket and Linear's issue show all the attachments; the       *)
(* others' payload or text carries them.                                   *)
Whole(c) == UploadsFirst(sub[c.id]) => Shown(c) = DOMAIN sub[c.id].req.atts

Made(r, kind) == {c \in desk : c.id = r /\ c.kind = kind}

(* Everything the user submitted can be read downstream. *)
Filed(r) ==
  IF sub[r].adapter = "chatwoot"
  THEN /\ Made(r, "conversation") # {}
       /\ sub[r].req.atts # <<>> => Made(r, "message") # {}
  ELSE \E c \in Made(r, "ticket") : Whole(c)

(* A client that is answered 200 has its ticket, with every attachment,    *)
(* whatever else happened on the way (timeouts, retries, calls carried out *)
(* late).  The exception is a reply that came from elsewhere: the webhook  *)
(* adapter takes a 3xx for success, and it, Fider and Chatwoot's upload    *)
(* any 2xx.                                                                *)
OKMeansFiled ==
  \A r \in Submissions :
    sub[r].answer = 200 /\ sub[r].reply \notin {"3xx", "hollow"} => Filed(r)

(* Zendesk and Linear never hold a ticket without all its attachments      *)
(* (orphan prevention), not even one that is created after the relay gave  *)
(* up on it.                                                               *)
NoPartialTicket == \A c \in desk : c.kind = "ticket" => Whole(c)

(* One submission makes one ticket, or for the webhook adapter at most     *)
(* MaxAttempts: the price of retrying a call that may have been carried    *)
(* out.                                                                    *)
Deliveries ==
  \A r \in Submissions :
    \A k \in Kinds \ {"upload"} :
      \A c, d \in Made(r, k) :
        \/ c = d
        \/ sub[r].adapter = "webhook" /\ c.n <= MaxAttempts /\ d.n <= MaxAttempts

(* What is refused is not sent: a 4xx comes before the first call.  What   *)
(* is sent has attachments within every limit, which the adapters do not   *)
(* test again.                                                             *)
ValidOrUnsent ==
  \A c \in wire \cup desk :
    /\ sub[c.id].answer \in {0, 200, 502}
    /\ Acceptable(sub[c.id].req.atts)

(* A 502 is a downstream system's fault, never the LLM's: a submission     *)
(* that cannot be classified is filed all the same (classify.go:76).  The  *)
(* exceptions are a client that has left and a user of whose address       *)
(* Chatwoot has a contact: from another submission, since there is only    *)
(* one contact call in each.                                               *)
BlamelessError ==
  \A r \in Submissions :
    sub[r].answer = 502 /\ ~sub[r].gone =>
      \/ sub[r].reply \in {"odd", "hollow", "3xx", "4xx", "5xx", "none"}
      \/ /\ sub[r].reply = "422"
         /\ \E c \in desk : c.kind = "contact" /\ c.id # r /\ sub[c.id].req.email = sub[r].req.email

(* No call is made for a client that has left: its context reaches every   *)
(* request and the backoff.                                                *)
NothingSentWhenGone ==
  [][\A c \in wire' \ wire : ~sub[c.id].gone]_vars

(* A submission ends, with an answer or without: once it is classified, in *)
(* any case (every call times out and the retries are counted), and from   *)
(* the start if its client leaves.  Only an LLM that stalls holds it up.   *)
SubmitEnds ==
  \A r \in Submissions :
    /\ (sub[r].pc \in {"build", "await", "backoff"}) ~> (sub[r].pc = "done")
    /\ sub[r].gone ~> (sub[r].pc = "done")

(* What docs/adapters.md says of Chatwoot's first call: "create or look up *)
(* the contact for this submission".  A contact that exists is no error.   *)
ContactIsLookedUp ==
  \A r \in Submissions : sub[r].answer = 502 => sub[r].reply # "422"

=============================================================================
