# OpenIntake: a TLA+ verification project

OpenIntake takes a user's conversation with a triage LLM in a web widget and
files it as a ticket.  A Go relay (`src/relay`) stands between the browser and
the LLM provider and the ticket systems; a TypeScript client (`src/core`) and a
Vue widget (`src/vue`) run in the browser.  This directory models the parts of
the relay and of the widget whose correctness depends on interleaving, time,
limits and failure, checks them with TLC on small instances, and proves what
matters most for every instance with TLAPS.

## The system

The relay is one process.  Every request is a goroutine; what requests share is
held in memory, each store behind a mutex of its own, and is lost on a restart.
A request passes the client-IP middleware, the per-IP rate limiter and (for
`/turn` and `/submit`) the auth middleware before its handler runs.

    widget -> client -> [clientip] -> [perip] -+-> /init   -> captcha -> session store
                                               +-> /auth/email/* -> email codes -> SMTP
                                               +-> [auth] -> /turn   -> session store, budget, LLM
                                               +-> [auth] -> /submit -> classify (LLM) -> router -> adapter

| Component | State | Operations | What makes it correct |
|---|---|---|---|
| session store, `auth/store.go` | `sessions`, `sessionMeta` (created, turns, input tokens) | Issue, Validate, CheckSession, RecordTurn | both maps agree; caps hold up to the turns in flight; an expired session is never used or revived |
| daily budget, `budget/budget.go` | per tenant: tokens in, out, UTC day | Reserve, Commit, Snapshot | a day's spend stays within the cap up to the turns in flight; a day's counter holds that day's charges only |
| turn handler, `server/turn.go`, `auth/middleware.go` | the request's progress | two auth paths, two gates, chat, accounting | each completed turn is charged once, a failed one never; nothing passes without both gates |
| LLM providers, `llm/*` | goroutine, channel of 32 chunks, upstream stream | read, send, best-effort send, close | no text lost before Done; errors are never answers; no goroutine outlives its request |
| per-IP limiter, `ratelimit/perip` | IP -> bucket, last seen | Allow, collection of idle buckets | burst + rate * time is never exceeded; Retry-After suffices |
| email codes, `auth/emailcode`, `server/email*.go` | active code and issue history per address | Issue, Verify, send, mint | a code mints one token; the cap per window; what the user can do after a failed send |
| captcha, `captcha/captcha.go`, `initHandler` | replay set | mark, siteverify, Issue | one session per solved token |
| license, `internal/license` | trial state file, entitlement | load, start trial, gate adapters | a trial is 14 days over any restarts; a crash leaves no half-written file |
| submit, `server/submit.go`, `classify`, `payloadbuild`, `router` | none of its own | classify twice at most, build, validate, route, create | a submission always gets a valid classification and one adapter |
| attachments, `attachvalidate`, `computecaps.go` | none | ValidateAll, ComputeAttachmentsCaps | limits, MIME agreement |
| adapters, `adapter/*` | the ticket system's | Create in one to three calls | what a partial failure leaves behind, how often a ticket is created |
| client IP, `server/clientip.go` | none | walk over X-Forwarded-For | a client cannot choose the bucket it is counted in |
| SSO and email tokens, `auth/sso`, `auth/emailjwt` | key set (library); the tokens handed out | mint, verify | a token is one identity for its whole life, whatever the configuration |
| core client, `core/src` | session id; per turn the response's buffer | init, turn, submit, consumeSSE | each turn settles once and shows every delta once, however the stream is cut |
| widget, `vue/src` | messages, attachment list and its copy, redactor, flags | start, sendTurn, capture, redact, commit, remove, submit | the conversation is what was said; nothing saved is lost; what is sent was redacted and is acceptable |
| startup, configuration, metrics, license tool, schema | | | not concurrent, or read by nothing |

What is hard here: the gates look at counters that change only when the LLM has
answered (minutes later), so many requests pass on one look; expiry, midnight
and restarts fall between any two steps; a client may leave while two
goroutines hand chunks to each other over a full channel; upstreams stall, cut
and fail; and buckets and sessions are dropped lazily.  In the browser, answers
arrive between any two clicks, in chunks cut anywhere.  `PROJECT.json` lists
each of these hazards at its line with the properties that cover it.

## Modules

| Module | What it is |
|---|---|
| `GoBasics` | Go's map and the negative clamp |
| `SessionStore` | `auth.Store`: one operator per method, each one step because it holds the mutex |
| `BudgetTracker` | `budget.Tracker`, the same way; `Current` is `tenantLocked` |
| `TurnHandler` | composes both with the auth middleware and the turn handler; any number of concurrent requests |
| `TurnPolicy` | abstract: what the relay promises about turns, with eager expiry and no maps |
| `MCTurnHandler` | symmetry for TLC |
| `TurnHandlerProofs` | theorems about `TurnHandler` |
| `LLMStream` | one `Provider.Chat` call: provider goroutine, channel, consumer, the environment on both sides |
| `LLMStreamProofs` | theorems about `LLMStream` |
| `RateConfig` | the limiter's parameters and the wait derived from them |
| `PerIP` | `perip.Limiter` and its middleware |
| `TokenBucket` | abstract: one eternal token bucket per IP |
| `ClientIP` | `resolveClientIP` as an operator |
| `Ingress` | composes both: clients with forged headers, trusted proxies, the bucket they end up in |
| `PerIPProofs` | theorems about `PerIP` and `Ingress` |
| `EmailCodes` | `emailcode.Store`, the email service and its two handlers |
| `OneTimeCodes` | abstract: one code in force per address, one token per code |
| `Bearer` | tokens: `emailjwt.Mint` and `Verify`, the two SSO verifiers, the middleware's order, as operators |
| `SignIn` | composes both: the tokens in circulation and whom the relay takes their bearers for |
| `MCEmailCodes` | configurations, host tokens and symmetry for TLC |
| `EmailCodesProofs` | theorems about `EmailCodes` and `SignIn` |
| `Router` | `router.New` and `Route` as operators over a registry |
| `License` | relays starting: license lookup, trial state file, registry, router |
| `MCLicense` | rules, licenses and symmetry for TLC |
| `LicenseProofs` | theorems about `Router` and `License` |
| `InitGate` | `/init` behind the captcha: replay set, siteverify, session |
| `InitGateProofs` | theorems about `InitGate` |
| `Attachments` | `attachvalidate.ValidateAll` and `ComputeAttachmentsCaps` as operators |
| `Submit` | composes both with `/submit`: classification, routing and the five adapters' Create against the downstream systems |
| `MCSubmit` | submissions for TLC |
| `SubmitProofs` | theorems about `Attachments` and `Submit` |
| `EventStream` | `consumeSSE`: the relay's frames, line ends, cutting into events |
| `Widget` | `useIntake`, the redactor and the client's `init`, `turn` and `submit`, with the clicks the panel allows; uses `Attachments` for the limits the relay publishes |
| `MCWidget` | the line ends for TLC |
| `WidgetProofs` | theorems about `Widget` |

**TurnHandler.**  `turn` maps each request being served to its stage, which is
the point of `turnHandler` it has reached: `check` (before gate 1), `reserve`
(before gate 2), `chat` (the LLM is answering), `record` (between
`Budget.Commit` and `RecordTurn`).  A request that ends leaves the map.
`Goto`/`End` are the handler's "go on" and "return".  Validate, CheckSession,
Reserve, Commit and RecordTurn are the methods with their evictions and resets.
`Tick` and `Midnight` are two clocks: session expiry uses ticks, the budget the
UTC day; nothing relates them, which includes every relation real time has.
`issued` remembers every id handed out, over restarts, because
`uuid.New` does not repeat and clients keep ids of dead processes.

**LLMStream.**  `pc` is the provider's goroutine: it reads, sends (a `select`
of the send and `ctx.Done`), tries to send (a `select` with `default`), closes.
`ReadCut` is the one place where the four providers differ in what they can
know.  `TurnChunk` and `ClassifyChunk` are the two consumers' loop bodies.
`charges` counts Commit and RecordTurn, which `TurnHandler` shows in detail;
there, a whole stream is the step from `chat` to `record` or to the end.

**PerIP.**  x/time/rate is external and modelled by its documented use:
`Tokens` is what `advance` computes, a refused `AllowN` leaves the limiter as
it was.  Units: a request costs `Cost`, a tick earns `Rate`, so fractional
rates stay integral.

**Ingress.**  A request's header is what the client wrote followed by what each
trusted proxy on its way added, the address of its peer; `RemoteAddr` is the
last proxy's, or the client's own.  `Names` is every name `resolveClientIP` may
give a client that way.  A step of a client is a step of the limiter under one
of those names, so every theorem about `PerIP` holds of `Ingress`.  The model
takes it that proxies extend the header's one line: `r.Header.Get` reads the
first only, and a proxy that adds a second line would leave the client's own
words to be believed.

**EmailCodes.**  `Issue` and `Verify` are single steps, for they hold the
store's mutex; the mail is sent after it, so `starts` holds the requests that
are sending, and `SendOK`/`SendFails` end them in any order.  A failed send may
still have delivered the mail.  `active` and `history` are the store's maps;
the history is a set of numbered issues, because the code only looks at its
length.  `issues`, `mailed` and `minted` remember what the code forgets.  The
numbers tie a mail to its issue, since two issues may draw the same code.

**SignIn.**  A token is the algorithm, key and claims golang-jwt reads from it;
the library's own check of the dates is external.  Every verify of
`EmailCodes` that succeeds puts `Mint`'s token into circulation, where it stays
over restarts.  A configuration says whether email mode is on, and which
algorithm, keys, issuer and audience SSO has; it is quantified over and not a
variable, since the relay keeps nothing else of it.

**License.**  `relay` maps each process to what `main` holds while it starts:
the time it began (`time.Now` is taken once), the license it found, the mode
and expiry of `licensemgr.State`, and the registry it serves with.  `trial`,
`create`, `write` and `rename` are the points of `loadWithKey` and
`writeTrialState` between which another relay or a crash can come; everything
after is local to the process, so the registry and the router are one step.
`stateFile` and `temp` are the disk, whose files hold a start time, do not parse
(`Torn`: created and not yet written) or are `Missing`.  A process that crashed
and one that exited both may be started again.  `firstStored` and `tampered`
are what no process remembers.  `Router` is pure: rules are kept by position, so
that "first match" is the least one.

**InitGate.**  `request` is each `/init` at its point: `arrived` (past the
handler's own tests), `asking` (marked, siteverify called without the mutex),
`accepted` (the provider has said yes, the answer is still on its way).
`Remembered` is what the sweep in `markUnseenOrEvict` leaves.  `AskFails` is
every error of the call, at any point, also after the provider has accepted.
The provider may accept a token again while it lives, because the replay set
exists for that case.  `session` holds the sessions of this process with the
claim they came from, `asked` when the process last asked; both die with it.

**Submit.**  `sub` is each submission at its point of `submitHandler`:
`classify` and `reclassify` are the two attempts of `Classify`, `build` is just
before `payloadbuild.Build`, `await` and `backoff` are inside the adapter's
Create.  From `build` to the first request nothing else can happen, so the
payload's validation, `ValidateAll`, `Route` and that request are one step.
`Steps` and `Kind` say which calls an adapter makes; `step` counts those it is
past, `attempt` the webhook's tries, `n` all calls, `refs` the uploads whose
token (Zendesk keeps the first one's) or URL (Linear collects them) the ticket
will name.  `wire` and `desk` are the calls sent and the calls carried out: a
call the relay has given up on stays on the wire and may be carried out later.
`Satisfies` is what each adapter accepts as success.  The handler draws
a submission id for every request, so a user's second try is a second
submission.

**Widget.**  JavaScript runs one task at a time, so a step is a click, or what
follows the answer to an `await`.  `turns` holds `sendTurn`'s locals and
`responses` what its `turn` call is reading: the text on the wire, how much of
it has been read, whether the body has come to an end (`BodyEnds`: closed, or
the connection broken), and `consumeSSE`'s buffer.  `Arrives` cuts the text
anywhere between its pieces; a piece is the head or the rest of a `data:` line or
one character of a line end.  `list` is the `AttachmentList`, `pending` the copy the
strip shows.  `source` and `rects` are the redactor's, which is a modal: while
it is open no other button can be reached, but captures and answers still
return.  The guards of the clicks are the template's `disabled` and `v-if` and
the handlers' early returns; Enter in the text area is Send, also while a
submission is in flight.  `marked`, `owed` and `late` remember what the user has drawn, saved, and saved
while a submission was in flight.

A drag in the redactor is two steps, `MouseDown` and `MouseUp`, with `drag` for
the component's `dragging` and `dragStart` between them; `onMouseMove` only
previews.  The watcher of `source` resets `rects` and leaves those two alone, as
Cancel, Save and Clear all do, so another capture may arrive, or the redactor
close and open again, in the middle of a drag, and the box then lands on a
picture it was not begun on.  A box is therefore recorded with both pictures, the
one it was begun on and the one it landed on.

## Runs

| Run | Question | Bounds |
|---|---|---|
| `turn` | do the caps, the budget and the maps survive concurrent turns, expiry, midnight, restarts? does laziness show? | 2 requests, 2 sessions, 1 tenant, TTL of 1 in a clock of 2, 1 midnight, both caps low enough to be passed; 555130 states |
| `stream` | is text lost, a turn charged wrongly, a client left without an end, a goroutine leaked? | channel of 2, answers of up to 4 chunks, every provider and consumer; 6911 states |
| `cut_stream` | (expected violation) is an aborted stream counted? | channel of 2 |
| `ingress` | does a client get one bucket's worth, whatever it writes into its header and whichever way it comes? does the limiter act as one bucket per address? | 2 clients of which one is a trusted proxy, 1 trusted proxy, 2 hops written by the client, 2 proxies, half a request per tick, burst 1, idle time 2, clock up to 6; 311078 states |
| `retry_after` | (expected violation) is the wait rounded up? | 0.4 requests per second, half-second ticks |
| `email` | does the mailed code work, once, and is the cap kept, with starts overlapping, mails lost or reordered, sweeps and restarts? is a token one identity? | 2 addresses, 2 codes, 2 requests, lifetimes and window of 2 in a clock of 4, cap 2, 3 issues; leeway 1, 8 configurations, 256 tokens of the host; 934551 states |
| `license` | how long may a trial last and what may be routed to, with relays starting together, crashing, failing to write? | 2 relays, trial of 2 ticks in a clock of 3, one license by name and one for everything, 3 rules of which one is dropped, default any adapter, also a disabled or unlicensed one; 2480586 states |
| `free_mode_start` | (expected violation) does an expired trial leave a relay that starts? | 1 relay, one free and one paid adapter |
| `init_gate` | does a token win one session, is it asked about once, is every `/init` answered? | 2 tokens, 2 requests, 2 sessions, replay TTL and token life of 2 in a clock of 4; 85439 states |
| `submit` | is every submission filed whole, once, or refused before it is sent, with calls lost, answered oddly or carried out late, and clients leaving? | 2 submissions, at most 2 attachments of up to 3 bytes (limits 2 and 3), 5 adapters, 2 webhook attempts; 201203 states |
| `chatwoot_returning` | (expected violation) is an existing contact looked up? | as `submit` |
| `widget` | is the conversation what was said, is nothing saved lost, is what is sent redacted and acceptable, does a turn end? | 2 turns with answers of at most one delta and a terminal frame, cut anywhere, lines ending in CR LF; 2 captures of 1 to 3 bytes (limits 2 and 2); 3 of these together; 137464 states |

The bounds suffice for the interesting cases: two requests are enough to pass a
gate on one look and to evict a session under a turn; a channel of 2 with
answers of 4 is full with text still to come, where the real one is 32; a clock
of 6 lets a bucket be emptied, forgotten and recreated; two hops let a client
put another's address, its own or a proxy's before what the proxies add; 3 issues pass a
cap of 2, overlap on one address and sweep the other; two relays suffice for
one to store a start between another's read and rename, and a clock of 3 lets a
third start, by either, come after the trial of the first.  The first of the two
submissions is anybody's, through any adapter and with a list of attachments for
each way to be refused; the second is a signed-in Chatwoot user's, because
submissions meet nowhere but in Chatwoot's contacts.  Two attachments make a
chained upload, two attempts a retry.  There is one class and one severity in
that run, for routing by them is the business of `license`.  The theorems remove
the bounds for safety.  For the widget, two turns are enough for one to fail
while its neighbour's messages are there, two captures for one to return into
the redactor of the other, also during a drag, and a second capture passes the
total; an answer of one delta and a terminal frame has twelve pieces, cut between
any two, and the chunks of CR LF line ends leave every buffer that those of LF
leave.  Turns and captures meet only in the guards of Attach and Send, which
two of one and one of the other show (`MaxClicks`).

`CHECK_DEADLOCK FALSE` stands where what is modelled ends (`LLMStream`, `Submit`,
`Widget`);
every other model can always step.

## Fairness

`LLMStream`, `InitGate`, `Submit` and `Widget` have liveness properties.  For `InitGate`, weak
fairness says that a handler which has the token goes on to the replay set, and
that a siteverify call ends: `captcha.New` is given no client in `main.go`, so
the verifier's own has a timeout of 5 seconds.  That the provider answers is
not assumed.

For `LLMStream`, weak fairness is assumed for the steps of runnable goroutines (the provider's sends and close, the consumer's
receives and drain), for net/http cancelling the context of a handler that
returned or a client that left, and for a read that carries a cancelled context
to fail.  The upstream is under no obligation: it may stall for ever, and the
client need not leave.  `StreamEnds` therefore starts from an upstream that has
ended and `NoGoroutineLeak` from a consumer that has left.

For `Submit`, weak fairness says that the handler takes its own steps, that a
backoff ends, and that an adapter's call ends: their `http.Client`s have a
timeout of 15 seconds.  Downstream systems owe nothing.  The LLM may stall for
ever, but not once the client has left, which cancels the context that every
provider's read carries (`LLMStream` shows that this ends it).  `SubmitEnds`
therefore starts where the classification is over or the client gone.

For `Widget`, weak fairness says that `consumeSSE`, once a response's body is
over, comes to its end: finitely many chunks are left, each `read()` of such a
body returns or throws, and the browser runs what waits for it.  Nothing is
assumed of the relay, the network, the user or a submission.  The relay's write
timeout is 0, its LLM calls have none, and `client.turn` has neither a timeout nor
an abort, so a request may never be answered and a response may stall for ever;
then the widget streams for ever.  `Settles` therefore starts from a body that
has ended, as `StreamEnds` does from the upstream's end.

## What is proved

`TurnHandlerProofs`, `LLMStreamProofs`, `PerIPProofs`, `EmailCodesProofs`,
`LicenseProofs`, `InitGateProofs`, `SubmitProofs` and `WidgetProofs` hold the
theorems listed in `PROJECT.json`, for every value of the constants under the
named assumptions of the modules (types and ranges of the configuration, and
that startup accepted it).

* `TypeCorrect`, `SessionMapsAgree`, `SessionCapsHold`, `BudgetHolds`: TypeOK is
  inductive and so is MapsAgree with it.  The two overshoot bounds are inductive
  in the form they are stated, because they count the requests in flight: a
  request that passes the gate raises the count by one while the counter is
  below the cap, and one that is recorded moves its share from the count to the
  counter.  The bound without the in-flight term is not inductive, and what a
  reader wants (turns <= MaxTurns + N - 1) follows from it.
* `ImplementsTurnPolicy`: every step maps to a step of `TurnPolicy` or to a
  stutter under `Book` (unexpired sessions), `Spent` (today's counters) and
  `Admitted` (requests past gate 1).  An eviction and a reset are stutters.
* `NothingLost`, `ErrorsAreFree`, `ClientIsTold`: the invariant counts the text
  chunks received, buffered and pending against those sent, and says that a
  terminal chunk is the last thing in the channel.
* `RateHolds`, `RetryAfterHolds`, `IsTokenBucket`: the invariant bounds what was
  admitted plus what the bucket holds by what was ever earned.  The theorems
  assume `ForgetsFullOnly` (`IdleTTL * rate >= burst`) and `WaitFitsHeader` (the
  wait is expressible in whole seconds).  Neither is validated at startup; the
  defaults (1 request/s, burst 5, 15 minutes) satisfy both.
* `ClientHolds`: whatever a client that is no trusted proxy does, its name is its
  own address (the last hop that is not a trusted proxy's is the one the first
  proxy added), so it is admitted under one name only and `RateHolds` bounds it;
  under `ForgetsFullOnly` too.
* `IssueRateHolds`: the pruned history still contains every issue of the window
  and its recent part never exceeds the cap; a plain count of issues is not
  inductive, because time moves the window.
* `MailsWork`: the invariant speaks of the mails on their way too.  Each is
  numbered below the next issue, and while it is its address's newest and not
  expired the store holds its number, code and time.
* `IsOneTimeCodes`: the mapping shows of `active` the entries that are neither
  used nor expired; sweeps and Verify's deletion are then stutters, and a tick
  is the abstract expiry.
* `IdentityHolds`: the issuer alone decides which of the verifiers can accept a
  token (`IssuerDecides`), which settles the host's tokens for all times; that
  every token in circulation is one that `Mint` made settles the relay's.
* `TrialsExpire`, `StateFileWhole`: the trial's bound alone is not inductive,
  since a relay that is about to store will decide later starts.  `TrialOnce`
  adds that the stored start is never later than `firstStored`, and that every
  relay still between its read and its rename began by then: none can enter
  that stretch once a start is stored.  `TempOwn` says a relay about to rename
  has its own start in its file, which is where `os.CreateTemp`'s unique names
  are needed.
* `RoutesAreEntitled`: `Sound` ties each process's mode and registry to the
  license and time it began with; `RouteRegistered` (the least matching rule
  exists because positions are well-founded) takes it from the registry to every
  payload.
* `TokensWinOnce`, `TokensAskedOnce`, `DuplicatesWereAsked`: a claim is a
  request that has marked its token or a session won by one, with the time of
  the mark.  Claims to one token lie more than the TTL apart (`RequestClaims`,
  `SessionClaims`), because each mark finds the last one outside the TTL,
  whether it was swept or not (`ReplayAgrees`).  A winning claim was made
  between the solving of the token and the end of its life, so two of them would
  have to be within that life.  `TokensWinOnce` assumes `TokenLife <= ReplayTTL`,
  which the code does not check: the providers document about five minutes, and
  `replayTTL` is five.
* `ValidateAllSuffices`: what `ValidateAll` accepts is `Acceptable`, which does
  not mention the order of the tests; the total is the last partial sum.
* `RefusedIsUnsent`, `DeliveredOnce`, `ErrorsAreBlameless`, `TicketsAreWhole`,
  `OKIsFiled`, `NoneSentWhenGone`: none of the properties is inductive, because
  a call on the wire says nothing of the submission it came from.  The
  invariant adds that the call numbered k is determined by the adapter and k
  (`CallAt`, `Numbered`), that the steps behind a Create have been carried out
  and an answered call with them (`Created`), and that a refused contact belongs
  to another submission (`Elsewhere`).  A ticket that names the uploads 1 to k
  is then whole however late it is carried out, and two calls of one kind have
  the same number unless the webhook adapter made them.  `Early`, `Waiting` and
  `Over` say where the handler can be with such a record.
* `AcceptableSuffices`: the converse, so `ValidateAll` accepts exactly what is
  `Acceptable`.  It needs that no partial sum exceeds the whole one.
* `TranscriptHolds`: at most one turn is unsettled, only while `streaming` is
  set, and its index is the last message's (`TalkInv`); so a delta lands where
  it belongs and a failure removes its own placeholder or nothing.
* `StreamingHasTurn`: the converse too (`Busy`), so the input is locked exactly
  while one turn is not settled, and nothing but that turn's end is waited for.
* `ChunksHold`: `ChunksHidden` speaks of what has been shown, and the next step
  depends on what the buffer still holds.  `StreamInv` says so of every turn that
  reads: a function gives each place of the answer its phase within a frame
  (after the head, after the kind, after each half of a line end); the buffer's
  contents follow from the phase (`Held`); and the deltas shown, with the one
  the buffer holds, are the delta lines read so far (`Sees`).  `ChunkRead` takes
  this over a chunk of any length, piece by piece, through the normalisation of
  its line ends; `ReadStep` and `EndStep` cut the blocks off what results, the
  second without a blank line at the end.  `AnswersProper` says that the relay's
  answers are whole frames with at most one ending, which is last: so a turn
  that is done has seen every delta.
* `TypeCorrect` of the widget: the buffer is a text because normalising,
  concatenating and cutting give texts (`RespInv`).
* `PendingHolds`, `PendingPasses`: the strip is the list, and the list is within
  the limits together (`FitInv`); a save adds what it has tested, and a removal
  makes no partial sum heavier.  The relay's limits are those it published.
* `KeptHolds`: the strip is the list, and a submission in flight carries
  everything that is owed but what was saved since it began (`StripInv`).  All
  that is owed is in the strip, whether the submission then fails or not.
* `RedactedHolds`: the boxes in the redactor are those that landed on the picture
  it shows, and there are none while a drag that began on another picture is in
  progress, for such a drag was there before the picture (`RedactorInv`).  So a
  picture gets at most one box that was begun elsewhere, and it is the first
  (`OneStray`); what has left the redactor is never drawn on again (`BoxInv`).

`Total`, `Normalised`, `LastCut` and `FlattenSeq` choose a recursive function.
What they compute is proved without an operator as a parameter: `Induct` takes a
set of numbers that holds 0 and is closed under adding 1 and shows it is all of
them, from `WFMin` and the well-foundedness of `<`; `Recursion` shows that a
function with given first value and steps exists, so that the `CHOOSE` in the
definition has a witness; the facts about each operator (`TotalFacts`,
`NormalisedFacts`, `CutFacts`, `DeltasFramed`) are then its equations, from
which everything else follows.

## Only model-checked

`StreamEnds`, `NoGoroutineLeak`, `InitAnswered`, `SubmitEnds` and `Settles`:
liveness under fairness is beyond the prover.  Every invariant, action property
and refinement that a passing run checks is also a theorem.  For the licenses,
the init gate and the submissions, type correctness is proved and no longer
checked by a run of its own.

## Disagreements found

* `cut_stream`: a stream whose connection is cut ends in a Done chunk and is
  committed and recorded; `turn.go` says an aborted stream is not.
* `retry_after`: the Retry-After of a rate-limited request is rounded down;
  `perip.go` says it is rounded up.
* `free_mode_start`: an installation whose `default_adapter` is a paid one does
  not start in free mode; `docs/license.md` says it falls back to the first
  enabled adapter.
* `chatwoot_returning`: a signed-in user's second submission through Chatwoot
  ends in a 502, because the contact exists; `docs/adapters.md` says that the
  contact is created or looked up.

Seen while modelling and not given a run, because a single line shows it:
`docs/license.md:87` and `:143` and `docs/self-hosting.md:504` say that a license
that does not verify never stops a relay, and `main.go:77-82` exits.

Seen in the widget, which has no run for them either: `IntakeWidget.vue:49-50`
says of a failed init that it "will retry on first send", and nothing calls
`init` again, so every send fails until the page is reloaded (`SendTooEarly`);
`capture.ts:1-3` and `docs/attachments.md:105` say that production registers
html2canvas, and nothing in the repository calls `setHtml2Canvas`, so every
capture fails unless the host does.

What the widget's properties do not promise: a screenshot saved while a
submission is in flight is dropped, unsent, when that succeeds (`KeptUntilSent`
lets only that happen to it), one removed then has been sent already, and a box
whose drag another capture interrupted is placed by where the drag began on the
picture before (`Redacted` bounds this to one box of a screenshot; it covers what
the user sees on the overlay when letting go of the button).  A submission whose
answer was lost can be sent again and makes a second ticket.

## Not modelled

The plan of the earlier versions of this project is carried out.  What is left
out:

* `Configure`, `HealthCheck` and Linear's lookup of its team key (run once at
  startup), the text of tickets and the redaction in it, a token that Zendesk
  would change between uploads, and a `max_attempts` below 1, with which the
  webhook adapter makes no call and answers every submission with a 502
  (`SubmitAssumption` excludes it).  `OKMeansFiled` makes an exception for
  replies that did not come from the ticket system: the webhook adapter takes a
  3xx for success, and it, Fider and Chatwoot's upload take any 2xx.
* `budget.Snapshot`, which only reports, and the time until midnight that
  `Reserve` returns.
* The fetching and refreshing of the JWKS (keyfunc's) and the signatures
  themselves.  SSO tokens without an expiry are accepted for ever, which the
  model has and no property forbids.
* The rest of startup and configuration: sequential, it appears as assumptions
  on constants.
* The panel's toggle, the error banner and its wording (a commit clears the
  banner of a failed submission), `setBearerToken`, and a host that uses
  `useIntake` without the widget's buttons, where two turns could overlap.
* Loss of power.  A relay may stop between any two steps of the state file's
  temporary-file protocol, but what it has written is taken to be there: nothing
  calls fsync, and `NeverTorn` does not speak of a disk that forgets.
* Metrics (nothing reads them back), the license tool (one-shot I/O), generated
  code.
* Token estimates' arithmetic, message texts, HTTP bodies and the `Retry-After`
  of the session and budget gates.
