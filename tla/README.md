# A verification project for aithos-calendar

TLA+ models of the concurrent core of this repository, TLC configurations that
check them on small instances, and proofs that the TLA+ proof system checks for
all values of the constants. Paths below are relative to the repository
(`src/booking_store.rs`, `docs/...`).

aithos-calendar is one Rust service (Lambda functions over DynamoDB, SQS, KMS,
Secrets Manager, Bedrock and Google Calendar) in which calendar agents find each
other through a signed catalog, speak A2A to each other, propose a slot, and
book it. What makes it hard is not one algorithm: every step of a booking is a
call that may time out, take effect without an answer, be repeated by a user, a
queue or another process, or race with the same step for another pair of
agents. There is no transaction across the two Google calendars and the table,
so correctness rests on conditional writes, deterministic ids and the rule that
an unknown result is never treated as a refusal.

## 1. Inventory

| Component | State | Operations | Hard behaviours |
|---|---|---|---|
| Bookings table (`booking_store.rs`) | `op:` records with a revision; `agent:` locks; `slot:` pair guards | `begin` (4 rows or nothing), `save` (CAS on revision, release) | conditions over several rows; lost answers of writes that took effect; TTL of the guard |
| Connected calendars (`connected.rs`) | `proposal:` and `a2a-grant:` rows | `propose_with_id`, `confirm`, `advance`, `call`, `handle` (`commit_booking`, `get_availability`) | caller and handler are separate invocations; stale availability; retries overtaking a stalled attempt |
| Google calendars (`google_calendar.rs`) | encrypted refresh tokens; events at Google | `event`, `insert`, `accept`, `availability`, connect, revoke, `working_slots` | 404/409/412 answers, ambiguous inserts, changed events |
| A2A calls and discovery (`discovery.rs`, `a2a.rs`) | key cache (300 s) | `resolve`, `keys_at`, `account_call`, `handle_message` | cached keys, timeouts, many hops |
| Agent jobs (`agent/jobs.rs`, `agent/state.rs`, `main.rs`) | job rows with a lease and a revision; SQS messages | `start`, `process`, `select_slot`, `enqueue` | at-least-once delivery, leases, attempts, dead-letter queue |
| Inference budget (`agent/budget.rs`, `agent/model.rs`) | one ledger row (month, spent, held ids) | `reserve`, `finish`, `analyze` | lost CAS answers, calls never answered, month rollover, skewed clocks |
| Preferences, scheduling (`agent/preferences.rs`, `scheduling.rs`, `availability.rs`) | cached profile (24 h) | `prepare`, `score`, `select`, `first_common_slot` | pure algorithms with edges (timezones, empty intersections) |
| External provider (`booking.rs`, `booking_api.rs`, `examples/reconcile_booking.rs`) | the same bookings table | `submit`, `status`, operator reconciliation | unresolved results, polls racing submissions |
| Accounts and sessions (`auth.rs`, `auth_store.rs`, `google_identity.rs`) | flow, session, account and profile rows | `start`, `callback`, `delete_account`, `logout`, `agent` | deletion in several writes, creation races |
| Rate limits (`limits.rs`, `auth_store.rs`) | counters with an expiry | `hit`, `increment` | window boundaries, two-step increment |
| Identities (`identities.rs`, `storage.rs`, `agents.rs`) | agent records, keys | create, issue, reissue, schedule | races of issue and publication |
| Catalog and trust chain (`catalog.rs`, `trust/*`) | signed manifests and catalog | `document`, `current_manifest`, `verify_*`, caller signatures | re-signing writes without a revision, stale keys |
| JOSE, KMS (`trust/jose.rs`, `trust/kms.rs`) | none | sign, verify, encode | cryptography |
| Public log feed (`public_logs.rs`, `logging.rs`) | bounded queue, stored lines | record, flush, read | dropped lines, flush timeouts |
| Pages, lab (`booking_page.rs`, `lab.rs`, `web/`) | none that outlives a request | render | - |
| Infrastructure (`infra/`, `scripts/`) | deployment settings | - | queue, TTL and timeout settings the code relies on |

How they interact. The guest's side (a browser session, or an agent job from the
queue) calls `connected::confirm`. It reads both the bookings table and its own
Google calendar, takes the operation in the table (`begin`, or a claim of the
next revision), stores a grant, resolves the peer through the catalog and sends
`commit_booking` to the host's agent. That handler is another invocation of the
service: it checks the grant, reads the same record, looks for the event with
the operation's deterministic id in the host's calendar, and inserts it if the
first confirm asks for it and the host is free. The caller then accepts its own
copy, reads it back and saves the result, which releases the locks when it is
terminal. Nothing but the table and Google's event id is shared. An agent job
chooses the slot with one budgeted inference, keeps its own row under a lease,
and repeats `confirm` while the booking is unresolved. The external provider
flow is a second user of the same table.

What makes each component correct:

- table: the agents' locks agree with the records always, the guards of the pairs
  until a day after their slots; one unresolved operation per agent; one meeting of
  a pair per slot; settled records never change;
- connected calendars: a refusal means there is no event and never will be;
  `booked` means both sides were verified; one insertion per operation; no agent
  is double-booked; a live event ends as a booked record;
- jobs: one worker at a time acts on a job, what the job reports of its booking
  is so (unless the booking is begun outside the job), and it ends;
- budget: what the model provider can bill in a month stays within the limit,
  and no reservation is given back because an answer was lost;
- accounts: a deletion that fails half-way can be repeated to completion;
- external provider: one submission per operation, and nothing that is called
  refused is or becomes an appointment;
- limits: at most the stated number of requests in a window;
- log feed: an event is written at most once and never left to a background task;
- trust: what a client accepts was vouched for as a whole, what it refuses has a
  cause, and a stored record is of one piece;
- slot choice: the proposed time is the best one by a definition that knows
  neither loops nor the order of the inputs.

The hazards of the code, each at the line where it bites, are in
`PROJECT.json` under `hazards`, with the properties that guard against them or a
note that says why none does.

## 2. Modules

| Module | Models | Role |
|---|---|---|
| `BookingStore` | `booking_store.rs` | the table: its two transactions, the discipline of its callers (`StoreSpec`), its invariants |
| `ConnectedBooking` | `connected.rs`, the calls of `google_calendar.rs` it makes | the confirm flow, the host's handler, the calendars, all disturbances; EXTENDS `BookingStore` |
| `MeetingPromise` | - | abstract: what a booking service promises about meetings |
| `BudgetLedger` | `agent/budget.rs`, `analyze` of `agent/model.rs`, `cas` of `agent/state.rs` | the ledger row, the inferences that reserve and finish, the provider's bills |
| `AgentJobs` | `agent/jobs.rs`, the queue of `infra/production/agent.tf` | one job, its messages and its workers over an abstract booking |
| `ExternalBooking` | `booking_api.rs`, `booking.rs`, `examples/reconcile_booking.rs` | submits, polls and reconciliations over the same table; EXTENDS `BookingStore` |
| `Accounts` | `auth.rs`, `auth_store.rs`, `google_identity.rs`, connect and revoke of `google_calendar.rs` | sign-in, consent, sessions, an account's agent and its deletion |
| `TrustChain` | `catalog.rs`, `trust/*`, `discovery.rs`, `identities.rs`, `storage.rs`, `lab.rs`, `verify_caller` of `a2a.rs` | the agents table, the catalog's refresh and the clients that resolve a peer; the lab's broken catalogs |
| `Edge` | `limits.rs`, `increment` of `auth_store.rs`, `public_logs.rs` | the rate limit of a request and the log feed it flushes |
| `SlotChoice` | `agent/preferences.rs`, `scheduling.rs`, `availability.rs`, `working_slots` | pure algorithms, one case per question |
| `MC*` | - | the instances TLC checks |
| `*Proofs` | - | theorems and proofs about the module of that name (those of `BookingStore` begin `ConnectedBookingProofs`) |

Refinement, from detail to promise:

    ConnectedBooking.Spec  =>  BookingStore.StoreSpec         proved, and checked (single)
    ExternalBooking.Spec   =>  BookingStore.StoreSpec         proved
    ConnectedBooking.Spec  =>  MeetingPromise.PromiseSpec     proved, and checked (single)
    ExternalBooking.Spec   =>  MeetingPromise.PromiseSpec     proved, and checked (external)

Some modules hold definitions marked "faulty variant", placed just before the
definition they distort: a condition of `begin` forgotten, a timeout taken for
a refusal, a retry that submits again. No specification uses them. They show how
sensitive the properties are: putting a variant in the place of its original
makes TLC report a violation (the pairs are `mutants` in `PROJECT.json`).

### BookingStore and the code

`record`, `agentLock` and `slotLock` are the three kinds of rows of the bookings
table. The slot guard's key is the unordered pair of agents with the slot
(`guards`, `booking_store.rs:46`). `CanBegin`/`BeginWrite` is `begin`: all four
rows are put with `attribute_not_exists`. `CanSave`/`SaveWrite` is `save`: the
revision must be the one read, and a release also requires that the caller still
owns every row it deletes; refusals (`failed`, `slot_unavailable`) delete the
pair guard too, `booked` keeps it. A record is abstracted to its stage, slot,
revision and whether `next_poll` has passed (`due`). The actions `Begin`, `Save`
and `BecomeDue` state how callers must use the transactions: they claim only a
slot that has not begun (`Ahead`) and keep to "CAS on revision; release agent locks
only after a known terminal result"; the callers are shown to do so rather than
assumed to.

`begin` writes an `expires_at` of a day after the slot on the third guard row only,
the pair's (`booking_store.rs:222`; `bookings.tf` enables the TTL); the agents'
locks have none. A booked record lives to 30 days after the slot and an unresolved
one has no end, so the guard goes first. `SlotEnds` is the time from a slot's start
to the end of its guard's life, as one step that adds the slot to `over`, and
`GuardExpires` deletes the guard of a slot that is over, whatever has become of its
operation. From then on a save that would release it fails on the owner condition.
`GuardsMatchRecords` therefore says two things of the pairs' guards: at any time a
guard has no owner but the unresolved or booked operation of its pair and slot, and
as long as the slot is not over that operation owns it.

### ConnectedBooking and the code

A worker is one invocation of `confirm`; `worker[w].pc` is the await it stands
at. `fresh` says that it began the operation itself: only then does `call` ask
the handler to submit. `call[w]` is the `commit_booking` invocation its message
reached, which lives on when the caller is gone.

| Action | Code |
|---|---|
| `Propose`, `ProposalExpires` | `propose_with_id` and the TTL of its row |
| `ConfirmProposal`, `ConfirmPrecheck`, `ConfirmBegin` | `confirm`, when no record exists |
| `ConfirmExisting`, `ConfirmClaim`, `NextPollReached` | `confirm`, when one does: only an unresolved record that is due is claimed |
| `AdvanceRecheck` ... `AdvanceReadback` | `advance`, `call`, `accept_with_token` |
| `ConfirmFinish` | the stage computed from the result, and the save |
| `HandleAuthorize` ... `HandleInsert` | the `commit_booking` arm of `handle`, `insert` |
| `AdvanceTimeout`, `ConfirmAnswerLost`, `ConfirmAbandoned`, `HandleInsertLost`, `*Fails` | timeouts, lost answers, cancelled requests and crashes |
| `HostChangesEvent`, `GuestWithdraws` | the owners of the calendars move, cancel or decline |
| `SlotPasses`, `SlotGuardExpires` | the slot begins and its guard's day runs out; the table's TTL |

Abstractions. Calendar contents other than the service's own events are not
state: an availability read may always say busy, and may say free only when no
event of the service is in the way. The step `SlotPasses` stands for days, so an
invocation that has looked at the clock (`confirm`, `connected.rs:348`) and is about
to claim the slot does not wait it out; one that has claimed may, and its refusal is
then not saved, for the guard it would release is gone. `changed` stands for an event moved,
cancelled or edited by its host (`event_changed`). The proposal's age, the
grant's age and the claim's age are the actions that end them. The catalog
resolution of the peer is one step that may fail. The choice of the slot, the
rate limits of proposals and the rendering of answers are left out. A stored
grant belongs to one call, so a set of workers stands for the grant rows.

### BudgetLedger and the code

`ledger` is the one "budget" row of the state table: month, spent, the ids held, the
revision. `Advanced`, `CanReserve`, `Reserved` and `Finished` are the methods of
`Ledger`; `CasAllowed` and `Write` are `cas`. A call is one `Model::analyze`: it
reserves (`ReserveRead`, `ReserveCas`), is sent (`Invoke`), is answered
(`InvokeAnswered`) and finishes (`FinishRead`, `FinishCas`), with the clock it
read at each attempt and the copy of the ledger it will swap. A swap that is
refused is tried again up to 64 times (`Retry`, `MaxTries`). `ReserveCasLost`
and `FinishCasLost` are swaps that take effect although the answer is an error,
`Abandoned` every way a call ends early. `ProviderBills` is the provider's side:
it bills a call that was sent, once, at any time after, whether or not anyone
hears the answer. `sent`, `billed` and `charged` are history.

Abstractions: every call reserves the same maximum, as `MAX_COST` does; money
is counted in units of which a call costs `Cost`. All clocks read the same
month; the refusals that change nothing (the tariff's date, an input that is
too large) are left out. `MaxHeld` (2000 holds) is a guard of the model that the
instance does not reach: its limit binds first, and no property depends on it. A worker whose clock runs ahead
of the others' would reset `spent` early and is outside the model; one that runs
behind is refused by the code (`budget_clock_regressed`) and is in it as a call
that read its clock before the month ended.

### AgentJobs and the code

One job, since jobs share no row. `job` is its row (`leased` stands for
`lease_until > now`), `message` the queue, `worker[w]` an invocation of
`process`, `booking` the record with the job's id as `ConnectedBooking` lets it
move (absent, open, booked or refused), `offer` the job's proposal. It is
"taken" once something other than a live worker may begin the booking from it:
the user's own `confirm`, or a `begin` that outlives the worker that gave up on
it.

| Action | Code |
|---|---|
| `Start`, `StartEnqueues`, `StartEnds` | `start`: the row, the enqueue, a failure between them |
| `Receive`, `ReceiveTwice`, `Redeliver`, `DeadLetter` | delivery, duplicate delivery, the visibility timeout, `maxReceiveCount` |
| `ProcessRead`, `ProcessClaim` | `process` up to the compare-and-swap that takes the lease |
| `WorkExisting`, `WorkPropose`, `Confirm*` | the body of `work` |
| `WorkFails`, `Check` | an error or the 210 seconds, and the second look at the booking |
| `Save`, `Enqueue` | the row of the outcome, then the next attempt; the message is acknowledged when `process` returns `Ok` |
| `*Lost`, `WorkerEnds` | lost answers, an unavailable table or queue, the function's 240 seconds, crashes |

A lease cannot run out under a worker that acts: the function is ended after
240 seconds, the lease lasts 300 (`LeaseExpires`). A message that is not
acknowledged comes back after 1440 seconds, when the worker it was delivered to
and the lease that worker took are gone; it can then find the job leased only if
another delivery took it meanwhile, which `Redeliver` counts as a disturbance.
Ended rows expire after 30 days in the table; the model ends before that.

### ExternalBooking and the code

A worker is one invocation of `submit` (`SubmitRead`, `SubmitBegin`,
`SubmitSend`, then one of the three outcomes), of `status` (`PollRead`,
`PollLease`, `PollAsk`) or of the operator's `reconcile_booking`
(`ReconcileRead`, `ReconcileAsk`); each ends in `SaveResult`. `flight` holds the
submissions that the provider may still take (`ProviderTakes`), `job` what became
of them: a job may fail before it selected a slot (`refused`), fail after it
(`failed`), or fail although it booked (`failed_booked`). `Report` is what
`parse_status` makes of each. Slots end and guards expire as in the table
(`SlotPasses`, `SlotGuardExpires`). The payload and the host's page are left out; the record's own expiry 30 days after it was
settled is not modelled.

Two things the model shows beside its properties. A job that asks for a
confirmation is never polled again and cannot be reconciled, so its two agents
stay locked until an operator acts. And a guard that has expired makes
every later save that releases it fail, so an operation that is reconciled more
than a day after its slot stays `unknown`.

### Accounts and the code

A request is `callback` (`Callback` ... `Welcome`), or one of the three that
begin with `current` (`Ask`, `Current`): `agent` (`IssueAgent`), `disconnect`
(`Forget`) and `delete_account` (`RevokeRead` ... `Goodbye`), one call to the store
or to Google per step. `start`, `logout` and a callback that is cancelled are
single steps. A browser is its two cookies. `EndsEarly` is a failing call, a lost
answer or the timeout; `AttemptExpires` and `SessionExpires` the rows' TTL.
`grant` is what Google still honours. `past` and `raced` are history: for whom an
id was drawn, which attempt a session came from, and whose deletion overlapped
another request.

`raced` is the exception that `RowsHaveAnAccount` and `DeletedIsGone` make: the
code deletes row after row without a lock, and a request of the same person that
read before may write after it. And the deletion removes its session before the
account row (`auth.rs:433`): a failure between the two leaves an account whose
deletion that session cannot repeat, though any new sign-in can.

### TrustChain and the code

`row` is the agents table: a card (its template and the key that signed it), a
manifest about a card, and the stored signing key. A digest is the card itself, a
signature is the key that made it. Writers are `agent`/`create` (`AgentRead`,
`AgentCreate`, `AgentReadWinner`, `AgentReadKey`, `AgentUpdate`), deletion, and the
catalog read that refreshes a manifest (`CatalogRefresh` writes back the copy it
read). A resolve reads the catalog, the entry, the card and the key set in that
order (`ResolveRead` ... `ResolveKeys`), with the verdicts of `verify.rs` in the
order the code checks them. `Deploy` brings a new card template and another
guarantor key; `cached` is the client's copy of the guarantor's key set.

The lab is modelled as operators: `LabManifest`, `LabCard`, `LabSignature` are
what `lab.rs` serves for each scenario, `Expected` is its table, and
`LabReportPasses` compares the two for every row that arises, with its second
half (`CallerVerdict`, `verify_caller`) for unsigned, genuine, unknown and forged
callers.

What the model shows beside its properties: a manifest signed by a guarantor key
that a deployment retired is still served (`is_current` does not look at the key)
and is refused until it nears its expiry, which is why `RefusedForACause` names
that case; a refresh that fails serves the entry without any manifest although
the stored one is still valid (`catalog.rs:92`); and an agent that is deleted and created
again by a request under way, during a catalog read, may get its old card back
beside its new signing key, after which its callers' signatures are refused
(the exception in `LabReportPasses`).

### Edge and the code

A request reads the clock for its window (`Hit`), again for the increment
(`Increment`), and makes the two conditional updates (`OpenWindow`, or
`WindowIsOpen` and `Add`); `Fails` is every other answer, a lost one included. It
emits events into the sink of its process (`Pushed` drops what does not fit), and
before it answers it drains what all requests of the process have pending
(`Drain`) and writes it in chunks, any part of which may fail (`WriteChunk`,
`FlushEnds`). The viewer of the feed and the memory stores are left out.

The feed loses events by design when a write fails, when the sink is full, and
when two flushes of one process id share a millisecond (an item is keyed by time,
number in its batch and process id); `FeedIsWhole` says that it never repeats or
strands one. To keep the state small a request forgets, at each step, what the
rest of it no longer reads.

### SlotChoice and the code

No concurrency: `case` is chosen at the start and each action calls one function.
A loop is a fold over a sequence (`Cut`, `Merge`, `Seen`, `Better` are the bodies),
nested loops that collect something are a `FlattenSeq`; sorting by start may leave
equal starts in any order (`Sorted`), of which the stable order of the code is one.
`WorkingSlots`, `Select`, `FirstCommonSlot`, `FirstHostSlot`, `DistinctPast`,
`Evidenced` and `Learned` follow the code's loops; `ChoiceIsRight` and
`LearnedIsEvidenced` compare their results with definitions over the inputs.
Time is in units of five minutes from a Monday, a zone is an offset (no daylight
saving), a window is two days instead of thirty.

## 3. What TLC checks

The booking runs use two workers (confirm invocations), symmetric where no liveness is
checked. `MaxDisturbed` bounds timeouts, lost answers, crashes, stalls and
withdrawals together. `MaxRev` bounds the retries of an operation whose event is
not live; once the event is live retries are unbounded in number but not in
disturbances, so the bound never hides a settlement.
`CHECK_DEADLOCK FALSE` because the system may stop: when every operation is
settled, or waits in `unknown` for an operator.

| Run | Instance | Shows |
|---|---|---|
| `single` | one operation, one slot, `MaxRev` 3, `MaxDisturbed` 3 | types; a refusal has no event and can get none (`RefusedHasNoEvent`); `booked` was agreed (`BookedWasAgreed`); one insertion (`InsertedAtMostOnce`); the flow implements `MeetingPromise` (`KeepsPromise`) and the table's discipline (`StoreSpec`) |
| `reversed` | a pair books with roles exchanged, two slots that overlap, `MaxRev` 1, `MaxDisturbed` 1 | locks agree with records, and guards until their TTL (`GuardsMatchRecords`); the pair meets once per slot even after the first meeting is settled or moved and its guard has expired (`PairMeetsOnceAtASlot`) |
| `chain` | `b` is guest in one operation and host in the other, `MaxRev` 1, `MaxDisturbed` 2 | no double booking of `b`, although each side's calendar is read before the other's event exists; one open operation per agent |
| `live` | as `single`, `MaxRev` 3, `MaxDisturbed` 2 | under fairness a live event ends as a booked record, unless its host changes it |
| `budget` | three calls, `Cost` 2, `Limit` 5 (two calls fit, a third does not), `MaxTries` 2, three months | no month is billed above the limit (`MonthlyBillWithinLimit`), the ledger's sums are the calls' (`BooksBalance`), every sent call is held or charged (`SentCallsAreAccountedFor`) |
| `job` | two start requests, three messages, two invocations, `MaxAttempts` 2, `MaxReceives` 3, `MaxDisturbed` 2 | one worker acts (`OneWorkerActs`); what the job says of its booking is so (`OutcomeIsTrue`); it keeps a message (`WorkingJobHasMessage`); under fairness it ends (`JobEnds`) |
| `job_buried` | one invocation, `MaxReceives` 4 as deployed, `MaxDisturbed` 4; a violation | docs/autonomous-agent.md says that pending bookings are "automatically reconciled with bounded retries, then reported as needing attention". Four disturbed deliveries bury the message first: the job stays `working`, its booking pending, and nothing reports it |
| `accounts` | the people, browsers, requests and bounds of `MCAccounts.cfg`: two of each kind | no row without an account (`RowsHaveAnAccount`); no consent for another's account (`ConsentIsOfTheAsker`); one sign-in per attempt (`AttemptSignsInOnce`); a stored token is revoked before it is forgotten (`StoredTokenIsKeptOrRevoked`); an answered deletion is complete (`DeletedIsGone`) |
| `external` | two operations of one pair, one slot, two invocations, bounded saves and disturbances | one submission per operation (`SubmittedAtMostOnce`); what is refused has no appointment (`RefusedHasNoAppointment`); one appointment of the pair at the slot (`PairAppointedOnce`); the provider's flow implements `MeetingPromise` too (`KeepsPromise`) |
| `trust` | one agent (an account's or a page's), two requests, two deployments, one failure | stored records are of one piece; what is accepted was vouched for (`AcceptedIsVouchedFor`); refusals have causes (`RefusedForACause`); the lab's table (`LabReportPasses`) |
| `edge` | three requests, two in one process, a limit of two, a sink of two, chunks of one | the limit holds within a window (`LimitHolds`); no event twice or left behind (`FeedIsWhole`) |
| `slots` | four lists of busy blocks for each of two sides, three zones, three tastes, five mock lists, three pages, three durations, all histories of up to four observations of six kinds | `ChoiceIsRight`, `LearnedIsEvidenced` |

Why the bounds are enough for the bookings. Every interference in the protocol is between two
attempts at the same operation or between two operations sharing an agent; two
workers and two operations give all of them, and an attempt overtaken by a
retry needs one stall, one lost answer and one more disturbance in the retry:
three. The refusal hazard (late handler after a timeout) needs one timeout and
one retry. Two slots are needed only where slots may differ but overlap. Three
agents are the smallest chain.

For the other runs. Accounts: a creation race and a deletion that is overtaken
need two requests; a consent answered by another needs two people. External:
two operations contend for a pair's slot, and a submit, its repetition and a poll
are invocations of which two at a time interfere. Trust: a writer and a reader of
one row, or two writers; one deployment changes both the card and the key.
Edge: the third hit is the one that must be refused on either side of a boundary;
two requests share a process. SlotChoice is a comparison of functions: its lists
hold nested, touching, overlapping and day-long blocks, equal starts, unsorted
input and slots over midnight.

For the budget: two calls contend for a swap and the third is the one that must
be refused; a call's clock reading, bill and charge can fall in three different
months. For the jobs: two invocations is the deployed maximum concurrency; a
message, its successor and that of a second start request are three; with
`MaxAttempts` 2 a job is retried, and stopped at the limit. `JobEnds` needs
`MaxDisturbed < MaxReceives`, `job_buried` shows why.

Fairness of the jobs (`AgentJobs!FairSpec`): invocations take their next step,
the queue delivers, redelivers and buries, a lease that nobody holds expires, and
a start request that has created the row enqueues it. Nothing is assumed of the
user or of the booking outside the job.

Fairness of the bookings (`ConnectedBooking!FairSpec`). A worker and a handler that run take their next step
(an async function is polled until it ends; ending early is a disturbance, of
which there are finitely many); time passes, so an unresolved record becomes
due (`next_poll`, 35 s); and some worker confirms an unresolved, due record
again and again: this is the job queue's repeated delivery, or the guest who
presses "check" (docs/google-calendar-booking.md describes checking as the way
to settle). It is weak fairness throughout; no fairness is assumed for
proposals, owners of calendars or disturbances. An operation whose event was
never inserted may stay in `unknown` for ever with both agents locked: this is
documented behaviour (an operator investigates), and no property claims
otherwise.

## 4. What is proved

tlapm checks every proof with its SMT, Zenon and LS4 backends. The constants are
arbitrary: any sets of agents, operations, slots and workers, finite or not.
Assumptions: the two agents of an operation are distinct agents
(`PartiesAssumption`, the `same_account` check), the null values are no
operation or slot (`NullAssumption`), overlapping is reflexive and symmetric
(`OverlapAssumption`), the bounds are natural numbers (`BoundAssumption`). TLC
evaluates all of them in every run.

`ConnectedBookingProofs` begins with the bookings table, for every user of it that
keeps `StoreSpec`:

- `StoreTypeCorrect`; `GuardsCorrect`: `GuardsMatchRecords` is inductive
  together with the types. The two lemmas are `RecordsMove` (which records a
  step can change) and `GuardsStep`, one case per transaction and per step of the
  clock; the hard case is a release, where the owner conditions make sure that no
  other operation's guard is deleted, although the releaser's own may be gone.
- `AgentExclusion` follows from the locks: a row has one owner, and it has no TTL.
  The guard of a pair's slot has one, so `PairSlotExclusion` is an invariant of its
  own: a claim comes before the slot begins, when whoever holds the slot still owns
  its guard (`ClaimedSlotIsFree`). `TerminalFinality` is an action property.

Then, for the confirm flow:

- `KnowledgeCorrect`. The inductive invariant is
  `IInv == TypeOK /\ WorkersKnowTheirRecords /\ ClaimsAhead`. Types alone are not enough: a save
  checks only the revision, but the stage and the slot it writes were computed
  from what the worker read several awaits earlier. `Knows` says that this
  remembered copy is right as long as the revision stands, and that the slot
  never changes. One lemma per action of a worker, and `KnowledgeLasts` for what
  the others do to its knowledge. `ClaimsAhead` says that the slot which a worker is
  about to claim has not begun.
- `ImplementsStore` (`Spec => StoreSpec`): under `IInv` each step of the flow is
  `Begin`, `Save`, `BecomeDue`, a step of the clock, or leaves the table alone
  (`ConfirmBeginIsBegin`, `ClaimIsSave`, `FinishIsSave`).
- `ConnectedGuards`, `ConnectedAgentExclusion`, `ConnectedPairSlotExclusion` and
  `ConnectedTerminalFinality` are then the table's theorems applied to the flow.

The last part of the module is about what the flow does to calendars:

- `InsertsCorrect`, `RefusalsCorrect`, `BookingsCorrect` and `PairsCorrect`, from
  `JInv`, which strengthens `IInv`. Its idea is the submitter: an operation has at
  most one invocation that may still lead to an insert, the worker that created
  its record or the handler that this worker called (`Submissions`). When the
  submitter is gone without an insert the operation is `Dead`, and a refusal is
  saved only then (`Outcomes`, `Answers`). The lemmas before it say which part of
  the state each action moves (`CalendarMoves`, `EventsMove`, `InsertsMove`,
  `ResultMoves`), so that the invariant is not unfolded once per action.
- `MeetingsCorrect`: no agent is in two meetings. The guest's calendar is read
  before the host's handler reads its own and long before the event exists, so
  the proof needs that what was read free stays free: `Cleared`. It lasts because
  a submitter's operation is open, its agents' locks are its own, and only another
  submitter of one of these agents could fill the slot (`ClearLasts`).
- `PromiseKept`: `Spec => KeepsPromise`, the refinement to `MeetingPromise`. The
  insert is the meeting, the record's first terminal stage its outcome.

`BudgetLedgerProofs`, for any set of calls, any limit and cost, any number of
months (`AmountAssumption`: natural numbers, `Cost` and `MaxTries` positive):

- `MonthlyBillCorrect`, `BooksCorrect`, `SentAreAccountedFor`, `NoRefundEver`,
  from one inductive `IInv`. Its two ideas: a swap that is allowed was computed
  from the very ledger it replaces (`Copies`: equal revisions mean equal
  ledgers), and every call that was sent is held or charged, in no earlier month
  than its bill. The calls billed in a month are then among those held or
  charged in the current one, and `BooksBalance` bounds their cost. The lemmas
  of the first part say what the `Ledger` operators do to each field and to the
  sums (`ReserveTotal`, `FinishTotal`), with the finite-set theorems for the
  cardinalities.

`AgentJobsProofs`, for any workers, messages and bounds (`JobAssumption`;
`MaxAttempts` is at least one, without which the first claim is already over
the bound):

- `TypeCorrect`, `OneActs`, `OutcomeTrue`, `MessageKept`, `RetriesBounded` and
  the action property `EndedFinal`, from one `IInv`. Its core is `Holder` and
  `Candidate`: whoever acts holds the lease and has the row's revision, and
  whoever is about to claim either has an older revision, and will be refused,
  or read a job that is still free. `Decision` keeps what a worker found out of
  the booking true until it is saved, which needs that no other worker acts;
  `ClaimLeft` says that a job nobody acts on has a claim left; `Begun` that
  nothing precedes the row. One lemma per part, one case per action.

`TrustChainProofs`, for any agents, requests, keys, deployments and failures
(`TrustAssumption`: the key of an impostor is none that an agent or the guarantor
ever has, and "nobody", the issuer that no catalog lists, is no agent):

- `TypeCorrect`, `RecordsStayWhole` and `AcceptanceIsSound`, from one `IInv` that
  says what each request holds at each of its steps: the copy of a row a catalog
  read will write back, the card an update signs for, and what the verdicts passed
  so far have established of the entry, the manifest and the card. The first
  lemmas turn a list of verdicts (`FirstRefusal`) into the facts an acceptance
  gives (`EntryVerdictIs`, `CatalogVerdictIs`, `DigestVerdictIs`, `KeyVerdictIs`).
- `RefusalsAreCaused`, the converse, from `CInv`, which strengthens `IInv`. A
  verdict is the first of a list that is not "accepted", so it has to be shown
  that none of the others can occur when nothing disturbed the resolve: what it
  holds is then the row's own card and, until it is checked, a manifest that
  outlives the request, since the catalog read refreshed it (`AllJustified`); and
  every manifest was signed by the guarantor of some deployment, the first one's
  as long as there is no other (`RowsIssued`), whose key the client's copy holds
  (`CacheIssued`).
- `LabReportHolds`: the lab's broken catalogs and forged callers get the verdicts
  of its table from any rows. Here the verdicts are followed as the chains of
  conditions they are (`EntryVerdictSays`, `LabVerdictSays`), one lemma or case
  for each way of breaking a catalog.

`ExternalBookingProofs`, for the bookings through the provider (`ExternalAssumption`: the bounds are natural numbers and `NoStage` is no
stage):

- `TypeCorrect`, `SubmissionsCorrect`, `RefusalsCorrect` and `PairsCorrect`, from
  one `IInv`. An operation has one submitter (`OneSubmitter`), and while it lives
  its record stays at revision 0, so that no poll or operator can have decided on
  it (`SubmitterIsAlone`). It is `Closed` when nothing of it is under way and its
  job did not book; a refusal is decided and saved only then (`Decision`,
  `Recorded`). The guard of a slot that is not over is in its place (`Guarded`), and
  a claim is only made for such a slot, so a second operation of the pair finds the
  slot free only if the first was refused (`OnePerPair`).
- `ImplementsStore` (`Spec => StoreSpec`): the flow claims, saves and releases by
  the same discipline as the confirm flow (`TableSteps`, `TableIsStore`), so what
  `ConnectedBookingProofs` proves of `StoreSpec` is true of both.
- `ExternalAgentExclusion`, `ExternalTerminalFinality` and `PromiseKept`: the
  locks of agents never expire, so they still agree with the records
  (`LocksMatch`), an agent is in one unresolved operation and a settled record is
  never saved again. With that the flow is shown to implement `MeetingPromise`:
  the meeting is the provider's appointment, its outcome the record's first
  terminal stage, and an appointment appears only from a queued job, whose
  operation is still open.

`EdgeProofs`, for any requests, processes, limit and length of window:

- `TypeCorrect`, and `LimitCorrect` from `LInv`: while a window is open the counter
  row either belongs to it and has counted whoever was admitted in time, or nobody
  was (`Counted`). The arithmetic is `OneWindow`: two aligned windows that have
  begun and not ended are the same, so the increment meets a row of its own window
  (`MetRow`) or is too late for it.
- `FeedCorrect` from `FeedInv`. Events carry the number of their request, and a
  request has not pushed the numbers it is yet to use (`Numbered`): a pushed event
  is in no place, and from then on in one, a sink, what is left of a batch, or the
  table (`NoTwins`, `OnePlace`). What a push, a drain and a partly failed write do
  to these places is proved of any four functions, apart from the program
  (`Pushes`, `Drains`, `Writes`), so that the steps of `Edge` have only to be
  shown to be one of the three or none. `OneHolder` then counts.

`AccountsProofs`, for any users, browsers, requests and bounds:

- `TypeCorrect`, `LoginsCorrect`, `ConsentCorrect`, `RowsCorrect`,
  `RevocationCorrect` and `DeletionCorrect`, from one `IInv`. Its idea is whose an
  id is: an id belongs for ever to the user it was drawn for, a session and a
  request to the user of their id, and a request works on ids of its own user only
  (`Ownership`). Two requests that touch the same rows are therefore of one user,
  and if one of them is a deletion then that user has raced (`Remembered`, lemma
  `Apart`). A deletion that nobody raced finds the rows as it left them at each of
  its steps (`Progress`); whatever token a request of the user may still hold is
  accounted for by the ledger of that user alone (`Ledger`, `OwnOK`). An attempt is
  used up once, in the hands of one request or one session (`Logins`, `OneLogin`).

`SlotChoiceProofs`, for any calendars, zones, tastes, pages, lists and histories
(`SlotAssumption`: the types of the inputs; a busy block ends after it starts and
a page's appointment lasts, as the code demands; durations are of half an hour,
three quarters or an hour, as `evidenced` demands):

- `RightChoice` and `EvidencedLearning`, from an `IInv` that needs little: the
  inputs never change, and the free time is that of the inputs. What needs a proof
  is what the loops compute. `FoldLeft` and `FlattenSeq` are unfolded to the
  recursive functions on sets of positions that define them; such a function
  exists (`FoldExists`), and it takes one value after each prefix of the sequence
  (`FoldPrefixes`, `FlattenSteps`). The induction over prefixes is over a set of
  numbers that has no least number outside it (`Induction`).
- On that rest: what `distinct_past` keeps is past and of different series
  (`DistinctPastIs`), and what is learned has three of these (`LearnedIs`); a
  merged availability has gaps and covers the same minutes (`MergedList`), so that
  one interval of it holds an appointment exactly if every minute of it is free
  (`HeldIsCovered`); cutting one busy block after the other leaves, in order, what
  is apart from them all (`CutIs`, `LeftOver`, `FreeTimeIs`); the candidates are
  the slots on the grid that lie in free time of both sides (`OverlapsAre`,
  `OfferedAre`), those a side could take are the good ones (`GoodAreCandidates`);
  and the scan holds the first of the best so far (`TakeHolds`, `ScanIs`), which
  with equal ranks is the shortest, for free intervals follow one another and
  durations ascend (`StartsDiffer`, `DurationsAre`).

Beside the listed properties the theorems `NoRefundEver`, `EndedFinal`,
`RetriesBounded`, `KnowledgeCorrect`, `TerminalFinality`, `PairSlotExclusion`, the
types of `ExternalBooking` and `ExternalTerminalFinality` state facts that no run
checks for themselves: they follow from, or serve, a property that a run does
check.

Every safety property of a passing run is then proved. Only model-checked are
`LiveMeetingIsBooked`, `JobEnds` and the violation of `PendingIsReported`:
liveness under fairness and ENABLED are out of the prover's reach. The library's
induction theorems are too, for they take an operator as a parameter; the
inductions of `SlotChoiceProofs` are therefore over named sets of numbers.

No module with a theorem uses a RECURSIVE operator.

## 5. Plan

Everything planned at the outset is modelled: the bookings table and both of its
users, the budget, the jobs, accounts, the trust chain, the edge and the slot
choice. What a next step would add:

1. the composition of `AgentJobs` with `ConnectedBooking` in place of the
   abstract booking;
2. the history that the learned preferences are computed from, page by page.

## 6. Not modelled

- Cryptography, encodings and their parsers (`trust/jose.rs`, `trust/kms.rs`):
  a model tells keys and signatures apart, not their bits.
- Rendering: web pages, booking pages and the wording of replies; the viewer of
  the log feed.
- The reading of a booking page's protocol (`availability.rs`, `booking_page.rs`)
  and of a calendar's history: their results are inputs.
- The infrastructure description, whose settings (visibility timeouts, TTLs,
  concurrency) enter as assumptions.
- The expiry of settled rows after 30 days (bookings, jobs; the pair guard's
  earlier expiry is modelled), the publication flag of legacy agent rows, and the
  copy of the signed catalog that the server keeps for a few seconds: they forget
  or delay, and change no answer that a property is about.
- In `TrustChain`: the clock skew that a client allows on `issuedAt` (signer and
  client share the model's one clock) and a rotation of the operator's key.
- In `Edge`: the events of a process's start, and a request whose connection is
  dropped before its flush is done: a later flush takes what it left in the
  sink, and what it had already taken out is lost.
