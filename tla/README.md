# Verification of the LXP services

TLA+ models of the services in this repository, the TLC runs that check them on
small instances, and TLAPS proofs for every value of the constants.

    tlc -workers 2 -config MCSaga.cfg MCSaga      # one of the runs
    tlapm SagaProofs.tla                       # one of the proof modules

`PROJECT.json` maps every definition to the lines it stands for, and lists the
runs, the mutants that break each property, the hazards and the theorems.

## 1. The system

Four Spring services behind one gateway, two shared libraries, and a group of
Python services for AI features. The Spring services own a database each and
agree only through events: a service writes an event row in the transaction
that makes it true, a relay polls the rows and publishes them to RabbitMQ.

| part | state | operations | talks to |
|---|---|---|---|
| `common-outbox` | rows `outbox_message` (`published_at`) | `DomainEventAppender.append` in the domain transaction, `OutboxRelay.relay` on a timer | the broker, confirms one send at a time |
| RabbitMQ | queues bound by event type, dead-letter queue | at-least-once delivery, redelivery | consumers |
| `subscription-service` | `Subscription.status` (no version column) | subscribe, cancel, `onPaymentCompleted`, `onPaymentFailed`, `cancelByWithdrawnMember` | member-service over gRPC; events |
| `payment-service` | `Payment` (unique per subscription and cycle), `BillingSchedule` | `processInitialPayment`, `processScheduledPayment`, `cancelBillingAndRefund`, scheduler poll | the payment gateway (PG) over HTTP; events |
| `course-service` | entitlement read model; courses and videos | two status events; create course, upload, playback | object store; events |
| `member-service` | `Member` | register, withdraw, queries | Keycloak admin API; events |
| `gateway` | introspection cache, service-token cache | the authentication filter of every request | Keycloak; every service |
| `common-security` | the service-account token cache | resource-server check of forwarded tokens | Keycloak |
| member verification | circuit breaker, gRPC channels | `MemberVerifier.verify` | member-service |
| `curriculum` | per request: the graph's state and the client's | the two roadmap endpoints and the command line; generate → verify → (generate or schedule) | the model provider over HTTP |
| `ai-service` | a checkpoint per conversation; the vector store with its marker | `/chat`, `/health`; `build_corpus`, `init_vectorstore` | the model provider, the store on disk |
| `org-qa-chatbot` | its entry in Consul, one stream per question | `/api/ai/chat`, `/actuator/health`; `consul.py`'s loop | Consul, the model provider |
| `org-qa-chatbot` scripts | `chunks.jsonl`, `context.txt`, stored runs | build, check the keys, evaluate, score again | the files, the model provider |

### What is hard about it

* **Interleaving without versions.** No entity has a version column. Every
  operation reads a row, works, and saves all columns at the commit; the
  scheduler even saves a detached copy read before the batch began. What two
  overlapping operations may lose is the question behind most properties.
* **Remote effects inside a transaction.** Charges, refunds, and every call to
  Keycloak happen before the local commit. A crash, a failed commit or a lost
  answer leaves the remote side ahead of the local one.
* **Order.** One event type, one queue: two events of one subscription may be
  consumed in either order. Relays also reorder the rows after a nack.
* **Repetition.** Sends, deliveries, polls and charges all happen more than
  once; uniqueness of the payment row and the idempotency key must absorb it.
* **A model that may say anything.** Answers arrive malformed, in pieces cut
  anywhere, naming what does not exist, late, or not at all, and are asked for
  again under limits of their own; what a user is shown must be what was checked.
* **State left behind.** A checkpoint, an index half built, a prompt text of last
  week: made by one process at one time and used by another later.
* **Time.** Cached verdicts and cached tokens age while requests use them, and
  the answers that fill the caches have aged before they arrive.

The hazards list of `PROJECT.json` names each place by line, with the properties
that would catch it, or why none does yet.

### What makes each part correct

* outbox: nothing uncommitted is announced, nothing committed is lost, dependent
  events keep their order unless a send is refused or the clocks do not tell it;
* payment: approved rows are backed by the PG's books, money taken without a row
  is asked for again, no cycle is passed over, cancellations refund what was
  paid, the service is an implementation of a simple ledger;
* saga: no service without payment, no end without a cause, everything pending
  is decided, an activation reaches course-service, a withdrawal ends the
  member's subscriptions unless a payment result overwrites that;
* member-service: a member has an account, a withdrawn one is announced and
  disabled, an account without a member has a cause the code cannot repair;
* course-service: a finished upload is really stored, playback is earned;
* gateway: a revoked token passes only within the promised window; a service
  token outlives the way of the request it is attached to;
* roadmap engine: what is delivered is what was judged, the weeks add up, a model
  asked again is told why, nothing is late by more than one answer's parts;
* tutor: an answer rests on what was found for its own question, what the guard
  blocked is not remembered, the loop ends, an index that looks ready is whole;
* chatbot: an orderly end leaves no entry, a healthy instance gets listed, a
  client is shown one checked answer;
* evaluation: nothing is lost in the cut, runs name what they were made from.

## 2. The modules

| module | models | composed by |
|---|---|---|
| `RelayContract` | what the outbox promises: each row goes none → pending → sent → published, on its own | refined by `Outbox` |
| `Outbox` | `common-outbox` in detail | `MCOutbox`, `OutboxProofs` |
| `Messaging` | outboxes and broker as the services see them, faults | everything below |
| `Billing` | payment-service and the PG's books | `PaymentService`, `Saga` |
| `PaymentContract` | the ledger payment-service promises to be | refined by `Billing` |
| `PaymentService` | Billing with an environment that subscribes and cancels (`ServiceSpec`) | `MCPayment`, `SagaProofs` |
| `Subscriptions` | subscription-service and member withdrawals | `Saga` |
| `Entitlement` | course-service's read model of entitlements | `Saga` |
| `Saga` | the composition of the four services | `MCSaga`, `SagaProofs` |
| `Courses` | course-service's courses, uploads and playback | `MCCourses`, `CoursesProofs` |
| `Keycloak` | accounts, sessions, time, failures of calls (external) | `Accounts`, `Gateway` |
| `Accounts` | member-service: registration and withdrawal | `Access` |
| `Gateway` | the authentication filter and its two caches | `Access` |
| `Access` | a request's way through gateway to member-service | `MCAccess`, `AccessProofs` |
| `Loops` | positions kept, elements removed, sums: the loops several parts share, as functions of the position reached | `Selection`, `Answering`, `Regulations`, `Index` |
| `LoopProofs` | what such loops compute: lemmas, no state | `RoadmapProofs`, `ChatbotProofs`, `TutorProofs` |
| `Selection` | picking, verifying and packing courses: operators only | `Roadmap` |
| `Roadmap` | one roadmap request, graph and client | `MCRoadmap`, `RoadmapProofs` |
| `Index` | the tutor's corpus, the cutting of documents, the builder and its marker | `Tutor` |
| `Tutor` | turns of a conversation over checkpoint and index | `MCTutor`, `TutorProofs` |
| `Registrar` | how an instance of the chatbot keeps its Consul entry, and the agent | `Chatbot` |
| `Answering` | one streamed answer: held-back header, check, repetitions | `Chatbot` |
| `Chatbot` | an instance: registration and answering together | `MCChatbot`, `ChatbotProofs` |
| `Regulations` | cutting the regulations into numbered chunks | `Evaluation` |
| `Evaluation` | edits, builders, key check, runs and rescoring (`EvaluationSpec`) | `MCEvaluation`, `ChatbotProofs` |

### Outbox

`tx[m]` is the domain transaction writing row m, `createdAt`, `published` are
columns, `log` is what the broker took in, `relay[r]` a relay's poll: its batch
(`todo`), the message whose confirm it awaits (`current`) and the marks it will
commit (`marked`). `before` is a history variable: which rows had been committed
when m was written, so that order is a claim about dependent events only.
`Poll`, `SendAccepted`/`SendUnheard` (the broker has or has not taken it when
the confirm fails), `ConfirmAck`/`ConfirmNack`/`ConfirmTimeout`, `CommitMarks`
are the loop of `OutboxRelay.relay`: a nack goes on with the next row,
a timeout or an exception ends the loop; both keep the marks made so
far. The poll takes no lock, hence two relays may hold the same row.
`created_at` comes from the clock of the instance that writes the row
(`OutboxMessage.java:50`, microseconds in the table): clocks of two instances differ
and stamps may be equal, so `Write` takes any of `Stamps`, whatever was written before,
and among equal stamps the poll may choose either order.

### Messaging

The services use the relay through its promise (`RelayContract`, which the
outbox run and a theorem show it keeps): `Publish(e)` takes a pending event into
every bound queue at some time in any order. Queues are sets: consumers are
idempotent about identical events, and a redelivery puts an event back. `Take`,
`GiveBack` (the consumer crashed before its commit), `Reject` (dead-letter after
an exception) are used by consumers as parts of their actions. A crash between
commit and acknowledgement is `Redeliver`.

### Billing, PaymentService

Each instance runs three threads, whose records hold exactly what the code holds
between a read and the commit that uses it:

* `initial[i]`, the SubscriptionCreated consumer: `BeginInitial` (the duplicate
  check) → `AskInitial` (the PG) → `CommitInitial`, or `ViolateInitial`
  when another transaction inserted the row first;
* `refunding[i]`, the SubscriptionCancelled consumer: `BeginRefund` reads the
  schedule and the approved rows, `RefundNext` cancels them one by one at the
  PG, `CommitRefund` saves rows and schedule; `RefundFails` rolls all of it back
  although earlier refunds of the batch stay done at the PG;
* `scheduler[i]`: `Poll` reads a batch of detached copies; `BeginScheduled`,
  `AskScheduled`, then one of five commits: approved, duplicate, giving up,
  retry, uniqueness violation. `Save` writes the *copy*.

`charged` and `returned` are the PG's books: the bills whose money it took and gave
back. They are sets because the code builds one idempotency key per bill
(without the retry count) and leaves it to the PG not to charge a key twice. That
is the PG's promise, it is assumed and no property is about it. An answer may be
`unreachable` whether or not the PG acted, and an error reply counts as `declined`,
as in the code, also when the money has been taken. `retry` has the code's two meanings:
it counts attempts and is lost when two schedulers save copies. The next billing
date is left out: an active schedule may be polled at any time, which admits
every order that any clock could produce.

`PaymentContract` has the rows and where the money is and nothing of threads,
queues, schedules or keys: a cycle is charged at the PG, recorded, refunded at
the PG, recorded. The refinement maps `row` to the payment table and reads the
money from the books.

### Subscriptions, Entitlement, Saga

`status[s]` with one web thread per instance (`VerifyMember` → `CommitSubscribe`;
`ReadForCancel` → `CommitCancel`), the payment-result consumer (`ReadForResult` →
`CommitActivate` or `CommitCompensate`, which write the status whatever
it has become since the read) and the withdrawal consumer (which reads the
member's living subscriptions and cancels that list). `Withdraw` is
member-service as the saga sees it. `Entitlement` is a
read model in which the last event consumed wins, whichever was written last.
`Saga` conjoins them over one `Messaging`.

### Courses

`course[c]` is the document, `stored` the object store, `req[r]` the copy a
request works on. Every operation is a read (`ReadForUpload`, `ReadForComplete`,
`ReadForPlayback`) and, after a question to the store where there is one
(`AskStorage`), a save of the whole copy (`SaveKey`, `SaveUploaded`). Clients
`Put` objects behind the service's back, at any time after they got the URL.
`IssuePlayback` asks `Entitlement` who may play; the events that feed it come
from an environment that may write an activation and a cancellation in either
order. `playback` keeps the URL issued last: objects stay and announced
events stay announced, so what holds of the last URL holds of each.

### Keycloak, Accounts, Gateway, Access

`row[id]`, with `outbox` the announced withdrawals; `work[r]` is the step a
request's transaction stands at: insert, create the user, link, (undo), commit
for `register`; disable, logout, commit for `withdraw`. A flush that fails is a
step of its own; `UndoUser` is the compensation. Failed calls come in the kinds
`refused` (Keycloak did nothing), `unheard` (it did, and the answer is lost),
`linkFails`, `commitFails`, `crash`; each kind once.

`Gateway` has `req[r]`, a request's place in the filter (asking for the token's
verdict → told → fetching a service token → issued → transit) and both caches
with what is left of their entries. Time is discrete; a `Tick` ages
everything and is not possible while an answer is older than
`AnswerDelay` or a request longer on its way than `Transit` (`InTime`): those
two constants are what the margins of the code (`REFRESH_SKEW`, the cache's time
to live) are measured against.

`Access` joins them: `Arrive` is the resource server's check and the start of
the member-service transaction, with the person the token stands for.

### Selection, Roadmap

A selection is what the model wrote: a sequence of entries, each an index or
`Malformed`. `Pick`, `Problems` and `PackWeeks` are `verify.pick`, `verify.check`
and `schedule.pack_weeks`. A loop is a recursive function that gives, for every
turn, what its variables hold after that turn; so are the loops of the answer's
words, of the regulations and of the index builder. `Sound` and `Exact` are the
reference definitions and share no loop with the code's.

`node` says where a request stands: a node of the graph or, inside `generate`,
a step of the HTTP client (`attempt` → `http` → answered, or `backoff` →
`sleep`, or `raise`). `state` is the graph's state, `llm` the client's (which
model, which attempt, the last error), `clock` the time since the request was
accepted. `Send` and `Sleep` fix how long may pass (`CallWait` cuts a call's time limit to
what is left of the deadline); `Tick` lets time pass in the graph. The limit given to
`urlopen` holds for each operation on the socket and not for the call, so an answer
may come in parts: `Receive` is one that is not the last, and the next may take as
long again. `MaxParts` bounds them; the code has no such bound. `DeliverFails` is a
roadmap whose response object cannot be made. `TransientError`,
`FinalError` and `Uncaught` are the three ways a call ends badly: retried, raised
as `LLMError`, or an exception nobody expects. Requests share only counters, so
one is modelled; it comes through either endpoint or the command line, which
sets no deadline.

### Index, Tutor

`store`, `marker` and `build` are the vector store, its completion marker and a
run of `init_vectorstore` with `--limit`, `--resume` and a death between any two
writes; the first state may be what a killed run left behind. `ParseBlocks` and
`Pack` are the cutting of a document, tried out by `DryRun` on every document of
a bounded size. A heading has a title and a block's path consists of titles, so that two
sections of one name may share a chunk, as they do in the code. A chunk has `parts`,
the blocks given to it, and `text`, everything that stands in it: the end of the chunk
before, put in front as the overlap, too, whatever it consists of.

`turn[t]` is a request of one conversation on a thread of its own, with its copy
of the graph's state; each node's result is merged into the copy and saved as
`checkpoint`. `Chat` starts from the last checkpoint and `new_turn`'s resets,
whoever left it. Questions and queries are known by the turn they come from, so
that evidence sought for another question can be told apart. Searching may find
any `TopK` visible chunks; grading, rewriting and generating may say anything or
fail as the code catches it. `opened` is the server's handle on the store,
which goes stale when the builder removes it.

### Registrar, Answering, Chatbot

`call` is the request an instance waits for and the agent's answer to it,
`agent` the agent's entry and the requests that were given up but may still be
carried out. `Wake` is the loop of `_ensure_loop`, `ReadAnswer` and `CallFails` its
two ends, `Stop` the cancellation and `deregister`, `Probe` and `Reap` the agent's
health check and removal. `owed` is a history variable: whether an entry may be
left for a reason the code cannot help.

`text` and `pos` are the model's answer, as tokens, and how much has arrived in
pieces cut anywhere; `client` is what has been sent: the header's citations,
the body, how it ended. `phase` is `over` when the text ended before its header
was complete and was judged as it stood: the call is done, nothing of it can fail
any more. `SplitAnswer` and `HeaderComplete` translate `prompt.py`.
`Chatbot` lets the server stop only between answers and crash anywhere.

### Regulations, Evaluation

A document is an id and its lines; `ChunkDocument` scans headings, packs clauses
and numbers the chunks. `docs`, `chunksFile`, `contextFile`, `eval` and `runs` are
files and the one evaluation under way; every script reads what it needs at its
start. An author edits the regulations (a part put in, a line taken out) or the items
with their answer keys (one written anew); items are neither added nor removed. A
stored result keeps the type and the keys it was scored with, and `Rescore` reads
those of today, as `run_eval.py` does.

## 3. The runs

| run | asks | bounds | result |
|---|---|---|---|
| `outbox` | does the relay keep its promise under every failure? | 2 relays, 2 rows, 2 stamps given in any order, batches of 2, 2 faults | holds |
| `payment` | do rows, books and events agree, and does everything get done? | 2 instances, 1 subscription, 2 cycles, 1 fault of 4 kinds, 2 attempts | holds |
| `payment_stale_copy` | is a cancelled schedule never active again? | 1 instance, no fault | violated |
| `saga` | do the services agree on what was paid, and do verdicts, grants and withdrawals get through? | 1 subscription, 1 member, 2 cycles, 1 fault of 3 kinds, 1 attempt | holds |
| `saga_refund_race` | is a cancelled subscription always refunded? | the same, no fault needed | violated |
| `courses` | do uploads and playback survive overlapping requests? | 1 course, 2 keys, 2 requests, an owner and a viewer, 1 fault (crash, redelivery) | holds |
| `access` | accounts, withdrawals, cached verdicts and tokens | 1 person, 1 user token, 2 requests, 2 of 5 kinds of fault | holds |
| `roadmap` | is what is delivered what was judged, and how late? | 3 front ends, 3 courses, selections of up to 3 entries, 2 models, 2 calls each, answers of up to 2 parts, 2 selections, 4 units of time | holds |
| `roadmap_stream_end` | does every stream end with a result or an error? | the same | violated |
| `tutor` | do turns stay apart, and the index whole? | 2 turns, 1 crash, 2 documents, 1 build after any remains of another, 2 rewrites; documents of up to 5 lines | holds |
| `chatbot` | is the instance listed, and what is a client shown? | 2 faults of 4 kinds, 5 texts (one empty), pieces of up to 3 tokens, 2 attempts, 1 repetition | holds |
| `evaluation` | do files made at different times fit together? | 2 sets of 2 documents, 2 items, 1 edit of a regulation or an item, 2 stored runs | holds |

What they show:

* **outbox** — `OnlyCommittedArrive` and `MarkedHaveArrived` are the two ways a
  relay can lie. `OrderLostByRefusalOrClock` is the exact extent of the ordering
  guarantee: a row arrives after those that had been committed when it was
  written, unless such a row was nacked (the loop goes on) or its stamp is not
  the smaller one (equal, or the clock of the second instance is behind).
  The comment at `OutboxRelay.java:58` names neither exception.
  `ImplementsContract` includes the contract's liveness: every committed row
  is published in the end.
* **payment** — `BooksBacked` (an APPROVED row was charged, a REFUNDED one is
  back), `TakenIsPursued` (money taken for a bill without a row will be asked for
  again: the message is still there, or the schedule still on and not past the cycle,
  unless the subscription was cancelled), `NoCycleSkipped` (the schedule is never ahead of the
  rows, however old the copies written back) and the ledger contract;
  and in the end `FirstPaymentSettles`, `RefundFollowsCancel` (unless the
  event was dead-lettered: the containers do not retry), `DueIsBilled`.
* **saga** — `NoServiceWithoutPayment` relates tables of three services;
  `EndHasCause` says no subscription ends and no money is returned
  without an announced cancellation or a failed payment.
  In the end: `PendingResolves`, `ActivationGrants`, `WithdrawalCancels`: a
  subscription that exists when its member's withdrawal is announced is cancelled and stays
  so, unless an activation that had read the row before overwrites it. That
  exception is there because TLC finds it: D-31 (`docs/DECISIONS.md:36`) has none.
* **courses** — `UploadedIsStored` (a completion overtaken by a new upload URL
  does not vouch for the new key: it holds because the whole copy is
  saved, and a field-wise update would break it), `PlaybackIsEarned` (a URL opens a stored
  object and went to the owner or to a member who once had a subscription
  activated).
* **access** — `ProfileHasAccount` (two registrations of an address, the
  loser compensating), `WithdrawnCannotLogIn` (committed = announced ⇒ disabled),
  `OrphanHasCause` (which failures leave a login without a profile),
  `ArrivesAuthenticated` (the refresh margin), `AdmitsOnlyRecentlyLive` (the
  revocation window is the cache's time to live plus the age of the answer).
* **roadmap** — `DeliveredAsJudged` (verified without problems if and only if the
  selection can be followed as it stands; the hours stated are those shown),
  `ScheduleExact` (every hour once and in order, full weeks, within the weeks
  asked for when there is no problem), `RetryKnowsWhy`, and `LateOnlyByParts`
  over calls, sleeps, models and regenerations: what exceeds the deadline is the time
  that further parts of one answer take.
* **tutor** — `EvidenceIsForThisTurn` (answered from chunks means: found for this
  question, public, and cited exactly, whatever the last turn left), `HistoryIsGuarded`
  (a blocked answer is nowhere in it, each answer follows its question),
  `LoopEndsItself` (the bound on rewrites bites before the framework's),
  `ReadyMeansWhole`, and `CutIsFaithful`: every line but headings is kept in order, a code
  block is given to one chunk whole, and what a chunk holds besides is a repetition
  of at most `Overlap` from under the same headings. That repetition may be half a
  code block, against `init_vectorstore.py:112-113`, and so the property does not deny it.
* **chatbot** — `LeftoverHasCause` and `ListedInTheEnd` are the two directions of
  registration; `ShownIsOneAnswer` (no word lost, doubled or mixed from two calls; line ends and
  blanks after the separator are not claimed, `prompt.py:96` strips them)
  and `GhostIsFlagged` (a citation that does not exist is shown with a warning
  only, after the last attempt).
* **evaluation** — `CutsAreWhole`, `ProvenanceIsTrue`, `RescoringIsComparable`
  (a verdict that rescoring changes has a reason to be seen in the stored runs: the
  item's type or keys are others, or the answer mentions an id that only one of
  the two indexes had), and `CheckedItemsCanPass` (what the key
  check accepts, the scoring can pass, while the index file is today's).

Every property has a mutant in `PROJECT.json`: a small change of the mapped
code (a dropped guard, a missing compensation, marks committed too early, ...),
written in the module beside the definition it changes, under which
TLC finds that property violated.

### Bounds, and why they are enough

Every bound is a constant. Two relays, two instances and two requests are the
smallest numbers with a race, and no action involves three of
them: each acts on the shared table alone. Two rows are enough for
an order. Two cycles are the least with a renewal, and the schedule's `MaxCycle + 1` is
the first cycle that will not be billed; two attempts have a first and a last.
`MaxFaults` 2 lets one failure hit the recovery from another, of the same kind
or not (in `access` each kind happens at most once); payment and saga check
safety and liveness in one run and have one fault each, which is enough for
every recovery the code has, and payment's safety is proved for any number. The
saga leaves lost answers to payment, whose rows it sees. One subscription suffices where subscriptions share
no state (payment, saga): the only common structure is a scheduler's batch,
whose elements are handled one after the other. `Window` saturates the count of ticks since a
session ended; it is at least the window claimed, so a violation is not hidden.
In `access` the lives of tokens are the shortest that make the margins bind:
`AnswerDelay + Transit = RefreshSkew < ServiceLife`. Symmetry is used only in runs
without liveness, on requests and turns, which are interchangeable.

Roadmap: three courses are a pair whose order matters and one of another track between
them; three entries can repeat a course, leave the range and exceed the budget at
once; 4 units of time against calls and sleeps of up to 2 let every wait meet the
deadline, and one part more than the last lets a call exceed it. Tutor: two turns show what is left behind; two documents, one public
and one not, are the least that tell a whole index from half of one and a
permitted chunk from another; five lines nest a fence under a heading, overflow
a chunk, repeat the end of a code block in the next one and put two sections of one
title into one chunk. Chatbot: the five texts are the answer as asked for, one with a
ghost only among the references, one with blank lines, one without a header and the
empty one. Evaluation: one edit anywhere between any two scripts is what makes two files
differ; TLC edits a regulation or an item, never both, and the proof covers both.

Every invariant and action property of the passing runs is also proved (section 5),
so the bounds matter for liveness, and for whether the cases each property is about
occur at all, which the mutants show.

`roadmap` and `chatbot` check deadlock: a request ends at `done` and nowhere else,
an instance can always do something. In the others everything the models contain
may come to rest, and that it does not rest too early is what the liveness
properties say, where there are any.

### Fairness

* `Outbox`: weak fairness of each relay's steps — `@Scheduled` calls `relay()`
  again and again and a confirm wait ends after its time limit. None for
  domain transactions or for the failures.
* `PaymentService`: weak fairness of publication (the relay's promise), and of
  each thread of each instance (a consumer's container takes the next message,
  the scheduler polls again). Per thread, never per outcome: which answer the PG
  gives is not promised.
* `Saga`: the same for all consumers and requests under way. Its scheduler is owed
  nothing, for its polls have no time here.
* `Courses` and `Access` have no liveness properties and no fairness: registrations and
  requests may be abandoned anywhere.

* `Registrar`: weak fairness of the loop, of reading answers, of a call to an agent
  that is down (it times out) and of a running agent's work; strong fairness
  of `Probe` for a healthy instance only, since it is probed every 10 s and an entry
  is removed after 60 s and verified every 30 s: several probes fit in between.
  `Reap` does not run while the answer to a registration just carried out is on
  its way, 5 s against 60 s. Boots, stops, crashes and the agent's return are owed by nobody.
* `Roadmap`, `Tutor` and `Evaluation` have no fairness: that a request ends is
  bounded by `LateOnlyByParts` and `LoopEndsItself`, which are safety.

Nobody is ever obliged to subscribe, cancel, withdraw or log in; no fault must
happen; crashes are finite in number because each consumes `MaxFaults`.

## 4. Findings

| run | the code | what the repository says |
|---|---|---|
| `payment_stale_copy` | the scheduler saves a detached copy and reactivates a schedule cancelled meanwhile | `BillingSchedule.java:88` — stopped at once on cancellation |
| `saga_refund_race` | a cancellation consumed before the creation leaves a charge that is never refunded | `SubscriptionService.java:80` — the refund path is under way |
| `roadmap_stream_end` | a timeout while an answer is read is no `URLError`, passes every handler and breaks the stream off | `service/app.py:201` — it ends with a result or an error |

Disagreements that were confirmed with TLC on these models and have no run of their own:

* a first payment whose answer is lost is FAILED although charged
  (`PaymentService.java:207`; `PgHttpClient.java:62` says unknown is not to be
  taken for failed);
* a failed renewal ends the subscription without an event and the right to play
  stays (`SubscriptionService.java:93`; `SubscriptionEntitlement.java:20` says it closes
  with the same delay);
* a withdrawal that is rolled back leaves the account disabled
  (`MemberService.java:96`; `KeycloakUserClient.java:93` says still a normal member);
* two rows of which one was committed before the other was written are sent in the
  opposite order when their stamps are equal or the second instance's clock is behind
  (`OutboxMessage.java:50`; `OutboxRelay.java:58` says the order is kept);
* an activation that read the row before a withdrawal's cancellation commits after
  it, and a withdrawn member's subscription is ACTIVE for good (`Subscription.java:63`;
  D-31, `docs/DECISIONS.md:36`, says it ends);
* an answer that comes in parts ends a request after its deadline
  (`llm.py:112-116`; `service/app.py:63` calls it the whole time a request may use);
* the overlap takes half a code block into the next chunk
  (`init_vectorstore.py:129-131`; its lines 112-113 say code is not cut);
* scoring again changes verdicts because answer keys or the index were edited
  (`run_eval.py:355-360`; its lines 393-394 leave only the scoring code as a cause);
* after a section has been inserted the key check passes and the keys point
  elsewhere (`check_eval_keys.py:112`; its lines 3-6 say it catches this).

Seen in the Python services while modelling, and admitted by the models: the overlap
makes a tutor chunk longer than `CHUNK_MAX` (`config.py:41`,
`init_vectorstore.py:128-131`); an error event may follow the header although
`routes.py:12` says it comes in its place; a transport error ends a stream with
neither end nor error (`provider.py:97-112`); a separator cut over two pieces shows
in the body; a cancelled registration can leave an entry (`consul.py:172-183`); an
`LLMError` in a later round of the roadmap discards a usable selection; the check
whether the index file is stale compares ids only (`check_eval_keys.py:133`); the
index file and the prompt text can be of different days; `regulations.py:3` and
`prompt.py:1` say service and scripts share the code, but each has a copy; a
heading level that is skipped makes the path above a chunk wrong.

Other things seen while modelling, each admitted by the models and not stated as
a property: a stale duplicate's advance reactivates a schedule stopped by a
refusal (`PaymentService.java:98`); two schedulers lose each other's retry
counts; a FAILED row can be written while another instance is being approved
under the same key; a crash after a scheduled approval, followed by a
cancellation, leaves money without a row; an activation whose commit follows an ordinary
cancellation's overwrites CANCELLED with ACTIVE as well; a completed upload's save
overwrites the key of an upload URL issued meanwhile; a subscription committed after
the member's withdrawal was processed stays; a redelivered SubscriptionActivated
grants the right again after its revocation; a Keycloak user orphaned by a
failed registration makes the address answer 409 for ever. Left out of the
models but visible in the code: the billing date drifts by every retry
(`BillingSchedule.java:66`) and the verdict cache's limit is soft.

## 5. What is proved

All theorems are checked by TLAPS, for every value of the constants that the
named assumptions admit.

| theorem | module | says |
|---|---|---|
| `DeliveryInvariant` | `OutboxProofs` | the inductive invariant of the relay |
| `NoPhantomEvent`, `NoLostEvent`, `OrderKept` | `OutboxProofs` | `OnlyCommittedArrive`, `MarkedHaveArrived`, `OrderLostByRefusalOrClock` |
| `ImplementsContractSafely` | `OutboxProofs` | Outbox implements the safety half of RelayContract |
| `BillingInvariant` | `SagaProofs` | the inductive invariant of payment-service |
| `BooksAgree`, `MoneyIsPursued`, `NoCycleLost`, `TypeCorrect` | `SagaProofs` | `BooksBacked`, `TakenIsPursued`, `NoCycleSkipped`, `ServiceTypeOK` |
| `ServiceImplementsContract` | `SagaProofs` | payment-service implements PaymentContract |
| `SagaInvariant` | `SagaProofs` | the inductive invariant of the four services |
| `NoServiceUnpaid`, `EndsHaveACause`, `SagaTypeCorrect` | `SagaProofs` | `NoServiceWithoutPayment`, `EndHasCause`, `TypeOK` |
| `CoursesInvariant` | `CoursesProofs` | the inductive invariant of course-service |
| `CoursesTypeCorrect`, `UploadsAreReal`, `PlaybackAlwaysEarned` | `CoursesProofs` | `TypeOK`, `UploadedIsStored`, `PlaybackIsEarned` |
| `AccessInvariant` | `AccessProofs` | the inductive invariants of accounts and of the caches |
| `AccessTypeCorrect`, `ProfilesHaveAccounts`, `WithdrawalIsWhole`, `OrphansHaveACause`, `ServiceTokensSuffice`, `WindowIsKept` | `AccessProofs` | `TypeOK`, `ProfileHasAccount`, `WithdrawnCannotLogIn`, `OrphanHasCause`, `ArrivesAuthenticated`, `AdmitsOnlyRecentlyLive` |
| `RoadmapInvariant` | `RoadmapProofs` | the inductive invariant of a roadmap request |
| `RetriesKnowWhy`, `LatenessIsBounded`, `RoadmapTypeCorrect` | `RoadmapProofs` | `RetryKnowsWhy`, `LateOnlyByParts`, `TypeOK` |
| `DeliveryIsJudged`, `SchedulesAreExact` | `RoadmapProofs` | `DeliveredAsJudged`, `ScheduleExact` |
| `TutorInvariant` | `TutorProofs` | the inductive invariant of conversation and index |
| `EvidenceIsOwn`, `HistoriesAreGuarded`, `LoopsEndThemselves`, `MarkersVouch`, `TutorTypeCorrect` | `TutorProofs` | `EvidenceIsForThisTurn`, `HistoryIsGuarded`, `LoopEndsItself`, `ReadyMeansWhole`, `TypeOK` |
| `CutsAreFaithful` | `TutorProofs` | `CutIsFaithful` |
| `RegistrarInvariant`, `AnsweringInvariant` | `ChatbotProofs` | the inductive invariants of registration and answer |
| `LeftoversHaveACause`, `GhostsAreFlagged`, `CitationsAreOfTheText`, `ChatbotTypeCorrect` | `ChatbotProofs` | `LeftoverHasCause`, `GhostIsFlagged`, `CitedAsInTheText` (a conjunct of `ShownIsOneAnswer`), both type invariants |
| `ShownAnswersAreOne` | `ChatbotProofs` | `ShownIsOneAnswer` |
| `EvaluationInvariant` | `ChatbotProofs` | the inductive invariant of the evaluation |
| `ProvenanceHolds`, `RescoringCompares`, `CheckedKeysCanBeScored` | `ChatbotProofs` | `ProvenanceIsTrue`, `RescoringIsComparable`, `CheckedItemsCanPass` |
| `CutsHold` | `ChatbotProofs` | `CutsAreWhole` |

**Assumptions.** Finitely many messages in the outbox, their stamps positive integers; natural bounds and
attempt counts; the "nothing" values are outside the sets they extend; the queues
the services listen to are among the queues; for the
gateway `AnswerDelay + Transit <= RefreshSkew < ServiceLife` (the margin covers
an answer's age and the way, and a token outlives the margin) and
`VerdictTtl + AnswerDelay <= Window`; a catalog that is not empty, of courses of
at least an hour and of levels 1 to 5, at least one model,
and a malformed entry is no integer; texts are
sequences of tokens, regulations sequences of lines, and what an author puts in is
one of these; a document of the index is a sequence of lines, each of at least
one character, a heading of a level from 1 to 6, a fence with its mark, an
overlap of at least one, and
`ChunkMax > 1 + MaxLevel`: a chunk has room for more than the headings put before it
(a heading counts one here; in the code at most six of them share 1200 characters). `PowersAssumption` in `Roadmap` is arithmetic the
provers do not know: two to a natural number is a natural number. One theorem has
a hypothesis of its own: `LoopsEndThemselves` needs
`3 * MaxRetry + 4 < RecursionLimit`. The code's 2 and 12 satisfy it, and so the
theorem says what the two numbers owe each other: a third rewrite would need a
limit above 13.

**Outbox.** `OnlyCommittedArrive` is not inductive: a relay that holds an
uncommitted row would publish it. `DeliveryInv` adds what each run holds: its
batch is committed, its marks and its `accepted` message have arrived. Every
step then preserves it by looking at one run. The refinement maps a row to
`published` when it is marked, else `sent` when it arrived. For the order,
`OrderInv` looks at a row's *elders*, the rows committed before it was written whose
stamp is smaller. They are committed, and a run owes none of them to the rows it
still has to send: each has arrived, was refused or is still to be sent by the
same run.

**Payment.** The four safety properties need what each thread may still rely on
between its read and its commit. `BillingInv` has the tables (rows backed by the
books, schedules never past the rows) and per
instance one clause per thread: an approved answer in hand has a charge behind
it, a row read as approved is still approved or refunded, a copy — however
old — is not ahead of the table. These survive the *other* threads' steps
because rows, books and announced events only grow; the lemmas
`RowsBeforeGrows`, `InitialKept`, `RefundKept` and `SchedulerKept` say this once,
and the proof that a step preserves the invariant treats its own thread by hand and all the rest
by these. `TakenIsPursued` needs `PursuitInv` besides: a subscription whose first bill is
charged and has no row still has its message in the queue or in a consumer's hands
(`HandedOut`, `FirstPursued`), and a later cycle that was ever asked for has all rows
before it, so a schedule that is switched off without a cancellation leaves no charged
bill open (`OthersPursued`, `SchedulesActive`).

**Saga.** No service sees another's tables, so what one concludes from an event
must hold of the table the event came from whenever it is read. `SagaInv`
follows every message in a queue or a consumer's hands back to the events
committed (`UnderWay`), every verdict to a row that is never taken back
(`VerdictsTrue`), and every later bill to an approved first payment
(`FirstPaidFirst`). `BillingShows` and `SubscriptionsShows` say what a step of
one service can change for the others; every action is shown to stay within
them and the invariant to be kept by them, so that neither half of the
proof looks into the other service. `BillingInv` is reused as it stands.

**Courses.** `CourseInv` adds to the two properties what a copy in a request's
hands may be trusted for: it is sound (uploaded means stored, a key of its own
course) and its owner is still the owner, since a document never changes hands. `EventInv`
follows a right to play back through queue and outbox to an announced activation.

**Access.** `MemberInv`: a row's account was created under its id and its number
has been handed out; each transaction step's clause (`WorkOK`) says
what has been done at Keycloak so far; two registrations in progress hold
different addresses and ids (`Apart`), by the unique column and the sequence.
This is what makes the loser's compensation harmless to the winner.
`CauseInv` says that, until a failure has occurred that nothing repairs, every
account has its row or a registration still at work on it.
`GatewayInv` bounds ages: a usable kept token has at least `Transit` more
ticks to live than to be used, an answer in hand is at most `AnswerDelay` behind
its issuing, a kept verdict was right at most `AnswerDelay` before it was kept.
`AdmitsOnlyRecentlyLive` is an action property and follows from that invariant
before the step.

**Roadmap.** Whether feedback is written and whether there is another round are
decided at two nodes, and the prompt is made at a third. `RoundFits` says for
every node whose judgement the state and the prompt hold, which carries the
reason of a retry through the client's calls and repetitions; `ClockFits` says
that what a call waits for next ends by the deadline and the parts that have come, and
that a sleep was begun only if it ends before the deadline. `RoadmapInv` also shows that a roadmap is delivered with the
problems, the hours and the weeks of the very selection it shows; what is left
for `DeliveredAsJudged` and `ScheduleExact` is what the loops compute.

**Loops.** `LoopRuns` (and `GuidedLoop`, where a turn is typed only from what it can meet) turn a
loop into a function that gives the state after every turn and say how one turn
follows the one before; `Climb` carries a property from the first turn to the last.
`Climb` takes the property as a set of positions and argues from the least one that
is missing, so that no induction rule with an operator parameter is needed.
On these rest `Problems(s) = {} <=> Sound(s)` (looking only at the course of the
track just before is enough, `OrderedThroughout`) and `PackedExactly` (after every
turn the closed weeks are full and closed and open week together hold every hour
laid out so far, in order). That a body's words are the words of the text's body,
none lost or doubled, follows from: stripping and cutting take no word away.

**Tutor.** A turn begins with whatever checkpoint another turn has left,
finished, overtaken or cut off. `CopyFits` says what each node finds in its copy of the
state, whoever left it: `new_turn`'s resets are what makes the first clause hold.
`Begun` says that every history, saved or held, speaks only of turns
that have begun, which is why a turn's own question is never there
before it asks it. The step count is bounded by the nodes before the current one and three per
rewrite. `BuildFits` follows a build from its snapshot to its marker. For
`CutIsFaithful`, *Parsing* says of every n that the first n lines, headings apart,
are in the blocks and the open block, *Packing* that the first k blocks are in the
chunks and the open chunk, in order, none but a prose block given to two of them.
What else stands in a chunk is followed by `Stands` and `Follows`: its pieces are
those of the parts, and before them at most `Overlap` of earlier blocks under the same
headings, code included. The heading path falls by level, so it is at most `MaxLevel` long: this is
what leaves room in every chunk, through merging too (`AllFit`). Only `DryRun`
changes `cut`.

**Chatbot.** `EntryKnown`: as long as nothing is owed, an entry the agent lists is one
the instance believes in, is about to learn of, or is taking away. `ShownFrom`:
the first tokens of the text that is arriving were checked, as a complete
header or as the whole text; the client has been shown what they held and
every token since, in its place. `HeaderStays` is the reason the check may be made early: a
line that has ended stays what it is, whatever follows.

**Evaluation.** `EvaluationInv`: every result is what scoring its answer gives with the
type and keys stored beside it and the ids and the prompt text its run names; a
rescored run keeps an earlier run's answers. Both properties follow by comparing two
such results: where type and keys agree, a verdict depends on the ids only through
those the answer mentions. `CutsHold`
follows the scanner: above the first heading nothing is kept, afterwards the
chunks and the open section say what the lines read so far say, silent lines left
out; the numbering then gives every chunk an id of its own.

**Only model-checked.**

* Everything temporal beyond safety: liveness under fairness is out of the
  prover's reach: `FirstPaymentSettles`, `RefundFollowsCancel`, `DueIsBilled`,
  `PendingResolves`, `ActivationGrants`, `WithdrawalCancels`, `ListedInTheEnd` and the
  liveness half of the outbox's contract. Every invariant and every action
  property of the passing runs has a theorem.

## 6. Abstractions

* Amounts, addresses, names and dates are not modelled; a bill is a
  subscription and a cycle, a member an id.
* Code outside this repository — Keycloak's accounts and sessions, the PG's
  books, the broker — is modelled as these services use it, and marked external
  in `PROJECT.json`.
* Databases give a transaction the snapshot of its first read and a unique index; a
  transaction is that read and one commit step, which writes whole rows whatever has
  become of them. A crash of a service loses its transactions; that the database
  fails while the service lives on is not modelled.
* The gRPC question whether a member is ACTIVE is a read of the member, and all its
  failures are a refusal.
* A language model's answer is any value of the kind the code goes on with; prompts,
  wording, scores beyond low and high, token counts and metrics are left out.
  Lengths of texts are small numbers against small limits.
* Rows of `member` without a Keycloak id (older than the move to Keycloak) and
  the switch that turns introspection off are left out.
* Identical events are one event: consumers treat repetitions alike, and that is
  checked through `Redeliver`, not assumed.

## 7. What is not modelled, and the plan

Not modelled: REST validation, error mapping and reads that change nothing;
configuration, compose files, dashboards; front ends; measuring scripts that keep no
state; the judge and the reports of the evaluation; prompt building, retrieval scores,
language detection and other text processing.

Modelled partly: the verification of a member over gRPC, of which the saga sees the
answer only, not the circuit breaker, the channels and the token cache.

Planned: **MemberBreaker** — the circuit breaker with its half-open probes, composed
with `Subscriptions!VerifyMember`; **Dunning** — `Billing` with time.
