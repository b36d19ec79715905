# A verification project for nanoguard

nanoguard is a guard proxy in front of LLM backends, with a web console beside it.
This directory holds TLA+ modules that model its stateful core, TLC configurations
that check them on small instances, and proofs that TLAPS checks for every instance.
Paths below are those of the repository (`src/src/...` is the Rust crate).

## 1. The system

Two servers run, usually in one process: the **proxy** (`main.rs`, `proxy/`) and the
**console** (`console/`). They share one SQLite file, `nanoguard.toml`, and a reload
channel (a Unix socket or SIGHUP through a PID file). `nanoguard-admin` is a third writer
of the SQLite file.

| Component | State | Operations | Interacts with |
|---|---|---|---|
| Client-token authentication, `client_auth/` | table `client_tokens`; in-memory cache with TTL, capacity and LRU counter | verify a request; mint; revoke one token or all of a user; invalidate; clear | admin API, console (socket, SIGHUP), every request |
| Chat and messages handlers, `proxy/` | one handler per request; body, chain, usage seen | guards, budget check, fallback loop, parse or stream, record, audit | backends, budget, audit log |
| Backend pool, `backend/`, `config::pool` | labels, rules, default | route a model to a chain of backends | handlers, reload |
| Token budget, `budget/` | tables `api_key_limits`, `api_key_usage`, `spend_logs`; one connection under a mutex | check, record, set limit, reset | handlers, admin API, console |
| Audit log, `audit/` | append-only JSONL | one line per verdict or reload | handlers, reload |
| Hot reload, `reload.rs`, `main.rs` | the shared `AppState`; a pending signal | read, build, swap, write a line, answer | console, file |
| Console editors, `console/{handlers,edit}.rs` | `nanoguard.toml` and its backups | create, update, delete a backend; routing; raw edit; revert; trigger | reload |
| Console sessions, `console/{auth,db,handlers}.rs` | tables `users`, `user_sessions`, `login_attempts` | login with lockout, extractors, logout, create, update, reset, sweep | SQLite, `nanoguard-admin` |
| Request guards, `matcher/`, `policy/`, `proxy/redact.rs`, `guard/{vault,deanonymize,spotlight,tool_gate,schema}.rs` | the texts of one request and of its answer; the request's vault | scan, reject, mask, spotlight; filter, restore, gate, validate | handlers, audit log |
| Streaming filters, `proxy/sse.rs`, `guard/{sse_deanon,sse_tool_gate}.rs` | buffer of the SSE filter, window of the de-anonymiser, partial tool calls, last usage | push a chunk, flush, end | handlers, budget |

What is hard in it: a lookup, a login or an update of a user consists of several critical
sections with other threads between them; two processes write one database; handlers are
dropped at an await when a client leaves; statements that belong together are not always
in a transaction; reloads over the socket run side by side; signals coalesce; an upstream
cuts its answer into chunks wherever it likes; half a dozen guards rewrite one text one
after the other, each relying on what the others left. The
`hazards` of `PROJECT.json` list each place with its line.

What makes each part correct:

* authentication: a revoked token stops being accepted, at once or within the TTL; only the
  wire that was minted is accepted; the cache keeps its bound;
* request path: counter and log agree; a budget is overrun by no more than what is in
  flight; a spent budget stops requests; fallback tries each backend once, in order, with
  the whole body; audit lines match what happened;
* reload: what was reported as reloaded is live or the log says that it failed; what an edit
  replaces has a backup; what routing names stays configured;
* sessions: a password reset ends the sessions of the old password; guesses are bounded;
  role changes are audited and rotate sessions; a used CSRF token is spent;
* guards: what must be masked is not sent; masking and restoring are inverse; what the
  client gets has passed the last guards; an audit line names the rule that blocked;
* streams: chunk boundaries change nothing that the client reads, is spared or is charged,
  within the limits that `streaming.md` states for phrases over two events.

## 2. The modules

`X.tla` is the specification, `MCX.tla` gives constants their values for TLC, `XProofs.tla`
holds the theorems. Two modules hold lemmas about the libraries' operators: `Induction` (least
and greatest numbers of a set, induction over the naturals, what `FlattenSeq` and the `Replace`
of `Texts` compute) and `Folding` (what `FoldLeft` computes, for any operator; it is
instantiated for each one). Operators named `Mut...` ("Seeded fault") are faulty versions of
the definition that follows them; they are used only to show that each property can fail.

### TokenAuth

`rows` is the table, `cache` the map of `TokenCache` with its `counter`, `req` what each
verification has in its hands. `ClientAuth::lookup` has three critical sections, so a
request takes `GetHit` or `GetMiss`, `ReadRow`, `Fill`, `Decide`; `Workers` bounds how many
verifications and admin revocations hold a thread at once, since there is no await between
their steps. `AdminRevoke` and `AdminInvalidate` are the two halves of `revoke_client`.
`ConsoleRevoke` and `ConsoleRevokeAll` write the table from the console and then notify the
proxy: over the socket (`SocketSend`, `SocketFlush`, `SocketOk`, with `NotifyFail` for the
timeout while the command may still run) or by `SighupSend`. `MintInsert` and
`MintCollision` are the retry loop around the UNIQUE prefix. A wire stands for its own hash.
`acked` and `late` are ghosts: prefixes whose revocation was reported effective, and the
requests that began after that. The console's writes are not counted as holding a worker
(it may be another process), which allows more interleavings than the single-process setup.
The listing endpoints only read and are left out.

### ChatPipeline

One `pc` per request through `chat_completions` and `messages`: guards (`Block`, `Pass`),
`GetLimit`/`GetUsage` as the two queries of `BudgetStore::check`, the fallback loop
(`Forward`, `Respond`, `NetError`), the answer (`Parse`, `ParseFail`, `StartStream`, `Chunk`,
`StreamEnd`, `StreamAbort`), `RecordLog` and `RecordUsage` as the two statements of
`record_spend` under the connection's mutex, and `Finish` for what follows. `Disconnect`
drops a handler at its await, except that a recording on the blocking pool goes on; `Crash`
loses handlers and keeps what SQLite has committed. Operators set limits and reset through
the proxy's connection (which waits for the mutex) or the console's (which does not).
Scanning, masking, spotlighting, de-anonymisation, the tool gate and the schema are
abstracted to the verdict they lead to (RequestGuards and Streaming have them in detail for
one request); `[audit]` is taken to be enabled. `cap`, `peak`, `over` and `clean` are ghosts
of the properties.

### Ledger

The abstract specification of the budget: a counter, a log and the limits, in which a spend
is one entry made in both at once (`Record`), a request is told a limit (`Read`) and turned
away only when that much is spent (`Refuse`). The two ways in which the implementation loses
a spend are in the open: `Lose`, a recording that failed or was cut short after its log row,
and `Reset`, after which the one response that is being recorded still counts. `ChatPipeline`
instantiates it as `L`: a spend counts from its log row on, so the abstract counter is
`Counted`, the usage table plus what the holder of the mutex has yet to add; `Refused` is
the set of requests answered 429 without a forward. `ImplementsLedger` is that refinement.

### ConfigReload

A configuration is what `Config::pool` looks at (labels, routing default, the rules with
their model, primary and list of fallbacks) plus one bit for the rest of `build_app_state`.
An editor holds one of the console's `Threads` from its check to its rename, with no await
between them: `CreateBackend` ... check the file, `ReadToml` reads it again and computes the
new content, `ReadBefore` is the read in `atomic_write` of what is to be backed up, `Backup`
writes that copy and prunes, `Rename` puts the new content in place; then the editor triggers.
There is no lock, so the steps of edits on different threads interleave. `EditFile` only
parses what it is given, and `RevertFile` neither validates nor backs up, as in the code.
Reloads are slots: one for SIGHUP, one per editor for its socket connection, each
`ReadConfig`, `Swap` or `BuildFail`, `AuditReload`. `TriggerFail` covers the console's
5-second timeout, after which the reload goes on. Every content carries the number of the
write that put it on disk; those older than the run have number 0, the
backups `Backups0` among them; `reported` is the newest one whose reload was reported, and the
ghost `orderly` says that so far no two edits overlapped and that raw edits named configured
backends. `BackupLimit` is positive in the model (0 disables pruning in the code).

### ConsoleSession

One step per `with_conn`. A login reads the rate limit of its address, the user's row, checks
the password, then records, counts and locks, or clears, unlocks and opens a session named
after the login. A request on a session passes the extractor, awaits its body, and its
handler then takes the steps of `api_logout`, `api_create_user`, `api_update_user` or
`api_reset_user_password`, with `RotateCsrf` at the end. `LoginFault`, `RequestFault` and
`UpdatePartly` are statements that fail; where the code drops the result of a statement,
the step goes on. `SetPassword` is `nanoguard-admin`. A password is a number, its hash is
the same number. Users without a password hash do not occur: both places that insert a user
give one. `overlapped` and `roleLine` are ghosts: logins that had read a hash when it was
replaced, and the role in the last audit line about a user.

### Texts and Placeholders

Text as a sequence of atoms, shared by the two modules that follow. An atom is as fine as a
split of a stream can matter: `[SSN_1]` is four atoms. `Texts` has what does not depend on the
configuration: the shape of a placeholder (`Token`), the bracket test (`InsideBrackets`) and
`Restore` (`Exact::restore`: one `Replace` per vault entry). `Placeholders` adds the alphabet
`Atoms`, the phrases of the output dictionary as sequences of atoms (`Dictionary`), and
`FilterOutput`, which overwrites them (`Masks`) unless they start inside an unclosed bracket.
A phrase of two atoms can be cut by the end of an event; one of a single atom cannot.

### Streaming

One streamed answer. An event of the upstream is four pieces: two halves of its data line and
two line ends; `Chunk(n)` is one iteration of the loop in `chat_completions` over any run of
`n` pieces, so chunks split events, terminators and (`wide`) characters, and pack several
events; a phrase may begin in one event and end in the next. In the order of the code it
extracts usage from the chunk, feeds the tool gate from the chunk (both see only events that
the chunk holds whole), and pushes the chunk into the SSE filter, whose complete events go
through `ProcessEvent`: filter, then de-anonymiser, unless the event says `[DONE]` anywhere in
it (`SaysDone`), which passes it on as it is. A terminator is two line ends; that `\r\n` is
accepted and written back as `\n` is not distinguished. `StreamEnd` flushes the buffer, throws
the open window away and records; `StreamStop` is a broken upstream or a client that left.
`pending` is the window of `DeanonymizeStream`; its limit `MaxPending` counts atoms, not bytes.
`missed`, `crowded`, `verbatim` and `discarded` are ghosts. An event carries one choice and at
most one tool-call delta. `ChatPipeline` keeps the stream beside other requests, the budget and
disconnects; here it is alone.

### RequestGuards

One request through `chat_completions` or `messages`, from the keyword check to an answer
that is not streamed. A prompt is a sequence of texts, each a string, a part, a block or the
system prompt, with the message it belongs to. `CheckInput` and `CheckReject` scan the texts
that the code collects, joined as it joins them (`UserText`), and may end the request; blocking
is by phrase or by regular expression (`BlockRegex`, whose hit names the pattern). `ScanRule`,
`ReplaceMatch`, `NextText` and `RedactDone` are the loops of the redactor, one step per rule,
match and text, over the vault (`seen`, `next`, `entries`). `Spotlight` marks untrusted texts
and puts its rider at the system prompt. What is sent of a message is `Content(i)`: on
`/v1/messages` its blocks are joined with a space, after each was redacted by itself.

`Reply` is the upstream, which may say what it was sent, a placeholder or something else, bare
or framed (with text around JSON, or a Markdown fence), with tool calls; then `FilterAnswer`,
`RestoreEntry`, `GateCalls` and `CheckSchema` in the order of each handler (`Stages`). An
answer may have several choices: the model follows one of them, and `reply.first` tells
whether it is the first, the only one that the schema looks at. Arguments of a tool call are
the leaves of their JSON, each a string or not, with the text as it is written (`raw`) and as
it is read (`text`): the gate looks for entities in what is written and rewrites strings only
(`MaskLeaf`), by the same replacement from the last match to the first as the redactor
(`MaskRule`). A match does not reach over the punctuation between two leaves. `Extract` takes
what the schema sees out of an answer as `extract_json_blob` does (trimmed, fenced, or from the
first bracket to the last), and `Conforming` holds the texts that satisfy the schema, each
with the form in which `serde_json` writes it.

A rule of the redactor is the set of atom sequences it matches, so a rule may match inside the
placeholder of an earlier one, as the built-in TOKEN pattern does. What is left to constants:
which words block, which names the gate denies (an argument schema included), which texts
satisfy the schema. `RulesAssumption` says what `find_iter` gives: no match is empty and no two
matches of a rule overlap. What a pattern matches does not depend on what is around it: the
`\b` of the built-in patterns stands at a word character, so a match ends where a word ends,
with a placeholder's bracket beside it or anything else. The redactor's rules are not those of
the policy bundle: `redactor_patterns_from_policy` has no caller. The system prompt of
`/v1/messages` is not redacted by the code, and `NothingPersonalSent` does not speak of it.

## 3. The runs

| Run | Expect | What it shows |
|---|---|---|
| `TokenAuth_single` | pass | one worker, socket, colliding prefixes: acknowledged revocations are effective at once; the cache serves what the table holds |
| `TokenAuth_ttl` | pass | two workers, SIGHUP only: the TTL bounds how long a revoked token is accepted |
| `TokenAuth_cache` | pass | three prefixes, two slots: capacity and order of eviction |
| `TokenAuth_race` | violation | two workers: a lookup that straddles a revoke puts the token back |
| `ChatPipeline_budget` | pass | two requests on one budget, with operators, faults, disconnects, a restart; the atomic ledger is implemented |
| `ChatPipeline_fallback` | pass | one request through chains of length 1 to 3 |
| `ConfigReload_edits` | pass | two editors on two threads beside an older backup, both triggers, a restart, raw edits that do not build or name an unknown default |
| `ConfigReload_socket` | violation | reloads over the socket can roll back silently |
| `ConsoleSession_users` | pass | three logins, or a login and two operations; one and two threads; one fault or crash |
| `Streaming_chunks` | pass | every cut of answers of up to three events into chunks: framing, text, denied calls, usage |
| `Streaming_gate` | violation | a denied call that is split between chunks passes the gate |
| `RequestGuards_pipeline` | pass | both handlers, ten configurations, prompts of two texts, every answer of a small upstream |

The violations are disagreements between documents or comments and the code; `findings` in
`PROJECT.json` quote both sides. Further ones that were met on the way have no run: they
follow from an action of the models (the cache that survives SIGHUP from `SighupReload`,
requests without an audit line from `Done` without `WriteAudit`, the schema that sees restored
values from `Stages`), or are what the proviso of a property sets aside.

Some properties carry a proviso that names where the code would break them, most of them with a
finding: `TextAsIfWhole` (`ContextInEvent`: a bracket and the keyword after it in different
events; `PhrasesWhole`: a phrase that begins in one event and ends in another, the limit that
`streaming.md` states; `SaysDone`: an event that holds `[DONE]` is not filtered; `OneSpeaker`:
several choices; `WindowsShort`: a window longer than the limit), `NothingPersonalSent` (a
match over the space between two blocks, which are joined after redaction; the system prompt of
`/v1/messages`), `CallsVetted` (a leaf that is no string is not masked; `Unescaped`: an entity
written with a JSON escape is not found), `SchemaVetted` (`reply.first`: later choices are not
validated), `RoutingTargetsExist` (`orderly`: edits that overlap and raw edits that bring a
dangling name; fallbacks, which a delete does not look at), `EditKeepsBackup` (`disk =
before[e]`: what another thread wrote since is replaced without a backup; `Threads <=
BackupLimit`: otherwise the copies that other threads add prune it), `DeniedCallWithheld`
(`missed`: split deltas), `UsageRecorded` (`missed`, `crowded`), `EchoRestored` (`NoForgery`: a
placeholder inside a placeholder, or one the user wrote), `BlockExplained` (`Unambiguous`: two
rules for a phrase), `GuessesBounded` (`OnlyWrong`: once somebody has given the right password,
the attempts and the lock are cleared). Dropping the proviso makes TLC show the case.

The bound of `GuessesBounded` is `MaxAttempts + threads * (1 + faults)`, exclusive: every
thread may hold a guess that read the row before the lock, and a crash drops all the logins
that were about to set it. A bound with one guess per fault holds in the small instance and
is false with five logins, two threads and a crash; the attempt to prove it showed that.

**Bounds.** Two actors of each kind are enough for every race above: each is between one reader
and one writer, and a third request observes the outcome where one is needed (`TokenAuth_ttl`,
`TokenAuth_cache`). Clocks run one TTL, lookup and expiry past the first event. Two wires with
one prefix give collisions; three prefixes over two slots force evictions with live and expired
entries. One operation of an operator and one restart can fall between any two steps. Chains of
three backends have a first, a middle and a last attempt. With one older backup and
`BackupLimit` = 2 the second write prunes. A third editor whose stale copy comes between two
others' steps is left to the proof of `ReplacedIsBackedUp`. `MaxAttempts` = 1 makes the first
failure lock, so with three logins the lock is set, raced and tested; with `MaxClock` = 1 and
`Lockout` = 1 the window ends within the run. In that bound `PruneAttempts` finds no row old
enough to delete; its type is covered by the proof. Three events are enough for a placeholder
that lies across three of them, for a call whose name, arguments and end come apart, for two
calls that finish one after the other, and for usage reported twice; with four pieces each,
chunks meet every place an event can be cut at. `MaxPending` = 5 is one atom more than a
placeholder, so windows close, overflow and stay open. Two texts with five rules give values
that repeat within and across texts, two values of one entity, a rule that matches inside a
placeholder, and one that matches over the space between two blocks. Symmetry is used over
identical requests, mints, revocations and logins only, and never together with a liveness
property.

**Deadlock** is not checked: every run ends, with all requests answered.

**Fairness.** `ChatPipeline`: weak fairness of `Account(q)`, the recording of a response that
has arrived, its statements and what follows them: tokio polls a ready task, the blocking
pool runs what it was given, and a `MutexGuard` is released on every path. Nothing is assumed
of the upstream, because neither a forward nor the read of a body has a timeout. Accordingly
`ResponsesSettle` speaks of a handler that has come to its recording: it comes to its end, and
a client that is still there gets its answer, with its audit line on the chat path.
`Streaming` and `RequestGuards` state safety only: an upstream may stop anywhere.
`ConfigReload`: weak fairness of the SIGHUP task and its reload, which run on tokio and its
blocking pool and wait for nobody. Editors may stop anywhere.

## 4. The proofs

All from the named assumption `ConstantsAssumption` of each module (finite sets of requests,
sensible bounds, a start-up configuration that loads) and, in `RequestGuards` and `Streaming`,
`AtomsAssumption` (brackets and stars are atoms), `DictionaryAssumption` (phrases are not
empty), `RulesAssumption` and `SilenceAssumption`, for any number of requests, workers,
threads, editors, keys, tokens, events and rules. A theorem that needs more says so in its
`ASSUME`; those are named below.

**`TokenAuthProofs`.** `TypeCorrect`; `StaleInvariant`, the inductive invariant `StaleInv`;
from it `TTLBoundsRevocation`, `OnlyMintedAccepted` and `CacheServesStore`.
`StaleBoundedByTTL` speaks of requests that were answered; to be inductive it needs that rows
in the cache and in the hands of lookups are copies of the table that lack at most the
revocation (`CacheMatchesStore`, `InFlightMatchesStore`), that times are ordered
(`ClockOrder`), and that a stale copy was inserted at most one lookup after the revocation
(`StaleAges`). `RowsNeverReplaced` is an action property of the table. `CapacityKept` counts
what `evict_one` leaves. `EvictionFair` says that a live entry goes only when every other one is
live too and was used later; it needs `UseOrder`: no two entries were used at the
same value of the counter, and the counter is ahead of them all. `RevokedAtOnce` assumes one
worker and a trigger that flushes (with two workers `TokenAuth_race` is the counterexample):
`RevokeInv` says that a verification and an admin revocation are never both under way
(`Alone`), and that a prefix whose revocation was acknowledged has neither a live copy in the
cache nor one in the hands of a lookup (`AckedInv`).

**`ChatPipelineProofs`.** `TypeCorrect`; `LedgerCorrect`, where the mutex tells which tokens
are in the log and not yet in the counter; `OvershootCorrect`, from `OvershootInv`, which
charges `MaxTok` to every request between check and settlement; `LedgerImplemented`, the
refinement `Spec => L!Spec`: every step of `ChatPipeline` is a step of `Ledger` or leaves
its variables alone. `RecordLog` is `Record`, `RecordUsage` a stutter (what was pending
becomes counted), a failed or cut-short recording `Lose`, both resets `Reset`. The step
lemma needs the type invariant (which ties the mutex to the one recording that is
pending) and `RefusedDone`: a refused request is over, so no later step turns it into
something else.

The course of one request has a section of its own there. The lemma `Moves` reduces a step of
the system to what it does to one request (stays, is checked, is sent, is replied to, settles,
is dropped). Over it, `FallbackCorrect` from `ChainInv` (what was tried is a prefix of the
chain, whose labels are distinct, and all but its last attempt failed), `AuditCorrect` from
`TrailInv` (a line is written only at the end, and what it says is what the backends saw), and
`SpentBudgetCorrect` from `OverInv` (a request that began with its budget spent is in the
check, with the budget still spent under the limit it has read, or at its end).

**`ConfigReloadProofs`.** `TypeCorrect`; `SighupNeverSilent`, from `SighupCovered`: a report
that is not live is covered by a pending signal or by the reload under way, at whichever step
that is. `RoutingTargetsKept` holds on any number of threads and for any raw edits; while edits
are `orderly` at most one is between its check and its rename (`OneBusy`), and what it holds
keeps the targets of the file that it checked (`TargetsInv`). It assumes only that the start-up
file and the backups beside it name what is in `[backends.*]`: the label that `Config::pool`
synthesises for a legacy `[backend]` stops existing when the first of `[backends.*]` is
created. `ReplacedIsBackedUp` also holds on any number of threads. `BackupInv` says that for an
edit about to rename, whose content is still on disk, a copy lies within the newest `Threads`
backups even after all the copies that other threads have in their hands are added
(`Shielded`); pruning drops older ones only (`PruneTail`).

**`ConsoleSessionProofs`.** `TypeCorrect`; `ResetEndsSessions`, from `HashCurrent`: a login on
its way to a session holds the current hash or has been overtaken. `TokenRotates` from
`TokenInv`: a request came with a token no newer than the stored one, and with an older one
when its answer is ready. `RoleLinesComplete` and `SessionsRotate` from `RotationInv`: without
overlap and faults, an update under way is the only thing that may separate a row from its line
and its sessions. `LockoutHolds` from `LockInv`, a counting argument: the guesses that the
present lock does not outlast are those that were recorded but not yet counted or locked for,
plus what crashes dropped; the logins at work are no more than the threads (`ThreadsSuffice`).

**`StreamingProofs`.** `FramingCorrect`: what was handed on and the buffer are together what
the chunks brought, except for a last chunk that a denial dropped (`NothingLost`), and what
was handed on ends with an event until the flush (`WholeEvents`); the lemmas say where `push`
cuts the buffer. `UsageCorrect` adds
`LastReport`: what was seen last is the last report among the pieces so far.
`StreamTypesCorrect` types every variable; the events of a chunk go through the filter and
the de-anonymiser in a fold, and `Folding` carries a type through it. `DeniedCallsWithheld`,
from `GateInv`: the gate has been fed every delta up to the end of what it was given, except
those it missed (`missed` holds only what has arrived), so what it knows of a call is the
concatenation of its deltas (`GateKnows`), and a chunk that completes a denied call is not
handed on (`GateHolds`).

`TextCorrect` is `TextAsIfWhole`: the text that the client reads of a stream is what one pass
over the whole answer would give. `TextInv` says that what is shown and held back is what
`ProcessEvent` makes, in order, of the events handed on so far (`Delivered`). The rest is about
texts. `Track(u, w, s)`: the text `u` so far is some `v` followed by the window `w`; `v` is
`Safe`, that is, no placeholder is begun at its end; and `s` is what `v` restores to. Each atom
keeps it: one outside a bracket or after the window closes restores by itself, because
`Restore` distributes over a safe cut (`RestoreJoin`, from `ReplaceJoin` for one entry and
`SafeReplace`: replacing leaves a safe text safe, so the order of the entries does not matter),
and a window that is still open restores to itself (`RestoreWindow`). `WindowFits` uses
`WindowsShort`: a window never overflows, since masking removes no bracket (`ShortMasked`).
`MaskedAt` uses `PhrasesWhole` and `ContextInEvent`: the mask of an event is the mask of the
whole there. `RunFaithful` runs these over the events, `FaithfulWhole` ends it. Beside the
provisos of the property it assumes `Legible`, evaluated by `MCStreaming`: tokens have the
shape of a placeholder, names and indices are no brackets, and no value of the vault has an
opening bracket in it or is made of nothing but names and indices. The built-in patterns match
no bracket and more than a name and a number. Without it the property is false of the code: a
value that brings a `[`, or a bare name behind a `[`, can complete another placeholder across
the edge of a window, which a pass over the whole text replaces and the stream does not.

**`RequestGuardsProofs`.** `BlockCorrect` (`LookupRule` answers with a rule of that phrase, and
the texts stay as they were scanned). `VaultCorrect` assumes `Nat \ {0} \subseteq DOMAIN
Numerals`, a numeral for every index (the code has a `u32`, more than a body can have values):
`SeenInjective` needs that indexes are at most the counter, and `EntriesOfSeen` that different
indexes make different placeholders. `OffsetsCorrect`: the matches that wait fit the text
(`Fits`) - they occur there, in order, without overlap - and a splice at the last one leaves
what lies before it. `NothingPersonalLeaves`, from `RedactedInv`: behind the cursor of the
redactor the masking rules find nothing, and what the rule at the cursor still finds is waiting
to be replaced (`Behind`). Its crux is `SpliceOccurs`: putting a placeholder in cannot create a
match, because a match has no bracket and so lies before it, behind it or inside it. The texts
are then joined: a match in a joined text that holds no space lies in one of the texts
(`JoinClean`), and what was scanned for entities to reject, as it was joined for the scan,
holds none after redaction either, which replaces in one of the joined texts at a time
(`JoinSplice`). Hence the assumption `PlaceholdersInert`: no rule that has had its turn, and no
entity that rejects, matches a part of a placeholder. The built-in patterns need more than the
name of an entity and an index (an `@`, digits with dashes, a key's prefix), except TOKEN,
which takes any 32 characters and comes last; `MCRequestGuards` evaluates the assumption for
the instance of the run. `AnswerCorrect` is `AnswerVetted` whole, from `GatedInv`: behind the
gate no call is denied and no string leaf holds an entity that the gate masks; the lemma
`SchemaCorrect` has the schema half, for the first choice. `MaskRule` replaces in a fold; after
it its rule finds nothing (`AllReplaced`, from the same lemmas as the prompt), and the rules
after it put nothing back, which is `GateInert`, the assumption `PlaceholdersInert` for the
gate's actions. A call that was not denied stays so: masking creates no match of a rejected
entity in a leaf that is written as it is read. `TypesCorrect` is the type invariant.

`EchoCorrect` is the round trip, `EchoRestored`. Its centre is the relation `Spells(t, o, E,
w)`: `t` is made of plain atoms and of placeholders of `E`, and `o` is what it reads when each
placeholder is its value in `w`. It is defined as the least set closed under appending an atom
or a placeholder, so that an induction is the choice of a set (`SpellsInduct`). The lemmas are
one per rewrite: a match taken out of a text is in the same place of what it spells
(`SpellsSplit`), so redaction keeps the relation; the output filter commutes with it
(`SpellsFilter`); replacing one placeholder by its value leaves a text that spells the same
with that placeholder gone (`SpellsReplace`, in any order); and without placeholders a text
spells itself. Joining blocks keeps it (`JoinSpells`), so what is sent of a message spells the
message as it came. `RoundTrip` then says which of these holds at which stage: the texts of the
prompt spell the ones that came (`SpelledInv`, with `ValuesInv`: what the vault holds was
matched by a rule), the answer that repeats one is it, spells it, or is it (`EchoInv`). Beside
`NoForgery`, which is part of the property, it assumes `Legible`, evaluated by
`MCRequestGuards`: the phrases of the output filter are single atoms, no value holds a bracket
or such a phrase, none is the bare name of an entity, and names and numerals are no brackets.
Without it the property is false of the code: the filter runs before the restoration, so a
value with such a phrase comes back unmasked, and a value equal to the name of an entity is
matched inside a placeholder.

Only model-checked: the liveness properties `ResponsesSettle` and `ReportedLands`, which need
fairness and are out of the prover's reach. Every invariant and every action property of a
passing run is stated by a theorem.

## 5. What is not modelled, and the plan

Not modelled, and why:

* text normalisation of the matchers, regular expressions, JSON schemas: pure functions of one
  text; the models take what they match as given, as sequences of atoms;
* the case-insensitive strategy of `deanonymize.rs`: it differs from the exact one in which
  spellings count as a placeholder;
* the conversion between OpenAI and Anthropic messages, provider adapters: layout;
* sections of the configuration other than `Config::pool`: one bit, whether they load;
* edits of dictionaries and policy files: the write path of `ConfigReload` with another
  validator; `poll_reload_status` reads the audit file back;
* the console's views, its playground (a relay) and `nanoguard-eval`: they change no state
  of another part;
* cookie and token encoding, restart-only keys, the start-up window before the SIGHUP handler
  is installed.

Next: **abstract specifications**, a versioned register that `ConfigReload` implements under
SIGHUP (the live state moves only to what was on disk at some read), and a token store without
a cache that `TokenAuth` implements up to the TTL.
