# A formal model of Crustoxy

Crustoxy is a proxy between an Anthropic client (Claude Code) and many
OpenAI-compatible providers. A request that comes in resolves to a model, is
sent with one of the provider's API keys or tokens, and its answer is streamed
back as Anthropic events. What makes the program hard is what happens when this
does not work the first time: keys cool down, models are replaced by others,
tokens are renewed, the egress address is rotated, and all of it is shared by
requests that run concurrently, hang up at any `await`, and overlap with reloads
of the configuration, which a browser, an editor and a file watcher bring about.

This directory holds TLA+ modules for that machinery, TLC configurations that
check them on small instances, and proofs for TLAPS that hold for every
instance. Source references are to `src/src/` unless they say otherwise.

Contents: [parts](#1-the-parts-of-the-system), [modules](#2-the-modules),
[checks](#3-what-the-runs-check), [proofs](#4-what-is-proved),
[what was found](#5-what-the-checks-found),
[what is left out](#6-what-is-not-modelled-and-why), [plan](#7-plan).

## 1. The parts of the system

| Part | Source | State | Operations | Model |
|---|---|---|---|---|
| Key pools | `key_pool.rs` | per key: healthy, error counters, cooldown end; per pool: strategy, round-robin index | acquire, report_success, report_error, all_exhausted, recovery task, reload | `KeyPool`, `KeyPoolScan` |
| Rate limiter | `rate_limiter.rs` | semaphore, window of grants, block | acquire_concurrency, acquire, set_blocked, clear_block | `RateLimiter` |
| IP rotation | `ip_rotator.rs` | global lock, time stamp; the WARP daemon's registration and tunnel | rotate_ip, sync_warp_state | `IpRotation` |
| Model router | `model_router.rs` | per model and tier: healthy, errors, cooldown end; round-robin indices | resolve, next_fallback, reports by name, reload | `ModelRouter` |
| Provider loops | `providers/openai_compat.rs`, `cloudflare.rs`, `puter.rs`, `kimi_oauth/` | locals of one request | key rotation, retries, fallback, last resort, reading of the stream | in the four above, `PuterToken`, `KimiAuth` and `SSEStream` |
| SSE builder | `sse.rs` | block indices, open blocks, tool calls | ensure/close/start blocks, deltas, flush, error | `SSEStream` implements `MessageStream` |
| Stream parsers | `think_parser.rs`, `heuristic_tool_parser.rs` | a buffer and a mode each | feed, flush | `ContentParsers` |
| Token stores | `puter.rs`, `kimi_oauth/auth.rs`, `kimi_oauth/mod.rs` | a cached token; `auth.json` with a refresh token | login, renewal, save, load | `PuterToken`, `KimiAuth` |
| Hot reload and panel | `main.rs`, `config_watcher.rs`, `config_loader.rs`, `panel/api.rs`, `panel_config.rs` | the live configuration and what was built from it, part by part; `config.toml` | start, watch, apply, save, restart | `HotReload` |
| Panel page | `panel/api.rs`, `panel/assets/app.js` | the copy of the configuration in a tab, with masked keys | load, edit, save, merge | `MaskedKeys` |
| Conversion and shortcuts | `converter.rs`, `models/`, `optimization.rs`, `rtk.rs`, `tool_intent_detector.rs`, `auth.rs`, `config.rs` | none | pure functions | not modelled |

How they interact:

* A request (`routes.rs`, `create_message`) asks the **router** for a model and
  hands over to a provider's loop, which lives inside the response body: when
  the client hangs up, the future is dropped at the `await` it is in, and what
  follows never happens. The models of the shared state that these loops go
  through have such a step (`Disconnect` in `KeyPool` and `ModelRouter`, `Leave` in
  `RateLimiter`, `Cancel` in `IpRotation`, `HangUp` in `PuterToken` and `KimiAuth`), and
  a stream may simply never be polled again.
* The loop takes a permit from the **limiter** for the whole request, a key
  from the **pool** for each round (a token from its **token store** in the Kimi
  and Puter loops), a slot of the limiter's window for each attempt, and reports
  the outcome to pool and router.
* When the pool answers "exhausted" it asks the router for another model, and
  when there is none it blocks the limiter and **rotates** the address, which
  lifts the block.
* The text of an answer passes the **parsers**, and what they make of it goes to
  the **SSE builder** together with native tool calls.
* A background task recovers expired cooldowns. The **panel**'s handlers save
  `config.toml` and replace pools, tiers, settings and providers one by one; the
  file **watcher** sees the same save and the reload task replaces them again, and
  switches WARP on or off.

What is hard, and what makes each part correct:

* *Key pools.* The fields of a key are separate atomics and a mutex. Two
  recovery paths, reports and scans touch them in different orders, with
  cancellation in between. Correct means: no key leaves the rotation for good,
  a key over its threshold cools down, a cooldown is not forgotten, a scan does
  not miss a key that was there all along.
* *Rate limiter.* Sleepers of a window wake together; a permit is held across
  retries. Correct means: no window is overfull and nobody sleeps while it has room, permits
  come round, the window moves.
* *IP rotation.* One daemon, a lock, commands that fail half way, callers that
  vanish and leave a process behind. Correct means: a completed rotation really
  renewed the address, two rotations keep their distance, nobody waits for ever.
* *Router.* Errors are reported by name, fallback scans one model after
  another. Correct means: no model is lost, no fallback is missed, the ladder
  ends.
* *SSE builder.* Thinking, text, tool calls in pieces, retries and errors come
  in any order, in three loops that use it differently. Correct means: the client
  sees well-formed blocks, all the input of every call once, and an end.
* *Parsers.* A chunk may end anywhere. Correct means: the chunks make no
  difference, thinking is told from text, nothing is shown twice.
* *Token stores.* A service that rotates refresh tokens knows of a renewal before
  the client does; several requests find the same token too old or refused; saves
  fail and the process dies in between. Correct means: the login is not lost
  except where it must be, a refused token is not sent again, retries are bounded,
  the error reported is the one that counts.
* *Hot reload.* Two appliers swap the same eight parts in steps, from different
  configurations, while files are written and the process crashes. Correct means:
  what is running ends up as the file has it, an acknowledged change is on the
  disk, a save is atomic, and the cycle save, watch, apply comes to rest.
* *Panel page.* Keys travel masked and come back as a list. Correct means: masks
  are replaced by the right keys.

## 2. The modules

Conventions. A step is one access to shared state (an atomic, one critical
section of a mutex, one operation on a file) or one answer of a service, because
everything between two of them is open to others. Instants are kept as the time
left, so that `now >= until` reads `= 0` and `Tick` (or `ClockTicks`) ages all of them, or as "young"
and "old" where only one limit matters; that keeps the state space finite and
loses nothing, since the code only compares instants with the present. Counters
saturate where the code compares them with a threshold only. An operator
introduced by "A bug:" is not part of any specification: it is a plausible mistake
in the definition that follows it, kept to show that a property would notice.
History variables (named so) only record what happened, for a property to judge.

### KeyPool, KeyPoolScan, MCKeyPool

The pool of one provider and the callers that use it as `stream_response` does.

| Model | Code |
|---|---|
| `BeginScan`, `Acquire`, `Advance`, `FoundAvailable` | `acquire` under round_robin, random, least_errors |
| `LoadHealthy`, `LockAndCheck`, `Recover` | the two halves of `is_available`: the relaxed load, and the check under the mutex |
| `AskExhausted`, `LeaveVerdict` | `all_exhausted` and what the loop does with it |
| `AnswerOk`, `ResetErrors`, `ResetCount`, `MarkHealthy` | `report_success`: the decision under the lock, the three stores after it |
| `AnswerError`, `Escalate`, `CoolDown` | `report_error`: count, compute the cooldown, wait for the lock |
| `RecoverExpired` | one turn of the recovery task |
| `Reload`, `AnswerDetached` | a reload replaces the pool; a request in flight still holds an old endpoint |
| `Disconnect` | the client hangs up |

`strategy` is a variable so that a reload may change it. `dropped` is a history
variable: keys whose `report_error` was cancelled after it had counted.
`KeyPoolScan` adds the history `steady`, the keys that stayed healthy since a
scan began, to judge a scan against the interval it took and not an instant.

### RateLimiter

Requests queue at the semaphore (`AskPermit`, `GetPermit`; tokio's is fair, so
the queue is a sequence), look at the block once (`CheckBlock`), wait for the
window (`TryWindow`, `Wake`), try again (`NextAttempt`) and end or hang up
(`Leave`). Who holds a permit is read off `pc`: the permit lives in the future and is
given back when that is dropped. `grants` is the history the window is judged by:
every grant of the last `RateWindow`, aged by the clock alone, while `requestTimes`,
the limiter's own list, is popped only when somebody asks.

### IpRotation

Requests of the OpenAI-compatible provider spawn their rotation, those of
Cloudflare await it in the response body (so `Cancel` may abandon it between
two commands), and `Reconfigure` is the reload's `sync_warp_state`. One action
per `warp-cli` command; a command may fail because the daemon's state does not
allow it or without a reason (`CommandsMayFail`). The daemon itself
(`registered`, `connected`) is external, modelled from the commands the code
gives it: `TunnelDown`, `RegistrationGone`, `RegistrationMade`, `TunnelUp`.

`run_cmd` does not ask for `kill_on_drop`, so that a `warp-cli` whose caller is
cancelled runs on while the lock is free. `Cancel` leaves such a process behind
(`leftOver`, a count for each command) or not, where the command had ended already;
`LeftOverRuns` is its effect, at any later time, whoever holds the lock. `undone` is
the history of a process left over that took the tunnel down after the present
holder had connected it.

### ModelRouter, MCModelRouter

The router under the ladder of its requests: `Resolve`, `NextFallback` and their
scans over a tier, the reports by full name (`CountError`, `CoolDown`,
`ResetErrors`, `MarkHealthy` hit `Charged`, the first endpoint of that name in
the order the HashMap of tiers iterates, `rank`), `LastResort`. Whether the keys
of a provider are exhausted is `PoolChanges`; `KeyPool` has the detail.
`Reload` is one step here, although the code replaces tiers, indices, strategy
and thresholds one lock at a time, and the tiers stay. A reload that adds a tier
puts it in place before its index; a round robin in between answers None
(`model_router.rs:254`), and the request takes the model of the settings
(`routes.rs:169`), which is what the end of a scan without a result does here.

### MessageStream, SSEStream, MCSSEStream

`MessageStream` is what a client relies on: blocks numbered from 0 as they
start, deltas only for open blocks, each block stopped once, the message closed
after all of them. It is an abstract specification and stands for no code.

`SSEStream` is the loop of `stream_response` that reads a provider and the
builder of the events: one step per `yield`, per thing taken out of the
provider's stream, or for the bookkeeping between two yields. `loop` says whose
loop it is: that of `openai_compat.rs` (of which `cloudflare.rs` has a copy), that
of `kimi_oauth/provider.rs`, which parses no text and never asks again, or that of
`puter.rs`, which gets tool calls whole, goes on with a new stream where one
breaks off, and closes without flushing. What the parsers make of a chunk arrives
as thinking, text or a tool found in text, in any order.

| Model | Code |
|---|---|
| `index`, `open` | `thinking_index`/`thinking_started`, `text_index`/`text_started`, `block_index`/`started` and what has been stopped |
| `Attempt`, `StreamBreaks` | what the ladder or the HTTP retries come to; an error in the stream |
| `Receive`, `ReceiveCall` | the branches on `reasoning_content`, `content`, `tool_calls` |
| `CloseContent`, `ShowContent` | `ensure_thinking_block`, `ensure_text_block`, `close_content_blocks`, `emit_*_delta` |
| `ShowAtOnce` | a tool found in text; `emit_error` |
| `RegisterCall`, `PassOnHeld`, `PassOnArgs` | `register_tool_name`, `start_tool_block`, `emit_tool_delta`, the buffer of `Task` |
| `EndOfStream`, `Retry` | the decision after the stream and the corrective retry |
| `FlushTask`, `CloseTool`, `MessageDelta`, `MessageStop` | `flush_task_tool_inputs`, `close_all_blocks` (HashMap order), the end |

The refinement mapping is read off the builder's books: `Phase` from where the
loop is, `OpenBlocks` from `open` and `index`. `StreamProtocol` is the abstract
specification under that mapping.

A fragment of input is the number it was sent with, so that loss, doubling and
reordering can be told; a name is a sequence of pieces, so that it can arrive
whole or growing, which is what `register_tool_name` distinguishes.

### ContentParsers, MCContentParsers

`ThinkTagParser` and behind it `HeuristicToolParser`, as the loops chain them.
A text is a sequence of symbols, the pieces into which chunks may cut tags and
calls, so that "a tag cut in two" exists and the bytes within a piece do not.
A text taken from the answer is the sequence of the *places* of its symbols: the
parsers look at symbols only, and the places tell where each has come from, so
that a property can say that nothing comes out twice.

| Model | Code |
|---|---|
| `Receive(n)` | the next n symbols of the answer arrive, for every n |
| `TakeTag`, `TakeAll`, `HeldFrom` | a turn of `ThinkTagParser::feed`, in `parse_outside` or `parse_inside` (`Tags` tells which tags count), and what is kept because it could be the start of a tag |
| `Handle`, `Feed`, `Stripped` | a chunk of thinking is shown, one of text goes to `HeuristicToolParser::feed`, which removes control tokens first |
| `TakeJsonCall`, `FindBullet`, `PassText` | a turn of its loop in state `Text` |
| `MatchFunction`, `GiveUpFunction`, `AwaitFunction` | in `MatchingFunction` |
| `TakeParameter`, `EndCall`, `AwaitParameter` | in `ParsingParameters` |
| `JsonCallIn`, `FunctionIn`, `ParamStarts`, `ParamEnd` | its regular expressions, as they match greedily and lazily |
| `Return` | `feed` returns, and the loop shows its text and then its tools |
| `EndOfStream`, `EndOfPuterStream` | the first `flush`: `openai_compat.rs` and `cloudflare.rs` show what it returns as it is, `puter.rs` sends it through the second parser |
| `Flush`, `FlushParameter`, `FlushCall`, `FlushRest` | the second `flush` |

A turn of a loop is a step. `ThinkTagParser::feed` returns a vector of chunks which
the loop then goes through; the model hands each over when it is found, which is
the same, because the second parser and the client know nothing of the first. The
answers of the runs are made of segments that come with what a reader finds in
them; `Thinking` is the reference for thinking, computed from the whole text
without chunks.

### PuterToken

The token that requests of the Puter provider share (`cached`, `stale`), the
login that renews it, and the three nested loops of a request. `EnsureToken`,
`LoginSucceeds`, `LoginFails`, `LoginRefused` and `StoreToken` are `ensure_token`
and `do_login`, with the cache read, and written back, under different locks;
`CallFails`, `CallRefused`, `TokenRefused`, `Invalidate` and `CallAccepted` are the
answers to a call; `StreamEnds` and `StreamBreaks` what comes after one. `mode`
distinguishes the streamed from the plain request (`send`), which has no HTTP
retries and no tool attempts. A request keeps the locals of its loops: the
counters, the token it uses, `lastError`. Its client may hang up at any time
(`HangUp`), also between a login and `StoreToken`: the token is lost then. The
service accepts a token until it revokes it.

### KimiAuth

`AuthManager` and the callers of it: requests (`GetAuth`, `TakeLock`,
`CallRefused` for `get_auth`, its second look under the lock, and `force_refresh`)
and the start of the process (`LoadExisting`, `DeviceLogin` for `try_load_existing`
and `bootstrap_if_enabled`). A renewal is the sequence `ServiceRefreshes` (the
service has rotated the token from here on), `AnswerArrives`, `OpenTruncated` and
`Write` (the file is truncated, then written), `StoreCache`; `RefreshFails`,
`AnswerLost` and `SaveFails` are its failures, `HangUp` and `Crash` the steps after
which it never goes on. Pairs of tokens are numbered as the service issues them,
and the refresh token it accepts is that of the last, `issued`. `lost` is the
history of the one unavoidable loss: a new pair that never reached the file.

### HotReload, MCHotReload

The file system (`file`, `tmp`, `dir`), the runtime (`live`: from which
configuration each of its eight parts was made), the watcher (`event`, `watcher`,
`queue`), the reload task and the handler of a panel request.

| Model | Code |
|---|---|
| `BootLoaded`, `BootMigrated`, `BootFresh` | `load_or_create`: the file, legacy variables, or the defaults of setup mode |
| `StartWatching`, `Wake`, `Drain`, `LoadAndBroadcast`, `Broadcast` | `watch_config`: notification, debounce of 500 ms, load, `broadcast::send` |
| `Receive`, `ReloadPart` | the reload task of `main.rs` |
| `UpdateConfig`, `CreateProfile`, `UpdateProfile`, `DeleteProfile`, `ActivateProfile` | the handlers, which start from the running configuration |
| `CreateTmp`, `WriteTmp`, `Rename`, `SaveFails` | `PanelConfig::save` |
| `ApplyPart`, `TriggerRestart` | `apply_config`, `rebuild_providers`; `POST /api/restart` |
| `HangUp`, `Crash`, `BeginEdit`, `EndEdit` | the world around it |

A configuration is its profiles and the active one; a file holds one, or is
`Absent` or `Unreadable` (torn, malformed, or refused by `validate`). A failed save
of the migrated configuration is only logged (`config_loader.rs:64`), so
`BootMigrated` may leave the file as it was. `main` spawns the watcher's task and
binds without waiting for it; the model takes it that no request is served before
that task has run (`Serving`), a window of the start-up that a save of the panel would
have to hit.

### MaskedKeys, MCMaskedKeys

What happens to the API keys of one provider when a tab loads the configuration
(masked by `mask_key`), changes its copy and sends it back whole. The user's actions
are those of `app.js`: `AddKey`, `DeleteKey`, `RenameProfile`, `DuplicateProfile`,
`SaveOther`. Each ends in `saveConfig` (`Send`), which disables a button but does
not wait for the save before, so `puts` is a set: a tab has any number of PUTs under
way, each with the body it was sent with, and the proxy handles them in any order.
`update_config` reads the current configuration (`ReadCurrent`) and stores the
body with the masks replaced (`Store`, `Merge`), or does not (`Refuse`).

History: `meant` is the configuration the user sees in a tab, `fresh` whether the
copy is still current, `moved` whether a key or profile has changed its place in
it. A PUT carries what its user meant, and is *good* if it was sent from a copy that
was fresh and unmoved and, until it reads, nobody else stores anything and no later
PUT of its tab is stored. What becomes of
PUTs that are not good is finding 2.

### The proof modules

`KeyPoolProofs`, `ModelRouterProofs`, `SSEStreamProofs`, `PuterTokenProofs`,
`KimiAuthProofs` and `ContentParsersProofs` each extend the module they are named
after. `LimiterRotationProofs` is about the two modules a blocked request goes
through, `RateLimiter` and `IpRotation`; `PanelProofs` about the two behind the
panel, `HotReload` and `MaskedKeys`. (`IpRotation` and `MaskedKeys` therefore use
names of their own, such as `RotationSpec` and `KeysSpec`.) See
[section 4](#4-what-is-proved).

## 3. What the runs check

| Run | Module, cfg | Checks | States |
|---|---|---|---|
| `keypool` | `KeyPoolScan` | `TypeOK`, `NoKeyStranded`, `ErrorThresholdCools`, `NoUsableKeyMissed`, `CooldownRunsOut`, `KeyRejoins` | 1.1 M |
| `limiter` | `RateLimiter` | `TypeOK`, `WindowRespected`, `NobodySleepsInVain`, `PermitGranted`, `WindowMoves` | 13 k |
| `rotation` | `IpRotation` | `RotationRenews`, `RotationsSpaced`, `TasksReturn` | 585 k |
| `router` | `MCModelRouter` | `NoModelStranded`, `NoFallbackMissed`, `LadderEnds` | 845 k |
| `router_shared` | `MCModelRouter_shared.cfg` | `LadderEnds` is violated: models in two tiers | |
| `sse_stream` | `MCSSEStream` | `TypeOK`, `InputComplete`, `StreamProtocol`, `StreamEnds` | 553 k |
| `content` | `MCContentParsers` | `TypeOK`, `ThinkingSplit`, `NothingInvented`, `ChunksDoNotMatter` | 1.0 M |
| `puter_token` | `PuterToken` | `TypeOK`, `RevocationSurvived`, `ErrorIsTheLast`, `CallsBounded`, `RequestsEnd` | 1.8 M |
| `kimi_auth` | `KimiAuth` | `LoginKept`, `RefusalSurvived`, `RenewalsValid`, `RequestsEnd` | 543 k |
| `hot_reload` | `MCHotReload` | `TypeOK`, `QuiescentAgreement`, `AckedOnDisk`, `SaveAtomic`, `Settles` | 2.3 M |
| `masked_keys` | `MCMaskedKeys` | `StoredAsMeant` | 4.8 M |
| `masked_keys_lost` | `MCMaskedKeys_deleted.cfg` | `KeysNotMasks` is violated | |

The definition of every property is preceded by what it says and of which code.
Each property of a passing run also fails for at least one of the "A bug:"
definitions.

Configurations to run by hand (`tlc -config <cfg> <module>`):

| Cfg | Shows |
|---|---|
| `MCKeyPool.cfg` | `KeyPool` with a threshold of two and a backoff that takes two steps; 5.4 M states, passes |
| `IpRotation_orphan.cfg` | `TunnelUpWhenDone` is violated, finding 5 |
| `MCMaskedKeys_crossed.cfg` | `FreshTabsStoreKeys` is violated, finding 2 |
| `MCModelRouter_ladder.cfg`, `MCModelRouter_ends.cfg` | `ModelRouter` with a threshold of two and two requests; with three models and all strategies; both pass |
| `MCKeyPool_cooling_skipped.cfg` | `CoolingKeySkipped` is violated, finding 3 |
| `MCKeyPool_unkeyed.cfg` | `NoUnkeyedAttempt` is violated, finding 4 |
| `IpRotation_skip.cfg` | `SkipsOnlyWhenRotated` is violated, finding 5 |
| `MCSSEStream_overlap.cfg` | `OneBlockAtATime` is violated, finding 6 |
| `MCContentParsers_calls.cfg` | `CallsAccurate` is violated, finding 7 |
| `MCHotReload_lost.cfg` | `AcknowledgedKept` is violated, finding 8 |

### Bounds, and why they are enough

* *Key pools*: two callers and two keys give every race of two operations on one
  key and every move to another, under all three strategies and with one
  same-key retry. With `CooldownSeconds = 1` the cooldown of consecutive errors
  (half the base) is zero, a case the code reaches. `total_errors` only orders
  keys and is bounded at 1; `cooldown_count` is not counted (`EscalationBound = 0`),
  since with `CooldownCap = 1` the first cooldown is the longest. A higher threshold
  and a longer backoff are in `MCKeyPool.cfg`, and the safety properties are proved for all values.
* *Limiter*: three requests for two permits and a window of three with two
  grants: queueing, waking together and competing with a newcomer all happen.
* *Rotation*: with an interval of one a stamp is recent until the clock ticks, which
  is all that `rotate_ip` looks at; two spawners, one inliner and one sync fill the
  queue behind a holder. One process of each command may be left over at a time
  (`LeftOverBound = 1`), four in all, which run in any order; the theorems hold for
  every interval and every bound.
* *Router*: two requests on a pair of models, each of another provider, for the
  races and for the ladder's end.
* *Stream*: two parallel calls, one a `Task`, one with a growing name; two
  fragments each, two attempts, two HTTP retries, and no new block is begun when
  `BlocksBound = 4` numbers have been given out (an error still gets the fifth).
  A further fragment or block repeats the same states. The names in `MCNames` do
  not turn into `Task` or cease to be it after the block has started; see
  finding 13.
* *Parsers*: sixteen segments, answers of up to three of them, all ways of
  cutting them: every pair of segments meets at both of its borders, with
  something before or after it.
* *Puter*: two requests and two revocations let a token be refused to one
  request while the other obtains, stores or drops one; a login is tried again
  once, and one HTTP retry is left to be shared between a failure and a broken
  stream. Six tokens are as many as can mean something to somebody, plus a new one.
* *Kimi*: two requests and the start; four pairs are the first login and three
  renewals, two refusals one for each of them, one crash at any point.
* *Hot reload*: two changes and one crash; two names, hence four configurations;
  a channel of one is the smallest that can overflow, and it does when the reload
  task is slow.
* *Masked keys*: two tabs, two profiles, three keys of which two have the same
  mask, lists of three. Three saves are enough for two of a tab that cross and one of
  another tab between them.

Symmetry is used in `masked_keys`, which checks safety only, over tabs, which no
definition tells apart. Deadlock is checked except where the system really comes
to rest: a stream at its `message_stop`, an answer that is parsed, requests that
have ended, a configuration that nobody changes any more.

### Fairness

* `KeyPool`: time passes and the recovery task, an endless loop, comes back to
  every key. Nothing is asked of clients, providers or reloads, so `KeyRejoins`
  holds even if nobody ever sends a request again.
* `RateLimiter`: what is ready is polled, and time passes. A request makes
  finitely many attempts, each under the HTTP client's total timeout, hence strong
  fairness for the end of a request that is granted again and again. Nobody is
  assumed to hang up.
* `IpRotation`: `warp-cli` returns. The code gives it no time limit; if it hangs,
  so does everybody behind the lock, the reload task among them, and `TasksReturn`
  says nothing about that.
* `ModelRouter`: each await of a request ends. `LadderEnds` lets a cooldown run
  out, a reload, or another request's success excuse a longer search
  (`Revived`): otherwise nothing ends it, as the fallback loop has no bound of
  its own.
* `SSEStream`: the client polls, and a provider's stream comes to an end or an
  error, since `http_read_timeout` is a limit on the whole response. The fairness
  is strong because a stream may bring more in between.
* `PuterToken`, `KimiAuth`: a request goes on as long as its client waits, and nobody
  is assumed to hang up; calls have timeouts, and a device login expires. Nothing
  makes a service accept anything, and revocations are bounded only in number.
* `HotReload`: the process is started again, its tasks are polled, an editor
  finishes. `Settles` needs no fairness of requests or crashes, which are finitely
  many (`MaxChanges`, `MaxCrashes`).

## 4. What is proved

TLAPS checks these for every value of the constants that satisfies the module's
assumption: no bound on callers, keys, requests, tasks, calls, fragments,
attempts, tokens, tabs, crashes or changes, nor on the length of an answer or the
number of its chunks. No proof takes anything on trust.

| Module | Theorem | Property |
|---|---|---|
| `KeyPoolProofs` | `TypeCorrect`, `NeverStranded`, `ThresholdEnforced`, `CooldownKept`, `NoKeyIsMissed` | `TypeOK`, `NoKeyStranded`, `ErrorThresholdCools`, `CooldownRunsOut`, `NoUsableKeyMissed` |
| | `UsesEnd`, `NobodyComesToACoolingKey` | a request is through with its pool after a bounded number of its own steps; while a key is out of rotation nobody new gets it in hand |
| `LimiterRotationProofs` | `TypeCorrect`, `WindowIsRespected`, `NoSleepInVain` | `TypeOK`, `WindowRespected`, `NobodySleepsInVain` |
| | `RotationTypeCorrect`, `RotationsRenew`, `RotationsAreSpaced` | `RotationTypeOK`, `RotationRenews`, `RotationsSpaced` |
| | `FirstComeFirstServed`, `TheLockComesRound` | the queues for a permit and for the rotation lock: nobody is lost in one or overtaken, and turns come nearer |
| | `TheWindowOpens` | a refused request wakes when the window opens, and until somebody is granted its own grant comes nearer |
| `ModelRouterProofs` | `TypeCorrect`, `NoneStranded`, `FallbacksAreFound` | `TypeOK`, `NoModelStranded`, `NoFallbackMissed` |
| | `FallbacksDiffer`, `RungsEnd` | a fallback is another model, in rotation when chosen; from one attempt to the next a request takes a bounded number of steps |
| `SSEStreamProofs` | `FollowsProtocol`, `TypeCorrect`, `InputNeverLost`, `NumbersUnique` | `StreamProtocol` (the refinement), `TypeOK`, `InputComplete`; numbers of open blocks are distinct |
| | `TheLoopComesBack` | between two things it takes out of the provider's stream the loop yields a bounded number of events; a bounded number of calls |
| `PuterTokenProofs` | `TypeCorrect`, `RevocationIsSurvived`, `OnlyTheLastErrorCounts`, `CallsAreBounded` | `TypeOK`, `RevocationSurvived`, `ErrorIsTheLast`, `CallsBounded` |
| | `RetriesAreUsedUp` | the three nested retry loops end |
| `KimiAuthProofs` | `TypeCorrect`, `LoginIsNeverLost`, `RefreshTokensAreValid`, `RefusalIsSurvived` | `TypeOK`, `LoginKept`, `RenewalsValid`, `RefusalSurvived` |
| | `NoLockOutlivesItsHolder`, `RenewalsAreUsedUp` | the lock is with somebody who renews; a request ends after thirty steps at most |
| `PanelProofs` | `TypeCorrect`, `RuntimeFollowsFile`, `AcknowledgedIsSaved`, `SavesAreAtomic` | `TypeOK`, `QuiescentAgreement`, `AckedOnDisk`, `SaveAtomic` |
| | `NoReloadTriggersAnother`, `NobodyIsStuck` | what a change sets going is used up; until all is at rest, somebody has a next step |
| | `StoresWhatIsMeant`, `GoodPutsStoreKeys` | `StoredAsMeant`; if only good PUTs are stored, the file never holds a mask |
| `ContentParsersProofs` | `ParsersTyped`, `OnlyTheAnswerIsShown`, `ThinkingIsRelocated` | `TypeOK`, `NothingInvented`, `ThinkingSplit` |
| | `LoopsEnd`, `ChunksDoNotMatterWithoutCalls` | an answer of *n* symbols is done after 7*n* + 4 chunks and turns; thinking, and without calls the text too, depend on the answer alone |

Each is an induction over steps. What makes the safety properties inductive:

* *KeyPool.* `TypeOK` says of cooldowns that they never exceed the cap or
  half the base. `CoolDown` stores the instant a caller computed earlier, so the
  invariant also says that a caller on its way to the lock carries one
  (`UntilComputed`); a step that erases a cooldown end has to leave the key healthy
  and its errors reset at once, which splits the steps into those that only calm a
  key down and those of a report. For the scan (`ScanInv`): a key that was healthy
  all along is still ahead of it (`ToSee`), because the keys behind it were
  unhealthy when it passed, or it holds one already.
* *RateLimiter.* The ages in `requestTimes` fall from the oldest on (`Sorted`), so
  that popping old entries from the front removes exactly the old ones; then the
  list, once popped, is the history `grants` at every instant, however late it is
  popped (`TimesOK`). Whoever queues or holds a permit does so once (`QueueOK`). Who
  was refused sleeps until the oldest grant leaves a window that was full, and for as
  long as it sleeps all of these grants are still in it (`SleptFor`).
* *IpRotation.* Whoever is between the lock and its release is its holder, so
  no other task runs a command meanwhile; but a process left over may. `Achieved`
  is what survives that: before it connects, a registration there is, is the
  rotation's own, since a process left over can only delete it or make a new one;
  after it has connected, the tunnel is up unless such a process has taken it down,
  which `undone` records. `Stamped`: the stamp is never older than the last completion.
* *ModelRouter.* A model goes out of rotation together with the end of its
  cooldown. For the search, positions behind it and positions left make up the
  tier (`InStep`), and models behind it that stayed healthy are the failed model
  itself (`SteadyInv`).
* *SSEStream.* `Numbered`: open blocks have distinct numbers below `next_index`.
  `Discipline`: where the loop is tells which blocks are open; without it, a delta
  could go to a block that is not there, or `message_delta` come with a block still
  open. Four lemmas show that a builder event is the event of the protocol. For the
  input, `Delivery` says that what a call has sent equals what it has got, what is
  held and what is kept for the end; it needs the hypothesis `NamesApart`, that no
  name of a call turns into `Task` or ceases to be it, which the theorem states and
  finding 13 shows to be necessary.
* *PuterToken.* The counters of a request say how often it has called (`Good`).
  A token that a request has obtained and not yet stored is known to it alone
  (`Apart`), so a token that was refused never comes back into the cache
  (`Honest`), and the retry finds another one. The cardinality of what was
  refused follows.
* *KimiAuth.* `Alone`: at most one actor renews, because a request that renews
  holds the lock and the start renews only while no request is on its way. Given
  that, `Kept` compares cache, file and service through each step of a renewal.
  Pairs are numbered as they are issued and nobody holds one from the future
  (`RefusalInv`), so what a request is given after a refusal is a later pair, hence
  another one, whoever renewed it.
* *HotReload.* `Agreement`: while the watcher is up and the file readable, either
  somebody is still to read the file, or the last configuration that is queued,
  being applied or running is the file. The handler needs no clause of its own:
  its swaps come after a rename that woke the watcher, or after a restart which
  read the same file, and `PanelInv` says that it applies what the file holds.
* *MaskedKeys.* A copy is `Right` for a configuration if each of its masks stands for
  the key at its place there, the one its user means; merging the two gives what the
  user means, and masks of no other kind are left. Merging looks at positions, so this
  survives keys appended and the last one dropped, and breaks with anything else.
  The invariant says it of what is stored, for tabs that are fresh and unmoved
  (`TabsInv`) and for good PUTs that have not read (`SentInv`); of what it has read,
  for a good PUT that has (`ReadInv`). So that storing one PUT of a tab keeps it
  true of the others and of the copy, each PUT that may come before them holds their
  masks at the same places (`Covered`): a later copy of a tab has lost masks and gained
  keys, never gained a mask. That is why saves in their order do no harm and saves
  in reverse may. `GoodPutsStoreKeys` follows: where there are good PUTs only, what is
  meant is keys.
* *ContentParsers.* Two invariants. `Held`, for what is held where: the think
  parser's buffer is the piece of the answer that came last (`BufferLast`), and no
  more than a cut tag between chunks; what `feed` has found it has handed over when
  it returns (`FoundHanded`); and text, thinking, the parts of tools and the tool
  parser's buffer share no symbol and keep the order of the answer (`PiecesApart`:
  `Apart` and `Ahead`). Without the order of the *buffer* a step that
  passes on text could not be shown to append it in order. `Read`, for thinking:
  the parser's mode is that of a reader who has read up to its buffer
  (`ReadSoFar`), and what was shown is the thinking this reader has seen
  (`ThinkingShown`). The core is that a parser which finds the *first* tag in its
  buffer, or holds back from the last `<` that may begin one, does what the reader
  does symbol by symbol: no tag can end in what is passed on, and none that begins
  there is missed when the next chunk comes. For `ChunksDoNotMatterWithoutCalls`,
  `TextKept`: without calls all text that has come is shown or in a buffer, and two
  lists in the order of the answer with the same symbols are equal. Some 150 lemmas
  say what each search, cut and removal does to a buffer, whatever it holds.

`NothingInvented` and `ThinkingSplit` are proved for arbitrary answers, not only
for the well-formed segments of the run. What the recursive functions compute
(`Stripped`, `Reading`) needs induction over a text; the library's rules take a
predicate as a parameter, which the provers cannot use, and the proofs go through
a least counterexample instead (`LeastNumber`, `Induction`, `Recursion`, which
take a set or a function).

### What has to happen

That something happens at last rests on two things: that what is scheduled takes its
step, which is fairness, and that these steps lead somewhere. The second is a
safety property, and proved:

* *Something is used up.* `UseLeft` (a request's use of a key pool), `Rung`
  (from one model to the next), `OwnLeft` and the counters of calls (an answer's
  events), `StepsLeft` (a Puter or Kimi request), `Turns` (the parsers' loops) and
  `Work` (a change of the configuration) are numbers with a bound, and each step of
  whom they are about makes them smaller. Where several share the state, the
  theorem also says that nobody else's step makes them larger. Nested loops count
  like digits: what the inner one gets back is worth less than what the outer one
  has spent. `Work` has to weigh what a step sets off: a save wakes the watcher,
  whose reload changes eight parts, so a save is worth more than all of these.
* *A queue moves.* The semaphore of the limiter and the lock of the rotation serve
  in order. Those who wait are exactly those in the queue, each once; a step never
  puts somebody behind a place it had (`Follows`); and every step under the lock
  lowers 7 times the place plus what the holder has left to do (`Ahead`).
* *Time brings it.* A request the limiter refuses sleeps until exactly the moment
  a grant leaves the window (`OnTime`), so it never looks in vain twice for the same
  grant: the pair of grants in its way (`Blocking`) and time to its next look
  (`UntilLook`) falls, in this order, until somebody is granted. A key out of
  rotation is put off only by the reports of those who had it in hand (`InHand`);
  nobody joins them, and `UsesEnd` bounds what each still does.
* *Somebody is next.* `NobodyIsStuck`: in `HotReload` the guard of an action under
  fairness holds until everything is at rest.

`LadderEnds` and `StreamEnds` need more than their theorem says: that the models of
a tier cool down one by one, and that a provider's stream ends.

Only model-checked:

* Liveness itself (`KeyRejoins`, `PermitGranted`, `WindowMoves`, `TasksReturn`,
  `LadderEnds`, `StreamEnds`, `RequestsEnd`, `Settles`): fairness and `ENABLED` are
  beyond the prover; what each needs besides is proved, but for the two above.
* `ChunksDoNotMatter` for answers with calls: it compares with what a segment
  declares to contain, and holds for the segments `MCContentParsers` lists, not for
  every text (finding 7). For answers without calls see
  `ChunksDoNotMatterWithoutCalls`.
* What the violation runs and the configurations to run by hand refute, of course,
  is not proved either.

## 5. What the checks found

Shown by a run:

1. *The ladder does not end when tiers share models* (`router_shared`).
   `report_error_by_spec` charges the first endpoint of that name in any tier
   (`model_router.rs:164`), `next_fallback` reads those of the request's tier.
2. *The panel stores masks as keys* (`masked_keys_lost`). A mask is restored only
   from the same position of the profile of the same name (`panel/api.rs:457`);
   deleting from the middle of a list, renaming or duplicating a profile moves the
   masks, which are then stored as keys. Nothing has to be moved if two saves of a tab
   cross (`MCMaskedKeys_crossed.cfg`, to be run by hand): with two keys stored, the
   masks `[m1, m2]` of one save and `[m1]` of a deletion right after it, handled in
   reverse, leave `m2` as a key, because the button handlers call `saveConfig`
   whether or not a save is under way (`app.js:712-754`).

Shown by a configuration to run by hand:

3. *A cooling key is handed out* (`MCKeyPool_cooling_skipped.cfg`).
   `report_success` decides under the lock and stores `healthy = true` after it
   (`key_pool.rs:199-210`); a 429 of another request in between is overruled.
4. *A request goes out without a key* (`MCKeyPool_unkeyed.cfg`). `acquire` answers
   None, a cooldown ends, `all_exhausted` answers false, and the loop goes on with
   an empty key (`openai_compat.rs:129-142`).
5. *A failed rotation counts as done* (`IpRotation_skip.cfg`). The stamp is set
   before the commands run (`ip_rotator.rs:57`). *A cancelled one may undo the next*
   (`IpRotation_orphan.cfg`). `run_cmd` (`ip_rotator.rs:28-33`) leaves its process
   running when it is dropped, as the Cloudflare loop's is if the client hangs up; a
   `disconnect` or `registration delete` that gets to the daemon after the next
   rotation has connected leaves that one completed with the tunnel down.
6. *Tool blocks overlap others* (`MCSSEStream_overlap.cfg`). A tool's block is
   stopped only at the end of the answer (`sse.rs:249-282`); the shortest case is
   an error message after the start of a call. `StreamProtocol` therefore allows
   several open blocks and still demands that each is sound.
7. *Calls are not always converted* (`MCContentParsers_calls.cfg`, against
   `src/README.md:49`, "accurately converts them"). Of a call with one parameter
   to a line, a chunk that ends with the line break ends the call without its
   parameters. Related, with longer answers: two bulleted calls in one chunk
   merge, since the first takes the parameters of the second.
8. *An acknowledged change is dropped* (`MCHotReload_lost.cfg`, against
   `panel/api.rs:351` and `src/README.md:79`). Handlers start from the running
   configuration, and the reload task may just be putting back an older one: the
   next request saves a configuration without the profile that the panel has
   acknowledged.

Differences from the documentation, or surprises, that the models contain
without a run of their own:

9. `report_error` overwrites a longer cooldown with a shorter one
   (`key_pool.rs:234`; `src/README.md:313`, `:318`).
10. The limiter looks at its block once and then waits for the window, so a block
    set meanwhile is not seen (`rate_limiter.rs:27`; `src/README.md:44`).
11. A request that was in flight at the time still rotates, and reconnects WARP,
    after it was switched off (`openai_compat.rs:653`; `src/README.md:46`).
12. A 4xx makes a streamed request fall back to another model
    (`openai_compat.rs:251`; `src/README.md:277`), and whether "all keys" are
    exhausted is decided from the last provider alone (`openai_compat.rs:655`;
    `src/README.md:331`).
13. A tool whose name grows into `Task`, or beyond it, in an open block, loses or
    doubles input: for `Ta`, `Task`, what follows the change is not flushed if a
    fragment went out before (`emitted_input` is set), and fragments that came
    before the name go out twice if none did; for `Task`, `TaskOutput`, the
    fragments held back are never flushed. A provider that sends names whole
    cannot bring it about.
14. The Puter loop asks again when a stream breaks off, after part of it was
    delivered: the client may read the same text twice (`puter.rs:689`).
15. A hot reload makes a second `AuthManager` on the same `auth.json`, while
    requests under way use the first (`routes.rs:101`). They share no lock; each is
    `KimiAuth`, the pair of them sends rotated refresh tokens when both renew.
16. Any failure to renew at the start, a lost connection too, ends in an
    interactive login (`kimi_oauth/auth.rs:69`). `force_refresh` renews without a
    second look, so two requests that were refused the same token renew twice.
    The logins of a rebuild are awaited by the reload task, which meanwhile applies
    nothing else.
17. A configuration directory that does not exist at the start leaves the process
    without a watcher for good (`watcher = "failed"`), and an edit between the
    start and the watcher's is not seen. A file that cannot be read is overwritten
    when legacy variables are set (`BootMigrated`).
18. Saves share `config.toml.tmp`: two requests at a time may rename a mixture.
    The model takes one request at a time (`OneAtATime`), and says no more.
19. Two tabs overwrite each other's changes, as the copy is sent back whole; with
    the masks of Cloudflare credentials, which have another form, `validate`
    refuses the body.
20. The tool parser loses text in corners that `NothingInvented` allows: text
    after a bullet that turns out not to be a call, if the stream ends before it is
    decided; text that begins with `<` after a call stays in the buffer until
    `flush`, which drops it; `functions.` cut in two between chunks is not
    recognised, and an incomplete control token is shown. A JSON argument with
    nested braces that is cut behind an inner `}` is taken for the whole, which does
    not parse, and the call has no input.
21. What `ThinkTagParser` held back is shown raw at the end by `openai_compat.rs`
    and `cloudflare.rs`, without a look for tool calls in it (`EndOfStream`).

## 6. What is not modelled, and why

* Conversion of requests (`converter.rs`, `models/`, Kimi's `translate.rs`, the
  bodies the providers send): pure translation of JSON trees, without state or
  order that a model would add to.
* The text shortcuts (`optimization.rs`, `rtk.rs`), the comparison of a header with
  a token (`auth.rs`), reading of values and defaults (`config.rs`, most of
  `panel_config.rs`): stateless or sequential; nothing in them interleaves.
* The tool intent detector: a list of phrases; its answer is a free choice in
  `EndOfStream` and in `RetryTool`.
* `recover_garbled_tool_json` and `task_arguments_with_foreground`: they repair
  one JSON text and keep nothing.
* Status pages and the counters that feed only them.
* The non-streaming loop of the OpenAI-compatible and Cloudflare providers beyond
  its ladder (the `whole` kind of request in `ModelRouter`). The Cloudflare
  provider's own copy of the key rotation, with the same retry on one key
  (`cloudflare.rs:151-231`), which does not report a 4xx to the pool.
* The limiter a reload makes beside the old one (`routes.rs:103`): the new one starts
  with an empty window, no block and all its permits, and requests under way keep the
  old one. Each is `RateLimiter`; together they may let out twice the rate for a
  window, and nothing in the code joins them.
* Compositions. How a key pool's verdict drives the ladder, how the parsers drive
  the stream and how `KimiAuth`'s start is part of a rebuild are checked apart, with
  the interface a free choice of the one that depends on it (`PoolChanges`,
  `Receive`, the parts of `live`): a composition would have the product of both
  state spaces and ask no question that one of the two does not ask for more
  general input.
* Two changes of the configuration at once (findings 18, 19), and two
  `AuthManager`s (finding 15): the code has no guard there that a property could
  confirm.

## 7. Plan

Done: all components with state of their own, each with its safety properties
proved but for those named in section 4; where something has to happen, liveness is
checked and what it rests on besides fairness is proved. Left: for answers with
calls, that two ways of cutting one answer in which no chunk ends inside of a call
end alike, as a relation between two behaviours, which would free
`ChunksDoNotMatter` from the declared contents; two handlers at a time in
`HotReload`, as soon as saves no longer share one temporary file.
