# A TLA+ model of clnrod

clnrod is a Core Lightning (CLN) plugin that decides whether a peer may open a
channel. It looks the peer up on an allowlist or denylist and, if the list does not
settle the matter, evaluates a custom rule over data it collects from the peer
(ping), the node's gossip and two web APIs. This directory models it, checks the
models with TLC on small instances and proves the most important properties with
TLAPS for every instance.

Files are named relative to the root of the repository (`src/collect.rs`).
`PROJECT.json` maps every definition to the lines it models.

## 1. Inventory

One tokio process serves all hooks and RPC methods concurrently: a handler can be
overtaken at each `.await` and, with tokio's several worker threads, at each unlock.
All share `PluginState` (`src/structs.rs`): five structures under a mutex each and
two mutexes that space the calls to the web APIs.

| Component | State | Operations | What is hard | What makes it correct |
|---|---|---|---|---|
| `collect_data` and the cache (`collect.rs`) | `peerdata_cache` | look up, four tasks, join, insert; `clear` by setconfig | lock is free between look-up and insert; tasks fail; unsigned ages | entries are whole, misses return all they asked for, own opening data |
| Channel acceptor (`hooks.rs`) | locals of `release_hook`; reads `config`, `pubkey_list`, `zero_conf_list` | two hooks; `clnrod-testrule` (`rpc.rs`) uses the same collector | three locks one after the other, then seconds of waiting for data and for a mail | answers follow the documented policy, fail closed, an opening is lost only to a rule or a mail that can panic |
| List files (`rpc.rs`, `config.rs`) | three files, three `.lock` files, two sets in memory | `clnrod-managelists`, `clnrod-reload`, start | files and memory change at different times; readers take no file lock; crashes | no lost update, files parse, memory and files agree |
| Options (`config.rs`) | `config` with `send_mail`, and the plugin library's copy | `setconfig`, start | two copies, 64-bit values for 16-bit fields, concurrent calls; the mail switch never falls | one valid configuration |
| Custom rule (`parser.rs`, `rules.pest`) | the Pratt parser's stack | parse, evaluate | unwraps of data that may be missing; literals over 64 bits; precedence; reasons that are unwrapped | means what the README says, reasons explain a rejection, comes to an end |
| API throttle (`collect.rs`) | `amboss_lock`, `oneml_lock`: time of the last call | spaced request, three attempts | mutex held across a request; tasks outlive their calls | spacing, three attempts, no starvation |
| Ping (`collect.rs`, `rpc.rs`) | none | loop with timeout, clnrod-testping | timeouts and errors mix with results; mean of nothing | a value in range, the timeout value for a silent peer |
| Notification (`notify.rs`), clnrod-testmail | none | log, mail | inside the hook, two locks one after the other | mails as the verbosity asks, does not stop a hook |
| Alias cache (`tasks.rs`) | `alias_cache` | hourly refill | cleared before the answer is there | never two answers mixed |
| Start (`main.rs`) | options | read configuration and lists or disable | | |

How they interact: the hooks and testrule call `collect_data`, and all calls share
the cache. setconfig changes `config` under its lock and clears the cache before the
lock is released. managelists and reload replace what the hooks read as
`pubkey_list` and `zero_conf_list`. lightningd delivers hooks and RPC calls, waits
for answers, and keeps the options across restarts; the list files and lock files
survive in the file system.

`PROJECT.json` lists the hazards of this code at their lines, each with the
properties that address it or a note why none does yet.

## 2. Modules

### Collect

`Collect` models `collect_data` as one process per slot of `Calls`.

| Code | Model |
|---|---|
| `peerdata_cache` | `peerdata_cache[p]`, a `CacheEntry` or `None` |
| locals `peer_data`, `cache_hit`, `unix_now_s`, the join handles | fields of `task[c]`: `found`, `info`, `hit`, `t0`, `running`, `failed` |
| time of the call, opening specific data | `CollectBegin` |
| `get_peer_data` (listpeerchannels) or its error | `PeerChannels` |
| look-up under the mutex: panic of a checked subtraction, hit, miss | `LookupPanic`, `LookupHit`, `LookupMiss` |
| a spawned task ends, after its retries | `FetchOk`, `FetchErr` |
| `p.await??` in the order ping, gossip, amboss, oneml | `JoinErr` |
| all awaited; insert under the mutex | `JoinOk` |
| setconfig's `clear()`; the wall clock | `ClearCache`, `Tick` |

A source's answer is abstracted to the time it was given, and a rule to the set of
sources its variables belong to (`Reads`) and whether it counts channels (`Multi`).
`Fetches` differs from `Reads`: "cln_multi_channel_count" contains "cln_" and so
starts the gossip task. The contents of a rule's text outside of variables cannot
start a task, because the grammar knows no other words. A rule clnrod-testrule is
called with is parsed only after the collection, but its text is matched in the same
way. `Elapsed` is the unsigned difference; `OverflowChecks` is the set of builds
considered, TRUE for one that panics on underflow and FALSE for one that wraps. With
`U64 > MaxTime` an earlier time minus a later one is large, as in the code.

### ReleaseHook

`ReleaseHook` extends `Collect` by the callers of `collect_data`: `hook[c]` is the
local state of `release_hook` or `clnrod_testrule`, `task[c]` that of the collection
it waits for.

| Code | Model |
|---|---|
| a hook's three reads under three locks, the last with the guard `!list_matched && !custom_rule.is_empty()` | `ReadPubkeyList`, `ReadConfig`, `ReadZeroconf` |
| `collect_data`; its error | `BeginCollect`, the steps of Collect; `CollectFailed` |
| `parse_rule` of clnrod-testrule, `evaluate_rule` | `ParseFailed`, `Evaluate` |
| the match on the block mode, with the depth `openchannel_hook` asks for | `Decide` |
| `notify(...).await` before every answer: second look at the configuration, mail | `Notify`, `MailEnds` |
| a panic in `collect_data` or the evaluation; in `notify` | `Panic`; `NotifyPanics` |
| setconfig of mode, rule, and of a mail option or the verbosity | `SetBlockMode`, `SetCustomRule`, `SetMail` |
| what a reload or managelists call does to memory | `SetPubkeyList`, `SetZeroconfList` |

setconfig holds the configuration's lock over all of its updates, hence one step
each. What a rule says is a free choice (`Evaluate`), so the properties hold whatever
it says; what is tracked is what an evaluation panics over (`EvaluationPanics`): data
the rule reads and the collection does not have, and a literal of 2^64 or more (rules
in `Overlong`). Of the mail options `config.mail` keeps at which levels a mail is due,
none while `send_mail` is off, and whether both addresses parse; a mail that is due
while they do not panics. After a panic tokio ends the handler's task and lightningd
gets no answer. `moments` and `changes` are history variables: what configuration and
lists said of the peer at any time since the request, and how often they changed,
counted up to two.

`Acceptor` is what an operator is promised of an opening: each of list,
configuration and zeroconf list is looked up once, in any order, the opening is judged
by the policy for what was found, the operator told and the answer given. An opening
is lost only to a consulted rule that can panic (`Risky`), or to a mail about the
judgement that is due to an address that does not parse. `AnswersAsPromised` says that
`ReleaseHook` implements it. A handler's stages up to `Decide` are the `pending` of
its opening, the notification is its `judged`. The reads are `LookUp`, `CollectFailed`
and `Decide` are `Judge`, a notification without a mail and `MailEnds` are `Answer`,
`Panic` is `LoseToRule`, `NotifyPanics` is `LoseToMail`; collecting, evaluating,
beginning a mail and clnrod-testrule are stutters (`OpeningOf`). `Risky` is the set of
rules with an overlong literal, those that read more than the collection for some
other rule fetches, and in a build with overflow checks all of them. Unlike
`AnswersFollowPolicy` the refinement holds however often configuration and lists
change, but the three looks may then belong to different moments.

### ListFiles

`ListFiles` models clnrod-managelists and clnrod-reload, one process per slot, over
files, lock files and sets in memory. A file is a set of lines and, if its last line
has no newline, that line (`tail`). A line is a spelling, not a key: files are
filtered by text, memory by key. `Garbage` is a line no reader accepts, as arises
when text is appended to an unfinished line or a newline to nothing.

| Code | Model |
|---|---|
| managelists' mode check, then the membership check under the list's mutex | `ManageLists`, `CheckMembership` |
| `FileLock::acquire` (`create_new`, polling) and `drop` | `Acquire`, `Release` |
| `add_line`: text, then newline | `AppendLine`, `AppendNewline` |
| `remove_line`: read and filter, rename; no file | `ReadAndFilter`, `Rename`; `ReadFails` |
| an error of the lock file or of any file operation | `AcquireFails`, `FileError` |
| update of the set, after the lock | `UpdateMemory` |
| reload: `exists`, `File::create`, read, swap, for both lists | `Reload`, `FileMissing`, `CreateFile`, `LoadFile`, `SwapList` |
| setconfig of the mode | `SetBlockMode` |
| the process dies; start reads the lists or disables the plugin | `Crash`, `Restart` |

The `.tmp` file is written only by the holder of the lock and truncated when opened,
so writing it is part of `ReadAndFilter`. A file is read in one step: tokio's reader
takes chunks of 8 kB, which is the whole of a list of up to 120 keys.

`KeyOf` need not be injective: a key can be written in lower and upper case, and a
removal that spells it differently from the file leaves it there (`src/rpc.rs:456`).
`disputed` is a history variable: the keys of a list that two calls were handling at
a time, and those that a removal left in the file in another spelling (`Respelled`).
`Agreement` is about all others. The runs give each key one spelling; the theorems
hold for any.

`WriteErrors` switches `FileError` on: an error between the two writes of an add
leaves an unfinished line without a lock, after which files need not parse.

`ListStore` is what the files are for: a durable set of lines per list, which each
request changes at one moment or not at all and which a crash leaves alone.
`FilesAreAStore` says that `ListFiles` implements it; the moment of an add is its
first write, that of a removal its rename. The module says nothing of the sets in
memory, which do not implement it (`lists_race`).

`ReleaseHook` abstracts `ListFiles` to arbitrary changes of the two sets, and
`ListFiles` leaves out the hooks, which change nothing in it.

### RuleEval

A rule is a sequence of tokens. `Derives` is the grammar, `ParseRule` the whole of
`parse_rule`, which must derive the rule to its end. `evaluate_rule` is modelled as
pest runs it: each call of the parser's `expr(rbp)` that has not returned is a frame
of `stack`.

| Code | Model |
|---|---|
| `.op(or).op(and)` | `Power`: what is declared later binds tighter |
| `map_primary` of a comparison, and the unwraps in it | `EvaluateComparison`, `ComparisonPanics` |
| `map_primary` of a bracket, a recursive `evaluate_rule` | `OpenBracket` |
| pest takes an operator that binds tighter than `rbp` | `TakeOperator` |
| `expr` returns, to `map_infix`, a bracket or the caller | `Return`, `Combined` |

`evaluate_comparison` is `Compared`; the text of a reason becomes the position of
its comparison, a missing rank `NoRank` (`unwrap_or(u64::MAX)`), and data of a source
that was not asked `Absent`. `MeansWhatItSays` compares with `Meaning`, which splits
the rule at its outermost `||`, then `&&`, and knows neither stacks nor powers; it is
a recursive function of segments of the rule. `NothingUnexpected` says that the
evaluator meets no token the grammar did not promise it (the error at
`src/parser.rs:67`).

### Fetch and SourceTask

`Fetch` models what is inside `FetchOk` and `FetchErr` of Collect: one slot per
task `collect_data` spawned, and per API the tokio mutex that holds the time of
its last call.

| Code | Model |
|---|---|
| `lock().await`, first come first served | `SpawnRequest`, `Retry` (queue), `Lock` |
| loop until the spacing is over | the guard `Spaced` |
| request; network not supported | `Send`; `NotSupported` |
| answer: time recorded, then status and parsing | `Answer` |
| `?` on sending: no time recorded | `SendFails` |
| `attempts >= 3`, `sleep(attempts * 2)` | `AfterFailure`, `Retry` |
| `get_gossip_data` | `Gossip`, `LocalFails` |
| `ln_ping`'s loop; clnrod-testping | `SpawnPing`, `Pong`, `PingError`, `PingTimesOut`, `PongTooLate`, `PingPanics`; `TestPing` |

The time of a pong is taken after the timeout's poll (`src/collect.rs:527`), so it may
be any; one beyond a u16 is an error, whatever was measured before (`PongTooLate`).

Every return from an attempt drops the mutex. `since_recorded` is the time since the
recorded call, `since_answered` (history) since the API last answered.
`SourceTask` is the promise Collect relies on: a spawned task ends by itself, once,
with data or an error. `TasksKeepTheirPromise` shows that `Fetch` implements it,
fairness included, which is why Collect may assume that each of its tasks ends.

### Settings

`Settings` models setconfig, notifications and the alias cache.

| Code | Model |
|---|---|
| `parse_option`, before any lock | `SetConfig` with `Parses` |
| `check_option` under the lock; lock kept if valid | `CheckOption` with `Valid` |
| `set_option_str`, `activate_mail` and unlock | `StoreOption`, `ActivateMail` |
| a hook's call of `notify`; clnrod-testmail and clnrod-testrule, which look at `send_mail` first | `NotifyOutcome`; `Test` |
| `notify`: alias under its lock, clone of the configuration, mail | `ReadAlias`, `CloneConfig`, `SendMail`, `MailEnds` |
| `refresh_alias_cache`: clear, listnodes, fill | `RefreshBegins`, `NodesListed`, `RefreshFails`, `RefreshFills` |

The steps of setconfig are separate although they hold one lock, because the
options, the alias cache and hooks that wait for the lock can be looked at in
between. `SendMail` panics on an address that does not parse (`src/notify.rs:28`),
fails before anything is sent, or has the mail on its way, which `MailEnds` delivers or
gives up; `result` keeps what became of it, since `notify` only logs that. A
notification may begin at any time: its relation to a verdict is `Notify` of
ReleaseHook. `StoreOption` cannot fail: the library refuses only options that are unknown
or not dynamic, and `main.rs` declares every option dynamic.

### Proof modules

`CollectProofs`, `ReleaseHookProofs` (which extends the former), `ListFilesProofs`,
`FetchProofs`, `SettingsProofs` and `RuleEvalProofs` hold theorems only;
`RuleMeaning` holds those about the operators of `RuleEval` that need no state, and
`LeastElement` one about numbers. The `MC` modules hold the values the
configurations give to constants, and the symmetry sets. Operators commented
"Mutant" are plausible wrong versions of the definition after them; no
specification uses them, and each property is known to fail when one takes the
place of the original.

## 3. Runs

| Run | Instance | Checks |
|---|---|---|
| `collect` | 2 calls, 1 peer, 2 openings, 2 rules on different sources (one counts channels), clock 0..2 of lifetime 1, both builds | `EntryIsWhole`, `MissSeesWhatItReads`, `OwnOpening` and types |
| `collect_age` | 1 rule, clock 0..3 | `OneHourCache` fails |
| `hook` | 1 call, hook or testrule; both modes; a rule that reads nothing, one that reads a source, one with an overlong literal, a text that is no rule; mails about errors, and about everything to no address; all changes of lists and configuration | `AnswersFollowPolicy`, `AnswersAsPromised` and types |
| `hook_live` | 1 call over and over, 3 rules that differ in sources and counting, clock 0..2, setconfig of the rule and of mails | `HookIsAnswered` |
| `hook_reset` | 2 rules on different sources | `CacheHoldsCurrentRule` fails |
| `lists` | 2 calls, 2 keys, one mode, crash and restart | `RemovalLosesNothing`, `FilesParse`, `Agreement`, `FilesAreAStore` and types |
| `lists_modes` | 2 calls, 1 key, both modes and their lists, failing file operations, no crash | `LockIsExclusive`, `LockIsReleased` |
| `lists_race` | 2 calls, 1 key | `QuiescentAgreement` fails |
| `rule` | rules of up to 4 comparisons in mixed nestings and malformed ones, all operators, 2-bit values, missing and absent data | `MeansWhatItSays`, `ReasonsExplain`, `AssumesTheWorst`, `NothingIsSkipped`, `NothingUnexpected`, `EvaluationEnds` and types |
| `fetch` | 2 tasks, a served and an unserved API, gossip, pings asked for 0 to 3 times, answered in time, late and too late for 16 bits | `RequestsAreSpaced`, `ThreeAttempts`, `PingHasAValue`, `TasksKeepTheirPromise` and types |
| `settings` | 2 setconfig calls, 1 notification, 4 options with invalid values, alias refreshes | `OneConfiguration`, `MailsFollowVerbosity`, `AliasesAreOfOneAnswer`, `NotifiedIsAnswered` and types |
| `settings_mail` | the same | `InsufficientMeansNoMail` fails |

Bounds. Two calls are the least that interfere; the cache and the lists are
per-peer and per-list, so one peer suffices for Collect. Two clock ticks with
lifetime 1 give entries that are fresh, just fresh and expired; three give data
older than a lifetime behind a fresh entry. Two rules with sources that overlap in
nothing give every mismatch between an entry and a reader. `hook` and `hook_live`
have one call at a time, because hooks share only the cache and what setconfig and the
lists' handlers change: the next call meets the entry an earlier one left, under a rule
that may have changed, and what two calls at a time do to the cache is `collect` and
the theorems about `Collect`. In both runs handlers do panic, over data an entry of
another rule lacks and over mails, and in `hook` over the overlong literal; no wrong
answer comes of it and no other opening is lost. For the files two
keys are the least for which one call can spoil another's line; runs with both
modes need a single key, since the hazard there is the file that is created, not
the lines in it. `lists_modes` leaves out the zeroconf list, which no mode concerns.
`rule` has what a rule of any length is made of: each operator before each other,
inside and outside of a bracket. Two tasks of `fetch` are the least that contend
for a mutex; a third would queue behind them. Its spacings are shorter than its
sleeps, as 1.4 s is than 2 s. `settings` uses both addresses but lets only one
be emptied, as one suffices to make the configuration insufficient. Symmetry is
used only in runs without liveness. The safety theorems of section 5 hold without
these bounds.

Deadlock is checked in every run. No configuration reaches one: a slot can always
be used again, and a panicked hook leaves the clock, setconfig and other steps. In
`lists`, calls that poll for a stale lock leave the crash enabled, and a disabled
plugin is never reached, since the files parse.

Fairness. `FairSpec` of ReleaseHook assumes weak fairness of each handler's own steps:
tokio polls a runnable task, parking_lot's mutexes are held for a few instructions
only, and each source's task ends, which `fetch` shows. That rests in turn on
`FairSpec` of Fetch: time passes, tokio's mutex is first come first served, and a
request ends by its answer or its error. The last is an assumption: `bitreq` and CLN's
RPC are called without a timeout of clnrod's own. RuleEval is sequential code that
runs on. In Settings a notification's steps are strongly fair, because `CloneConfig`
needs a mutex that setconfig calls may take again and again: parking_lot hands a mutex
over to a waiter after half a millisecond at the latest. A mail ends after 60 s
(`src/notify.rs:45`), here and in ReleaseHook. Nothing is assumed of openings,
setconfig calls, the wall clock of the cache or alias refreshes. In `ListFiles` only the steps of a lock's holder are
fair. `Acquire` polls every 50 ms without a queue, so a call may be overtaken for ever
and no property says that it gets the lock. `LockIsReleased` needs `Crashes = FALSE`:
a lock file survives its process, and nobody removes it. `NotifiedIsAnswered` assumes
that both addresses parse all the time, and `HookIsAnswered` that they do whenever a
mail is due; without that the panic of `SendMail` leaves an opening unanswered.
`HookIsAnswered` is conditional on the rule as well: one in `Risky` may end a hook.

## 4. What the code does otherwise than its documents say

Each of these is a run that TLC finds violated; `PROJECT.json` quotes the line.

- `collect_age`: a hit stores the entry again with a new age, so the hour starts
  anew with every opening (`src/collect.rs:431`).
- `hook_reset`: a collection under way when the rule is changed fills the cache with
  the old rule's data after it was cleared (`src/collect.rs:430`).
- `lists_race`: memory is updated outside of the file's lock (`src/rpc.rs:336`).
- `settings_mail`: emptying a mail option logs that no mails will be sent, but the
  switch stays on, so the next notification begins one; if it is an address that
  is empty, the hook panics (`src/config.rs:326`, `src/notify.rs:28`).

Met on the way, and in the models, but without a run:

- clnrod-testrule does not clear the cache for its peer (`src/rpc.rs:135`), which the
  CHANGELOG says of 0.2.0. With rules on different sources this or `hook_reset`
  ends in a panic of a handler: see `Risky` and `PanicIsRisky`.
- A new block mode uses the old mode's list until a reload (`src/config.rs:174`):
  `SetBlockMode`.
- A reload that creates the list of a new mode can truncate it under an add: the key
  is lost, or the add's newline makes a line that does not parse, and the next start
  disables the plugin (`src/config.rs:70`): `CreateFile`, and the hypothesis of
  `FilesAlwaysParse`.
- A removal that spells a key differently from the file reports success and leaves it
  there, and the key is back after a reload (`src/rpc.rs:456`): `Respelled`.
- An integer beyond 64 bits passes the grammar and panics whenever it is evaluated
  (`src/parser.rs:142`): `Faulty` of RuleEval, `Overlong` of ReleaseHook.
- clnrod-testmail reports success for a mail that was refused (`src/rpc.rs:184`):
  `result` of Settings.

## 5. Proofs

Assumptions are those named in the modules: what is a rule's set of sources, that
the clock is bounded below the modulus, that `None` and the like differ from data
and tokens.

`CollectProofs`. `CollectInv` is the type invariant, `EntryIsWhole` and, for each
call, `TaskInv`. `EntryIsWhole` is not inductive: what `JoinOk` caches is whole only
because a hit took whole data (`HitIsWhole`), because after a miss each source is
found, running or failed (`MissAccountsForAll`) and because nothing is lost when all
are joined (`TasksJoined`). The theorems are `CollectTypeCorrect`, `EntriesAreWhole`,
`MissesSeeAll` and `OpeningsAreOwn`.

`ReleaseHookProofs`. `AcceptorImplementsCollect` shows that every step of the acceptor
is a step of Collect or a stutter, so `CollectInv` carries over. `HookInv` adds which
fields are set where a handler is (`HookShape`) and that a collection runs exactly for
a handler that waits for it. `AnswersAreThePolicys` rests on
`PolicyInv`: with no change so far there is one moment and every value read agrees
with it; after one change there are two, and the reads, being ordered list,
configuration, zeroconf, are explained by one of them because a single change touches
only one of the three. After two changes this is no longer so, and the property makes
no claim. `AcceptorKeepsPromise` is the refinement of `Acceptor`, in full since both
sides are safety. Besides `HookInv` it needs `VerdictsFit`: the verdict a handler
holds goes with what it read, no verdict before a collection and one of the rule after
it. That an opening is lost to a `Risky` rule only rests on `TiedInv`: a collection is
for the rule its handler read, and panics over the clock alone. What a successful one
found is what some rule fetches (`DataIsThere`), so what is missing makes the rule
risky (`PanicIsRisky`). One lemma per action gives the step it
stands for; `OneSlotChanges` reduces each to the opening of the handler that moves.

`ListFilesProofs`. `ListInv` says that a call in its critical section holds the lock
file (`HoldsLock`), which gives `LockExcludes` for any modes and any crashes. The
parts that keep the contents right hold with one mode and writes that succeed
(`Undisturbed`; with two modes `CreateFile` truncates a file under its lock, and a
failed newline leaves an unfinished line without one): then no call meets a missing
file, what a removal read is current until its rename (`ReadIsCurrent`), and an
unfinished last line is there only under its writer's lock or a stale one
(`TailGuarded`), which a crash preserves. The theorems are `RemovalsLoseNothing`,
`FilesAlwaysParse` and `FilesImplementStore`: under `ListInv` and `OperationFits` (a
call in `add_line` is an add) every step is one of `ListStore` or leaves lines and
requests alone (`StoreStep`). `MemoryAgreesWithFiles` rests on `AgreeInv`: a key that
is not disputed is handled by at most one call (`HandledAlone`), for which
`Promise` says what it will rely on (before the file is changed memory and file agree,
after it the file is what memory will be), and memory and file agree about a key
nobody handles. It assumes `Undisturbed` and, as the property itself does, says
nothing of disputed keys; calls, keys, spellings and crashes are any.

`FetchProofs`. In `FetchInv` a task's count of requests goes with its attempts and
where it stands (`TaskOK`), whoever is between taking and dropping an API's mutex is
its one holder (`MutexOK`), the queue has each waiter once (`QueuesOK`) and the
recorded time is that of the last answer (`ClocksOK`). `Moves` says what a step does
to the task that makes it, so that `RequestsStaySpaced`, `AttemptsAreThree` and
`TasksStepAsPromised` (the safety part of the refinement of `SourceTask`) need no
second look at the actions. They hold for any tasks, APIs, spacings and sleeps.
`PingsHaveAValue` adds `PingInv`: while the loop runs there are fewer results than
pings asked for, each a measured time that fits 16 bits or the timeout (`Measured`),
and a task that ended well has at least one. That the mean lies between is a bound on
the partial sums, by the least index at which it would fail.

`SettingsProofs`. `SettingsInv` has three parts. For setconfig, a call holds the
mutex from a valid check to its end (`SetterHoldsLock`), and the library's copy
lacks at most the value its holder is about to store (`OptionsFollow`), which gives
`ConfigurationsAgree`; `ValidIsUsable` gives `ConfigurationIsUsable`. For
notifications it has their types. For aliases, the cache is empty from the clear to
the fill (`CacheOfOneAnswer`): `OneAnswerOfAliases`. `MailsAsAsked` adds `AskedInv`:
while the configuration is not read, what it asks for now is among what was asked
since the notification began; from then on a mail that is due is tried to its end
before the caller goes on.

`LeastElement`, `RuleMeaning`, `RuleEvalProofs`. Rules are of any length and nesting
here, so the argument is by induction, which is done by least counterexample:
`LeastNatural` gives the shortest segment for which a claim fails. `RuleMeaning` first
shows that the recursive `Meaning` has a value that satisfies its equation (it builds
the table of all segments), then what it is for a comparison, a bracket and a segment
split at an `||` or `&&`, whichever of several outermost ones is taken.
`RuleEvalProofs` defines `ValueOf(r, d, v, lo, hi)`: `v` is what the tokens `lo..hi`
mean, with reasons that name false comparisons among them and that would reverse it.
`RuleInv` then says that there is a start for every frame of the parser's stack such
that each frame's left side is the value of the segment it covers (`Parsed`), with no
operator in it that binds weaker than the frame, and frames below wait for a bracket
to close or for the right side of their operator. Without the starts, which the code
does not keep, the invariant is not inductive. It gives `RuleMeansWhatItSays`,
`RuleReasonsExplain`, `RuleAssumesTheWorst`, `RuleNothingIsSkipped`,
`RuleNothingUnexpected` and `RuleTypeCorrect` for every set of rules, data and bounds.

Only model-checked: liveness (`HookIsAnswered`, `LockIsReleased`, `EvaluationEnds`, `NotifiedIsAnswered` and the fairness part of
`TasksKeepTheirPromise`), which is beyond the prover. Every other property of a
passing run is a theorem.

## 6. Not modelled, and plan

Not modelled: the contents of answers, mails and logs; the option definitions in
`main.rs`; how a node's gossip becomes a `PeerInfo`; a write that leaves half of a
line, hand edits of list files, and an operator who removes a stale lock; a wall
clock that is set back; the count of channels that two openings of one peer see in
listpeerchannels, which depends on when lightningd lists an opening. SMTP, HTTP and
CLN itself are outside of the program. Build, CI and packaging have no behaviour.

Order of the work:

1. `Collect`, `ReleaseHook`, `ListFiles` with their runs and theorems: done.
2. `RuleEval`, `Fetch` with `SourceTask`, `Settings`, `ListStore`, with theorems of
   the latter three: done.
3. Theorems for `Agreement`, `PingHasAValue` and `RuleEval`; `Acceptor`, which
   `ReleaseHook` refines: done.
4. Left: the safety half of the liveness properties where it says something (a
   handler that waits has a task that runs; a notification that waits for a mutex
   has a holder that will release it), and an
   abstract cache that `Collect` refines.
