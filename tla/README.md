# A model of remainder

`remainder` is a one-shot command. It reads how much of a quota is left from a
provider (Codex, Claude, Grok, Cursor, Devin), through credentials that other
programs own, and prints it. Many copies run at once (a prompt, a status bar,
a script), so an answer is kept in a small on-disk cache. A copy that needs a
fresh answer takes a file lock, looks again, calls the provider, and replaces
the cached record. This directory holds TLA+ models of that program, the TLC
configurations that check them, and proofs checked by TLAPS.

Paths below are relative to `src/`.

## 1. Inventory

| Part | Code | State it keeps | Operations | Modelled |
| --- | --- | --- | --- | --- |
| Records and policies | `internal/cache/{types,record,backoff,io}.go` | the snapshot file of one binding | validate a policy, read a record, is it eligible, may it be reused, does it back off, what to write after success or failure | `CacheRecord` |
| Store and lock | `internal/cache/{store,lock,io}.go` | `snapshot.json` and `refresh.lock` in the binding's directory | `Resolve`, `Put` | `CacheStore`, `QuotaRegister` |
| Runtime adapter | `internal/cli/cache_adapter.go` | none | choose the provider, compute the cache binding, resolve through the store or beside it | `Credentials`, `Collection`, `ProviderObserve` |
| Mixed collection | `internal/cli/mixed.go` | results of one `--all` run | collect in parallel, assemble, decide the outcome | `Collection` |
| Command line | `internal/cli/{run,report}.go` | none | option rules, report and value command, exit code | `Reporting`; exit code, interrupts and cache options in `ProviderErrors`, `ProviderObserve`, `Collection` |
| Provider adapters | `internal/{codex,claude,grok,cursor,devin}/adapter.go` | none | read credentials, send one to three requests, classify a failure | `ProviderObserve`, `ProviderErrors` |
| Normalization | `source.go`, `normalize.go` of each provider | none | turn a decoded answer into evidence, or refuse it | `CodexEvidence`, `ClaudeEvidence`, `CursorEvidence`, `DevinEvidence`, `GrokEvidence` |
| Evidence | `internal/evidence` | none | validate, derive pace, select windows or a value, render, parse | `Evidence` |
| Byte formats | `internal/grok/{wire,grpcweb}.go` | none | scan bytes | not modelled |
| Credential readers | `auth.go`, `keychain.go` of each provider | none; the files are others' | fingerprint, inspect, open, read and check a file or a Keychain item | `Credentials`; as outcomes in `ProviderObserve` |
| Benchmark driver, scripts | `cmd/remainder-benchmark`, `scripts` | none | measure, build, install | not modelled: they are not the program |

How the parts interact: the command line builds a request and a policy and
calls the runtime adapter, once, or in parallel for every provider under
`--all`. The runtime adapter asks the provider for a *binding* (a hash over the
provider, the source and the metadata of the credential file), opens the
store, and passes `Resolve` a callback that performs the provider's `Observe`
and classifies its error with the provider's `Failure`. Processes share nothing
but the directory of their binding: the snapshot, replaced by `rename`, and the
lock file, held with `flock`.

What is hard in it:

- *Interleaving.* A process reads the snapshot before the lock, waits for the
  lock, reads again, and spends up to 15 s in a provider call before it
  writes. What it decided on must still hold when it writes, and processes
  that waited must share the answer instead of asking again.
- *Order.* A forced request compares generations across two reads. A `Put`
  or a slow clock can bring evidence older than what is stored.
- *Crashes.* A killed process runs no deferred call. A power loss can undo a
  rename whose directory was not synced, or expose a file that was not.
- *Memory of failures.* A revocation (401, 403, wrong account) must outlive
  every other failure until a refresh succeeds. A backoff must end.
- *Other versions.* A record of another schema must be kept.
- *Files of others.* A login file is replaced or rewritten while it is
  fingerprinted, opened and read, in four steps or more.
- *Gaps.* Five providers leave out amounts, resets and lengths in ways of their
  own. What is missing must become neither zero nor complete.
- *Edges.* A pace exists only between the ends of a cycle, and is shown by
  commands that run later than the observation was made.
- *Timeouts.* The lock wait, the operation and the provider call have
  deadlines of their own, and `--all` one more over all of them.

What makes each part correct is stated by the properties of section 3; the
hazards are listed with their source lines in `PROJECT.json`.

## 2. Modules

```
CacheRecord            values, pure functions of the cache
  QuotaRegister        abstract: a register of atomic read-modify-writes
  CacheStore           detailed: processes, lock, snapshot, disk, faults
    MCCacheStore       requests and symmetry for TLC
    CacheStoreProofs   types, mutual exclusion, no lost update
      CacheRegisterProofs   sound records, no regression, the refinement
        CacheAnswerProofs   backoffs, accounts, answers and what was on disk
ProviderErrors         errors, and the tables that read them
  ProviderErrorsProofs which row of a table decides, and what the tables say
  ProviderObserve      one Observe of one adapter, up to the exit code
    ProviderObserveProofs  all its safety properties
  Collection           one --all run over several providers
    CollectionProofs   all its safety properties
Credentials            the login files, under requests and other programs
  MCCredentials        the sources, files and logins for TLC
  CredentialsProofs    all its properties
Evidence               observations: validity, pace, selection, documents
  CodexEvidence, ClaudeEvidence, CursorEvidence, DevinEvidence, GrokEvidence
                       what each provider answers, normalized
    Reporting          extends the five: from an answer to what is printed
      MCReporting      the answers and the commands for TLC
      ReportingProofs  all its properties
```

**CacheRecord** has one operator per function of the cache that has no side
effect: `ValidPolicy` (`Policy.Validate`), `ReadRecord` and `ValidRecord`
(`readRecord`), `Eligible`, `Reusable` (`reuseAfterLock`), `BackedOff` and
`StaleAllowed` (`backoffResult`), `RetryDeadline`, `SuccessRecord`,
`PutRefused` (`putLocked`), `BaseRecord` and `FailureRecord`
(`handleFailure`).

**CacheStore** runs any number of processes on one binding. `pc` follows
`Resolve` and `Put`:

```
launch -> consult -> prepare -> contend/wait -> locked -> review -> fetching
                                                            |          |
   hit, only-miss, backoff: done      reuse, backoff: unlock <- fetched <-
                                                            write -> sync ->
                                   unlock <- dirsync <- rename <-
```

| State | Code |
| --- | --- |
| `visible`, `durable`, `settled` | what `snapshot.json` holds; what it would hold after a power loss; whether the data behind the visible name was synced |
| `lock` | the holder of the `flock` on `refresh.lock` |
| `clock`, `nextGeneration` | `Options.Now`; the random generation of `putLocked` |
| `initial`, `current` | the results of `readRecord` before and under the lock |
| `fetched` | the `FetchResult` of the callback |
| `pending` | the temporary file of `writeRecord` |
| `result`, `startFile` | what the call returned; history: the snapshot when it was launched |

Each action is one step another process can see: a file access, a lock
attempt, a clock reading, the provider call. `Faults` names what else may
happen: failing file calls or random source (`LockUnusable`, `WriteFails`,
`KeepSuccess`), a snapshot read that fails for a moment (`Reads`), `Crash`,
`PowerLoss` with `WriteBack`, `ForeignWrite`, `SetClockBack`.

Abstractions, all of them coarser than the code or equivalent to it:

- An observation keeps its account, identity binding, freshness and time. The
  cache never looks at its windows. That it is valid, and of the source the
  binding names, is the subject of `Reporting` and `Credentials`.
- A generation, 128 random bits in the code, is a fresh number. Two equal draws
  are not considered.
- Opening the lock file and creating its directory are one step: neither is
  visible to another process.
- Consecutive readings of the clock by one process with no access to shared
  state between them are one instant.
- A file is absent, garbage, of another schema, or a record: what a reader
  can tell apart. A rename replaces it whole, as POSIX has it.

**QuotaRegister** is what the cache promises with processes, locks, temporary
files and syncs taken away: a register that changes by `Publish` (a new
generation, evidence no older than the one it replaces) or `NoteFailure` (same
evidence, a revocation is never taken back), never touches a record of another
schema, and after a power loss holds again one of its own past values.
`CacheStore` refines it with `register <- visible`, `stable <- durable`.

**ProviderErrors** represents a Go error by the set of sentinels `errors.Is`
finds in its chain, so wrapping is union. `Failure` (the adapters'
classification), `ExitCode` (`run.go`) and `FailureMessage` (`mixed.go`) are
switches over that set, and the order of their cases is kept.

**ProviderObserve** is one `Observe` of one of the five adapters and what the
command makes of it. `pc` goes `validate`, `credentials`, then `ready` and
`waiting` for each call in `Calls`, `normalize`, `done`, `printed`, `exited`.

| State | Code |
| --- | --- |
| `request` | `evidence.Request`, where the credentials are, whether there is a cache policy |
| `caller`, `budget` | the context given to `Observe` and the one its calls share, each live or ended by `canceled` or `deadline` |
| `received` | the answers so far, as a status and a class of body |
| `err`, `observation` | what `Observe` returned |
| `reported`, `exit` | what the command returned, its exit code |

`Interrupt`, `OperationTimeout` and `CallTimeout` may end a context between
any two steps. `Take` is the handling of one answer: each adapter's reading of
a status, a body, a Connect code or a gRPC status, with the wrapping around
it; the supplementary calls of Cursor fail the whole only when rejected. Of a
body the model keeps the classes on which the code branches (`Bodies`).

**Collection** is `ObserveAll` with `assembleMixed`. Each provider has a
goroutine (`pc[p]`) that binds, consults the cache, waits for the lock, reviews
and calls, or goes to the provider beside the cache. The cache appears only as
the age of the evidence it may answer with (`stored`), whether another process
renewed it during the wait (`renewed`), and the nondeterministic choice
whether it backs off; a provider call ends in evidence, a failure, or the end
of the one context that all share. `Assemble` reads the clock once and makes
the `report`; `Exit` gives the code. The `OperationTimeout` of the store
begins after the deadline of the collection and is as long, so it is never the
first to end. No adapter returns evidence of outcome `unavailable`, so that
branch of `assembleMixed` has no case.

**Credentials** follows requests through the binding, the cache and the
reading of the credentials, one system call at a time, against programs that
own the login. A request is a record in `request`: `stage` (`idle`, `binding`,
`consult`, `credentials`, `asking`, `done`), the steps `todo`, and what it has
seen, opened and read. `BindingSteps` and `CredentialSteps` give the steps of
each reader: Codex and Claude inspect, open and read; Cursor, Devin and Grok
look once more at the end (`Final`); on macOS Claude chooses between file and
Keychain (`Choose`), twice, and Cursor reads its configuration before and after
the Keychain. `disk` is what others change: `Move` (also back), `Truncate`,
`Write`, `ChangeKeychain`. Assumptions: every write moves the modification
time; a program that rewrites a file truncates it first, and finishes before
another one moves it; the configuration of Cursor on macOS is read in one
step, which the steps of the same function on Linux justify; and of the lock
only this is kept, that one request refreshes a binding at a time. The age of
the evidence, a provider that fails, and what is refused at any time (links,
owners, expired or ambiguous logins) are left out.

**Evidence** has one operator per function of the package: `Valid`
(`Validate`), `DerivePace` with `PaceInputs` and `PaceReasons`, `ForRequest`,
`SelectValue`, `RenderJSON`, `RenderCompact`, `ParseJSON`. Percentages are
integers and times hours. The limits of Go's times are kept: the zero time,
which Codex takes for no reset, the largest `time.Duration`, at which Devin's
cycle stops and beyond which Cursor and Grok have none, and the last year
written with four digits, which bounds Codex's epochs and Grok's timestamps.
`PaceStatus` compares exactly where the code compares floating-point numbers,
and `PaceNumber` rounds to four decimals as the code does, but after it. The windows of an observation are a family: a
function on any set of places, a pair `<<part, place in the part>>` where parts
are put together (`Flatten`). The code looks at all windows or at the one that
was asked for, never at which comes first, so their order is left out, and
nothing about them needs an induction. The five provider modules have
`NormalizeCodex` to `NormalizeGrok` and the helpers they call, and the type of
the answers, `CodexResponse` to `GrokResponse`: a record of pointers (sets of at
most one element), except Grok's, which is a sequence of protocol buffer fields.

**Reporting** takes one answer through `Collect`, `Cached`, `ClockMoves`,
`Ask`, `AskAgain`: normalized, served fresh, cached or stale, and asked for by
a command (`Report` is `runReport`, `Value` the value command), then asked for
again at another hour. `Answers` and `Commands` are constants: any answers of
the response types (`ReportingAssumption`), any commands about the provider that
was asked, in one of the formats modelled (`CommandsAssumption`; TOON holds what
JSON does). A value command without its selectors or with another format than
`compact` is refused before anything is asked (`UsageError`).

## 3. Runs

| Run | Question | Instance |
| --- | --- | --- |
| `coalesce` | Do processes that race for a refresh share it, and does a forced one get something newer than it started with? | 3 processes, 3 launches, forced and plain requests, clock 0..3 |
| `paths` | What may be answered on each path, and what is remembered about failures? | 2 processes, 3 launches, all modes, with and without an expected account, `Put`, early and late `Retry-After` |
| `faults` | Do failing calls, kills, power losses, another version and a clock set back leave the store a register that loses nothing it acknowledged, and is a rejection answered as one whose record could not be written? | 2 processes, 3 launches |
| `liveness` | Does every request end and every lock get released? | 2 processes, kills |
| `observe` | What does one observation learn, record and exit with, whatever the answers and whenever a context ends? | each of 5 providers, 3 selectors, 3 credential sources, all answers to all calls |
| `collection` | What may a mixed report show, and does a run end, when evidence ages, providers fail or hang and the user interrupts? | 2 providers, all policies, deadline 1, clock 0..1, maximum age 0 |
| `credentials` | Whose evidence is a request answered with when logins change under it, and is a login ever read half written? | 7 sources, 2 requests, 2 files, 2 logins, 2 changes |
| `report` | Does what is printed say what the provider said, whatever is missing, and do two commands or two hours agree? | 458 answers of 5 providers, up to 81 commands each, 4 hours around the observation and its resets |
| `rejection`, `interrupt` | Documented guarantees that one adapter or one path does not keep; see section 6 | as `observe` |
| `misread_foreign`, `misread_refresh` | Documented guarantees that a momentary read failure breaks; see section 6 | 1 process |

What the properties say:

- `ViewIsCurrent`: from its locked read to its rename, a process holds what
  the snapshot holds. No lost update.
- `SingleFlight`, `NoNeedlessFetch`: one provider call at a time under the
  lock, and none that the record under the lock answers or forbids.
- `RefreshIsNewer`: `--refresh` never answers with the generation it found.
- `AnswerMatchesAccount`: all answers, on all paths, name the account asked
  for, and cached ones claim no verified login.
- `RevocationIsRecorded`: a process that was told of a rejection answers with
  the error, never with the evidence it read under the lock, whichever call of
  its write fails; and the snapshot is then revoked unless the write failed
  before its rename. It is checked with storage faults, kills and power losses.
- `RevocationIsSticky`, `RevokedIsNotServed`: only a later success clears a
  revocation, and evidence that was revoked before a process began is not its
  answer.
- `BackoffBounded`: a backoff is over within `MaxBackoff` of the attempt,
  whatever the provider sent, and is not over at once; unless the clock is set
  back, no more than `MaxBackoff` of it is ever left.
- `EvidenceNeverRegresses`, `ForeignIsKept`, `NeverPartial`,
  `AnsweredIsDurable`: what a write may not do, what a crash may not expose,
  and what an answer guarantees.
- `ImplementsRegister`: the refinement.
- `RequestsFinish`, `LockIsReleased`: liveness.

Of an observation (`observe`):

- `RejectionRevokes`, `VerdictHasCause`: a rejection that was received is
  recorded as one, and nothing else is: a timeout, an interrupt or a failing
  server never revokes evidence that other processes rely on.
- `EvidenceTellsItsGaps`, `ExitTellsOutcome`: evidence is complete only if
  every call was answered in full, and the exit code tells which it was.
- `WrongAccountLearnsNothing`: no evidence of another account, and no quota
  call where the adapter can tell before.
- `CancellationWins`, `CommandEnds`: the interrupt decides the exit code until
  something is printed, and one budget ends the command.

Of a mixed report (`collection`):

- `ReportIsCurrent`: what is shown meets the policy when it is shown, not only
  when the cache decided.
- `NoProviderCostsAnother`: a provider is cut off only by the deadline or the
  interrupt, never by what became of another.
- `ExitCountsEveryProvider`, `OnlyStaysLocal`, `InterruptReportsNothing`,
  `RunEnds`.

Of credentials (`credentials`):

- `AnswerIsCurrent`: the evidence a request is answered with is of a login
  that was at the path while the request ran, in spite of a fingerprint taken
  before and other requests that store under it. Its exception is described in
  section 6.
- `ReadIsWhole`: a login that was being rewritten is refused by the readers
  that look at the file again after reading it.
- `TypeOK` also says that file and Keychain evidence never meet in the cache:
  when the two decisions of Claude's adapter differ, the evidence is refused.

Of reports (`report`):

- `SuppliedIsShown`: every percentage that is shown was in the answer, and the
  other way round; used and remaining add up; unknown stays unknown.
- `GapsAreMarked`: Devin's and Grok's evidence is partial exactly when a window
  has a gap, and the exit code of every command says so. Codex, Claude and
  Cursor call evidence complete although a window may be unknown; the property
  claims nothing there.
- `ScalarMatchesReport`: the value command prints what the JSON report holds,
  and the exact selectors never leave two candidates: the names made up from
  lengths, groups, models and features are distinct or the answer is refused.
- `PaceIsStable`: asked for again, a pace is the same or its cycle is over.
- `TypeOK` says that no command fails at rendering what a normalization
  accepted: paces of any hour pass `Valid` after selection and from the cache,
  and a JSON report parses again.

Bounds. `MaxLaunches` limits the processes launched in all; a slot can be used
again, so three launches give a first refresh, a second one that meets its
record, and a third that sees what the two left. The interesting cases need no
more: a lost update takes two processes, a forced request that must tell two
writes apart takes three. `MaxClock` lets evidence expire and a backoff end
(`LocalBackoff` 1, `MaxBackoff` 2, hints 0 and 3, so that both the local delay
and the cap apply). Reported accounts are the expected one and none at all; in
`paths` a second account exists so that a mismatch is possible.
Processes are symmetric, and the symmetry is used only for safety.

The calls of `ProviderObserve` have no bounds to choose: each adapter makes at
most three. In `Collection` one tick is the deadline, and evidence of age 0 is
current and of age 1 is not; a record of time 1 read at time 0 is one from the
future. Two providers are enough for one to cost another something; each
property relates one provider to the report.

In `Credentials` two changes by others are one rewrite, or a file moved away and
put back; a longer history meets a request only through the file it finds at
each of its steps. Two requests are one that stores and one that hits. In
`MCReporting` each part of an answer takes its edge values (absent, negative,
zero, at and over each limit, on both sides of each threshold of the pace)
around a healthy answer, with the combinations inside one window; windows meet
only in their names and the outcome, which have cases of their own. The hours
are one before the observation, its own, the one of the nearer reset and the
one of the later.

Runs without deadlock checking are `report` and `credentials`, where a refused
answer and the last request done are the end.

Fairness. `FairSpec` of `CacheStore` asks for weak fairness of each process's own next step and
of nothing else: not of the faults, not of launches, not of the clock. The
code justifies it: each wait has a deadline (`LockWait` in `lock.go:35`,
`OperationTimeout` in `store.go`), which the model shows as `GiveUp` and as the
transient outcome of `Fetch`; everything else is local file access. No process
is promised the lock: `Acquire` may lose every race until `GiveUp` ends the
wait. In `ProviderObserve` and `Collection` it asks that the process works
and that time passes (`CallTimeout`, `Tick`), and nothing of the providers,
the user or other processes: `Receive`, `Answer` and `Refused` may never
happen.

## 4. Proofs

TLAPS checks the theorems below for all values of the constants that meet the
modules' assumptions, which TLC evaluates in each run: any number of processes
or requests, providers, files and logins, any clock bound, any requests and
delays, any answers and commands. Every invariant the runs check, and every
action property but those named at the end of this section, is among them.

| Theorem | Property | Needs |
| --- | --- | --- |
| *CacheStoreProofs* | | |
| `TypeCorrect` | `TypeOK` | any faults |
| `OneFetchAtATime` | `SingleFlight` | any faults |
| `LockedViewIsCurrent` | `ViewIsCurrent` | `"read" \notin Faults` |
| *CacheRegisterProofs* | | |
| `NeverCorrupt` | `NeverPartial` | any faults |
| `ForeignRecordIsKept` | `ForeignIsKept` | `"read" \notin Faults` |
| `EvidenceIsMonotonic` | `EvidenceNeverRegresses` | `"read" \notin Faults` |
| `RevocationStays` | `RevocationIsSticky` | `"read" \notin Faults` |
| `StoreIsARegister` | `ImplementsRegister` | `"read" \notin Faults` |
| *CacheAnswerProofs* | | |
| `NobodyIsLockedOut` | `BackoffBounded` | any faults |
| `AnswersNameTheAccount` | `AnswerMatchesAccount` | any faults |
| `ForcedRefreshIsNewer` | `RefreshIsNewer` | `"read" \notin Faults` |
| `RevokedEvidenceIsGone` | `RevokedIsNotServed` | `"read" \notin Faults` |
| `StoredAnswersAreDurable` | `AnsweredIsDurable` | `"read" \notin Faults` |
| `FetchesAreNeeded` | `NoNeedlessFetch` | `"read" \notin Faults` |
| `RejectionsAreRecorded` | `RevocationIsRecorded` | `"read" \notin Faults` |
| *ProviderObserveProofs* | | |
| `ObserveTypeCorrect` | `TypeOK` | |
| `RejectionAlwaysRevokes` | `RejectionRevokes` | |
| `VerdictsHaveCauses` | `VerdictHasCause` | |
| `EvidenceShowsGaps` | `EvidenceTellsItsGaps` | |
| `WrongAccountsLearnNothing` | `WrongAccountLearnsNothing` | |
| `ExitsTellOutcomes` | `ExitTellsOutcome` | |
| `CursorLeavesWithCaller` | the step of `CancellationWins`: once the caller is gone, Cursor returns no evidence | |
| *CollectionProofs* | | |
| `CollectionTypeCorrect` | `TypeOK` | |
| `ProvidersAreIndependent` | `NoProviderCostsAnother` | |
| `CacheOnlyStaysLocal` | `OnlyStaysLocal` | |
| `ReportIsCurrentAlways` | `ReportIsCurrent` | |
| `ExitCodeIsComplete` | `ExitCountsEveryProvider` | |
| `InterruptsAreSilent` | `InterruptReportsNothing` | |
| *CredentialsProofs* | | |
| `CredentialsTypeCorrect` | `TypeOK` | |
| `LoginsAreReadWhole` | `ReadIsWhole` | |
| `AnswersAreCurrent` | `AnswerIsCurrent` | |
| *ReportingProofs* | | |
| `TypeIsOK` | `TypeOK` | |
| `ScalarsMatchReports` | `ScalarMatchesReport` | |
| `AllGapsAreMarked` | `GapsAreMarked` | |
| `AllSuppliedIsShown` | `SuppliedIsShown` | |
| `PacesAreStable` | `PaceIsStable` | |
| `WithPaceIsValid` | validity is kept by `WithPace` | |
| `DocumentReadsBack` | `ParseJSON` after `RenderJSON` gives the document | |

The assumption on reads is needed: `misread_foreign` and `misread_refresh` are
counterexamples without it. `RejectionsAreRecorded` covers failing writes,
kills and power losses: it speaks of a process when it has its answer, so one
that was killed before is no exception to it, and the write that failed before
its rename is named in the property. What a later request is answered then is
promised by nothing: no trace of the rejection is left, and `store.go:231`
returns the error of the fetch all the same. The second half of
`BackoffBounded` has its condition in the property, too: when the clock is set
back by some time after the attempt, `backoff.go:22` suspends the binding for
that time longer.

None of the properties is inductive; what each needs beside itself:

**CacheStore.** The invariant of the first two modules is `WriteInv` with
`ViewIsCurrent`:

- `LockHeld`: whoever is past `Acquire` is the holder. This alone gives mutual
  exclusion, and makes a rename harmless to the others' `ViewIsCurrent`.
- `Provenance`: what a process carries to `KeepSuccess` is an observation,
  whether it was fetched or given to `Put`.
- `Drawn`: each generation on disk or in memory is below the next one, so a
  success always publishes a new one.
- `Synced`: a temporary file is synced before its rename, so the visible name
  is always settled and a power loss finds old or new data, never part of it.
- `Sound`: each record on disk, read under the lock or about to be written
  passes `ValidRecord`. It has to cover the reader as well: `FailureRecord`
  keeps fields of the record it builds on.
- `WritesAllowed`: the record being written may replace the one read under the
  lock (`Replaces`). With `ViewIsCurrent`, that is the one it does replace
  (`RenameReplaces`), from which the last four theorems of that module follow
  in a few lines each.

The properties of answers add how an answer is tied to the snapshot:

- `AllBounded`: the backoff of what is on disk and of what is about to be
  written, and that no attempt lies in the future unless the clock was set back
  (`ClockAdvances`); and `Accounted`: what a process stores is of the account its request
  names. `AnswerKinds` lists where an answer can come from.
- `Origin`: until its review a process remembers what it read at its launch.
  `Descends`: what is there now is the record of the launch or a later one, and
  the same one is still revoked if it was. A forced request that finds another
  generation than it remembers has thus found a later one.
- `Published`: between the rename and the sync of the directory the file holds
  what the process wrote, because nobody else can write; after the sync it
  outlives a power loss.
- `RejectionKept`: a rejection a process received is in the record it is about
  to write; with `Published` it is in the file from the rename on, and a record
  that is revoked is never a stale answer.

**ProviderObserve.** The module has no constants, so its runs are exhaustive; the
proof says why the properties hold. `IInv` relates what `Observe` returned to
all the answers it has had. `Progress`: the answers are those of the calls
before the one that waits. `Sieved`: each but the last one is `Accepted`, which
says what an answer must be for `Observe` to go on after it, and evidence
exists only if the last one is accepted too. `Outcome` and `RejectionRevokes`
add what an error says of the answers that led to it, `VerdictHasCause` that an
error which revokes the record or blames the credentials comes from an answer
that deserves it, and `ReportedOutcome` carries it over to what the command
returns. The tables of `ProviderErrors` are read by the lemmas of
`ProviderErrorsProofs` (the first row that holds decides), which `Collection`
uses too.

**Collection.** `CollectionInv` says of each result why it came about (`Sound`:
an ended context tells the clock or the interrupt, a stale answer was allowed,
a fresh cached one of a forced run was renewed meanwhile), and of the report
that it is `Entry` of each result at the one time it was evaluated.

**Credentials.** `CredentialsInv` says what one request knows (`Good`): whatever
the file it has bound or opened held, from the noted modification time on, was
at the path while the request ran (`Noted`, `Known`); and, for the readers that
look once more, what was read is the beginning of what the file still holds, or
its time has moved (`Prefix`). `Disk` is what makes that enough: a file at rest
is of one login, and each change takes at least one tick of the time. `Shared`
and `Recorded` carry it from the request that collects to any other of the same
binding (`Seeable`): a request that takes the binding later finds the file as
it was bound, and sees its login; one that took it before has been seeing the
path since. The exception in `AnswerIsCurrent`, a file moved away and put back,
is where this ends: the file read is not the one bound.

**Reporting.** The state is small: `Inv` says that the program holds what one
answer of the provider leads to (`Evidences`), and that the reply is the one to
the last command at the present hour. The rest are lemmas about the operators,
for every answer of the response types:

- Each `Normalize...` gives at most one observation, and it is `Evident`: well
  shaped, valid, without a pace (`CodexTells`, `ClaudeTells`, `CursorTells`,
  `DevinTells`, `GrokTells`). The same lemmas say that the windows tell the
  percentages of the answer (`Tells`) and, for Devin and Grok, that the outcome
  is partial exactly when a window has a gap (`Gap`). Both are shown of the
  single windows first (`QuotaWindow`, `RateWindows`, ...) and then of a family
  put together from parts: what it tells is the union of what its parts tell.
- `WithPaceIsValid`: a pace derived at any hour passes `ValidPace`. It is
  known exactly when no row of the table of reasons holds (`Known`), and
  `SameKnownPace` derives it once more from the same inputs.
- `Presentable` is what selection, `WithPace` and the cache keep: valid, and
  each pace is the one derived at its own time of calculation. Validity alone
  would not do: a window whose limits are put in another order by `ParseJSON`
  must get the same pace, which `DocumentReadsBack` needs. It does, because a
  valid window has one limit of a field (`FieldsOnce`), so that `PaceInputs` is
  a function of the set of its limits (`InputsOfFields`, `Reordered`).
- `ValueAnswer` and `ReportAnswer` say which row of the tables of errors
  decides, `SelectValueAnswer` that an exact selection leaves one candidate at
  most, since names are unique. `ScalarMatchesReport` compares the two.
- `KnownPaceStays`: a pace that was known at one hour is known with the same
  values at any hour between the observation and the reset, as `KnownPace` measures from the
  observation; `PaceValueStays` and `ReportStays` take it to the two commands.

A percentage is an integer here, so the proofs say nothing of the rounding of
floating-point numbers.

Only model-checked is what the prover does not handle: liveness
(`RequestsFinish`, `LockIsReleased`, `RunEnds`, `CommandEnds`, and of
`CancellationWins` that an interrupt leads to 130).

## 5. Plan

What could still be added:

1. The readers' refusals of a login (links, owners, modes, expiry, more than
   one candidate) in `Credentials`, as properties of the file that change with
   it, to show that a refusal never leaves a stale binding in use.
2. `Collection` over `CacheStore` instead of its summary of the cache, so that
   two `--all` runs share refreshes; it needs the store for more than one
   binding.

## 6. Where code and documentation differ

- `misread_foreign`. `readRecord` reports a snapshot that cannot be opened as
  *unavailable*, and `putLocked` and `handleFailure` refuse only *unknown*
  schemas. A refresh whose locked read fails for a moment overwrites a record
  of another schema, which `docs/features/quota-evidence.md:41` excludes.
- `misread_refresh`. A forced request whose first read fails keeps no
  generation, so it accepts under the lock the very generation that was there
  when it started; `docs/remainder/cache-and-pace.md:23` promises a newer one.
- `rejection`. The Claude adapter takes a 403 for a transient failure, the
  Cursor adapter for a permanent one, or for a gap if a supplement was asked;
  neither revokes the record, where `docs/features/quota-evidence.md:90` says
  that an observed 403 blocks stale fallback.
- `interrupt`. An interrupt that cuts off the body of an answer becomes a
  transient failure without the context's error. With `--cache off` the command
  then exits with 1; `docs/remainder/cli-contract.md:16` says 130.

One more difference is between a document and both the code and its test, and
has no run: for another account, `docs/features/quota-evidence.md:59` says exit
code 2 where the Devin adapter leads to 1, as `devin_test.go:98` expects.

Behaviour the models show that a reader of the documents may not expect, kept
out of the properties by an explicit exception or claimed by none:

- `docs/features/grok.md:70` and `docs/features/devin.md:44` bind cached
  evidence to the metadata of the credential file. A request can take the
  fingerprint of one file, find another one moved to its place when it reads
  the credentials, and store that one's evidence under the fingerprint of the
  first. When the first file is put back with its times, the next request is
  answered with evidence of the other login. The readers check that a file does
  not change while they read it, not that it is the one that was
  fingerprinted. It is the exception in `AnswerIsCurrent`; without it the run
  finds this trace.
- Codex's and Claude's readers do not look at the file after reading it, so a
  rewrite in place can give them a token of one login and the rest of another.
  Codex's answer is then refused if it names its account
  (`codex/normalize.go:19`); one that names none is taken, with a historical
  identity, for the account of the rest. `Ask` may do either.
- Devin's file is read line by line, so a prefix of it that holds the key but
  not yet the server address passes for a login of the default server when the
  writer pauses there.
- A supplement of Cursor whose decoding stops at a malformed value leaves the
  zero of that field (`Zero`), and the window shows it, in evidence marked
  partial; `docs/features/cursor.md:48` says that missing fields remain unknown.
  A time is then in the year 1, too far from the other end of the cycle for a
  `time.Duration`, and the window has no duration.
- Codex's answer with a weekly primary window and a secondary one without a
  length gives both the name `weekly`, and is refused as a duplicate.

## 7. Not modelled

The scanning of bytes (`grok/wire.go`, `grok/grpcweb.go`, JSON and TOML
syntax), the spelling of the reports and their order, the declaration of the
flags: functions of texts that the repository's tests cover by example, with no
state and no concurrency. Alternative spellings of a JSON field are one field.
Failure messages are left out of the evidence. What a login holds besides its
owner, and what a reader refuses at any time, is not looked at. Permissions and
ownership checks of cache files appear as reads and writes that fail. Directory
creation and the hash that names a binding's directory are left out:
`CacheStore` models one binding, and bindings share nothing but, in
`Credentials`, the file they are taken from. The benchmark driver and the
scripts are not the program.
