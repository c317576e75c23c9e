# A verification of the Jenkins watchdog

Jenkins Watchdog scans a Jenkins installation and the Kubernetes cluster it runs on, asks Claude
to triage and to investigate what it finds, keeps the findings in Valkey and shows them in a web
UI. This directory holds TLA+ models of the parts of it that are hard to test, their TLC
configurations, and theorems about them that TLAPS checks. Paths below are relative to
`src/src/jenkins_watchdog/` unless they start with `src/`.

Run a model with `tlc -config ScanLock_lock.cfg MCScanLock.tla`, a proof with
`tlapm ScanLockProofs.tla`.

## 1. The system

One Python process (FastAPI on asyncio) per replica, all replicas on one Valkey. Everything
concurrent is a coroutine: code runs undisturbed up to its next `await`. Between two awaits of one
coroutine, any other coroutine of the process, any other replica, the command line and Valkey's
clock may act. Valkey executes one command at a time and is the only state that outlives a process.

| Component | State | Operations |
|---|---|---|
| Scan lock and cancel flag (`state.py` 41-71) | `watchdog:lock`, `watchdog:scan:cancelled`, both with a TTL of 300 s | acquire (`SET NX EX`), refresh (`EXPIRE`), release (`DELETE`), request, test and clear a cancel |
| Scheduler (`scheduler.py`) | one task; times of the last scans in Valkey | start-up release of the lock, regular and deep scans, automatic Jira bugs, shutdown |
| UI scan (`api/router.py` 226-535) | globals `_active_scan`, `_scan_events`, `_current_investigation` | trigger, follow (SSE), stop, background task |
| Pipeline (`router.py`, `scheduler.py`, `cli.py`, `reasoning/gate.py`, `scan_options.py`) | the findings of one scan, the diff, the plan, the results | detect, dedupe, correlate, triage, diff, gate, sort, cut, investigate, store |
| Stored findings (`state.py`, `router.py`, `api/jira.py`) | `watchdog:findings:latest` and `watchdog:investigations:latest` (one JSON value each), `watchdog:dismissed` (a hash), `first_seen` and incident keys, history | store a result, dismiss, undismiss, link a Jira issue, re-investigate, reset |
| Engine and triage (`reasoning/engine.py`, `triage.py`) | none that lasts | prompt, run the agent, parse and repair the answer |
| Agent runtime (`reasoning/claude_agent.py`, `chat_stream.py`) | a semaphore over subprocesses, per-run tool budget and turn count | complete, run an agent with tools, stream a chat |
| Chat (`api/chat.py`, finding chat in `router.py`) | transcripts in Valkey | append, stream, save |
| Claude authentication and health (`reasoning/claude_auth.py`, `claude_health.py`) | cached probe, last error | classify failures, probe, report |
| Checks and registry (`checks/`) | registered checks | run all concurrently, each with a timeout; each turns one remote answer into findings |
| Clients and tools (`clients/`, `tools/`) | connections | remote reads |
| Web login (`auth.py`, `main.py`) | session cookie | login, callback, middleware |
| Command line (`cli.py`) | none | quick scan, full scan (without the lock) |
| Frontend (`src/frontend`) | React state, one SSE stream | trigger, follow, stop |
| Development registry (`src/scripts/dev_state.py`) | a JSON file of port offsets | allocate, free |

**How they interact.** A scan of the server takes the lock, runs the pipeline, stores the findings
and then the investigations, and releases the lock; the scheduler then may file Jira bugs, the UI
scan reports on an in-memory queue that the SSE followers read. Requests (dismiss, bug,
re-investigate, reset) and the command line write the same Valkey values without any lock. Stopping
a scan goes two ways at once: a flag in Valkey and `task.cancel()` on a module global.

**What is hard.** Keys that expire under a running scan; `DELETE` and `EXPIRE` that name no owner;
handlers that test a global, await, and use it; `finally` blocks with awaits in them, which a second
cancel or an error cuts short; whole values read, edited and written back around awaits; results
stored in two writes; a plan that depends on a diff which storing its findings changes; one queue
and one sentinel for several followers.

**What makes each correct.** The lock: one scan at a time, nobody deletes another's key, no lock or
flag lasts for ever. The UI scan: one task, the globals name it, its queue ends in exactly one last
event and one sentinel, a follower reaches the end. The store: links are real and are kept, one
automatic bug per appearance, a reset is a reset. The pipeline: nothing new and serious is stored
without being dealt with, the three copies of the plan agree, nothing surely answered is asked
again. The scheduler: both kinds of scan go on, neither too soon, and a stop is heeded. The registry
of checks: one check that hangs or raises costs only its own findings, and none outlives its scan.
What is reported: nothing found is lost on the way to the user, and a problem that grows is not
reported as a smaller one. The runtime: never more subprocesses than configured, budgets kept, idle
runs end, callers served in turn. What is built on it: triage fails open, an investigation rests on
a run that finished, a chat remembers what it told.

`PROJECT.json` lists every component, every hazard with its line, and the code lines that each
definition stands for.

## 2. The modules

Each component has a module; `MC<module>` extends it for TLC and `<module>Proofs` extends it with
theorems. `SequenceFacts` has the lemmas on sequences (least elements, removal, concatenation,
flattening) that more than one of those needs. Mutated copies of a few operators (marked `Mutant`) stand beside the originals: each
property has one that breaks it.

### ScanLock, ScanMutex — the lock and those who take it

State: the time left on the two keys (`lockTtl`, `cancelTtl`, 0 for absent), the program counter of
each possible scan (a UI scan and a scheduled scan per replica), the investigations it has left, the
ticks since it last touched its lock (`quiet`), the stop handler and the scheduler task of each
replica. Two variables are histories: `holder`, whose `SET NX` made the key that is there now, and
`exposed`, the running scans that may have lost their key: they let a whole `LOCK_TTL` pass without a
refresh, ran while a scheduler started up, sent their `DELETE` twice, or ran while an exposed scan
sent its own. The lock is a lease without an owner, and the model assumes no discipline of those who
take it: all of this happens in it.
An action is one Valkey command, or one phase without any. The UI scan looks at the flag and then
refreshes, the scheduled scan refreshes and then looks; the UI scan unwinds when cancelled, the
scheduled scan leaves the loop and stores. `Fail` is an exception at the current await: inside the
`try` it leads to the release, before it or in the `finally` it skips the rest. `Cancel` is
`task.cancel()`. `Crash` keeps the keys and restarts the process. `ReleaseUnanswered` is a `DELETE`
whose answer is lost and which the client sends again.
`ScanMutex` is the promise: the set of running scans goes from none to one and back. `ScanLock`
implements it with `running <- Running \ exposed`: exclusion holds among the scans that are not
exposed, and to become exposed is to leave the mutex.

### ScanStream — the UI scan inside one process

State: the lock as present or not, the two globals, the tasks and their queues (each queue as the
log of what was put and a count of what was taken), and what each client is doing. An action is the
code between two awaits. `TriggerCreate` reads `_scan_events` again, as line 248 does; `End` puts
the sentinel and resets the globals; `CancelTask` and `Fault` cut a `finally` block short; `Take`
gives one item to one follower. Three history variables record who ever followed a queue, which
queues lost their end to a cut `finally` block, and whether a scan ended while a request which had
found none active was still waiting for its lock.

### FindingsStore — findings, dismissals, Jira links

State: the stored value (a status per fingerprint and the set of the linked), the dismissed set, the
scan in progress, the requests in progress. Every read and every write back of the value are two
actions. `JiraFails` and `BugFails` are the failure that `create_bug` keeps to itself: the issue is
there, the link is not. `bugs` counts automatic issues since a finding last appeared, `issues` remembers what has a
Jira issue at all, `fresh` that a reset came after the last diff, and `clobbered` that some write
replaced a value it was not made from: the lost update that the code permits.

### ScanPipeline — from detection to the stored investigations

State: the stored fingerprints and the confidence of each stored investigation, the scan of each
runner, and the re-investigate request. A mode says whose copy of the sequence runs and how (`ui`,
`uiDeep`, `uiAll`, `sched`, `schedDeep`, `cli`, `cliDeep`). `Candidates` is what the copy proposes,
`ShouldInvestigate` is the gate, `Cuts` is the stable sort by score and the slice (ties fall as
detection ordered them, so any choice among equals). `Readings` is the command line's habit of
taking a Valkey that fails for an empty one. `owed` remembers new, serious, stored findings and
`excused` the reasons for which one may have no investigation; `settled` remembers the sure answers on
record when a scan planned, which that scan had no business with.

### Observations, AgentChecks, JenkinsChecks, ClusterChecks, Detection — what a scan reports

`Observations` lists what the checks read, field by field, each with a scale of values on both sides
of every threshold the code compares it with. The three check modules give each of the 25 registered
checks as an operator from such a reading to a sequence of findings; a finding keeps what is
compared later (severity, category, resource, the symptom in parts, the context fields that
correlation reads) and `about`, the resources a reader learns of. `Detection` puts them together as
`run_all_checks` and the scan do: `RawFindings`, `GroupAgentFindings`, the filter of the dismissed,
`Deduplicate`, `Correlate`. All of this is a function of the state, so it is an operator (`Report`),
and the actions change what it reads: an observation, a check that stops answering, the kind of the
scan, a dismissal of something reported. Two assumptions name what the answers of the APIs are like:
no list has anything twice, and each kind of subject has names of its own.

### AgentPool, AgentRuntime, Reasoning, ChatStream, Agents — the agent and its callers

`AgentRuntime` is `claude_agent.py`: the semaphore with its queue of waiters, a session per call with
its messages, its tool calls and the budget on what they return, the idle timeout, the turn limit
with the second turn that asks for a summary, and every way a call ends, cancellation at each await
included. A session opens, is asked, answers, closes and leaves; the idle timeout is over the answers
of a turn only, as in lines 412 and 466. A waiter that the semaphore wakes is in the opening place,
where a cancel must give the permit back. A call belongs to a task, and the tasks are of two kinds: a scan (`Reasoning`: triage, then
run and extraction per finding) and a request (`ChatStream`: a chat, or a correction, on one
transcript, with a client that may go away and a save that may fail). Requests on one transcript
overlap as they like: `overtaken` remembers the exchanges that the store of a request which had
loaded before them replaced, `unsaved` those whose own store failed or was never reached. `Agents` composes the three; a step of a caller and the
step of the runtime it makes are one action. `AgentPool` is what the runtime promises its callers,
whoever they are: at most `Cap` are served, in the order they asked, and everyone who is served is
through one day. `Agents` implements it with `queue <- waiters, served <- Open`.

### CheckRegistry, Scheduler — the loop and its detection

`CheckRegistry` is `run_all_checks` with one task per check: it answers, raises, is late, ends with a
CancelledError of its own, or is cancelled and unwinds, and the loop that waits for all of them is
left only when none runs. A check reads in a thread (`reading`); when its await is dropped, by the
read's timeout, the check's or a cancel, the thread goes on (`stray`) and keeps one of the `Workers`
of the executor until the read ends, if it does. A check is at one read at a time, or waits for all it
gathered as for one. A check that ends cancelled makes the detection raise CancelledError, which the
loop takes for its own stop.
`Scheduler` is `_scheduler_loop` around it, with the scan reduced to its lock, its detection and its
outcome. Time is counted in polls. `since` is the difference of the monotonic clock to the loop's
`_last_regular_scan` and `_last_deep_scan`, which start at 0 and at the start-up time respectively
(lines 33, 34); `ago` remembers when a scan that counts as one really succeeded, in this process or an
earlier one, and is what the interval is measured against; `unseen` that this process's loop has not
counted that success. `Prepare` and `Finally` may leave the lock behind, `Finally` may
replace an outcome by its own error, a cancellation included; `Stop` strikes at any await.

## 3. The runs

| Run | Expect | What it asks |
|---|---|---|
| `lock` | pass | `OnlyExposedOverlap`, `LockInv`, `OwnKeyOnly`, `ImplementsMutex`, `LockFreed`, `CancelDrains` with a UI scan and a scheduler |
| `lock_startup` | violation | `MutualExclusion` when a scheduler starts while a UI scan runs |
| `lock_orphan` | violation | `NoOrphanLock` with stop pressed twice |
| `stream` | pass | `OneScan`, `ActiveHasQueue`, `QueueWellFormed`, `SoleFollowerEnds` |
| `stream_shared` | violation | `EveryFollowerEnds` with two followers |
| `store` | pass | `LinkHasIssue`, `OneBug`, `LinkKept` |
| `store_reset` | violation | `ResetMeansNew` with a reset during a scan |
| `pipeline` | pass | `NothingForgotten`, `PlansAgree`, `SureAnswersStand` |
| `pipeline_gate` | violation | `PatternsAlways`: patterns are investigated if the budget has room |
| `detect` | pass | `NothingUnsaid`, `LossesAreLocal`, `OneFindingPerResource`, `DismissedStaysAway`, `DeepIsNotQuieter`, `WorseIsNotQuieter` |
| `agents` | pass | `PermitsConserved`, `BudgetBound`, `TriageFailsOpen`, `InvestigationIsFounded`, `SessionRemembers`, `ServedInTurn` (the refinement, with its fairness), `ClientIsTold` |
| `schedule` | pass | `NoStrayChecks`, `NoScanTooSoon`, `RegularsGoOn`, `DeepsGoOn`, `StopIsHeeded`, `DetectionEnds` |

`stream`, `store`, `pipeline` and `agents` also check `TypeOK`; that of `ScanLock` and of `Scheduler`
is proved (`TypeCorrect`) instead.

**What the passing runs show.**
- `lock`: two scans run at once only if one of them is exposed. No failure, crash, stop or cancellation
  at any await lets a second scan in otherwise, and a scan that is not exposed never extends or
  deletes the lock of another. The lock does run out under a scan: it is refreshed between
  investigations only, so a detection, a triage or one investigation of five minutes exposes its scan.
  The properties bound when that happens; they do not say that it cannot.
- `pipeline`: `NothingForgotten` exempts by name (`excused`) what the code loses: a cut by the budget,
  a run that failed, a death between the two stores, a lost merge. It shows that nothing else loses
  an answer. `SureAnswersStand` follows an answer through the whole scan: on record when the scan
  planned and not that scan's business, it is on record when the scan is done, although the results
  are stored as one value read earlier; a stale copy is exempt.
- `store`: `LinkKept` and `OneBug` hold until the first write that replaces a value it was not made
  from (`clobbered`); after it they do not.
- `stream`: `ActiveHasQueue` and `SoleFollowerEnds` leave out the request that a whole scan outpaced.
- `detect`: every finding that was made and not dismissed is said by the report: a finding at least
  as severe names its subject, through grouping, dedupe, suppression and correlation. A check that
  is down takes only its own findings. A deep scan says all a regular scan says, and a measure that
  gets worse never makes the report quieter, with one exception, named in the property: a monitor of
  an agent that reads zero bytes free is taken for one that does not read
  (`checks/agent_connectivity.py:59`), so a disk that is really full goes unsaid.
- `agents`: no way to end a call loses a permit or hands out one too many, calls are served
  in turn although each investigation takes the semaphore twice, and clients that stay are told how
  their turn ended. `BudgetBound` counts what the recorder counts: the fixed notices in place of
  withheld results come on top. `TriageFailsOpen` speaks of the triages that come back; one that
  raises on an item which is no object is a step of the model. `SessionRemembers` lets requests overlap
  and exempts what was `overtaken` or `unsaved`: it shows that an exchange is lost in no other way, and
  that nothing else gets into a session.
- `schedule`: `RegularsGoOn` assumes that deep scans which are tried for ever sometimes succeed. If
  they never do, the deep scan stays due, goes first at every poll, and no regular scan runs again.
  `DeepsGoOn` leaves out the process that is restarted for ever, since each start begins the deep
  interval anew, and both leave out the loop that a check's own CancelledError ended. `NoScanTooSoon`
  measures from the last success in any process; exempt is a success the loop of this process never
  counted (`unseen`): a regular scan follows a restart at once, whatever the process before did a
  minute ago, and a scan whose release failed is not counted. `StopIsHeeded` leaves out the stop whose
  release of the lock failed, whose error takes the place of the cancellation and lets the loop go on.
  `NoStrayChecks` is about tasks and awaited reads; threads do outlive a scan, and with enough of them
  no later check can read: `DetectionEnds` holds all the same, with nothing found.

**What the violations say.**
- `lock_startup`: `scheduler.py:28` deletes whatever lock is there ten seconds after boot, so a UI
  scan of the first ten seconds, or a scan of another replica, goes on without one and the
  scheduler's first scan runs beside it.
- `lock_orphan`: a second stop arrives while the task awaits `release_lock()`; the `DELETE` is never
  sent and all scans are refused until the TTL runs out.
- `stream_shared`: followers share one queue. Each event reaches one of them, and so does the
  sentinel; the other one waits on heartbeats for ever.
- `store_reset`: "Next scan will treat all findings as new" does not hold if a scan is in progress:
  it stores its findings after the reset.
- `pipeline_gate`: the "always investigate pipeline patterns" list goes through the gate, which
  lets an ongoing pattern pass only when it is critical. `PlansAgree` says the same from the other
  side: the list never changes a plan, so the scheduler, which lacks it, loses nothing.

**Bounds, and why they are enough.**
- `lock`: one replica with a scheduler, so that the two kinds of scan meet, with faults, `LOCK_TTL = 3`
  ticks and two investigations, so that a refresh separates two silences. To the lock a UI scan of
  another replica is what the scheduled scan of the same one is, and the theorems hold for any
  replicas, schedulers and times to live.
- `stream`: two scans, since the races are between the end of one and the start of the next; two
  clients, since a queue is shared from two on; one progress event besides the last, since events
  in between are alike.
- `store`: two fingerprints, so that an edit of one can restore or drop the other; one request
  beside the scan; `MaxBugs = 2`, one more than the property allows. Fingerprints are symmetric in
  the module, so symmetry is sound for its invariants and its action property. `store_reset` is
  a safety property too.
- `pipeline`: a pattern and an ordinary finding of different weight, with room for one in a
  regular scan and two in a deep one, so that a cut must choose. One runner, with the
  re-investigate request as the concurrent writer of the investigations. The theorems hold for any number
  of runners, kinds (`shared`, `build` and `offline` too) and budgets. `cliDeep` differs from
  `uiDeep` in what it reads when Valkey fails and is left to the proofs.

- `detect`: two departures from a healthy installation at a time, within one family of subjects
  (two pods of a pool, two agents of a pool, two jobs, a build with its node and events, ...), since
  grouping, dedupe and correlation bring pairs together; one check down or one dismissal. Every
  value of every scale occurs.
- `agents`: one permit, so that everybody waits for everybody; one scan of two findings, one chat,
  one correction, so that all three kinds of caller meet; one tool call in a turn and another in its
  summary turn, a budget of 3, a floor of 2 and results of length 1, 2 or 4, so that the budget is met,
  crossed, and left with exactly the floor and with less; two exchanges.
- `schedule`: two checks, so that one answers while the other hangs, raises or ends cancelled; two
  threads, so that the executor is free, shared by reads and strays, or full of strays; regular
  scans every two polls and deep ones every five, so that both are due together and apart; two
  polls of backoff.

**Fairness.** `ScanLock` assumes that Valkey's clock runs and that a scan which can take its next
step takes it: every await in it has a timeout of its own (the Valkey client, the checks, the
agent's idle timeout) and asyncio schedules what is ready. Nothing is assumed of starting, stopping,
failing or crashing. `ScanStream` assumes the same of tasks and handlers, and that a connected
client's generator is run when its queue has something. Under these `LockFreed`, `CancelDrains` and
`SoleFollowerEnds` are checked. `Agents` assumes that the event loop resumes what is ready, that the
semaphore wakes its first waiter and that `asyncio.wait_for` fires when the idle timeout is over, and
of the CLI that the opening of a session and its closing come to an end: the code has no timeout there
(`claude_agent.py:411`, `482`), so this is an assumption about the SDK. Of what the CLI answers, of
the tools and of the clients it assumes nothing. `Scheduler` assumes that the loop's own steps
are taken, that time passes, that a lock held elsewhere goes away (a UI scan ends, a left-over lock
expires: `LockFreed` of `ScanLock`), and that the timeout of a check fires and a cancelled one
unwinds; of the checks' answers, the threads of their reads, of stops and of restarts it assumes
nothing. `FindingsStore`,
`ScanPipeline` and `Detection` assume no fairness.

## 4. The proofs

All theorems are of the form `Spec => ...` for every value of the constants that the named
`ASSUME` of the module admits.

- **ScanLockProofs.** `TypeCorrect` strengthens `TypeOK` by `Counted` (the loop body is entered only
  with something left to do), without which `left` could fall below zero. `LockAccounted`: a scan
  whose key is still there has used no more of its TTL than it was quiet for. From there `Exclusion`,
  `LockInvariant`, `OwnKey` and `Refinement` follow for any constants, with nothing assumed of how
  long scans are silent or when schedulers start. The inductive invariant is `KeyIsOwn`: a running
  scan that is not exposed is the holder. Since there is one holder there is one such scan; since the
  quiet time of a scan that is not exposed is below the TTL the key outlasts it; since the key is
  there `SET NX` fails for all others; and every `DELETE` that could hit another's key exposes all
  that run. `Refinement` shows that becoming exposed is a step of the mutex.
- **FindingsStoreProofs.** `LinksAreReal` holds with lost updates and all: the invariant speaks of
  every copy in flight as well as of the store, and adds that the bug being written has its issue.
  `OneBugPerSpell` needs more: while nothing was clobbered, the new findings still to be filed by
  the scan have no bug yet, and what was filed stays stored or has its count reset when it goes.
  `LinksLast` follows from typing, action by action.
- **ScanPipelineProofs.** `Accounted` rests on `Honest`: in a running scan each new serious finding
  is still to do, has a result, or is on record as missed, because every such finding passes every
  plan (`NewsIsGated`). `Agreement` rests on the severities that the pattern check gives
  (`SamePlan`): a shared signature is always critical, which makes the special clause of
  `gate.py:45` dead. `AnswersStand`: a plan leaves the settled alone (`SettledIsLeft`), so a running
  scan has no result for any of them (`Honest` again), and the merge of its results keeps them.

- **ScanStreamProofs.** Three invariants, each needed by the next. `HeldOnce` speaks of the requests
  that hold the lock and have no task yet as well as of the tasks that have not released it; it is
  what `OneScan` lacks to be inductive. With it goes the count of the tasks (`Created`), because
  `TriggerCreate` finds its task's number by counting. `Followed` adds to `ActiveHasQueue` that while
  a task clears up no request is past its test, unless one was outpaced: this is where the race of
  line 248 sits, and why the theorem excludes it. `QueueInv` says for each place of a task what its
  queue holds by then, and that no queue has two writers, which again turns on the request that has
  made a queue and not yet its task.
- **AgentsProofs.** A composed step is a step of the runtime or leaves it alone, so the invariant of
  the runtime (`RuntimeInv`: its types with `PermitsConserved` and `BudgetBound`, which need nothing
  but each other) is shown once for its own actions.
  `PoolRefined` is the safety part of `ServedInTurn`: every composed step is a step of `AgentPool`
  or a stutter. It rests on `QueueInv` (the queue holds exactly the calls that wait, each once, so
  a waiter that is cancelled leaves the queue as a caller leaves the pool). `FoundedInv` needs the
  state of the scan between its run and its extraction: only a run that finished gets there.
  `TriageInv` is about the pure `Classify`, for answers of any length and with any groups. For the
  transcripts there are two invariants. `SoundInv` (of what a request has loaded as well as of what
  is stored): whatever overlaps, a session holds told exchanges only, once each and in order.
  `KeptInv`: a told exchange that was neither overtaken nor left unsaved is about to be stored, or is
  in the session and, for every request in progress, in the copy it loaded or among what was stored
  since. Together they give `SessionAlwaysRemembers` for any requests and any overlaps.
- **DetectionProofs.** The state is small and the report a long function of it. The inductive
  invariant is only that every observation is on its scale (`AlwaysOnScale`); the work is in lemmas
  about the operators. `FlattenSeq` and the rest are recursive functions of the community modules,
  so the facts about them in `SequenceFacts` are shown by the least counterexample
  (`LeastNatural`), and everything above them by what they say: a sequence is known by its elements
  (`ToSet`) and by what holds of any two of them in order (`Apart`). Each step of the report has a lemma that
  says which finding speaks for one that went in (`Covers`: at least as severe, names as much) and
  that no two that come out share a key or a resource: `GroupAgentFindingsProperties`,
  `UndismissedProperties`, `DeduplicateProperties`, `CorrelateProperties`. From these and one lemma
  per check on the shape of its findings (`Raw`) follow `NothingUnsaidHolds`,
  `OneFindingPerResourceHolds` and `DismissedStaysAwayHolds`, which assume nothing. For the last it
  matters that regrouping after the filter changes no finding (`RegroupProperties`): else a merge
  could make a dismissed fingerprint out of others. `LossesAreLocalHolds`,
  `DeepIsNotQuieterHolds` and `WorseIsNotQuieterHolds` go from what each check answered, before the
  first grouping, to the report, and assume `PoolsApart`: no pod or agent bears the name of a pool it is not of.
  `extract_agent_prefix` (`checks/agent_utils.py:51`) does not enforce it, since what it leaves of a
  name may be a name it would shorten again. Without it the theorem is false: with `pod2` of
  a pool `pool`, and `pod1` and `pod3` of a pool that is called `pod2` too, the finding of the pool
  falls to that of the pod in the dedupe, and TLC finds the state. The last two compare two
  reports: if the answer of each check outdoes that of the same check in the other (`Outdoes`: of
  each resource something at least as severe), so does the report (`ReportLouder`).
  `DeepIsNotQuieterHolds` compares the two checks that read the options: a longer history has the
  shorter as its beginning, so the streak, the failing jobs and the jobs that fail alike only grow,
  and where a regular scan says "warning" or "critical" of a job a deep one has one at least as
  severe of that job. `WorseIsNotQuieterHolds` has a lemma for each of the 25 checks (`AgentPodLouder` to
  `PVCLouder`): a reading no better in any measure (`Worse`) is answered with no less. Hard are
  those that count builds: one more failure pushes an older build out of the ten that `flaky_tests`
  looks at and starts the streak earlier (`FlakyStays`, `StreakOfFailures`). `BetterIsBetter`
  closes it: the measures' scales only rise or only fall (`ScalesRise`), and the two readings that
  an agent's monitor gives for none at all are left out, as in the property.
- **SchedulerProofs.** `RegistryInv` adds to `NoStrayChecks` the types and that a read is awaited by a
  task that is live, for any checks and threads. `TimesInv` is `unseen[k] \/ since[k] <= ago[k]`: the
  loop never believes a success older than it is, but for one it has not counted, from which
  `NeverTooSoon` follows for any two intervals. `TaskInv` completes `TypeCorrect`.

Every invariant and every action property of the passing runs is stated by a theorem.
Only model-checked: liveness (`LockFreed`, `CancelDrains`, `SoleFollowerEnds`, `ClientIsTold`,
`RegularsGoOn`, `DeepsGoOn`, `StopIsHeeded`, `DetectionEnds`, and the fairness in `ServedInTurn`, all
of it but `PoolRefined`), which rests on fairness and `ENABLED` and so is out of reach of the
installed provers; and the violations, which are single counterexamples.

## 5. What is left out

- Times to live other than the lock's and the flag's (findings, `first_seen`, dismissals and
  investigations expire after days), history, the last-run record and the incident keys.
- The cancel of a single investigation, and `_scan_cancel_event`, which is assigned without
  `global` in `trigger_scan` and therefore never reaches the checks; the models read the code so.
- Dedupe and correlation in `ScanPipeline`: a finding of it is what `Detection` reports.
- A scan that is both deep and `investigate_all` (its plan is `uiAll` with the larger budget).
- Time finer than a poll of the scheduler (30 seconds).
- In `Detection`: names of resources and error signatures other than as members of small sets; a
  second shared failure signature at a time; animated colours of jobs that are being rebuilt; what
  log patterns match which class. In `AgentRuntime`: the content of messages and tool results, the
  stop reasons the CLI really sends. In `ChatStream`: the trim of a transcript to its last messages,
  the time to live of a session. In `Scheduler`: the lock that expires under the scheduler's own scan
  (`ScanLock` has it), and a CancelledError of the work's own after the detection.
- Claude authentication and health (a classification of error texts with a cached probe), the web
  login (one signed cookie per request) and the development scripts: no state that two steps could
  disagree about.
- Wording: prompts, messages, logs, formatting of tool output. Remote reads of checks, tools and
  clients, deployment files and rendering.

## 6. Seen while modelling, without a property

Behaviour of the code that the models contain or that reading it showed, which no document, comment
or test contradicts, or which a model adds nothing to:

- `api/router.py:235` assigns `_scan_cancel_event` without `global`: the module variable stays None
  and the checks are never told of a cancel.
- `api/router.py:268` tests `_active_scan` before an await and cancels it after: a late stop may hit
  the next scan. The steps are in `ScanStream`.
- `api/router.py:607` stores the status "dismissed", which `FindingResponse.status`
  (`api/models.py:52`) rejects: the list fails until the next scan rewrites the findings.
- `api/router.py:637`: what triage dismissed is not stored, so undismiss answers not_found and the
  hash keeps it.
- `state.py:119`, `state.py:215`: `first_seen` expires while its finding is ongoing; `EXPIRE` on the
  hash of the dismissed renews all of them.
- `api/router.py:139`: suppression goes by pool, so the crash loop of one pod goes under the
  out-of-memory of another.
- `api/router.py:209`: of what shares a Kubernetes node, only events carry the `source.host` that
  names one and only `k8s_node` findings are of one, so no group of a node has a part of Jenkins in
  it and the merge that line guards is never made (`NodesNameNoJenkins` in `DetectionProofs`).
- `checks/build_duration.py:64`: the tenth of the ratio stays in the fingerprint, so a slow build
  gets a new one as it runs on. `checks/jenkins_failed_builds.py:30`: so does the second failed build.
- `checks/jenkins_pipeline_patterns.py:162`: a job's failed builds hide its streaks and regressions
  from the report, since dedupe keeps one finding per resource; line 250: all shared failures have
  one resource, so of two at a time one stays.
- `checks/executor_utilization.py:53`: more busy executors than there are is no longer critical.
- `checks/agent_resources.py:42`: without metrics a missing limit is not reported either.
- `checks/registry.py:95`: from the first check that is done until the last, the loop does not sleep.
- `scheduler.py:33`, `scheduler.py:34`: on a host that has just booted the first regular scan waits
  out its interval; the deep interval begins anew with each process.
- `scheduler.py:231`: a stop in the `finally` block skips the release of the lock.
- `reasoning/claude_agent.py:271`: the idle timer counts messages only, so a slow tool ends a healthy
  run; line 505: when the result is empty the narration between tools is the answer; line 520: a
  limit told by the subtype only, beside the stop reason "tool_use", is not noticed; line 168: tool
  failures are known by their first words, and not all begin so.
- `reasoning/claude_agent.py:506`: the comment above (501-503) says that the planning an agent narrates
  never reaches an operator; if the summary turn has no text, the narration of the first is the
  answer. `Final` has the step.
- `reasoning/gate.py:31`: a finding with a sure answer that was away for a scan and is back is new, and
  is asked again although the answer is on record.
- `api/router.py:881`: a chat and a correction of one finding overlap, and the second to store drops the
  exchange that the client of the first was told is done. `overtaken` in `ChatStream` counts these.
- `checks/registry.py:98`, `scheduler.py:55`: a check that ends with a CancelledError of its own ends the
  scheduler loop until the next process.
- `clients/k8s.py:72`: reads that hang keep their threads; when they have filled the executor, checks
  wait for a thread until their timeout, answer nothing, and what they reported before looks resolved.
- `reasoning/triage.py:144`: an item that is no object raises outside the `try`, and the scan fails;
  line 181: a group whose primary is dismissed leaves its related findings uninvestigated.
- `reasoning/chat_stream.py:90`: a client that leaves does not end the run of its turn.

## 7. What could follow

Times to live of findings, dismissals and sessions; incidents and history; the cancel of a single
investigation; the command line's quick scan; a version on the transcript, or a token in the lock,
which the code could adopt and with which no exchange would be overtaken and `MutualExclusion` would hold.
