# Formal models of chatgpt-web-agent

TLA+ modules, TLC runs and TLAPS proofs for the program under `src/`. Paths
below are relative to that directory (`src/workflows.ts` is
`src/src/workflows.ts` of the workspace).

`tlc -config X.cfg M.tla` checks one run, `tlapm M.tla` one proof module.
`PROJECT.json` lists components, runs, mutants, hazards, findings and theorems,
and maps every definition that models code to the lines it models.

## 1. Inventory

The program lets a ChatGPT conversation use a local machine (an MCP server over
HTTP or stdio) and lets events wake conversations up again. It has no user
accounts of its own: one local owner, several processes (HTTP server, stdio
servers, CLIs, a separate exec runtime), and one SQLite state database that they
share.

| Component | State | Operations | Talks to | What is hard | What makes it correct |
|---|---|---|---|---|---|
| **Workflow coordinator** `src/workflows.ts` | buckets `workflows`, `runs`, `process_waits`, `requests`, `visits` | register, bind, setEnabled, dispatch, external, claim, heartbeat, finish, waitProcess, recordProcessObservation, resumeProcessWait, cancelProcessWait, reconcile, synchronizeDeliveryOutcomes | event outbox (same transaction) | every operation may be called by any process at any time; the outcome of a delivery can be unknown | one holder per workspace; no orphaned run or wait; a rejected run was never received; a process completion is reported, and once |
| **Event outbox** `src/events.ts` (flush, enqueueContinue, emitContinue) | bucket `outbox` | enqueue, claim, post, settle, cancel | callback network | several flushers, stale snapshots, claims that expire, senders that die or hang | no unknown outcome uncounted; a row settles once; every row settles |
| **Event subscriptions** `src/events.ts` (subscribe, unsubscribe) | buckets `subscriptions`, `subscription-cancel-epochs` | subscribe with a verification POST in the middle, unsubscribe, expiry, disabling on 410 | callback network | state read before an await and used after it; secret rotation | a cancelled subscription is not stored by a verification still under way; a rotated secret keeps signing for five minutes |
| **State database** `src/state-db.ts` | table `objects` | get, put, remove, all, atomic | all of the above | BEGIN IMMEDIATE across processes | transactions are atomic and serial |
| **Process wait driver** `src/process-waits.ts` | none (rows of `process_waits`) | tick: inspect, record, resume, postpone | coordinator, backend | an await between its snapshot and its writes; 16 waits per tick | no wait starves; a stale snapshot writes nothing wrong |
| **HTTP server** `src/http-server.ts`, `src/http-cli.ts`, `src/runtime.ts` | timers, `closing`, the socket file | request handling, two timers every 2 s, close | everything | shutdown while a tick is running; several processes around one path | close waits for ticks, nothing starts after it; a lone service keeps its path |
| **Callback network** `src/event-network.ts` | none | resolve, pin, connect, POST with timeouts | webhooks | fallback over several addresses without sending twice | one exchange at most reaches the body |
| **Local chat continuation** `src/local-chat-continuation.ts`, adapter, CLI | tables `local_deliveries`, `local_targets` | enqueue, dispatch, recover, settle, cancelPending | Desktop bridge, through the adapter | crash with a lock held; recovery racing the sender; old views of the Chat | one turn per event, one turn at a time in a Chat; nothing reported as submitted that is not |
| **Exec runtime** `src/exec-runtime-server.ts`, client, protocol | memo of results, connections, the socket file | executeOnce, prune, answer, give up, listen, removeStaleSocket, close | rescue exec, OpenClaw backend | retry after a caller gave up, memo at its limit, several instances around one path | an id runs once at a time; a caller gets its own result; nobody removes a live runtime's socket |
| **Rescue exec** `src/backend/rescue-exec.ts` | one running child | run, timeout, abort, kill of the group, close | child processes | exit, close, timeout and abort in any order; children that keep the pipes | one command at a time; the slot is freed; no timer kills a later command |
| **Composite backend** `src/backend/composite.ts` | route table | listTools, callTool | backends | concurrent refreshes across awaits | a call reaches a backend that has the tool; a listed tool can be called |
| **Stdio transport** `src/stdio-server-transport.ts` | pending sends, closed flag | send, drain, EPIPE, close | parent process | send racing close or a broken pipe | every send settles once |
| **Full trace** `src/full-trace.ts` | day files, raw and compressed | record, rotate, compress, retain | disk | crash between compressing and removing; two processes; midnight | no line lost before its file is retired |
| **Request ledger and audit** `src/request-ledger.ts`, `src/event-request-audit.ts` | day files, counters | record, retain | disk | retention by modification time; several processes; midnight | today's records stay, the total size is bounded |
| **MCP server and gateway client** `src/server.ts`, `src/gateway.ts` | one promise per request | connect, request, abort, time out, stop | gateway | five events settle one promise | settles once, client stopped |
| **Backends** OpenClaw, Feishu, Google Drive, skills | caches of tokens and skills | forwarding calls | external services | token refresh | outside the core |
| **Agent access tunnel** `infra/agent-access-tunnel` | SQLite: clients, pairings; the bridge's credential file and access token | begin, approve, poll, revoke, exchange, forward | home bridge | reads that no transaction protects; a token that dies on the way | a pairing grants one client, a revoked one does nothing, a message runs once |
| **Browser userscript** `userscripts/chatgpt-route-indicator.user.js` | routes of the Chat at hand, last Chats left, visit epoch, fallback | syncNavigation, routeAwareFetch, collect, rememberRoute, fallback, choice of a model | the page, the server | responses that outlive the visit they were requested in; partial records in any order | metadata only for its own Chat; no label that nothing supports |
| **Configuration, scripts, units** | none that lasts | parsing, status pages, analysis of exported chats | | | not modelled |

How the modelled parts interact: `enqueue` of the coordinator calls
`enqueueContinue` **in the same SQLite transaction**, so a run exists exactly
when its outbox row does. From then on they only meet through that row: flushers
post it (for up to ten seconds, outside any transaction) and settle it; the
coordinator reads it in `synchronizeDeliveryOutcomes`; `reconcile` and
`unsubscribe` cancel it. To both of them a subscription is there, usable or not;
how it comes to be stored is the subject of `EventSubscriptions`. The Chat that a POST wakes up calls `claim` with the
dispatch id, at any time after the platform has received the event, also when
the flusher never learned that it had. The local inbox shares nothing with them:
it has a database of its own, which the processes of its command line share.

The other components share no state with these, nor with each other. The exec
runtime calls rescue exec and the OpenClaw backend as functions; the composite
backend and the wait driver call the runtime through a socket and see answers or
errors. Each is modelled with its callers and callees as an environment that may
do whatever the real ones could: the wait driver is told any state a runtime can
report, the coordinator accepts or refuses, a command ends when it likes.

## 2. Modules

| Module | Models | Role |
|---|---|---|
| `DeliveryRows` | the contract of one outbox row, `src/events.ts` | abstract specification; extended by the coordinator, implemented by the outbox |
| `DeliveryRows_proofs` | | proofs about the contract |
| `EventOutbox` | `flush`, `enqueueContinue`, `unsubscribe`, the sender's outcomes | detailed specification, refines `DeliveryRows` (`KeepsContract`) |
| `WorkflowCoordinator` | every operation of `src/workflows.ts` that writes | composed with the delivery contract |
| `WorkflowCoordinator_proofs` | | one lemma per operation: it keeps the tables coherent |
| `WorkflowSafety_proofs` | | the inductive invariant, the theorems about states and about steps |
| `EventSubscriptions` | `subscribe`, `unsubscribe` and a 410, `src/events.ts` | one subscription with its concurrent calls |
| `EventSubscriptions_proofs` | | its inductive invariant and theorems |
| `ChatTurns` | what local events may do to Chats | abstract specification of the local inbox |
| `LocalChatContinuation` | every operation of `src/local-chat-continuation.ts` that writes | detailed specification, refines `ChatTurns` (`KeepsTurns`) |
| `LocalChat_proofs` | | its inductive invariant, theorems and the proof of the refinement |
| `ProcessWaitDriver` | `src/process-waits.ts`: inspect, register, the tick | its part of a wait; the coordinator has the rest |
| `RescueExec` | `src/backend/rescue-exec.ts` | one command slot and its process groups |
| `ExecRuntime` | requests of `src/exec-runtime-server.ts` and its client | memo, callers that give up, restarts |
| `ExecSocket` | listen, removeStaleSocket and close of the same file | instances around one path |
| `CompositeRoutes` | `src/backend/composite.ts` under `src/server.ts` | one route table, concurrent requests |
| `TraceRetention` | `src/full-trace.ts` | day files shared by several processes |
| `AccessGateway` | `infra/agent-access-tunnel`: gateway and bridge | pairing, grants, forwarding |
| `RouteIndicator` | the userscript: navigation, observed requests, cache, fallback | visits against responses |
| `RouteEvidence` | the userscript: merging records, choosing a reply's model | what a label rests on |
| `CallbackNetwork` | `src/event-network.ts` | one POST, from its host name to its answer |
| `HttpService` | `src/http-cli.ts` with the timers and `close()` of `src/http-server.ts` | processes around one socket path |
| `RequestLedger` | `src/request-ledger.ts` | day files shared by several processes |
| `Progress_proofs` | | `EventOutbox` with its refinement, `RescueExec`, `ProcessWaitDriver` |
| `Userscript_proofs` | | `RouteIndicator`, `RouteEvidence` |
| `Services_proofs` | | the other components of `MCServices`, and all of them side by side |
| `MCWorkflow`, `MCOutbox`, `MCSubscriptions`, `MCLocalChat` | | constants and symmetry sets of the TLC instances |
| `MCProgress`, `MCServices` | | one instance of each of several components; a behaviour is of one of them |

`WorkflowCoordinator` EXTENDS `DeliveryRows` and not `EventOutbox`: the
coordinator can tell row states and their ambiguity apart, never claims or
attempts. `EventOutbox` justifies this by refinement (`OutboxKeepsContract`), and
`UsesDeliveryContract` proves the other half: every coordinator behaviour is a
behaviour of the contract.

### 2.1 Delivery contract and outbox

| TLA+ | Code |
|---|---|
| `row[d]`, `outbox[d]` | one row of bucket `outbox`; `ambiguous` is `ambiguousAttempts > 0` |
| `active`, `subs` | subscriptions stored, not disabled, not expired |
| `flusher[f]` | the locals of one `flush` call: `due` (`todo`), `claimed` (`on`, `claim`), `response`/`error` (`answer`) |
| `FlushStart`, `Claim`, `Answer`/`GiveUp`, `Settle` | the select, the claim transaction, the awaited `sender`, the settling transaction |
| `ClaimExpires`, `RetryDue`, `Expire` | clocks passing `claimUntil`, `nextAttemptAt`, `refreshBefore` |
| `Crash`, `ArriveLate` | a process dies between the two transactions; a POST its sender gave up on is received after all |
| `received`, `posted`, `stray`, `late`, `faults` | not in the code: what the platform and the wire know, and the bound on faults |

What the environment may do is fixed in two places only. `Answer` says that a
2xx answer means that the event was received and that 410, 429 and other
refusals mean that this attempt was not; 5xx, 408 and no answer say nothing.
`ClaimExpires` says that a claim (30 s) expires while its sender (10 s limit) is
still alive only if that process was suspended, which counts as a fault.

### 2.2 Coordinator

| TLA+ | Code |
|---|---|
| `task[k]` | bucket `workflows`: `state`, `enabled`, `currentRun`, `waitingFor`, `subscriptionId` (`sub`) |
| `run[d]` | bucket `runs`; `lease` counts ticks to `leaseUntil`, 0 is stale; `origin` with the target is the request key |
| `wait[w]` | bucket `process_waits`; a wait's id is a hash of task and session, so `Wait` is their product |
| `recorded` | runs whose acceptance is still in bucket `requests` |
| `SyncedTask`, `SyncedRun`, `SyncedWait`, `SyncedRecorded` | the tables after `synchronizeDeliveryOutcomes`, which is also the first thing `enqueue` and `setEnabled` do |
| `Enqueue(T, o, k, d)` | `enqueue`, on the task table `T` that the surrounding transaction has reached; `resumeProcessWait` has already released the fence in it |
| `Put(T, key, value)` | `put` of the state database |

Every operation is one `db.atomic`, so one action. An operation that answers
with a refusal commits what it wrote before, which is the effect of
`synchronizeDeliveryOutcomes` and so a `Sync` step; one that throws is rolled
back and is no step. Which summaries, checkpoints and revisions are stored, the
advisory visit records and the text of an observation are left out: no decision
of the code reads them. `resumeProcessWait` would take `duplicate_request` for a
success; `ReceiptNotSwallowed` shows, and `ReceiptAlwaysNew` proves, that it
never gets this answer, so that branch is not an action. `status` only reads.

### 2.3 Subscriptions

| TLA+ | Code |
|---|---|
| `stored` | the row of bucket `subscriptions`; `secret = NoSecret` when there is none |
| `epoch` | bucket `subscription-cancel-epochs` |
| `call[c]` | the locals of one `subscribe` call: `cancelEpoch`, `prior`, `now` (`at`) and how far it has come |
| `Begin`, `Read`, `Reuse`/`Verify`, `Store` | up to the await of `validateCallback`; the reading of `now` and `prior`; the cached or real challenge; the transaction |
| `Fail` | any of the errors that end a call without writing |
| `Candidate`, `CacheHit`, `Rotates`, `StillCurrent` | the object that is stored and the conditions it depends on |
| `Unsubscribe`, `Disable`, `Tick` | the transaction of `unsubscribe`; `flush` on a 410; the clock |
| `proved`, `cancelled` | not in the code: challenges answered, and calls that were cancelled |

A tick is longer than the ten seconds after which the sender gives up, so a call
that has read `now` is over within one. `refreshBefore` is left out, `subscribe`
does not read it; it matters to the outbox modules (`Expire`).

### 2.4 Local inbox

| TLA+ | Code |
|---|---|
| `row[d]` | a row of `local_deliveries`: `state`, `attempts`; `due` is `retryAt <= now`; `receipt` is the message id in it, if there is one |
| `lock[t]` | the row of `local_targets` for a Chat: `token`, `phase`; `expired` is 300 s after `acquired_at`; its `delivery_key` is `LockedBy(t)` |
| `proc[p]` | the locals of one call of `dispatch`, `recover` or `settle`, by the await it is in |
| `Dispatch`, `ReleaseCompletedTarget`, `Acquire`, `PutBack`/`Send`, `Committed`/`NotStarted`/`Unknown` | the five parts of `dispatch` around its awaits |
| `Recover`, `Recovered` | before and after the awaits of `recover` |
| `Settle`, `ReleaseCompletedTarget` | before and after the await of `settle` |
| `Finish`, `Unlock` | `finishLocked` |
| `Leave` | a call ends without writing (an error, a refusal, `dispatch_lock_lost`), or its process dies |
| `message[m]` | not in the code: what became of the message submitted under the lock with token `m` |

Reads that follow one another without an await are one step. `Leave` also stands
for the steps that only store a new `reason`.

What is assumed of the bridge: it reports `committed` only for a message that
is in the Chat; after `not_started` with `safe_to_resubmit` that message will
not appear any more; after anything else it may appear at any time, also when
the process that sent it is gone. Nothing is assumed of a look at the Chat
except that it shows no message, and no final answer, that is not there:
`PutBack` and `Send` are both possible whatever the state of the Chat, because
what `get` returns may be old. The locks have to make up for this.

### 2.5 Process wait driver and rescue exec

| TLA+ | Code |
|---|---|
| `waits[w]` | a row of `process_waits`, reduced to its state |
| `due` | the open waits whose `nextCheckAt` has come, longest first; `Elapse` puts one there |
| `Ask`, `Register` | `inspect` before `register`; `waitProcess`, which creates the wait or answers with the one there is, with `recordProcessObservation` of what `inspect` told |
| `StartTick`, `Observe`, `Resume` | the snapshot of a tick; the question about one of its waits with what is written after it; `resumeProcessWait` or the postponement |
| `Classified`, `MayAnswer` | `inspectProcessResult`; what a runtime may say of a process, which is external (`job`) |
| `slot`, `alive[c]` | `#running`; the shell and what it started |
| `Run`, `Terminate`, `HardKill`, `CommandEnds` | `callTool` up to spawn; the timeout or the abort with `hardKillSoon`; its SIGKILL; the close or error event with `cleanup` |
| `Fork`, `End` | external: what the processes do |

The length of the back-off is left out, a wait comes due again at any time after
it was put back, and so is a restart, which only empties `tick`. There is one
driver: a second service's tick reads each row again in the transaction that
writes it, so it can only move a row that is watched, or terminal, as this one
does. `kills[c]` counts timers because `hardKillSoon` keeps only the latest in
`killTimer`: `StrayKillNeedsBoth` says exactly when one may go astray. Output, its
limits and exit codes decide nothing about the slot. A signal to a live child of
our own user does not fail, so the error event of a failing `kill` is left out; it
would answer the call a little before the close event does.

### 2.6 Exec runtime

| TLA+ | Code |
|---|---|
| `calls[k]`, `memo` | executions by number of start, which is the order of the `Map`; the numbers that are in it |
| `conn[c]` | one connection, both ends: what was sent, whether the caller still listens |
| `Reuse`, `StartCall`, `Pruned` | `executeOnce` and `pruneMemo` |
| `Refuse`, `Emit`, `Written` | a protocol error; the response, dropped when the caller is gone |
| `Send`, `Receive`, `GiveUp`, `Restart` | the client's call, its end, its timeout; a runtime that dies |
| `path`, `run[i]`, `stop[i]`, `hung` | the file at the socket path; how far `listen` and `close` of an instance are; suspended instances |
| `Lstat`, `Probe`, `RemoveFile`, `Bind` | `removeStaleSocket` with its two awaits, `server.listen` |
| `Signal`, `Drained`, `CloseRemove`, `Exit` | `main` and `close()` |
| `seen`, `alone` | not in the code: who listened when an instance looked; who met no other |

Frames are whole; the fingerprint is what tells two members of `Request` apart.
That the check and the removal of a stale socket can interleave with another
start is in the model, and `LiveSocketKept` says what remains true: only a start
that looked before the other listened, or a `close()`, removes a live path.

### 2.7 Composite routes

`routes` is `#routes`, `asker[c]` one request of the MCP server: `BeginList`
clears the table, `ListNext`, `ListFails` and `EndList` are the loop over
backends around its await, `Lookup` is `callTool`. `overlapped` and `broken` are
history: a list that overlaps with another may report a duplicate or leave a
call without its tool, and the properties say that nothing else does.

### 2.8 Full trace

`raw[d]` and `zst[d]` are the files of a day, as sets of lines; `work[w]` the
locals of `record` and `#maintain` in one process. `Record` reads the clock,
`AppendLine` writes; `List`, `NextFile`, `ReadRaw`, `Rename`, `DropRaw` are
`#compressInactive` one file operation at a time. Then `#maintain` looks at the
directory twice, for what is too old (`Expired`, in `NextFile`) and for what is too
much (`Surpluses`, in `MeasureTraces`), and removes one file after the other
(`RemoveTrace`). It spares one file, the raw one that it was given
(`Removable`). `Die` and `Midnight` come between any two.

`TracePromise` is about lines that were `undisturbed`: a process that still writes
to yesterday's file while another one compresses it may lose the line, which the
model has and the property names. With three processes it may lose more than its
own line: one reads the file, a second compresses it and removes it, a third one's
late line makes a new file, and the first then writes the compressed file over with
what it has read. So a late line takes the mark from the whole day. Two processes,
which the run has, do not get there; the proof, which is for any number, did.

The comment of `FullTrace` says "Active-day traces are plain JSONL". That is so but
for a maintenance that began before midnight: it takes the new day's file for an
old one and compresses it. `TodayTouchedFromYesterday` says that nothing else
takes lines from the present day's raw file or makes a compressed one of that
day. Once there is one, any maintenance may remove it for space, also one that
begins on that day, because only the raw file is spared.

### 2.9 Access tunnel

| TLA+ | Code |
|---|---|
| `pairing[p]`, `client[c]` | the gateway's tables; `grant` is the pairing from which `refresh_hash` was made |
| `ApproveRead`, `ApproveWrite` | `approve_pairing` before and in its transaction (sqlite3 opens one at the first write) |
| `PollRead`, `PollClient`, `PollStore`, `PollEnd` | `poll_pairing`, statement by statement, and the bridge that gets its answer or does not |
| `Revoke`, `ForgetLocal` | the admin command; the bridge's own |
| `file`, `token` | the bridge's credential file; its cached access token |
| `Forward`, `UseCached`, `Exchange`, `Verify`, `Execute`, `Finish`, `Unauthorized` | `forward` and `get_access_token`; the gateway's verification; its upstream call |
| `Age` | an access token's 900 s; one issued for a retry outlives the retry |

`get_access_token` words any answer but 200 as a rejected credential, also the
gateway's own failures; `RejectedMeansRevoked` speaks of the answer that says so,
the 401.

### 2.10 Userscript

`RouteIndicator`: `state` is the object of that name, reduced to the path, the
visit (`epoch`), messages with metadata, the cache and the fallback's marks.
`Synced` is `syncNavigation`, with which every entry of the script begins.
`source[f]` is what `routeAwareFetch` remembers of a request of the page (`Fetch`,
`Respond`, `Consume`, `Inspect`, `Close`), `IsCurrent` its `currentEpoch`;
`legacy[k]` is one run of `fetchConversationFallback` (`Begin`, `Answered`,
`Body`). The page and the server are external, and may navigate and answer
at any time. From a path without a conversation the page may send any number of
messages, and each of them counts as creating a Chat: the first one of a new
Chat, the same again after a failure, or further ones of a temporary Chat, which
never gets a path. What their responses bring is one collection, and the Chat
whose path is entered takes all of it over: finding 4. `opened` is history, the
Chats that were begun in each visit, and `OwnMetadata` says that nothing but the
messages of one such visit is ever mixed up.

`RouteEvidence`: `known[k]` is what `rememberRoute` has merged under a key,
`Shown` and `ShownForSet` are the rules of `routeForIdentity` and
`routeForMessageSet`, as the set of models that may be shown. `named` is history.
Searching the page for replies and drawing labels is left out.

### 2.11 Callback network

| TLA+ | Code |
|---|---|
| `post` | the locals of `pinnedHttpsPost`, `resolvePublicCallback`, `tryValidatedAddresses`, `connectTls`, `exchange`, by the await it is in |
| `BeginNamed`, `BeginLiteral`, `BeginInvalid` | what needs resolving, what does not, what is refused at once |
| `DnsAnswers`, `QueryFails`, `Resolved` | `resolveProxyDns` or the system's lookup; all addresses public, or none is used |
| `Attempt`, `Tunnelled`, `Secured`, `ConnectFails` | the loop over addresses with `CONNECT` and TLS; `ConnectTransportError` goes on, anything else ends it |
| `SendBody`, `Responded`, `ExchangeFails` | `exchange` |
| `Expire`, `TimesOut` | the signal over the whole POST, and its being noticed |
| `sockets`, `posted` | what is open; history: how often the body was written |

The system's resolver, the proxy, the callback and the certificates are external
and answer as they like. Texts are left out: URLs, `NO_PROXY`, headers, answers.
`EventOutbox` calls any end of a POST without an answer "unknown"; `SentOnce` is
what it may rely on, one delivery per attempt at most.

### 2.12 HTTP service

| TLA+ | Code |
|---|---|
| `endpoint` | the file at the Unix socket path: whose it is |
| `service[s]` | how far `main` or `close()` is; the two timers (`armed`); the tick (`watching`) and the outbox job (`flushing`) under way |
| `LookAt`, `Unlink`, `Listen` | `main`: `lstat`, removing a socket, `listen` |
| `TickStarts`/`TickEnds`, `FlushStarts`/`FlushGoesOn` | the two intervals, each of which starts nothing while its job is out |
| `Stop`, `JobsEnd`, `ServerCloses`, `LastRequestEnds`, `BackendCloses`, `RemoveEndpoint` | `close()` in its order |
| `Quit` | the process ends or is killed |
| `apart` | not in the code: who met no other since it started |

What a tick and a flush do is `ProcessWaitDriver` and `EventOutbox`. The service,
unlike the exec runtime, does not ask whether anybody listens before it removes
a socket, and its `close()` removes the path by name, whosever it is by then; so
`ReachableAlone` promises a reachable path only to one that met no other.

### 2.13 Request ledger

`ledger[d]` is the file of a day, `touched[d]` the day of its modification time,
`pruner[w]` the locals of `record` and `#prune`. `BeginRecord` reads the clock,
`AppendRow` appends; `RemoveAged`, `Weigh`, `Shrink` are the two passes of
`#prune`, the second of which looks again at the files that the first has found,
`Open` the prune of a constructor, which has no active file. `Excessive`
is the loop from the oldest file on while there is too much. The event audit
only counts what it hands to the ledger.

`TodaysRowsKept` says how today's records can go all the same: by a prune that
takes another file, or none, for the active one, and that found too much. A
process that starts is such a one, and so is one whose `record` began before
midnight.

## 3. Runs

| Run | Instance | Question |
|---|---|---|
| `progress` | outbox: 1 event, 2 flushers, 2 attempts, 2 faults; rescue: 2 commands; driver: 3 waits, batch of 1, 1 registration at a time; fairness | do stale snapshots, takeovers, late answers and crashes keep the contract? is a superseded verdict dropped? does every row come to an end, is the command slot freed, is the end of a process noticed? does the driver leave closed waits alone, and no timer outlive its command? |
| `outbox_attempts` | 1 event, 2 flushers, 2 attempts, 1 fault | is the attempt limit a limit? No: finding 2 |
| `fence` | 2 tasks, 1 workspace, 1 topic, 1 process, 2 runs | can two tasks hold one workspace? does anything become an orphan, end twice, or give the fence up without a reason? |
| `receipts` | 1 task, 1 process, 3 runs, leases of 2 ticks | does a completion get lost, swallowed as a duplicate, or reported twice? |
| `dispatch` | 2 tasks that dispatch to each other, 2 runs, 1 subscription | does a paused task start anything? do outbox rows keep unknown outcomes on record, and settle once? |
| `completion` | 1 task, 1 process, 2 runs, 2 subscriptions, fairness | is a finished process reported in the end? does a run's event go to the Chat the task is bound to? |
| `subscriptions_race` | 2 secrets, 2 calls, 1 unsubscription, 3 ticks | does a call store what was cancelled, or what nobody has answered for lately? does a replaced secret keep signing when nothing came between? |
| `subscriptions_lost` | 3 secrets, 2 calls | and when two rotations overlap? No: finding 3 |
| `local_chat` | 2 events for one Chat, 3 calls, 3 tokens, 2 attempts | do events start one turn each, one at a time? do rows, locks and the Chat agree, through crashes, expired locks, retries and recoveries? |
| `ambiguity` | as `fence` | is a rejection definite, as the comment says? No: finding 1 |
| `services` | exec: 2 connections, 4 requests under 2 ids, memo of 1, 3 calls; socket: 2 instances; gateway: 2 pairings, clients and approvers; trace: 2 processes, 3 days, 2 lines; userscript: 2 Chats, 2 messages, 1 request, 2 fallbacks; evidence: 2 messages, 1 turn, 3 model names, one an alias; routes: 2 requests, 2 backends; network: 3 addresses, 2 of them public; http: 2 processes; ledger: 2 processes, 3 days, 3 lines | one question for each component, see below |
| `services_adoption` | as `services` | does a new Chat take over its own stream only, as the documentation says? No: finding 4 |

`progress` and `services` put components side by side that share no state. The
variable `part` says which one a behaviour is of; the others stay in their
initial states, so that the states of a run are the sum of theirs, not the
product. Each property of `services` is about one component:
`RepeatsAreForgotten` (is a request run again only when the memo has dropped
it?), `LiveSocketKept` (does anybody remove the socket of a runtime that
listens?), `GatewayPromise` (do racing approvals, polls and revocations grant too
much, does a retry run a message twice?), `UnavailableNeedsOverlap` (is a tool that
exists reported as missing?), `OwnMetadata` and `FallbackHere` (does anything of
one visit reach another?), `EvidenceSafe` (does a label contradict the records?).
`ServicesKeep` collects what steps may never do: `TracePromise` (are lines lost to
crashes, other processes or midnight?), `TodaysRowsKept` and `ShrinkIsEnough` (what
does retention take, and does it make room?), `SilentOnceExpired` (does a POST go
on when its time is up?). `ServicesSafe` and `ProgressSafe` are the conjunctions of
what else holds in every state: types, `OneRunning`, `OwnResult`,
`LoneStartSucceeds`, `TakenInTime`, `RightBackend`, `DuplicateNeedsOverlap`,
`SentOnce`, `OnlyPublic`, `SocketsClosed`, `JobsAreOver`, `ReachableAlone`;
`OneShell`, `StrayKillNeedsBoth`, `EndsAreReal`. Of the 1.3 million states of
`services`, 440 000 are of the userscript's visits, 335 000 of the gateway, 267 000
of the exec runtime, 130 000 of the ledger and 107 000 of the trace.

Bounds and why they are enough:

- *Two tasks.* A workspace conflict is between two tasks; the loop of
  `synchronizeDeliveryOutcomes` treats tasks independently. The theorems cover any
  number.
- *Two or three runs.* Two let one run be given up and another start on the same
  or the other task; three (`receipts`) let a notification be rejected, rearmed,
  sent and rejected again, with one more to be dispatched.
- *One process session per task.* A task has one wait at a time. With two tasks
  there are two waits.
- *Leases of one or two ticks.* Only "stale or not" is read; two ticks let a
  heartbeat extend a lease that is running down.
- *`MaxAttempts` 2 instead of 6.* The limit is compared with once per
  verdict; two let a row be retried and then run out.
- *`MaxFaults` 1 or 2.* One takeover while the first sender is alive, and in
  `progress` a second one on top of it. It also bounds `attempts`.
- *One event, two flushers.* Rows meet in a flusher's snapshot only, and one row is
  enough for it to be stale. `OutboxTypesHold`, `OutboxVerdictWaits` and
  `OutboxKeepsContract` are for any number of both.
- *Two calls.* One overtakes the other. `Window` is 2 ticks and `MaxTime` 3, so
  that the cache and the double signature run out. One unsubscription
  (`MaxCancels`) falls between any two parts of a call, and leaves time to
  subscribe again.
- *One Chat, two events, three calls, three tokens.* Locks of different Chats do
  not meet. Three calls are an owner that lost its lock, its successor and a
  recovery or settlement; three tokens let a delivery be sent, refused and sent
  again with a lock that was taken over in between. `MaxAttempts` is 2 here too,
  one retry and then the end of the budget.
- *A memo of one, three calls.* The memo is pruned when a second id comes; a third
  call repeats the first after it was forgotten. Four requests are the same id
  with another payload, another id, and a malformed one.
- *Two instances, approvers, pairings, clients, lists, writers.* Each race is between
  two (but for the loss in the trace that takes three, see 2.8); two clients let a
  pairing be approved twice. The theorems are for any number.
- *Three addresses, two of them public.* One is tried after another, and an answer
  may be mixed. *Two processes of the HTTP service.* One removes the other's socket.
- *Three days, retention of two, room for one line.* A file of yesterday is compressed,
  that of the day before goes by age, and a second line makes one go by size. The
  ledger has a retention of one and three lines, so that `Shrink` takes two files.
- *`MaxEpoch` 2, a cache of one.* Leave a Chat or the home page, come back; a second
  Chat pushes the first out of the cache. Both Chats may be new, so that two are
  begun in one visit. `Attempts` is 2, so that the fallback runs out after a retry.
- *Three waits, a batch of one.* Two are ahead of the third in every tick. One
  registration at a time (`Callers`): what two of them write is about different
  waits, or done by whichever is first.
- *Two commands.* A timer of the first meets the second.
- *Symmetry* is over sets whose members the instance treats alike, and not used
  for liveness.

The outbox, workflow and local runs switch the deadlock check off because their
instances can stop: run ids or tokens are used up, all rows are settled and
nobody subscribes again. So do `progress` and `services`: commands are all done,
calls and lines numbered up to their bound, every instance has exited. The
subscription runs keep it on.

Every property has a mutant: a definition that models code is replaced by a
plausible bug (the `Fault...` operators beside it), and the property fails.

### Fairness

- `FairSpec`: weak fairness of `Sync` and of `ResumeProcessWait` for each wait.
  `http-server.ts` 85-97 runs `synchronizeDeliveryOutcomes` and the wait driver
  every two seconds. The driver takes due waits oldest first and a refused one is
  put back by five seconds, so it gets to each. Nothing is assumed of the Chats,
  the operator, the flushers or the network. `CompletionReported` therefore
  speaks only of tasks that stay enabled with one subscription, and of terminal
  receipts: whether the run is received is the platform's business.
- `FairOutboxSpec`: a `flush` call that is alive goes on (every wait in it ends
  within ten seconds), the server starts one every two seconds, clocks run. A
  crash needs no fairness. The other flushers need not start.
- `RescueFairness`: the timeout's timer and the SIGKILL timer of a command fire,
  and Node's close event comes once nothing holds the pipes. Nothing is
  assumed of the processes: they may ignore SIGTERM and live for ever.
- `DriverFairness`: a tick that is under way goes on and another one starts (the
  timer of `http-server.ts`; each question has a timeout), each open wait comes
  due again (its back-off is finite), and, strongly, the runtime answers some of
  the questions about a wait. A runtime that never answers is the case in which
  the driver may not conclude anything.

`MCProgress` states the same three (`OutboxProgress`, `RescueProgress`,
`DriverProgress`) for the steps of the part they belong to.

## 4. Proofs

All by `tlapm`, for every value of the constants that the named assumptions
allow. `SentinelAssumption`, `OutboxAssumption`, `CoordinatorAssumption`,
`SubscriptionAssumption`, `LocalAssumption`, `DriverAssumption`,
`SocketAssumption`, `RoutesAssumption`, `GatewayAssumption`, `ExecAssumption`,
`RouteAssumption`, `EvidenceAssumption`, `TraceAssumption`, `NetworkAssumption`,
`ServiceAssumption` and `LedgerAssumption` say that sentinels are not members of
the sets they stand beside, that each task has a workspace or none, each
delivery, and each message with metadata, a Chat, and each model a canonical
one; that leases, attempt budgets, batches and the memo's size are positive; that
the window is longer than a tick; that no two backends offer the same tool; that
the ledger keeps a day at least (`readPositiveInteger` in `src/config.ts`); and
that bounds are numbers.

| Theorem | Says |
|---|---|
| `DeliveryRows_proofs!CleanRowsNotReceived` | a failed or retryable row without an ambiguous attempt was not received and is not under way |
| `DeliveryRows_proofs!RowsAreFinal` | accepted, failed and cancelled rows never change |
| `WorkflowSafety_proofs!TypeCorrect` | types of all tables |
| `WorkflowSafety_proofs!WorkspaceFenced` | one holder per workspace |
| `WorkflowSafety_proofs!TablesConsistent` | tasks, runs and waits agree, no orphans |
| `WorkflowSafety_proofs!RejectionsAreDefinitive` | a run rejected after a failed delivery was never received |
| `WorkflowSafety_proofs!CompletionsReceivedOnce` | a process completion is received once, cancelled deliveries aside |
| `WorkflowSafety_proofs!ReceiptAlwaysNew` | a receipt is never taken for a duplicate |
| `WorkflowSafety_proofs!UsesDeliveryContract` | the coordinator keeps to the delivery contract |
| `WorkflowSafety_proofs!RunsEnd` | a run that has ended never changes again |
| `WorkflowSafety_proofs!PauseHolds` | a paused task starts nothing |
| `WorkflowSafety_proofs!ReleasesAreJustified` | a workspace is given up only for a reason |
| `WorkflowSafety_proofs!DeliveriesFollowBinding` | a current run's event is addressed to the task's Chat |
| `EventSubscriptions_proofs!SubscriptionTypes` | types of the subscription and its calls |
| `EventSubscriptions_proofs!SecretsAreVerified` | what is stored was answered for when it says so |
| `EventSubscriptions_proofs!OvertakenCallsStoreNothing` | cancelled calls store nothing |
| `EventSubscriptions_proofs!VerifiedWhenStored` | what is stored was answered for within the window before |
| `EventSubscriptions_proofs!RotationsKeepSigning` | an undisturbed rotation keeps the replaced secret signing |
| `LocalChat_proofs!LocalTypes` | types of the inbox; the retry budget holds |
| `LocalChat_proofs!ResendsAreSafe` | what may be sent again was never submitted |
| `LocalChat_proofs!SubmissionsAreReal` | what is reported as submitted is in the Chat |
| `LocalChat_proofs!LocksHaveRows` | every lock has a row that goes with it |
| `LocalChat_proofs!InboxKeepsTurns` | the inbox implements `ChatTurns` |
| `Progress_proofs!OutboxTypesHold` | types of the outbox; the budget of attempts, with one more for each fault |
| `Progress_proofs!OutboxVerdictWaits` | no verdict on a row while the attempt that holds its claim is out |
| `Progress_proofs!OutboxKeepsContract` | the racing flushers implement `DeliveryRows` |
| `Progress_proofs!DriverTypesHold` | types of the driver: no wait is due twice |
| `Progress_proofs!DriverEndsAreReal` | the end of a process is written down only when it has ended |
| `Progress_proofs!DriverLeavesClosed` | cancelled and dispatched waits never change |
| `Progress_proofs!RescueTypesHold` | types of rescue exec |
| `Progress_proofs!RescueOneShell` | the shell that runs, and every armed timeout, belong to the command in the slot |
| `Progress_proofs!RescueStrayKill` | a SIGKILL outlives its command only after both a timeout and an abort |
| `Progress_proofs!ProgressIsSafe` | what holds in every state of the three side by side |
| `Services_proofs!LoneRuntimeStarts` | a runtime that meets no other starts, whatever file was left |
| `Services_proofs!LiveSocketStays` | who removes a live socket |
| `Services_proofs!RoutesAreRight` | a call reaches a backend that has its tool; a duplicate means an overlap |
| `Services_proofs!ToolsAreAvailable` | a missing tool means an overlap, or a list that broke off |
| `Services_proofs!GatewayTypesHold` | types of gateway and bridge |
| `Services_proofs!GatewayKeepsPromise` | one grant per pairing, one execution per message, no refusal in good standing, no way back for the revoked |
| `Userscript_proofs!MetadataStaysOwn` | metadata is shown, and kept, only for the Chat it is about or for one begun in the same visit |
| `Userscript_proofs!FallbackStaysHere` | one fallback for a visit, and disabled only by it |
| `Userscript_proofs!EvidenceIsSafe` | no label that nothing supports, or against the records, in whatever order they come |
| `Services_proofs!ExecTypesHold` | types of the exec runtime |
| `Services_proofs!ExecRunsOnce` | one running call for an id; a caller gets its own result |
| `Services_proofs!ExecForgetsInOrder` | a request runs again only when its result was too old or pushed out |
| `Services_proofs!TraceKeepsPromise` | no line is lost of a day that nobody disturbed, whoever dies meanwhile; who may touch the present day's file |
| `Services_proofs!CallbacksAreSentOnce` | a POST is sent once at most, in public, and leaves no socket open |
| `Services_proofs!ServicesEndInOrder` | a service past its handler has no job left; a lone one keeps its path |
| `Services_proofs!LedgerKeepsRows` | what retention may take, and that it makes room |
| `Services_proofs!ServicesAreSafe` | what holds in every state of the ten components side by side |
| `Services_proofs!ServicesKeepRecords` | and what their steps may never do |

The argument. `Consistent` and `WorkspaceExclusive` are not inductive alone: that
a rejected notification may take the fence back rests on which wait a run
reports, whose request record is left, and which runs have outbox rows. The
inductive invariant `IInv` (theorem `Invariance`) is `DeliveryInv`, the
contract's own, with `Coherent`, what the three tables, the request records and
the rows say about each other, and `RejectedRows`, that a run given up as
rejected has a row which is final and clean.
`WorkflowCoordinator_proofs` shows for each operation that it keeps `Coherent`,
by a local principle: a step that changes one task, its run and its waits, and
fits what other tasks hold, cannot disturb the rest. `StepIsDelivery` shows
that each step is a step of the contract or leaves it alone, so `DeliveryInv`
comes from the contract's own proof, and final rows stay as they are.

The theorems about steps look at every operation once more, now with `IInv` in
hand: a run in the table of a task is live, so what an operation changes is never
an ended run; a row's subscription is the one its task was bound to when it was
enqueued, and `Bind` leaves a task with a current run alone.

For subscriptions the invariant `SInv` says of each call what it may rely on
after an await: `CallHonest`, its prior secret was answered for when it says so
and, unless the cache stands in, its new one has been; `CallEpoch`, its epoch is
behind once it was cancelled; `CallFresh`, what it read is at most a tick old.

For the local inbox the invariant `LInv` has three parts. `Chats`: each lock is in
one of three uses that tie its phase to its row and its message (`LockFits`), a
message that is under way holds the lock of its Chat (`OpenLocked`), and of the
messages of one delivery one at most was ever sent without being refused
(`SentOnce`). `Rows`: the properties about rows, and receipts that belong to their
row. `Calls`: what a call may rely on after an await whatever happened
meanwhile, for instance that the receipt and the token with which it will
release a lock belong to the same delivery; with `SentOnce` they are then the
same message, so an answer to the one is an answer to the other. A call that
lost its lock to another is harmless since its token is nobody else's
(`CallsApart`). The refinement follows: only `Appear` starts a turn, and by
`OpenLocked` and `SentOnce` everything else in that Chat has been answered.

For the outbox `OInv` says of every claim who may settle it. Attempts that claim one
row have different claims (`OwnClaims`). An attempt that was overtaken has left a
stray POST, and one that still holds its claim has a row that is being sent or
was cancelled (`FlushFits`); whatever was received, or may still arrive, is a stray
one's, or accepted, or its holder's, who then has no answer that says otherwise
(`Accounted`). Neither `VerdictWaitsForHolder` nor the refinement follows without
it: the contract lets a row fail clean only if nothing of it is received or under
way. The budget needs a part of its own: a claim without a holder has cost a
fault that no attempt has used yet (`Forsaken` in `RowFits`). Each step of `OutboxNext`
then maps to one step of `DeliveryNext` or a stutter, under the mapping `Rows`,
`Actives`; what a step does to the row it is about is `RowStep`.

For the wait driver `DInv` says that the process of a terminal or dispatched wait
has ended, and so has the process of which `inspect` told `register` so
(`Registering`); the snapshot of a tick needs no invariant since every row is
looked at again before it is written. `DriverTypesHold` needs what a due list is:
`Later` removes one wait from a sequence without repetitions, and the lemmas about
`RemoveFirst` are proved by least counterexample, which the library states without
an operator parameter.
For rescue exec `RInv` ties each command's timers, marks and pending SIGKILLs
together (`CommandInv`): each reason arms one timer once, so two pending ones mean
both reasons, and the close event clears one.

`SocketInv` adds to types that an instance about to remove a file did not see its
owner listening when it probed (`StaleJudged`), and that one that has met no other
binds to a free path and fails only for something that is not a socket (`Lone`).

`RoutesInv` says what the table looks like under a list that runs alone:
everything offered by the backends before its position is in it and nothing of
those ahead (`NothingAhead`); when no list is under way and none has broken off,
the table is full or empty (`TableGood`), and whoever looks a tool up undisturbed
finds it full (`LookingFull`). `Marked` makes the history honest: requests beside
another one's list are in `overlapped`.

`GatewayInv` has four parts: types; `GrantInv`, that a grant and a poll under way
name the client their pairing was approved for; `ExecutedInv`, that nothing was
executed before the gateway let a message through; `RetryInv`, that the second
try has a fresh token, so that only a revocation refuses it.

For the userscript's metadata `RouteInv` ties every request of the page to the visit
it was made in. `SourceFits`: a request for a new Chat belongs to a visit of the
home page, and if that visit is still on, the address has not changed; any other
one that is of the present visit is of its Chat, or will be found not to be when
it is looked at. `Collects`: in a Chat, everything collected is about it or
about a Chat begun in the same visit; on the home page, what is collected, the id
announced and every creating request of this visit are of the Chats `opened` in
it, of which there may be several, and `opened` only grows (`MoreOpened`). Every
entry of the script begins with `Synced`, so the proof looks at `Synced` once and
at what follows it with the state it left. `EvidenceInv` says that the model of a
record is the one recorded last, and that a record kept under a turn names that
turn; the rest is about `Merge` and about the latest of a finite set of records.

`FallbackInv` counts visits: a fallback under way belongs to this or an earlier
epoch, the one of this epoch is the one that is marked, and a visit that was
disabled has spent an attempt. `ExecInv` says that what runs is in the memo, and
that a fresh result which is not was pushed out by `MaxEntries` others. The size
limit removes as many of the oldest completed entries as there are too many;
`PrunedFacts` does the counting.

For the trace `TraceInv` gives every line the day it is of (`Homes`) and says of each
process what its next file operation still needs (`Harmless`): when it has read a
file, its buffer has the lines that count of the raw and of the compressed one, so
renaming loses none; when it is about to remove the raw file, the compressed one
has them. None of this holds of a day to which somebody appended while another
process had it in hand, which is why `undisturbed` gives up the whole day.

`NetworkInv` counts how often the body can have been written by where the POST is,
and keeps the addresses that are left public. `HttpInv` adds to `JobsAreOver` that
the timers are off from the moment `close()` waits, so what it has waited for is not
started again, and what a service that met no other finds at the path (`NoOther`).
`LedgerInv` says that a file was touched on its own day or later and that nobody is
ahead of the clock; so today's file is never old enough for its age. That `Shrink`
makes room is about its loop: when it stops at a file, that file and what is
younger are no more than `MaxSize`, and nothing older is left.

`ServicesInv` is the conjunction of the ten invariants. A step of `ServicesNext` is a
step of one component and a stutter of the others (`ServicesStep`), so each keeps
its own.

Every safety and every action property that a passing run checks is stated by one
of these theorems. Only model-checked: liveness under fairness, which is out of
the prover's reach, `CompletionReported`, `EveryRowSettles`, `SlotFreed` and
`EndNoticed`.

## 5. Findings

1. **A cancelled delivery counts as a definite rejection.** The comment at
   `src/workflows.ts` 79-81 says that definitively rejected deliveries release a
   queue while ambiguous failures keep its fence. `unsubscribe`
   (`src/events.ts` 221) and the inactive-subscription branch of the claim
   transaction (260) turn a row that is *being sent* into `cancelled` without
   counting that attempt as ambiguous, and `synchronizeDeliveryOutcomes` then
   cancels the run and frees the workspace. Run `ambiguity` ends in a state where
   such a run was received. `RejectionIsDefinitive` and `CompletionReceivedOnce`,
   which hold and are proved, except cancelled rows for this reason.
2. **Seven attempts.** `docs/mcp-events/supervisor-plan.md` 40 limits retries to six.
   The limit is looked at when an answer is settled, not when an expired claim
   is taken over, so each sender that dies on the last attempt adds one.
   `OutboxTypeOK` states the bound that does hold: the limit plus the number of
   such faults. Run `outbox_attempts`.
3. **A rotation can be lost.** `docs/mcp-events/supervisor-plan.md` 40 keeps the old
   secret signing for five minutes after a rotation. `subscribe` reads the
   stored subscription before the challenge (`src/events.ts` 184) and takes the
   previous secret from it afterwards (202-206); the transaction compares only
   the cancel epoch. When two calls with different secrets overlap, the later
   one replaces what the earlier one stored, and that secret stops signing at
   once. Run `subscriptions_lost`. `UndisturbedRotation`, which holds and is
   proved, is the promise for calls that nothing came between.
4. **Two Chats begun on one page.** `docs/chatgpt-route-indicator.md` 57-59 says that
   a new Chat's transition "cannot adopt an unrelated conversation", and the comment
   at `userscripts/chatgpt-route-indicator.user.js` 482-483 that only what the
   creating response's id names is kept. Every POST from a path without a
   conversation id is marked as creating (666-669), so a message sent again after a
   stream that broke off, or the next one of a temporary Chat, is another of the
   same visit; when the page then moves to one of these Chats, what was collected
   of the others is kept (488-495). Run `services_adoption`. `OwnMetadata`, which
   holds and is proved, excepts Chats begun in one visit.

## 6. What is left

Not modelled:

- *Stdio transport.* Which of a pending send's events comes first when the pipe
  breaks (error, drain, close) is decided inside Node's streams, which are not
  part of the repository; a model would guess at it.
- *Gateway client and MCP server framing.* One promise settled by whichever event
  of a library comes first; the requests themselves are in `CompositeRoutes`.
- *HTTP requests.* Routing and health answers hold no state; the MCP handler is a
  library. A service on a TCP port leaves no file behind.
- *Event audit, redaction.* The audit counts, redaction is text processing.
- *OpenClaw, Feishu, Google Drive, skills.* They forward calls to services or read
  files, and what they cache is read by nothing else here.
- *Configuration, argument parsing, scripts and units, the tunnel's rate limiter
  and health probe, the userscript's search of the page and its labels.* Parsing,
  formatting and administration.
- *State database.* Transactions are atomic actions; SQL, files and busy timeouts
  are not modelled.

Two hazards have no property because nothing in the repository says what should
happen: a 410 that speaks of a subscription verified anew meanwhile
(`src/events.ts` 276; `Disable` may come at any time), and keys that outlive what
they started (`src/workflows.ts` 201 and 133; `WaitProcess` and `Enqueue` have the
branches as they are).

Next steps, in order of what they would add: `ProcessWaitDriver` composed with
`WorkflowCoordinator`, each of which now sees the other as free to accept or
refuse; an abstract task (idle, owned by a run, owned by a process, in doubt) that
`WorkflowCoordinator` implements; an abstract memo that `ExecRuntime` implements;
the userscript's timers, which decide when the page is looked at again.
