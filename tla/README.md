# scdlp verification

TLA+ specifications of scdlp, the macOS agent that sits between a process's
`open(2)` and the secrets on disk. EndpointSecurity hands it an AUTH_OPEN
message for every open; the agent allows or denies it, asks the user through a
menu-bar helper when it has no rule, and must answer before the kernel's
deadline whatever else goes wrong. The modules here say what that machinery does
and what it must never do; TLC checks them on small instances and TLAPS proves
the invariants of the hook, the rule store, the decision engine, the prompts, the
control channel, the agent process and the identity walk for every instance.

Run from this directory: `tlc -config EsGlue.cfg MCEsGlue` (the pairs of module
and configuration are in the table of runs below) and `tlapm EsGlueProofs.tla`.

## The system

One system extension process (Go and C), one helper per user session (Swift), a
directory between them, and a command line on a Unix socket.

    process --open--> kernel --AUTH_OPEN--> hook (esf_glue.c, esf_darwin.go)
                                              | bounded channel, safety timer
                                              v
                       classifier, identity <- engine -> audit channel -> writer
                                              |  ^
                                prompt bus <--+  +-- rules, policy, kill switch
                                    v                     ^         ^
                                  spool ------------------+      control
                                    | *.req.json          |         ^
                                    v        *.reply.json |         | policy.json,
                                  helper -----------------+---------+ *.revoke.json

| component | source | state | operations | what is hard about it |
|---|---|---|---|---|
| EndpointSecurity hook | `internal/hook/esf_glue.c`, `esf_darwin.go` | one heap record per message (`responded`, `refs`), bounded channel, counters, self mute | receive, hand over or answer inline, respond, safety timer, Close | three threads and one timer block per message race to answer and free one record; the agent may stall; shutdown under traffic |
| Decision engine | `internal/agent/engine.go`, `promptbus.go` | kill switch, policy, cooldown map, prompt bus, audit channel | `Decide`, `SetPolicy`, `SetEnabled`, `Run`, the audit writer | reads six inputs one after the other while all may change; two bounded channels that must not block it; panics |
| Policy | `internal/config` | entries, trusted apps | `Match`, `TrustsChain`, load, save | order of entries, unknown actions |
| Rule store | `internal/rules` | one SQLite table | `Insert`, `Lookup`, `Revoke`, `List` | precedence, expiry, reuse of ids, the unique index |
| Prompt spool | `internal/promptspool` | dedup set, request and reply files | `Write`, `ProcessReplies`, `New`, `HelperAlive` | two processes on one directory, no lock, no atomic reply |
| Helper: prompts | `helper/main.swift`, `promptqueue.swift` | shown ids, the modal gate, heartbeat | scan, show, answer, reap | a modal that outlives its request, restarts |
| Control channel | `internal/control`, `helper/main.swift` | mtimes, rules.json | reload, revoke, publish | partial files, lost updates, reused ids |
| Process identity | `internal/identity` | none; it reads the process table | `Resolve`, `Compute` | two system calls per ancestor while processes fork, exec, exit and pids are given out again; keys when the walk fails |
| Content classifier | `internal/classify` | none | match | none: a pure function of bytes |
| Audit store | `internal/audit` | one table, one connection | insert, query | the writer and the command line share the connection |
| IPC | `internal/ipc` | listener, accept loop, a handler per connection | dial, call, serve, `Stop` | silent or vanishing clients; a connection accepted while `Stop` runs |
| Agent process | `cmd/scdlp-agent` | its goroutines, both stores | start, the backend of the command line, the deferred calls of `main` | goroutines that are not waited for go on while the stores are closed |
| Command line | `cmd/scdlp` | none | one dial, one request, one close per command | none of its own: it is the client of IPC |
| Host app, packaging, mocks | `host`, `Taskfile.yml`, `internal/hook/mock.go` | none that matters here | | not modelled |

### What makes each part correct

* **Hook.** Each message is answered once and released once; no thread touches a
  freed record; no record is leaked; only a deny of the engine denies; every
  open is settled though the engine never answers; the counters add up.
* **Rule store.** A lookup never depends on row order; a path rule beats a
  category rule; no rule changes under its key.
* **Prompts.** One prompt per reader and file; each shown once; rules appear only
  as the user chose them, and do appear when he chose "always"; the directory
  empties; an app he trusts is allowed, and stays so.
* **Engine.** A decision that overlaps one change of its inputs is the decision
  before or after it; it always returns.
* **Control.** The last edit of `policy.json` is loaded in the end and drops no
  other; the kill switch follows its marker; a revoked rule goes away, unless the rule
  store fails when the command is tried.
* **Agent process.** No request is served from a closed store, no verdict taken
  without the rules reaches a process, an accepted call gets its answer even through
  a shutdown, auditing survives errors and panics and holds up nobody, and the
  process ends when asked to.
* **Identity.** A walk that met one change returns an ancestry that was true at
  some moment; an "always" holds for the readers it was given for; a failed walk
  matches no rule.

`PROJECT.json` lists the hazards, each at its line, with the properties that
would catch it.

## The modules

| module | models | uses |
|---|---|---|
| `AuthOpen` | what the hook promises a process blocked in `open(2)`: an abstract specification | |
| `EsGlue` | the hook | refines `AuthOpen` |
| `EsGlueProofs` | the hook's invariants, its counters and the refinement, proved | `EsGlue` |
| `RuleStore` | the SQL statements of the rule table, as operators on a set of rows | |
| `RuleStoreProofs` | lemmas about those operators: new ids, the unique index, lookups | `RuleStore` |
| `RuleBook` | the table under inserts, revocations and time | `RuleStore` |
| `RuleBookProofs` | the rule table's invariants, proved | `RuleBook`, `RuleStoreProofs` |
| `Policy` | glob policy and trusted apps, as the engine looks at them, as operators | |
| `Control` | `policy.json`, the kill switch and revoke commands, both sides | `RuleStore` |
| `ControlProofs` | the types, and that no edit, toggle or command is forgotten, proved | `Control`, `RuleStoreProofs` |
| `Engine` | a decision, step by step, among concurrent edits | `RuleStore`, `Policy` |
| `EngineProofs` | the types and the atomicity of a decision, proved | `Engine`, `RuleStoreProofs` |
| `Ipc` | the socket: clients, the accept loop, handlers, `Stop` | `RuleStore` |
| `Agent` | the process: the backend, the audit writer, the run loop, shutdown | `Ipc` |
| `AgentProofs` | safety of serving and of shutdown, proved | `Agent`, `RuleStoreProofs` |
| `Identity` | the ancestry walk among processes, the keys and the rules made of them | |
| `IdentityProofs` | types, the bound on chains, the keys, and what a walk that is not atomic returns, proved | `Identity` |
| `SpoolDir` | the shared directory | |
| `PromptQueue` | the helper's choice of a prompt, as operators | |
| `TrustedApps` | the readable form of a chain, the app a prompt offers, and whom the engine trusts for it, as operators | |
| `PromptSpool` | the extension's side of the directory | `SpoolDir`, `RuleStore` |
| `PromptHelper` | the helper's side of it, and its rewrite of `policy.json` | `SpoolDir`, `PromptQueue`, `TrustedApps` |
| `PromptCycle` | both sides, the engine's verdict, the bus, time and restarts | `PromptSpool`, `PromptHelper` |
| `PromptCycleProofs` | the types, the dedup, the dialogs, the rules made of replies and lasting trust, proved | `PromptCycle` |
| `MC*` | instances for TLC | |

Operators named as mutants in their comment (`ExchangeBlind`, `UpsertRow`, ...)
are wrong on purpose: put in place of the definition they stand next to, each
makes one property fail, which shows that the property depends on that code.

### `EsGlue`: the hook

The state of a message is spread over the kernel (`kstat`), the record
(`responded`, `refs`, `freed`) and the place of each of the two parties that
hold it (`pc[m]["go"]`, `pc[m]["timer"]`); `goAt` says how far the Go reference has
travelled. `Deliver` is the handler block of `scdlp_es_start_auth_open`: retain,
allocate with two references, arm the timer. `ReadActive`, `Enqueue` and
`AnswerInline` are `scdlpGoOnEvent`, split where it lets go of the lock.
`AgentNext`, `AgentDecides` and `AgentExit` are `Next` and the loop of `Engine.Run`.
`Exchange`, `Answer` and `Unref` are the three atomic steps of `respond_once`
and `pending_unref` that both parties run; the framework may reject an answer.
`AgentReads` is what a failed self mute means: the engine opens a file to look at
it and blocks on an AUTH_OPEN of its own, behind itself in the channel.
`CloseHook` and `ReleaseClient` are the two halves of `Close`.

`answers` and `winner` are history; `winner` is also the return value of
`respond_once`. The verdict is arbitrary: what the engine answers is
`Engine`'s subject. Conversion of flags and paths is left out.

### `RuleStore` and `RuleBook`: the rules

A row keeps the columns that take part in a `WHERE`, an `ORDER BY`, a `CHECK` or
the unique index. `expires` is the empty set for NULL and a singleton otherwise, so
`Live` is one quantifier. `NextId` is SQLite's choice for an `INTEGER PRIMARY
KEY` without `AUTOINCREMENT`: one past the largest. The primary key makes ids distinct
whatever the code does, so no property is about that. The store has one connection, so a
statement is a step.

### `PromptSpool`, `PromptHelper`, `PromptCycle`: the prompts

`reqs` and `replies` are the files; the field `about` of a reply and the field
`shown` of a request are history (what the dialog asked; how often this run of
the helper has shown it). The extension's `ProcessReply` applies one reply and
removes its file; `FinishReply` removes the request afterwards, as the code does,
so that the helper's scan can come in between. The helper writes replies in
place: `Answer` creates a file that does not parse yet and `FinishWrite`
completes it. `policy.json` is
written in place too: `TrustApp` reads and truncates it, `SaveTrust` puts the document
with the new app in it, and `ReplyTrusted` goes on to the reply. A poll (`ReloadTrust`) or a start
(`Restart`) may come in between, and so may a crash, after which the file has no policy:
a reload ignores it, and a start loads the default, which trusts no app (`Usable`). Of a
document only its apps are kept and that there is a policy, as the files of the model
are under a "prompt" glob. `Scan` is one pass of the helper's timer: reap, prune, choose, show.
`Access` is the only kind of open with an effect on this part, a denied one that asks;
`Verdict` is the engine's answer for a file that matches a "prompt" glob and holds
a secret.

`Ancestry` gives an identity's chain, each entry with a base name and the bundles it lies
in. `HumanChain` is what a prompt is sent of it: `MaxDepth` names, and the ellipsis if
there are more. The helper offers the outermost name but launchd
(`ResponsibleApp`), that name goes into `trusted_apps`, and `TrustsChain` looks
for it among base names and bundles of the whole chain.

Time is counted in units of 30 s: a request is stale after one, the engine's
cooldown is two. Request ids are UUIDs in the code; the model reuses an id once
nothing refers to it. `Restart` stops and starts the extension in one step: what
the helper does meanwhile it may also do while the extension is idle. I/O errors
of the helper are left out, crashes are not; a failed write in the extension is `Write` with
`ok = FALSE`.

### `Control`: policy edits, kill switch, revocations

`file` is the document in `policy.json`, empty when the bytes do not parse;
`BeginWrite` truncates and `FinishWrite` completes, both on the helper's main
thread. `newer` stands for the comparison of the file's mtime with `lastMod`: a
write sets it (`AfterWrite`), a stat clears it. The steps of `Watch` are in their
order in the code (`SyncEnabled`, `StatPolicy`, `ReadPolicy`, `GlobCommands`,
`ApplyCommand`, `RemoveCommand`, `Export`), and either process may go down between any
two. `dashTrusted` and `dashRules` are the dashboard's copies, read again when
the code reads them again. `storeUp` says whether statements on the rule table
succeed: the disk may fail, and `main` closes the store on its way out without waiting for
`Watch`. `ApplyCommand` then deletes nothing and `RemoveCommand` removes the command
all the same. Left out: history.json (a read-only export), seeding
(the file exists after the first start), and an I/O fault of the read of `policy.json` that
follows a successful stat, after which the code would not look at that edit again
(`control.go:112`).

### `Engine`: a decision

`Begin`, `MatchPolicy`, `CheckTrust`, `LookupRule`, `ScanHead`, `CheckHelper`,
`Ask` and `Push` are the reads and writes of `decideInner` and `Decide` in
their order (the audit row `Decide` pushes is in `Agent`). `MatchPolicy` keeps the glob
that matched in `category`, and `LookupRule` looks for rules of that glob although the
policy may have another by then; a lookup that fails counts as no rule (`RuleFor`).
Between any two of the steps `InputChanges` may flip the kill switch, swap the policy,
insert or revoke a rule, make the rule store fail or recover, rewrite the file, start or
stop the helper, or let time pass. `Panic` is the deferred `recover`. `Instant` states what a
decision taken in one moment would answer, as a list of tiers; `could`,
`changes` and `swapped` are history that relates a real decision to it. A swap
of policy and trusted apps together is the one change that does slip through:
`decideInner` takes the policy lock twice, so a decision may deny what both the
old and the new configuration allow. `OneChangeIsAtomic` leaves it out.

### `Ipc` and `Agent`: the process

A connection is a slot with two ends, `client` and `server`, and the frame
written on it and not yet answered, `request`. The command line is `Dial`, `Send`
and `HangUp`; a client may send nothing at all, or vanish between any two steps.
`Accept` and `Spawn` are the two halves of one turn of `acceptLoop`, and a connection in
between (`"accepted"`) is what makes the order in `Stop` matter. `ReadRequest`
and `CloseConn` are the outcomes of `ReadFrame`; `Serve` is `dispatch`, one call of
`daemonBackend` and one frame back (`Respond`). `CloseListener` and
`WaitReturns` are `Stop`: the kernel resets what it had queued, and the
WaitGroup counts the loop and the handlers. When `ipc.Start` fails, the
agent runs without a listener, which is an initial state.

`Order` is the order in which `main`'s deferred calls run: cancel the context,
close the hook, stop the server, close the audit store, close the rule store, and
then the process is gone (`Alive`). `done` counts them; the other goroutines go on
until the end, and none but the server's is waited for. `Decided` and `Record` are the run
loop as the audit channel sees it, `WriterTakes` and `WriterEnds` the writer,
whose INSERT may succeed, fail or panic, and never has to return. `TailAudit` and
`Status` need the audit store's only connection (`AuditIdle`). `sound` is
history: the rule store was open when the decision looked rules up.

### `Identity`: the ancestry walk

`exe` and `parent` are the process table; `Fork`, `Exec` and `Exit` change it, a pid
not in use may come back as another process, and orphans go to launchd.
`ReadPath` and `ReadParent` are the two system calls `Resolve` makes per ancestor.
`Fails` is its error return together with the fallback of `decideInner`: with an empty chain
the event's executable becomes the identity, and otherwise the chain read so far
is kept, with empty keys. `Compute` makes the keys; a key is what is hashed.
`Decide` ends the decision, and an "always" adds a rule with the keys of the walk
(`Asked`, which is `apply`'s refusal of empty keys). `past` and `changes` are history: the
ancestries the opener has had since it opened the file, and how often its ancestry, or
what the walk still had before it, has changed.

## The runs

| run | what it checks | instance | about |
|---|---|---|---|
| `es_glue` | `TypeOK`, `AnsweredOnce`, `NoUseAfterFree`, `NothingForgotten`, `DenyOnlyFromAgent`, `CountersBalance`, `OpenSettles`, `SelfOpenReturns`, `QueuedIsFreed`, `ImplementsAuthOpen` | 2 messages, channel of 1, 1 rejected answer; the agent may stall for ever | 172 k states |
| `rule_book` | `TypeOK`, `LookupDeterministic`, `PathBeatsCategory`, `NeverOverwritten` | 1 path, 1 category, 1 chain, 1 executable, 3 ids, 2 instants | all four kinds of rule meet; 454 k states |
| `prompt_cycle` | `TypeOK`, `SinglePrompt`, `AskedOnce`, `RulesAreChosen` | 2 identities, 1 file, 2 ids, bus of 1, 3 answers | 1.6 M states |
| `prompt_cycle_live` | `RequestsLeave`, `RepliesLeave`, `TrustTakes`, `TrustIsKept` | 1 identity, 1 file, 2 ids, the app is trusted each time, no cooldown | accesses come as fast as they can, and saves are cut in two by polls, restarts and crashes; 37 k states |
| `control` | `TypeOK`, `PolicySettles`, `SwitchFollows`, `RevokeTakes` | 2 policies, 1 app, 1 rule, a store that may fail | 150 k states |
| `engine` | `TypeOK`, `OneChangeIsAtomic`, `DecideReturns` | 1 file, 6 policies with 2 globs, 2 rules, a store that may fail, bus of 1, cooldown of 1 | 501 k states |
| `agent` | `TypeOK`, `ServedFromOpenStores`, `NoVerdictFromClosedStore`, `StopIsGraceful`, `CallReturns`, `AuditHoldsUpNobody`, `ShutdownReturns` | 2 connections, 1 rule added and revoked under one id, tail, a malformed frame, audit channel of 1 | 36 k states |
| `identity` | `TypeOK`, `OneChangeSeen`, `AlwaysHolds`, `NobodysRule` | launchd and 3 processes, 2 executables, keys of 2 ancestors, 1 rule | 418 k states |
| `control_trust`, `prompt_dedup`, `prompt_always`, `prompt_once` | one property each, violated | as above | findings, below |

### Why the bounds are enough

* Messages of the hook interact only through the channel, the callback thread
  and the loop. Two messages put one in the loop and one in the channel, one in the
  channel and one in front of a full channel, or one in the loop that is the
  other's blocked opener. A larger channel adds no new relation: the code
  only tests for full and empty. What two messages cannot show is one in each of the three
  places at once; the proofs hold for any number of messages and any capacity.
* A lookup sees a rule as one of four kinds, live or not; three rows hold every pair
  of kinds and an outsider. Rows whose key is of the other kind (a chain as an
  executable, a path as a category) match nothing.
* Two identities with different chains and one executable are the smallest pair
  that shares "always for this executable" rules but neither chain
  rules nor dedup keys. Two ids are one request on screen and one behind it; a
  third would only wait longer in the bus. The three answers give a rule of
  either breadth and either verdict and one that gives none ("deny" with the trust
  entry selected is a deny rule for the exact process: the code clamps the index).
  `prompt_cycle_live` has one identity, which needs a restart to have two requests
  at once, and no cooldown: that only delays accesses. Its user always trusts the app, so that
  saves never end; that a rule to the contrary or a second reader makes no difference is in
  the theorem `TrustStays`, and chains longer than a readable one are in `OfferFitsShortChains`.
* One rule under one id is enough for the id to be reused while a command or the
  dashboard still names it; two policies tell an old one from a new one.
* The engine's policies differ in action, in the trusted apps, in both, and in the glob that
  matches the file; one rule is for the path and one for the first of the globs. A cooldown is
  read as zero or not, so one unit is enough.
* Beyond one change during a decision nothing is claimed of its outcome, so the
  history stops at two. A channel of one is full, empty, and filled again.
* Handlers of the agent meet in the rule table, the audit store's connection and the
  WaitGroup. Two connections put one handler in an INSERT's way while the other
  is between `Accept` and `Spawn`, in the kernel's queue or silent; a slot is used
  again, so clients come one after another without end. Of the requests, `status` asks of
  the agent what `tail` does, and `list` and an unknown tag change nothing, like the
  revocation of an id that is not there; they are left to the proofs.
* Keys of two ancestors, a walk of three and launchd with three processes make chains
  shorter than a key, of its length, of what the walk reads, and longer than that; one
  free pid is enough to be given out again under the walk.

`CHECK_DEADLOCK FALSE` is stated because these systems may really stop: the
hook when it is shut down or every message of the instance is settled, the rule
book at its horizon, the prompts, the engine and the walk when nobody opens a file,
the agent when its process is gone.

### Fairness

The subscripts of `WF_` and `SF_` are variables the actions always change, which
says the same as all variables and is cheaper to check.

* Hook: the ES callback thread does not block (the channel send has a `default`),
  `dispatch_after` runs every timer block, and whoever won the exchange goes on to
  `es_respond_flags_result`. The last is needed: the timer gives up once
  `responded` is set, so between the exchange and the answer the open depends on a
  thread that calls only the framework. Of the agent loop nothing is assumed in
  `Spec`, except that an `open(2)` of its own returns once settled; `QueuedIsFreed`
  names as its own hypothesis that it keeps running.
* Prompts: both processes poll with tickers (250 ms, 0.3 s), the drainer
  goroutine and the control channel run, launchd restarts the helper (`KeepAlive`), and a dialog that was
  answered closes. `Scan` is strongly fair: it is disabled while the helper is
  down, and a helper that stops over and over still completes a scan in between. So is the processing of each single reply,
  since every poll goes through all the replies it finds; with weak fairness of
  the poll alone TLC shows one reply starving behind others. The reload of `policy.json` is
  strongly fair: saves may follow each other for ever, but not every poll falls between the
  truncation and the bytes of one. What the main thread has begun it finishes, unless the helper
  stops first, which is never excluded.
  Nothing is assumed of the user: he may leave a dialog up for ever.
* Control: the 250 ms ticker drives the polling goroutine, a write begun is
  finished unless the helper goes down, and the extension is not restarted for ever: a
  restart before every poll would leave commands on disk for good.
* Engine: a decision that can take a step takes one; nothing is assumed of whoever
  drains the bus.
* Agent: a goroutine that can take a step takes one, and a shutdown once begun goes
  on (nothing makes one begin). `Accept` is strongly fair for each connection because the kernel
  hands them out in their order, and so is `Serve`, because `database/sql` gives
  its one connection to those who wait for it while the writer takes it again and again.
  Nothing is assumed of clients, of new decisions or of INSERTs: the properties
  that need INSERTs to return (`InsertsReturn`) or clients to hang up
  (`ClientsHangUp`) name that as their hypothesis. `ShutdownReturns` needs both: one
  idle client does hold up a shutdown for ever, as `Stop` waits for its handler.
* Identity: no liveness is claimed of the walk; it is bounded by its length.

### Findings

Four statements of the sources about the program turn out false in the model;
each has a run that shows it.

* `prompt_dedup`: the spool marks a request as pending until it has processed a
  reply with the request still on disk. The helper deletes requests after 30 s
  without telling. From then on the reader is denied that file without a
  prompt until the extension restarts, although nothing is outstanding
  (`promptspool.go:81`).
* `prompt_always`: the helper reaps a request even while its dialog is on screen.
  An "always" given after that is applied to an empty request and makes no rule
  (`promptspool.go:4`).
* `prompt_once`: "allow, just this once" leaves nothing behind that the engine
  reads; the re-run is denied (`docs/index.html:233`).
* `control_trust`: the dashboard writes back the list of trusted apps it read when
  its window was opened. An app trusted from a prompt meanwhile is dropped by the
  next "Browse…" that adds another (`helper/main.swift:316`, `366`).

The three prompt runs use `Steady`, in which neither process ever stops, so that
none of them rests on a crash.

## The proofs

### The hook (`EsGlueProofs`)

Assumption: `EsGlueAssumption`, the types of the constants. The invariants of
`EsGlue` are not inductive: that a record is freed only after its last use
rests on how the count relates to the two parties, and that a message is answered
once on who may be between the exchange and the answer. `IInv` says so:

* `RecordInv(m)`: the count equals the number of parties not yet done, and the record
  is freed exactly when both are;
* `ExchangeInv(m)`: `responded` holds exactly when there is a winner, only the winner
  may be about to answer, and `answers` is one from its answer on;
* `KernelInv(m)`: what the kernel was told came from an answer, and a deny from
  the agent's;
* `CallbackInv`, `LoopInv`, `QueueInv`: the callback thread, the loop and the
  channel hold disjoint messages, each in the state its next step expects. That no
  message is twice in the channel is needed for the loop to find the one it takes
  untouched.

`IInv` is preserved, one lemma per action; from it follow `TypeCorrect`,
`AtMostOneAnswer`, `RecordsOutliveUse`, `NothingLeaks` and `FailsOpen`.
`RefinesAuthOpen` shows that every step of the hook is a step of `AuthOpen` or a
stutter, with a deny justified by `KernelInv` and `ExchangeInv`.

### The hook's counters (`EsGlueProofs`)

No assumption is added: `Msgs` may be infinite, but only finitely many messages
have been delivered at any moment. While the hook is active no message is orphaned
(`Placed`), and each counter is the size of a set of messages (`Tallies`): those handed to
the channel, those answered inline, the rejected answers, those the agent or the timer
won and is done with. When everything delivered is settled the last two fill the
first, which is `CountersAddUp`.

### The rules (`RuleStoreProofs`, `RuleBookProofs`)

`RuleStoreProofs` holds what every user of the table needs. A finite table has a
largest id (`LargestId`, from the well-foundedness of strict inclusion of finite
sets), so the id SQLite gives a new row is not in use (`NextIdIsNew`), and
inserts and deletions keep a table `Sound`: finite, with the columns' types, the
unique index and the primary key. In the rule book `IInv` is `TypeOK` and `Sound`, which
gives `TableIsTyped`.
With well-formed rows (the `CHECK` constraints) the unique index makes two best rows of a
lookup equal (`OneAnswer`, and from it `LookupHasNoChoice`): equal rank fixes both kinds, the kinds and the
lookup key fix the four columns of the index. `PathWins` follows from the order of
ranks, `RulesAreNeverOverwritten` from the index.

### The engine (`EngineProofs`)

Assumption: `EngineAssumption`, the types of the constants and that new rows satisfy the
`CHECK` constraints. `OneChangeIsAtomic` speaks of the end of a decision
only; `IInv` says at each step of it what it has passed and what is left.

* `Rest` is the answer the decision will give if nothing changes any more. Its own
  steps do not alter it (`DecideFollows`), which for the rule lookup needs that it has one
  answer (`OneVerdict`, from `RuleStoreProofs`).
* `Passed` says that the tiers behind it do not hold. It is true until something
  changes, and makes `Rest` the answer of an instantaneous decision
  (`PassedIsInstant`).
* One change leaves `Passed` true or `Rest` alone (`ChangeKeeps`): each input is read by
  one step, so what is changed either has still to be read or no longer counts; the store's
  health is read with the rules. The policy is
  read by two, which is why a swap of both its parts is left out. The glob is read by the first
  of the two and used at the lookup: `Rest` looks rules up by the glob that is kept once there is
  one (`Kept`) and by the one that matches now before that (`Fresh`), so that new entries swapped in
  between the two do not alter it.

`EngineTyped` and `OneChangeDoesNotSlip` follow.

### The prompts (`PromptCycleProofs`)

Assumptions: the types of the constants (`SpoolDirAssumption`, among them that the
empty path is no file's; `PromptHelperAssumption`; `PromptCycleAssumption`). None of the three
properties is inductive, as each depends on what another place remembers of a request:

* `Marked`: a request is in `pending` until a reply to it is being processed, so
  that `Write` makes no second one. Clearing the key of a reply leaves the others
  marked because no other request has that key, and the zero key is nobody's;
* `Remembered`: a request this run of the helper has shown is in `presented`, which
  is pruned only of requests that are gone; `OneDialog`: a dialog holds the gate;
* `Faithful`: a reply or a dialog that bears a request's id is about what the
  request is about, as an id is not given out while anything refers to it;
* `OneFile`: an id names one request file.

Most steps change requests in age and count only (`Touched`). `PromptsTyped`,
`OnePromptEach`, `EachIsAskedOnce` and `RulesAreTheUsers` follow, for restarts of either process
at any step.

`TrustStays` (`TrustIsKept`) adds `FileLeads`: the engine trusts no app that the file lacks, or,
while the file is truncated, the document about to be written. Saves only add apps to
what they have read (`TrustGrows`), and the engine looks at trust before rules, so what is
left is a start that finds the file torn or ruined. That such a start does end trust is
what the property allows, and what the code does.

Two theorems say how far claims of the sources are true. `OfferFitsShortChains`: for a chain of
at most `MaxDepth` entries, the app a prompt offers covers the reader; for a longer one the
offer is the ellipsis. `AnswersInTimeCount`: an
"always" that is processed while its request file is there, for an identity with a key, makes the
rule the user chose, with his verdict and for good, if no row of its key is there. If one is,
lapsed or to the contrary, the rules stay as they are and the answer is dropped, as `Insert`
fails and its error is only logged.

### The agent process (`AgentProofs`)

Assumptions: what a client may send (`IpcAssumption`) and a channel of at least one
(`AgentAssumption`). That a request is served from open stores says nothing of
the accept loop, and is not inductive: a handler could start after `Wait` has
returned. `IInv` adds

* `AcceptInv`: a connection that is accepted and has no handler yet is the accept
  loop's, which is then still counted;
* `StopInv`: once `Stop` has returned there is no loop and no handler, and nothing can
  make one;
* `VerdictInv`: a verdict taken from a closed rule store means that the hook was
  closed before;
* `Sound(rules)`, kept by the lemmas of `RuleStoreProofs`.

`HandlersEndFirst`, `VerdictsSawTheRules` and `AcceptedAreAnswered` follow, with
`ClosedByThen` as the order of the deferred calls.

### The control channel (`ControlProofs`)

Assumption: `ControlAssumption`, the types of the constants and that new rows satisfy
the `CHECK` constraints. `IInv` holds the types and `Sound(rules)`, and what each of
the liveness properties rests on:

* `NoEditIsMissed`: a usable document that is in `policy.json` and not enforced is
  newer than `lastMod` or about to be read. The poll takes the mtime first and the bytes
  afterwards, so a save between the two is read at once and read again; a write sets the mtime
  when it ends, not only when it begins (`AfterWrite`), which is why bytes read half-way are
  not the last that is read;
* `TornWrite`: while the helper writes, the file holds no document;
* `SwitchIsKnown`: the controller's belief is the engine's switch. A start that believed the
  marker without setting the engine would break it;
* `RoundInv`: a round of commands has a next one while it lasts.

`ControlIsTyped` (the engine never runs under the empty policy), `EditsAreNotMissed`
and `SwitchIsTracked` follow. `CommandsAreKept` needs no invariant: a command file goes only
in the step after its row, or after the store has failed on it (`Refused`), or stays. What a scheduler adds to these, that the poll comes
round, is the part of `PolicySettles`, `SwitchFollows` and `RevokeTakes` that only the
run `control` checks.

### The identity walk (`IdentityProofs`)

Assumptions: `IdentityAssumption`. A chain never has more entries than the walk may
append because it is checked before the next one is read (`DepthInv`); the
fallback can always name an executable (`OpenerInv`); and no rule has the keys of
a failed walk (`NoEmptyRule`), since `Asked` filters what is added. `WalkIsTyped` and
`NobodyIsAllowed` follow from these three.

`ChangeIsSeen` (`OneChangeSeen`) and `AlwaysIsKept` (`AlwaysHolds`) relate a walk of
two system calls per ancestor to ancestries there were at single moments. The
argument is

* the process table has living parents and no cycle: there are ranks that fall from child
  to parent down to launchd (`GoodTable`). A fork, an exec and an exit keep it so
  (`TableKept`). A walk therefore climbs only over processes that live, whose parent no fork
  changes, and meets none of them twice;
* while nothing has changed, what was read is the opener's ancestry from its own entry up to
  where the walk stands (`Fresh`), so that it returns that ancestry;
* what the walk returns if nothing disturbs it any more is what it has read `Joined` with
  the ancestry of the process it stands at (`Returns`). One change of the ancestry either
  happens beyond what was read, and then the join is the new ancestry; or behind
  it, and then the join is still the old one; or it takes away the very process the walk stands at, and
  the walk fails; or the opener itself is gone (`ProcessesOvertake`, from `ForkIsMissed`,
  `ExecOvertakes` and `ExitOvertakes`). An exit is the hard case: it
  moves whole families to launchd, shortens the path, and may bring entries under
  the limit that were cut off before;
* the walk's own steps do not alter `Returns` (`JoinedWhenRead`, `JoinedAtTop`,
  `JoinedAtLimit`, `JoinedWhenClimbed`).

`WalkInv`, `EndInv`, `IdleInv` and `RuleInv` put this together with the types in
`HistoryInv`. TLC checked it on the instance of the run `identity` first. An ancestry is
`Climb`, a recursive function of the number of steps, cut at the limit or at launchd. What
the proofs need of it is its value one step further (`ClimbIs`), which is an induction. The library's
induction theorem takes an operator, which no installed prover can instantiate;
`SetInduction` says the same of a set of numbers, and follows from the well-foundedness of
`<`.

### Only model-checked

Every invariant that a passing run checks, and every action property (`NeverOverwritten`,
`RulesAreChosen`, `StopIsGraceful`, `TrustIsKept`), is proved. Only model-checked is liveness: `OpenSettles`,
`SelfOpenReturns`, `QueuedIsFreed`, `RequestsLeave`, `RepliesLeave`, `TrustTakes`,
`PolicySettles`, `SwitchFollows`, `RevokeTakes`, `DecideReturns`, `CallReturns`,
`AuditHoldsUpNobody`, `ShutdownReturns` and the fairness half of
`ImplementsAuthOpen`. Fairness is about `ENABLED`, which is out of the proof system's
reach. Of three of these, those of the control channel, the safety half is proved.

## Not modelled

* The classifier's patterns, glob syntax, SQLite itself, JSON and wire formats, logs:
  pure conversions or other people's code. The engine takes their results as inputs.
* Hash collisions: keys of identities are injective.
* The dashboard's tables and menus, the host app and packaging: they
  call one operation at a time and keep no state of their own.
* The mock hook and the stubs for other platforms; the legacy path rules, which
  the agent does not use any more.
* What the audit table holds: an append-only table nothing decides on.

Facts of the code that no run is about:

* A chain of nine entries or more is sent to the helper cut to eight names and "…"
  (`identity.go:49`), and the last name is what the prompt offers to trust
  (`helper/main.swift:69`). "…" in `trusted_apps` covers nobody, against the comment at
  `helper/main.swift:50`; `OfferFitsShortChains` has the boundary.
* A revoke command whose DELETE fails is removed all the same (`control.go:136`, `144`): the
  rule stays, and another click is needed. `RevokeTakes` and `CommandsAreKept` name this
  as the only exception.
* A helper that goes down between the truncation of `policy.json` and its bytes has lost the
  policy and the trusted apps (`helper/main.swift:47`): `TrustTakes` and `TrustIsKept` name it.
* A lapsed rule keeps a new one of its key from being inserted (`rules.go:103`), and an answer
  that is read half-written is lost (`promptspool.go:139`).
* That an open is settled before the kernel's deadline, and not only in the end, is a matter of
  the timer's length (`esf_glue.c:161`), and time is not in the model of the hook.
* History may say "deny" of an open the safety timer has already allowed: the row is
  pushed before the answer is given (`engine.go:225`).
* Trust is looked for in the nine entries a walk reads, so a trusted app further up is
  not seen (`engine.go:270`).
* `scdlp rules add` does not refuse an identity key that is empty
  (`cmd/scdlp/rules.go:66`); `NobodysRule` is about rules made from prompts.
* A client whose connection ends after `AddRule` and before the reply does not learn
  that its rule was added (`server.go:83`); asking again gives a constraint error.
* An ancestor beyond a key's depth that exits during the walk makes it fail, though the
  key does not depend on it (`ancestry_darwin.go:21`).

## Plan

What is left, in this order:

1. `Scdlp`: `EsGlue` with `Engine`'s decision in place of an arbitrary verdict, for
   the time between a verdict and the answer that wins.
2. `PromptCycle` with an identity without keys, which shares its dedup key with all
   others of its kind.
3. Proofs: the safety halves of the agent's liveness (`CallReturns`, `ShutdownReturns`): at every
   point of a shutdown somebody named in the state has the next step.
