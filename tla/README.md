# Hydra in TLA+

Hydra is a proxy between an MCP client (an AI tool) and an MCP server. It starts
the server as a child process, copies JSON-RPC messages both ways, restarts the
server when its source files change, and keeps what the client needs to notice
nothing. This directory holds TLA+ modules of its parts, the TLC configurations
that check them on small instances, and TLAPS proofs of what matters most.
Paths below are relative to `src/internal` unless they begin with `docs/` or a
capital.

    tlasany M.tla                     parse
    tlc -workers 2 -config X.cfg M    check
    tlapm M.tla                       prove

## 1. Inventory

| Part | State | Operations | Hard because |
|---|---|---|---|
| supervisor (`supervisor/process.go`) | state, process, pid, restart times, a WaitGroup, a monitor goroutine per child | Start, Stop, Restart, ResetRestartCounter, monitorProcess | Stop and Restart release the mutex while they wait; the monitor reads a field that other calls overwrite; a child may ignore SIGTERM; crash-loop window |
| watcher (`watcher/`) | pending event, last flush, a timer, three channels, the directories it has added | Start, addPathRecursive, run, callbacks of `time.AfterFunc`, flushEvent, Stop | a timer that fired cannot be stopped; bounded channel; close against send; directories that are made while it walks |
| proxy (`proxy/`, `statestore/store.go`) | state machine, queue, store of initialize parameters and subscriptions | client and child messages, handleFileChange, crashLoop, Shutdown | order of queue, replay and new messages; late answers; expiry; full queue; Shutdown beside the loop |
| `hydra run` (`cli/run.go`) | none of its own: wires the others | boot, watcher goroutine, proxy.Run | two goroutines on one supervisor; the pipes of the first child are kept |
| state files (`state/`, `cli/ps.go`) | one JSON file per server | SaveState, ListAll, CleanupStale, DeleteState | several processes, no lock between them, truncate-then-write, delete by name |
| registry (`config/`, `cli/add,remove,edit,tune`) | one JSON file | load, change, save | lost updates, torn writes |
| discovery (`discovery/`, `cli/discover.go`) | none | scan, resolve conflicts, merge into the registry (called by tests only) | files that change after the scan; two clients with one server |
| options (`cli/root.go` and every command) | one table of options, viper's, for all commands | bind, parse, look up | the same key bound by many commands: who hears what |
| bootstrap (`bootstrap/`, `cli/init,uninit`) | the client's configuration and its backup | init, uninit | crash between several writes |
| injectable tools (`injectable/`) | none; two goroutines' use of the supervisor | hydra_restart, force restart, status, logs, metrics | polls the supervisor's state while others restart |
| recorder (`recorder/`, `cli/export.go`, `cli/logs.go`) | a bounded buffer, the exported files | record, export at a crash, `hydra export`, `hydra logs` | eviction, what is forwarded but not recorded, redaction of some parts by patterns merged from three places, one path for several servers |
| configuration (`config/`) | none | defaults, merge, validate | an empty field that must not undo a full one |
| metrics and learner (`metrics/`, `adaptive/`, `cli/tune.go`) | counters, latencies, observations | record, score, suggest, apply | boundaries of the scores, suggestions that feed themselves |
| security (`security/`) | a token bucket, regular expressions | Allow, Redact, size check | the refill at the boundary of an interval |
| transport, sanitizer (`transport/`, `sanitizer/`), the loop (`proxy/proxy.go`) | a buffered reader per end, two readers, one loop, four pipes | read a line, classify, forward | pipes that are full both ways; an error that overtakes messages; an end that leaves at any time |

Calls: main makes the supervisor, calls Start, makes the child transport of the
child's pipes, starts the watcher's consumer goroutine (which calls
`supervisor.Restart` directly) and enters `proxy.Run`, which calls Start again
and loops over the two transports. A third goroutine saves the state file every
five seconds. `hydra ps`, `add`, `remove`, `init` and the others are processes of
their own that meet `hydra run` in files only. The proxy's `handleFileChange`
and its merging of hydra's tools are called by tests and not by `hydra run`,
which passes no tools; the collector's Record methods and the learner's Save have no
caller outside tests either: `Proxy`, `ToolCalls` and `Tuning` model the components as
their packages promise them, `HydraRun` the program as it is wired.

The correctness properties of each part are those of section 3; what can go wrong
where is listed in PROJECT.json under `hazards`.

## 2. Modules and the code

| Module | Models | State and actions |
|---|---|---|
| `Supervisor` | process.go | one variable per field; every critical section of `s.mu` is one action. Restart is `RestartRefused`, `RestartStops` or `RestartFindsNothing`, then `WaitTimesOut` (the SIGKILL after five seconds), `Cleanup`, `RestartStarts`; Stop is `CallStop`, the same wait, `Cleanup`. The goroutine that waits on `monitorWait` is `WaiterChecks`, `WaiterWakes`; a monitor is `MonitorReads`, `MonitorReaps`, `MonitorReports`, `MonitorExits`. Children exit at any time (`Exit`). |
| `ChildLifecycle` | supervisor.go: what its interface promises | the live children and the state reported; `Supervisor` implements it in serial use, with live children for `live` and `state` for `status` |
| `HydraRun` | run.go over `Supervisor` | EXTENDS Supervisor; adds main's program counter and the child whose pipes the transport reads. Callers is the watcher's goroutine. |
| `Watcher` | fswatch.go and the consumer of run.go | the loop and each timer callback are processes with a program counter; taking the pending event, stamping and sending are separate actions, as in the code |
| `WatchTree` | fswatch_paths.go and Start | extends `Watcher`: the directories there are and those that have been added, and the walk of filepath.Walk, whose reading of names and adding of a directory are two actions; the loop walks in the middle of an event |
| `Proxy` | the proxy package, statestore | one goroutine handles one message at a time, but not in one step: `handler` says where it is and `outbox` what it has still to write. The look at the state (`ForwardRequest`, `InitializeResponse`, `FileChange`), each write to the child (`WriteToChild`, `WriteFails`) and what follows (`ChildMessage`, `Restart`) are actions; between them Shutdown, of another goroutine, sets the state (`Shutdown`) and closes the transport (`ShutdownCloses`), and the child may end (`ChildDies`). A write that fails is only logged, and `lost` remembers its request. The child reads, and answers in any order. |
| `StateFiles` | manager.go, cleanup.go, ps.go, the saving goroutine of run.go | opening (truncating), writing, reading one file, testing one pid, unlinking are one action each; instances die anywhere |
| `ToolLists` | tools.go | operators only: the merging of two lists of tools under each policy; used by `Proxy` |
| `Relay` | what hydra promises its two ends | what each end has said and the other not yet heard, what each has heard, and the lines that are broken; `MessagePath` implements it |
| `Selection` | `SelectSeq` for a set, as a recursive function | operators only; used by `MessagePath` and by `Proxy`. `SelectionProofs` has its lemmas, and those on sequences that the proofs about queues and pipes need. |
| `MessagePath` | loop and readLoop of proxy.go, forwarding.go, stdio.go, classifier.go, the Wait of process.go | two ends with their pipes, a reader with a buffer each, and the loop. `Fill` is a read of the pipe of any size, `TakeLine` the sanitizer, `Take` the select, `Forward` a write that blocks while the pipe is full; `Reap` is the monitor that closes the child's pipe. |
| `Discovery` | scanner.go, merger.go, pathutil.go | operators only: scan, choice, merge |
| `CommandLine` | root.go, the flags of each command, init, uninit, discover, generic.go | the clients' files, their backups, the registry, the last scan and the last command line with what the command heard of it; a command is one step |
| `ToolCalls` | injectable/restart.go | extends `Supervisor`: the tool each goroutine is in, and a history of the children there were when it was called; a look of the poll that changes nothing is no action |
| `ClientConfig` | generic.go, uninit.go, add.go, remove.go, edit.go, tune.go, registry.go | three files, and per command a program counter and what it has in memory; loading, truncating, writing and removing one file are one action each; `Dies` is a kill or a failed write between any two. What the files keep of an entry is whose command it holds. |
| `ServerConfigs` | config.go, loader.go | constants and operators only: the defaults, the merge field by field, validation. Texts, numbers and lists are merged when they are not zero; a switch can only be turned on by a merge. |
| `CrashExports` | recorder.go, recording.go, redact.go, loop's end in proxy.go, export.go, logs.go | extends `ServerConfigs`: a configuration, a buffer and a count of what has passed per server, the exported files by path. `Message` is what the loop forwards: recorded if it is one message, passed over if not. A message has its texts by its parts, of which `prepareForExport` redacts four. An export that fails writes nothing; a file torn by a death inside the write is not modelled. |
| `Metrics`, `Tuning` | collector.go, types.go; learner.go, tune.go | the collector's lists and a clock of chosen instants; scores and percentiles as operators in integers (the rounding of floats is not modelled). `Tune` is the whole of `hydra tune --apply`, its rules one operator each. |
| `MC...` | constants for TLC | model values and small sets |
| `...Proofs` | theorems | section 5 |

`map` in PROJECT.json gives for each definition the lines it translates.

Abstractions that matter: a child is a model value, its exit status is not kept.
Time is a counter of ticks; only comparisons of times the code makes are kept.
`StateStarting` lives inside one critical section and is never seen. A client
request is its position in what the client sends, with a kind and perhaps a URI.
A message in `CrashExports` is its number and, of each of its parts, the texts that the patterns tell
apart; a pattern that does not compile matches nothing, and what replaces a match is not followed.
A line in `MessagePath` is its place in what its end has written, with a class; a client's
file in `CommandLine` is missing, torn or the kinds of its entries. A state file is the instance whose State it holds, or empty, or garbled.

## 3. Runs

Runs that pass:

| Run | Properties | What it shows | Bounds and why they are enough |
|---|---|---|---|
| `supervisor_serial` | EveryChildHasAReaper, ImplementsLifecycle, CallsReturn, DeathIsReported | One caller that mixes all four methods, three children that die at any time or ignore SIGTERM, three restarts over two ticks: no second child, no unreaped child, no missed death, every step is a step of ChildLifecycle, and with fair goroutines, timers and SIGKILL each call returns. | One caller, three children, `MaxRestarts` 1 in a window of 2 ticks, time to 2, starting again in any state but FAILED. Three children are needed for one that dies, one that is being stopped and one that is new; a granted and a refused restart reach both branches of the gate; two ticks let a restart leave the window. |
| `tool_calls` | RestartsBounded, SuccessIsFresh, ForceGetsThrough | A goroutine that handles hydra_restart and hydra_force_restart beside another that calls any method at any time, and children that die: what the lock alone guarantees still holds, crash-loop detection first of all, and the RUNNING that a tool reports is never that of the child it was to replace. | Two callers, one of which uses the tools, two children, one restart granted in a window of two ticks, three restarts, time to 2. Two callers are enough to put any call between the two critical sections of another, and between the looks of a tool that polls. |
| `watcher` | PendingIsScheduled, NoEventWithoutAChange, SeenUnlessLate, ChangesAreServed | Directories that are made and a source file in one of them that changes, three changes in all, a channel of capacity one, a busy consumer and a Stop at any time: no pending change is forgotten, no change is reported twice, every directory is found that is not made inside one window of the walk, and a restart follows each change that no unwatched path hides. | A directory in a directory and one that is ignored, a source file in the first, any of them made before, during or after the walk of Start; three reported changes, a debounce of one tick and a batch window of two, one slot in the channel, two ticks: a batch that is extended, one flushed at once, a full channel, a callback that fired before it was stopped and a Stop at any time all occur, and so does a directory made at each step of a walk. |
| `proxy` | SubscriptionsSurvive, OrderIsKept, ReplayComesFirst, AnsweredOnce, NothingVanishes, ToldNamesAreDistinct, FailedIsFinal | Three requests of any session around two restarts and two ticks, with a queue of two whose requests expire and a child whose tools may collide with hydra's: what a new child is sent is the store's state first and then the client's requests in order, each request has one fate, and a failed proxy forwards nothing, wherever a Shutdown, the end of a child or a failing write falls between the steps of the handlers. | Three requests of the client among initialize, subscribe, unsubscribe and tools/list, a queue of two whose requests live one tick, two restarts (file changes), two ticks, one URI, and a child with or without a tool of hydra's name, or with two of its own: the queue fills, is flushed in part after an expiry, and late answers, collisions and crash loops meet it. Shutdown and the end of the child come at any step, so each write of a handler is met by them. Two subscriptions, replayed in either order, were checked in the same configuration with two symmetric URIs (the invariants, 7.7 million states). |
| `message_path` | EofComesLast, IsARelay, MessagesGetThrough, EndIsNoticed | A client and a child that write lines of either class, read, close their output or leave at any time, over pipes of one line: hydra run is a relay (Relay) whatever the interleaving of the two readers and the loop, an end of file never overtakes a message, nothing waits for ever as long as both ends go on reading, and an end that is over ends the program. | Two lines of the client and three of the child, of which some are no message, pipes of one line: a pipe that is full both ways, a buffer that is filled with several lines, a message behind noise, and an end of file at every point all occur. |
| `hydra_run` | CleanStartIsSafe, ProgramEnds | Main's two Starts and the watcher's Restarts together, three children and three restarts: if proxy.Run's Start met no Restart in flight, no second child, no unreaped child and no panic ever follow, and a restart or the first child's death ends the program. | Main, the watcher's goroutine and three children, one restart granted per window, one tick: a restart between the two Starts of main, in flight across the second, and in the loop. |
| `state_files` | NoGhosts, StaleFilesGo, StateIsSaved | Two instances under one name, which may overlap, one beside them and a hydra ps in the middle: what it lists was alive while it ran, stale files are gone for good, and the state of a live instance comes back after a wrong deletion. | Two servers, three instances of which two have the same name, one clean-up: an instance that is replaced by a new one under its name, beside another server's. |
| `client_config` | OriginalIsKept, RoutedIsRegistered, SavedIsKept | Two processes that run any of the six commands again and again and die anywhere: the client's own configuration survives unless a command dies over the backup or uninit is not alone, and one command at a time keeps registry and client's file in step. | Two commands at a time, each process running any number of commands, two servers of which the client has one. Two processes put every step of a command between any two of another; the second server is one the client does not know. |
| `command_line` | RunHearsItsOptions, PlainUninitFindsBackup, DryRunChangesNothing, MergeAddsWhatIsMissing | Any sequence of init, uninit, discover, run, status, logs and export with options or without, over files of three clients that are missing, torn, empty, routed or of an odd form and that change three times: hydra run alone hears its own options, what init backs up uninit finds, a dry run writes nothing, and a merge after a scan that is out of date takes what is missing and nothing else. | The commands in the order of root.go, one server, three client files that somebody else writes three times, --client and --config typed or not. Each option has one value besides none, which is enough to tell who hears it; two files with the same server are what a merge has to choose between. |
| `tuning` | PercentilesAreOrdered, ScoresFollowEvents, TunedLimitHasRoom | A server that records any four requests, waits and restarts before, at and after the ten seconds and the hour that the scores turn on, beside tune --apply with observations on both sides of each threshold: percentiles are ordered, scores move the way of what happened, and a lowered limit has room and is final. | Four recorded events, three durations and two waits on both sides of the thresholds, the instants 1, 10, 3600 and 5400 s, two sets of observations just at and just over each rule's count, two registry entries, debounce tuned while at most 500 ms. Four restarts put the suggested limit on both sides of its minimum of three; the last instant lets restarts leave the hour. |
| `crash_exports` | ExportIsTheTail, NoSecretIsExported, ShownIsOwn | Two servers with any of the registry entries and overrides, two crashes and the commands that read the exports: an export is the tail of what its run passed as one message, whatever batches passed in between, none has in its bodies what a pattern in force matches, and a server with a path to itself is never shown another's export or an older one. | Two servers (symmetric), three paths of which two match a pattern with `{timestamp}`, buffers of one and two, four messages of four kinds (a call, a result, an error, a batch), two crashes; a default pattern, one of a registry entry and one that does not compile; each part of a message has a text of either pattern. Three messages overflow both buffers, a fourth leaves room for a batch among them or for a second run; two crashes let a newer export, of the same or the other server, stand beside an older one; entries and overrides turn each list, number and path on and off. |

Runs that end in a counterexample, because the code does something else than a comment or a document says:

| Run | Property | What the trace shows | Code and text |
|---|---|---|---|
| `hydra_restart` | HydraOutlivesRestart | A hot reload ends the session: the loop reads the pipe of the first child and gives up at its end while the new child runs. | childTransport is made once of the first child's pipes (run.go:163), so a Restart ends the loop with "child eof" while the new child is running (proxy.go:179-182, 157-166); README.md:37 says "The AI session survives server crashes" and README.md:39 "Restarts the server instantly (< 500ms) on file save". |

Further configurations, of the same kind and outside the regular set; each ends in the counterexample described. Those that have a file of their own are named by it; the others are the configuration of a run with the values given, and with the property, as an INVARIANT or a PROPERTY, in the place of the others. Where two properties share a file, the second stands there in a comment:

| Configuration | Module | Property | Code and text |
|---|---|---|---|
| SupervisorFailedChild.cfg | `MCSupervisor` | FailedMeansNoChild | Restart sets StateFailed and returns at process.go:238-244 without touching the child; docs/ARCHITECTURE.md:163-166 says of RESTARTING -> FAILED: "1. Kill child process (SIGKILL)". Stop then returns at once in StateFailed, so the child outlives it. |
| SupervisorTwoRestarts.cfg | `MCSupervisor` | EveryChildHasAReaper | process.go:317 says the monitor's read of s.process is there to "Save process reference to avoid race", and process.go:327 "This is the ONLY place that calls Wait() on the process"; the read runs when the goroutine is scheduled, not when the child is started, so a second Restart whose cleanup ran in between makes the monitor return without waiting: the child is never reaped and its death is never reported. |
| ToolCallsHang.cfg | `MCToolCalls` | ToolAnswers | waitForMonitorUnlocked kills the child it was given and then blocks in <-done (process.go:207), but done closes only when monitorWait has counted down for every monitor; a child that another Restart started meanwhile keeps it up, and nobody kills that one. docs/CONFIGURATION.md:115 says "Max time for restart before FAILED" of the restart's timeout: here Restart, and the hydra_force_restart that called it (restart.go:62), do not come back while that child lives. |
| Watcher.cfg | `MCWatcher` | EveryDirIsWatched | filepath.Walk reads the names in a directory and then calls the function that adds it (fswatch_paths.go:35-58): a directory made in between is neither among the names nor reported, and nothing in it is ever watched; fswatch.go:59 says "Add paths recursively (including all subdirectories)" and fswatch.go:104 "Handle directory creation - add new directories to watcher". |
| Watcher.cfg, MayStop = FALSE | `MCWatcher` | EveryWatchedChangeCounts | The pending event keeps the path of the first change of a batch (fswatch.go:120-124, 138-140) and run.go:231-243 drops the event if that path has no watched extension, so a watched file that changes later in the batch causes no restart; docs/CONFIGURATION.md:140 says of extensions: "File extensions to watch (e.g., [".py", ".js"])". |
| Watcher.cfg | `MCWatcher` | EventsWaitForQuiet | When the batch window has passed since lastEvent (the time of the last flush, at first the zero time), run flushes at once at the second change (fswatch.go:147-153), so the event does not wait for quiet; docs/CONFIGURATION.md:109 says of debounce_ms: "Wait time after last file change before restart". |
| Watcher.cfg | `MCWatcher` | NeverPanics | run closes w.events when it returns (fswatch.go:87) while a callback may be in flushEvent's select (fswatch.go:185-188), whose send on the closed channel panics in a goroutine without recover; docs/ARCHITECTURE.md:738 lists under "Never:" "Panic (except in defer recover() blocks)". |
| Proxy.cfg under FairSpec, MaxRequests = 1, MaxRestarts = 1, MaxTime = 0, QueueTTL = 0 | `MCProxy` | RestartEnds | The replay of initialize is written only once a result has arrived (message_handler.go:43-48, statemachine.go:28-40), and client requests are queued until then, so a server that answers only what it is asked never ends the restart, and there is no timeout; docs/ARCHITECTURE.md:84 says "RESTARTING (target: 500ms, timeout: 10s)", ending in RUNNING or FAILED. |
| Proxy.cfg | `MCProxy` | FailedMeansQueueFlushed | crashLoop sets StateFailed and the loop returns (proxy.go:157-165) with the queue as it is; docs/ARCHITECTURE.md:175 says of RESTARTING -> FAILED: "3. Flush request queue (send error responses)". |
| Proxy.cfg | `MCProxy` | ShutdownIsClean | Shutdown sets StateStopped, closes the child transport and returns from supervisor.Stop without closing stopCh (proxy.go:87-94), so the loop reads an error from the closed transport and crashLoop sets StateFailed; and a handler that is past its check of the state writes to the closed transport, or overwrites StateStopped with StateRunning (statemachine.go:40); docs/ARCHITECTURE.md:82 says "Clean shutdown → STOPPED". |
| Proxy.cfg, QueueMax = 1, MaxRequests = 4 | `MCProxy` | SubscriptionsTracked | routeClientMessage updates the store before handleClientMessage may refuse the request with "queue full" (message_handler.go:10-30): after a refused unsubscribe the server keeps a subscription that the store has forgotten; README.md:40-42 says "When the server restarts, Hydra preserves and can replay" the "`resources/subscribe` requests (subscriptions tracked)". |
| Proxy.cfg | `MCProxy` | RefusalIsTheAnswer | tryMergeTools answers the tools/list request with an error and returns false, and handleChildMessage then forwards the child's list under the same id (message_handler.go:49-56); docs/INJECTABLE_TOOLS.md:41 says of a collision: "Refuse to start, log error with conflicting tool name (DEFAULT)". |
| Proxy.cfg | `MCProxy` | NothingExpires | Drain skips an expired request and nobody answers it (queue.go:59-64, forwarding.go:10-12); docs/testing/TEST_SCENARIOS.md:530 says of requests sent while restarting: "Assert all 10 get responses after RUNNING". |
| Proxy.cfg | `MCProxy` | WarnKeepsTheChildsTool | Under "warn" both tools of a colliding name are dropped, the child's too (tools.go:35-38); docs/INJECTABLE_TOOLS.md:42 says of warn: "Log warning, disable Hydra tool, allow child tool". |
| MessagePath.cfg, ReadsAhead <- OnlyClientReads, MaxLines <- TwoAndFour | `MCMessagePath` | MessagesGetThrough | A child that does not read while it writes: the loop is in its write to the child, the child in its write to hydra, and the loop that would read it is the one that waits (forwarding.go:20). EndIsNoticed fails with it: the end of the client is not seen. README.md:37 promises that "The AI session survives". |
| MessagePath.cfg | `MCMessagePath` | LastWordsArrive | The monitor calls Wait as soon as it is scheduled, and Wait closes hydra's end of StdoutPipe when the child exits, although the transport may not have read what the pipe still holds: the last answers of a child, its report of the error that killed it among them, may be lost. README.md:37 says "Hydra reports the error as a JSON-RPC message". |
| MessagePath.cfg, Sends <- ListingChild | `MCMessagePath` | OnlyMessagesArrive | Any JSON array passes for a batch (classifier.go:44-47), so a child that prints [1, 2, 3] has it forwarded; docs/ARCHITECTURE.md:432-443 gives an algorithm under which an array is pollution, and sanitizer.go:13 says "It ensures only valid JSON-RPC reaches the AI client." |
| MessagePath.cfg, Sends <- LspChild | `MCMessagePath` | MessagesGetThrough | Nobody calls DetectProtocol outside tests, so both transports read lines: the messages of a child that frames them with Content-Length end in the next one's header and are discarded as pollution. README.md:224 says "Auto-detects `Content-Length` headers (LSP style) vs NDJSON." |
| HydraRunStart.cfg | `MCHydraRun` | StartIsIdempotent | run.go:117 says "proxy will also call Start(), but it's idempotent"; the watcher's goroutine (run.go:228-254) runs before p.Run, and a Start that finds StateRestarting starts another child (process.go:52-57), which the Restart's cleanup then forgets. |
| HydraRunCrash.cfg | `MCHydraRun` | CrashIsRestarted | The monitor of a child that dies sets StateStopped and nothing more (process.go:345-349), and the loop ends with the child's pipe (proxy.go:157-166); docs/ARCHITECTURE.md:80 says of RUNNING: "Process crash → RESTARTING". |
| StateFilesLive.cfg | `MCStateFiles` | LiveFileStays | CleanupStale decides by the pid it has read and deletes by the server's name, whatever the file holds by then (cleanup.go:18-20, manager.go:88-89): the file of an instance that started and saved in between is deleted; cleanup.go:9 says "CleanupStale removes state files for processes that are no longer running." |
| StateFilesLive.cfg | `MCStateFiles` | TornFilesAreCleaned | os.WriteFile truncates and then writes (manager.go:61); the file of a process that dies in between does not parse, ListAll skips it (manager.go:119-123) and CleanupStale never sees it; run.go:298 says "State files persist after exit and are cleaned up by hydra ps (CleanupStale)". |
| ClientConfig.cfg | `MCClientConfig` | RollbackRestores | os.WriteFile creates the backup before it writes it (generic.go:78), init refuses as soon as the backup exists, with the advice "(run uninit first)" (generic.go:70-72), and uninit writes whatever the backup holds over the client's file (uninit.go:40-55): after a death or a failed write at line 78 that file was still the original, and is now lost; docs/CLI_REFERENCE.md:106 says of uninit "Rollback `hydra init` (restore from backup)." |
| ClientConfig.cfg | `MCClientConfig` | ServersAreRegistered | The registry is saved (generic.go:48-52) before the backup is looked for (generic.go:69-72), from a client's file that init itself has rewritten: a server that was removed comes back as an entry that starts "hydra run" of the same name, which starts itself; docs/CLI_REFERENCE.md:99 says init "Refuses to run if backup already exists (prevents double-init)" and claude.go:16 "Adds any discovered MCP servers to the Hydra registry (if missing)." |
| ClientConfig.cfg | `MCClientConfig` | NoUpdateIsLost | No lock is held between LoadRegistry and SaveRegistry, so an add that ends while an init is between the two is undone by it; claude.go:16 says that init "Adds any discovered MCP servers to the Hydra registry (if missing)", which takes nothing away. |
| CommandLine.cfg | `MCCommandLine` | OptionIsHeard | Every command binds its flags to the same keys of the one viper table, so a key holds the flag of the command bound last (root.go:12-30): `client` and `config` are those of uninit, `name` and `registry` those of export. `hydra init --client cursor --config x` therefore configures claude at its default path, its wizard is never reached, and `hydra status --name x` looks for a server with no name. run.go:52 says "In CLI: flags are parsed and available via viper" (run.go:57-79 works around it for hydra run alone); docs/CLI_REFERENCE.md:92 says "`claude` → `~/.config/claude/claude_desktop_config.json`" and so on for each --client. The package's tests call viper.Set and cannot see it. |
| CommandLine.cfg | `MCCommandLine` | FoundCanBeInitialised | Discovery looks for claude in .config/Claude (pathutil.go:57) and init rewrites .config/claude (claude.go:20); for cline and cursor, init wants --config (cline.go:12) and takes no path from the discovery. discover.go:85 says of what was found: "Run 'hydra init' to configure Hydra". |
| Tuning.cfg | `MCTuning` | ScoresMatchTheComments | The latency's score is linear from 100 at 100 ms to 0 at 5000 ms, which is 82 at 1000 ms; collector.go:210 says "50 score if P95 = 1000ms". The queue's score is 1 at 1000 ms; collector.go:225 says "0 score if avg wait >= 1000ms". |
| CrashExports.cfg, Traffic <- ChildParams, MaxMessages = 2, no SYMMETRY | `MCCrashExports` | BodiesStayOut | applyBodyPolicy drops the params of what is recorded as a request and the result of what is recorded as a response; message_handler.go records everything of the child as a response, so the params of its notifications and requests stay. docs/CONFIGURATION.md:188 says of include_request_bodies: "Include full request bodies in export" |
| CrashExports.cfg, Traffic <- ChildParams, MaxMessages = 2, no SYMMETRY | `MCCrashExports` | ShownIsOfThatServer | The default export path has no server's name in it and crash exports are written to it as it stands, {timestamp} included: the newest match is the last crash of any server. export.go:20 says of the command: "Export recorder crash dump for a server" |
| CrashExports.cfg, no SYMMETRY | `MCCrashExports` | BufferHoldsWhatPassed | What does not unmarshal into one JSONRPCMessage, a batch that classifier.go:44-47 takes for JSON-RPC or an error that is a string, is forwarded (message_handler.go:19-25, 56) and silently not recorded (recording.go:15-18), so an export need not hold what passed last before the crash; docs/CONFIGURATION.md:187 says of buffer_size: "Circular buffer size (number of messages)". |
| CrashExports.cfg, no SYMMETRY | `MCCrashExports` | NothingMatchesInAnExport | prepareForExport redacts the params, the result and the message and data of an error (recorder.go:184-193) and leaves method and id as they are: a method with password in it matches a default pattern and is in the export; docs/SECURITY.md:65 says that redaction is applied to "**Traffic recorder** → Before export to JSON", and 28-30 "Hydra applies regex-based redaction to" the "Traffic recorder exports". |

Deadlock is checked everywhere but in `CrashExports`, where nobody has to start anything and all crashes may have been, and each other specification of processes has a step `Rest` (or `Over`) that is enabled exactly where the program may stop for good.


## 4. Fairness

Temporal properties are checked under `FairSpec` (`FairTreeSpec` in `WatchTree`): every goroutine that can run
does (Go's scheduler), armed timers fire, the kernel kills a child that was sent
SIGKILL, an end that reads and writes goes on with a line it has begun, a reader whose child has ended gets the end of the file, a live instance's ticker goes on and an ended restart is taken up. No
fairness is assumed of calls, of file changes, of the client, of the child's exit
or of its answers to SIGTERM. The consumer of the watcher is fair because
`CallsReturn` (of `Supervisor`) says that a Restart returns.

## 5. Proofs

`ConstantsOK`, `HydraConstants`, `StateFilesConstants`, `ClientConstants`, `ToolConstants`, `DefaultsOK`, `ExportConstants`, `ProxyConstants`, `PathConstants`, `WatcherConstants`, `TreeConstants`, `CommandLineConstants`, `MetricsConstants`, `TuningConstants` are assumed: the
types of the constants, and for `WatchTree` that the directories are those of a tree.
TLC evaluates them in every run. `SerialUse` and `HydraUse` are hypotheses of the
theorems that need them; the run of `HydraRun` evaluates `HydraUse` too. All sets are of any size unless a
theorem says otherwise.

- `SupervisorProofs`. `Typing`. `ActiveHasProcessAlways`: inductive with the type.
  `RestartsBoundedAlways`: that no window holds too many granted restarts is not
  inductive, as the code counts `restartTimes` and not what was granted; `WindowInv`
  adds that every granted restart still inside the window is in `restartTimes`.
  `SerialInvariant`, `SerialUseIsSafe`, `SerialUseImplementsLifecycle`: with one
  caller that does not call Start in FAILED. The five properties fail to be
  inductive because they do not say what a waiter may conclude from the
  WaitGroup, or that a monitor that has not yet run will find its own child;
  `SerialInv` (`MonitorInv`, `StateInv`, `CallerInv`, `NoPanic`) says so.
- `SupervisorProofs`, on `HydraRun`. `HydraTyping`, and `CleanStartIsAlwaysSafe`, for
  the watcher's goroutine as the only caller (`HydraUse`): `HydraInv` says
  that up to the loop main and watcher are one serial user as long as `clean`
  holds; each step of the program is a step of the supervisor or leaves it alone,
  so the steps of `SerialInv` are cited and not proved again.
- `CommandProofs`, on `StateFiles`. `StateFilesTyping`, `StaleFilesAreGone`, `PsShowsNoGhosts`:
  `CleanInv` says that during a clean-up a file of an instance that had ended
  before is still to be read, or read and still to be checked.
- `CommandProofs`, on `CommandLine`. `RunHearsItsOwn`, `DryRunIsHarmless`: for commands in any
  order, as only init binds `dry-run` and run looks at its own flags. `UninitFindsBackup` needs
  that uninit is the last to bind `client` and `config`; `UninitFindsBackupInRoot` shows it of the
  order in root.go. `OnlyClaudeHasBackup` is the invariant: init and uninit are at one
  file. `MergeTakesTheFirst`: a merge is a recursive function of the discoveries, and
  `MergedSoFar` says by induction over them what the first so many of them have added.
- `CommandProofs`, on `Tuning`. `PercentilesSplit`: the k-th element of the sorted sequence has at
  least k requests that are no longer and at most k - 1 that are shorter (`SortedCounts`),
  and a value between two neighbours splits the requests between them; that the weights ascend with the
  rank (`HigherRank`) orders the percentiles. `ScoresMoveWithEvents`, one lemma for each event: a
  score is 100 less a quotient, cut off at both ends (`ScoreFalls`), and quotients are
  compared by their products (`QuotientMonotone`). That of the latency needs
  `LongestComesLast`, that a longest request lowers no element of the sorted sequence; that of the queue
  `TotalBound`, an induction over the waits; that of the restarts that the window of an hour does not
  go back. `TunedLimitIsFinal`: what `NewMax` gives is neither below the restarts there were
  nor above itself. `TuneTyping` has the types and the ranges of all scores.
- `SupervisorProofs`, on `ToolCalls`. A step of a tool is one or none of `Supervisor`
  (`ToolStepIsSupervisorStep`), so what is proved there for any callers holds here.
  `SuccessIsAlwaysFresh` needs `FreshInv`: already when Restart is about to call Start,
  the supervisor's process is none of the children there were when the tool was called.
  `ForceAlwaysGetsThrough` needs `QuietInv`: after the reset the window is empty until
  another restart is granted, and the first one of an empty window is let through.
- `ClientConfigProofs`. `ClientTyping` and `OriginalIsAlwaysKept`. What is kept is
  inductive only together with what each command has read: `CommandInv` says that an
  init past its check holds the client's own configuration, or finds that it
  is kept elsewhere; `FilesInv` that a client's file that is routed or torn has a
  backup behind it; `KeptInv` joins them. `RoutedIsAlwaysRegistered` and
  `SavedIsAlwaysKept` need `SerialInv`: as long as no two commands have overlapped, at most
  one is under way, and what the files hold is what the step it is at has left them with.
- `CrashExportsProofs`. `BuffersAreBounded`, `ExportIsAlwaysTheTail`,
  `NoSecretIsEverExported`. The invariant `IInv` adds to them that a server runs as its
  files merge (`RunsAsMerged`), that one that does not run has an empty buffer
  (`StartsEmpty`), that what passes is numbered upwards (`Numbered`), and that a buffer is
  the tail of what was heard as one message (`BufferIsTheTail`). `MergedPatterns` is the lemma on
  merging: a server has the patterns of the last file that has some (`InForce`); `Prepared` the one on
  redaction, part by part; `RoomIsMade` the one on the ring. Neither theorem says that all that passed is in an
  export, or that nothing in it matches: batches are not recorded, and methods and ids not redacted.
  `ShownIsAlwaysOwn` needs `OwnInv`: of a server with a path to itself, the paths that
  `hydra export` looks at hold at most one file, which is the last export of that server.
- `MessagePathProofs`. `PathTyping`; `HydraRunIsARelay`, that every step of the pipes, the
  readers and the loop is a step of `Relay` or a stutter, by one lemma per action on what
  is on its way (`Flow`): the actions either move a message along it or add one at its end.
  `EofNeverOvertakes`: `EofComesLast` speaks of the end only; `AllAccounted` says at every
  moment that the messages an end wrote are what the other got and what is on its way, as
  long as the other is there, and `PathInv` that a reader which is done has nothing left.
- `ProxyProofs`. `ProxyTyping`, `OrderIsAlwaysKept`, `ReplayAlwaysComesFirst`,
  `AnsweredAtMostOnce`, `NothingEverVanishes`, `SubscriptionsAlwaysSurvive`,
  `FailedStaysFinal`, for queues of any size. The steps are those of the
  code, a look at the state and each write apart, and `IInv` has a part for each question.
  `StateInv`: where the loop is in each state; a running proxy has an empty queue, and a
  restarting one, until it resumes, a child that was told nothing.
  `QueueInv`, `OutboxInv` and `WrittenInv`: the queue and what a handler has in hand ascend, behind all
  that was written. `FateInv` and
  `PlaceInv`: a request is in one place on its way to the child, in it, on its way back
  or with the client, and only a written or a refused one is answered. Each write takes one
  request from the handler's hand and puts it among the written or the lost (`WrittenStep`,
  `FateStep`); Shutdown changes neither, so it makes no difference where it falls.
  `SubsInv` is what `SubscriptionsSurvive` is on the way: in what has been sent, is in hand or waits the last message
  about a URI says what the store says of it (`Says`), and of a URI in no message child and
  store agree (`Agree`). A drain keeps this only because it drops the oldest
  requests first (`LaterIsValid`, by the times of `QueueInv`): what is dropped
  is either followed by another about its URI or covered by the replay.
  `ToldNamesAlwaysDiffer` assumes that neither hydra nor a child has a name twice and that
  the policy is not empty, as the default is `error` and a merge keeps what is not empty
  (config.go:118, loader.go:240).
- `WatcherProofs`. `TreeTyping`, `PendingIsAlwaysScheduled`,
  `NeverAnEventWithoutAChange`, `AlwaysSeenUnlessLate`. Every step of `WatchTree` is one of
  `Watcher` or drops what is ignored (`TreeStepIsLoopStep`). `CountInv` bounds the timers by
  the changes that were handled, so that there is always another one to arm.
  `SeenUnlessLate` speaks of quiet states only. `MetInv` says in every state that a directory
  made in an added one is added, late, ignored, still to be visited or still in the inbox, and
  that one made in the directory whose names have been read is among the names or
  late; `WalkInv` that an event leaves the inbox only when its directory has been
  added. In a quiet state nothing is left to visit, so the directories above one that is
  not watched are not watched either, up to the top, which is: `Upwards` is the least
  set for which this argument holds.
- `SelectionProofs`. The lemmas on selecting from a sequence and on concatenation; `SelectedTakes`
  says by increasing positions what is selected, which is what a drain does to a queue.
  The library's induction theorems take an operator as a parameter, which the provers cannot
  instantiate; `SetInduction` and `SequenceInduction` state induction over numbers and over
  sequences for a set instead of a predicate, from the least element of a set of
  numbers, and the lemmas on `Selected`, a recursive function, follow from them.

Liveness is only model-checked. `ImplementsLifecycle` is checked for one caller and three
children; `SerialUseImplementsLifecycle` proves it for any number of children.

## 6. What is checked and not proved

Every temporal property with fairness: liveness and ENABLED are out of the provers' reach. These are `CallsReturn`,
`DeathIsReported`, `ChangesAreServed`, `MessagesGetThrough`, `EndIsNoticed`, `ProgramEnds` and `StateIsSaved`;
their runs cover the bounds of section 3 and no more. Nor is it proved that `sorted`, which gives
each element by its rank, is a permutation: TLC has compared it with the sorting of the library on the
sequences of the run.

Each module of processes has a type invariant. Those of `Supervisor`, `HydraRun`, `ToolCalls`,
`StateFiles`, `MessagePath`, `Proxy`, `ClientConfig`, `CrashExports`, `Watcher`, `WatchTree` and `Tuning` are
proved; for `CommandLine`, whose commands are single steps, the proofs need only that the scan is a
sequence (`ScanIsSequence`) and whose backups there are. The runs themselves are left to properties that say more. `RunningIsWatched`,
`AtMostOneChild`, `StoppedMeansNoChild` and `NoPanic` are proved, and the runs check them as part of
`ImplementsLifecycle`, `DeathIsReported` and `CleanStartIsSafe`; `ZombiesAreReaped` holds in
`supervisor_serial` when added as a PROPERTY.

`NoPanic` and the properties of `supervisor_serial` hold for one serial caller
only, and that is all the program promises: the watcher's goroutine is the only one that
calls after the start. What happens with two is in `tool_calls` (what
still holds), in `SupervisorTwoRestarts.cfg` and `ToolCallsHang.cfg` (what does not).

`OriginalIsKept` excludes an `uninit` beside another command (`mixed`) and a death over
the backup (`spoiled`). Both exceptions are necessary: without the first, an uninit
removes the backup an init has just found, or restores it before the
init writes; the second is what `RollbackRestores` shows.


## 7. Not modelled

Bytes: a line is whole and has a class. A last line without newline is dropped by the code and by the
models. `DetectProtocol` and the Content-Length framing of `transport/stdio.go` are called by tests
only, and so are the rate and size limiters and the substitution of variables. `hydra inspect`
and the tables of the other commands print what they have read. The logger writes and
nothing reads back. The stubs of `hydra restart` and
`hydra recover` change nothing. Windows' process attributes are one assignment.
Mocks and fixtures are test code. Errors of the file system and reuse of process
ids are left out of `StateFiles`; directories that are removed or moved are left out
of `WatchTree`.

## 8. Plan

Done: sections 2 and 3. Next, most important first:

1. The substitution of variables in config/envsubst.go, checked against a reference
   definition, and the token bucket of security/ratelimit.go, as their packages promise
   them: no command uses either.
2. A panic inside a handler of the loop, and the goroutine that serves the metrics.

