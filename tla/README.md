# Verification of the RPI4/RPI5 DDS test programs

The repository holds two pairs of DDS test programs for a Raspberry Pi 4
(publisher side) and a Raspberry Pi 5 (subscriber side), and the documents,
logs and captures of running them. This directory holds TLA+ models of the
programs, what TLC checks about them, and theorems that TLAPS proves.

Paths below are relative to `src/`; `dds_test/` stands for
`examples/dds_test/`, `helloworld/` for `examples/helloworld/`.

## 1. The system

| component | source | state it keeps | operations | hard because |
|---|---|---|---|---|
| orchestrator (RPI4) | `dds_test/auto_pub.cpp` | the scenario list and the place in it, the data Publisher's partition, the scenario's DataWriter, control writer and reader caches, `results`, `pass` | per scenario: set the partition, RUN, wait for READY <= 8 s, create the writer, write samples, STOP, wait for RES <= 8 s, delete the writer; for a `late` one the samples come first; then QUIT and the table | every wait is bounded and the run goes on when it fails; answers may be old |
| follower (RPI5) | `dds_test/auto_sub.cpp` | the DataReader `dr`, its content filtered topic `cft`, the Subscriber's partition, `listener.received`, control caches | take RUN: set the partition, reset the counter, build the reader, answer READY; take STOP: read the counter, answer RES, delete the reader; take QUIT: end | a listener thread counts while main reads; commands are replayed after a restart |
| data topic QoS | both `auto_*.cpp` (mapping), Fast DDS (matching, history, filter) | writer history, matched pairs | match, deliver, lose | a late joiner meets what the history retained |
| manual pair | `dds_test/publisher.cpp`, `dds_test/subscriber.cpp` | `matched`, the loop counters, `received` | wait for a match <= 3 s, write `samples`, keep alive; count until `samples` or the timeout, print, exit code | two processes with no protocol between them; data race on `matched`; the count is read three times |
| helloworld pair | `helloworld/*.cpp` | as the manual pair, constants fixed | as the manual pair | the same |
| option parser | `dds_test/qos_args.hpp` | `QosArgs` | fold of the arguments; exit 1 on an unknown or missing value | `atoi` unchecked, `timeout * 10` in 32 bits |
| capture wrapper | `dds_test/run_with_capture.sh` | tcpdump, its pid file, the program, the trap | start tcpdump, wait <= 3 s for its file, run the program, stop, report | signals between any two steps, a capture that may be slow, hang or fail |
| control message text | `field()` and the messages in both `auto_*.cpp` | - | put a scenario's fields into a `\|`-separated text, take `key=value` out of it | nothing is escaped: keys and separators inside values |
| generated type support | `HelloWorld*.{hpp,cxx,ipp}`, the same files in both directories | the sample written, the sample read into | calculate a size, serialise, deserialise | sizes at the bound of a string, a sample object used again |

The two runners share nothing but two topics. The **control topic**
`DDSTestControl` (RELIABLE, TRANSIENT_LOCAL, KEEP_LAST 100) carries the
orchestrator's commands one way and the follower's answers the other; each
program reads both directions and drops its own. The **data topic**
`HelloWorldTopic` carries the samples, with another QoS in each scenario.

What makes each component correct:

- orchestrator: one result per scenario, in order, whatever the follower does;
  a result is about its own scenario; the run ends;
- follower: one reader at a time; nothing of one scenario in the count of the
  next; it quits last, and it does quit;
- QoS: a reader counts what the history and the filter leave, no more, and
  exactly that when the waits are long enough;
- manual pair: the exit code agrees with the total printed, and an
  early end means everything asked for was received;
- capture wrapper: what the program does is captured, and the capture is
  stopped whatever ends it;
- message text: what is read is what was written, and an answer is recognized
  by the scenario it is for and by no other;
- type support: a payload is as long as announced, a sample within the bounds
  of the type fits, and nothing of an earlier sample shows in a later one.

The hazards are listed with their lines in `PROJECT.json`.

## 2. Modules

| module | stands for |
|---|---|
| `DdsQos` | QoS codes and what the two runners make of them; matching, retention and filtering as the scenario table relies on Fast DDS for them |
| `Scenarios` | the scenario list as the constant `Scen`: commands, answers, writer, reader, verdict, and `Deliverable`, the count a scenario's QoS allows |
| `ScenarioTable` | the fourteen rows of `auto_pub.cpp:73-89` |
| `ScenarioRun` | abstract specification: one allowed result per scenario, in order, then the table |
| `AutoRunner` | orchestrator, follower, control topic and data topic together |
| `AutoRunnerProofs` | the theorems about `AutoRunner` and `Scenarios` |
| `AutoRestart` | `AutoRunner` with an orchestrator that is killed and started again, too, and the readers and answers this leaves behind |
| `AutoRestartProofs` | the theorems about `AutoRestart` |
| `MCAutoRunner`, `MCAutoTable`, `MCAutoRestart` | scenario lists for TLC |
| `ControlText` | the messages of one scenario as texts, and `field()` |
| `ControlTextProofs` | the theorems about `ControlText` |
| `ManualRun` | the manual publisher and any number of manual subscribers |
| `ManualRunProofs` | the theorems about `ManualRun` |
| `ManualTimeout` | `ManualRun` with the number of ticks computed in an `int` |
| `HelloWorldRun` | the helloworld publisher and any number of its subscribers, translated from their own code; `ImplementsManual` maps them to `ManualRun` |
| `HelloWorldProofs` | that refinement, and what it brings over from `ManualRunProofs` |
| `OptionParser` | `parse_args` on any list of arguments |
| `OptionParserProofs` | the theorems about `OptionParser` |
| `CaptureRun` | `run_with_capture.sh`, its capture, its program and signals |
| `CaptureProofs` | the theorems about `CaptureRun` |
| `HelloWorldCodec` | sizes, `serialize` and `deserialize` of the HelloWorld type |
| `HelloWorldCodecProofs` | the theorems about `HelloWorldCodec` |
| `MCManualRun`, `MCOptionParser`, `MCControlText`, `MCHelloWorldCodec` | options, arguments, texts and message sizes for TLC |

`AutoRestart` and `ManualTimeout` extend the module whose steps they reuse.
`ControlText` and `HelloWorldCodec` stand below the others: they say for which
scenarios and samples the records in `AutoRunner` and the counted samples in
both pairs are a fair picture of bytes on a wire.

### AutoRunner against the code

| action | code |
|---|---|
| `Begin` | head of the loop: partition of `dpub`, `count = -1` |
| `SendRun`, `SendStop`, `SendQuit` | the three kinds of `sendCtrl` in `auto_pub.cpp` |
| `ReadyAcked`, `ResAcked`, `AckIgnored` | one turn of the take loop of `waitAck`: the answer looked for, or another one, dropped |
| `ReadyTimeout`, `ResTimeout` | `waitAck` returns `""`; the scenario goes on |
| `CreateWriter`, `WriteSample`, `WritesDone` | `create_datawriter`, a turn of the write loop, its end |
| `Record` | `delete_datawriter`, `results.push_back`, the next turn |
| `Report` | the verdicts, `PASS n / N`, the end of the process |
| `TakeRun`, `SendReady` | the RUN branch of `auto_sub.cpp`: reader built, then READY written |
| `TakeStop`, `DropReader` | the STOP branch: counter read and RES written, then reader and filter deleted |
| `TakeQuit` | the QUIT branch and the end of the process |
| `Match`, `Deliver` | discovery; `on_data_available` taking one sample and counting it |
| `FollowerRestart` | the process is stopped and started again |

Granularity. A process step ends where the other side can see it or where the
listener thread can come between: at a control write, a data write, the
creation or deletion of an endpoint, and between reading the counter and
deleting the reader. What one process does to its own state in between is one
action: in `TakeRun` the partition, the reset and the new reader, since no
reader exists while they happen (`NoReaderLeak`) and so no callback can run; in
`TakeStop` the read of the counter and the write of RES, since a sample counted
between the two changes neither.

Control topic. A direction is an append-only log and a position in it: what
is behind the position has been taken, what is ahead is on the network or in
the reader's cache. That is a RELIABLE channel as long as no history
overflows, which `ControlFits` checks and `ControlHistory` proves. A restarted
follower reads the commands again from the first, as TRANSIENT_LOCAL makes it;
a log loses its tail only when the process that wrote it ends. A runner's own
messages come back to its own reader and are dropped
(`auto_pub.cpp:130`, `auto_sub.cpp:104`); the model leaves them out, except in
`ControlFits`, where they take room.

Data topic. `sent[k]` samples of scenario k were written and `cursor[k]` is
the last the reader has seen or missed. `Match` starts a reader behind what the
history no longer holds (TRANSIENT_LOCAL) or behind everything (VOLATILE).
`Deliver` takes a later sample that passes the filter; it may jump over
samples only where the QoS lets them be missed. Samples under way are
delivered even after their writer is deleted, which allows more than the
middleware does.

Time. `Timely = FALSE` lets every bounded wait end at any moment: all
interleavings, slow networks and dead followers included. `Timely = TRUE` is
the assumption the sleeps of the code embody: an answer comes within its 8 s,
a pair matches within the 500 ms, what was written arrives (BEST_EFFORT samples
too: no loss) within the 1 s or 3 s before STOP, and QUIT within its 1 s.

Left out: the `desc` of a scenario (printed only), the `mode` field of RUN
(sent, never read), the `step` index of a control message (sent, never read),
`listener.matched` of the follower (written, never read), and `--domain`.

### ManualRun against the code

| action | code |
|---|---|
| `CreateWriter`, `CreateReader` | `create_datawriter`, `create_datareader`; no endpoint, and the end of the program, for a KEEP_LAST history of no samples |
| `MatchTick`, `StartWriting` | a turn of the wait of 30 x 100 ms, its end |
| `PubMatched` | the writer's listener sets `matched` to the number of readers |
| `WriteSample`, `WritesDone` | a turn of the write loop, its end |
| `KeepAliveTick`, `Leave` | a turn of the keep-alive; the end of the process, and of its writer |
| `Match`, `Deliver` | discovery; `on_data_available` taking one sample and counting it |
| `WaitTick`, `StopWaiting` | a turn of the subscriber's wait, its end |
| `PrintTotal` | the line with the total |
| `Exit` | `delete_participant`, which is refused; then the counter read once more for the exit code |
| `ProcessEnds` | `main` has returned; the process ends, and its reader with it |

The counter of a subscriber is read three times while the listener's thread
writes it: for the loop (`StopWaiting`), for the line (`PrintTotal`) and for
the exit code (`Exit`). Each read is a step, and `Deliver` is enabled before,
between and after them, up to `ProcessEnds`: `delete_participant`
(`subscriber.cpp:78`) does not stop the listener. Neither the reader nor the
Subscriber nor the topic is deleted before it, so Fast DDS refuses it with
`RETCODE_PRECONDITION_NOT_MET`, and nobody looks at the result. The counter is
atomic, so a read has one value. (The listener is a variable of `main`, and is
destroyed when that returns; a callback that still runs then is undefined.
Nothing reads the counter any more, so the model has it count on.)

`matched` in the publisher is a plain `int` written by another thread. The
value the loop reads is therefore `Seen`, either the present value or the first
one (a compiler may keep it in a register for the whole loop); the loop may
run to its 30 ticks with a subscriber matched all along.

`Options` are what both programs are given; `wqos` and `rqos` differ where the
README runs them with different QoS. `Timely` has the same meaning as in
`AutoRunner`, but is chosen with the options of a run: the sleeps and the
keep-alive are long enough for what they wait for. Then a subscriber that comes
at all comes before the keep-alive ends and does not give up before the
publisher has ended.

### HelloWorldRun against the code

The actions have the names of those of `ManualRun` and the same place in
`helloworld/publisher.cpp` and `helloworld/subscriber.cpp`. The code differs
from that of the manual pair, and so do they:

- the QoS is Fast DDS's default for a writer and for a reader, and the number
  of samples is the same constant in both programs;
- neither program looks at what creates its endpoint: `CreateWriter` and
  `CreateReader` have one outcome, and there is no exit code 1;
- the publisher ends with one sleep of a second: there is no `KeepAliveTick`,
  the counter of the wait for a match is not used again, and `SleepIsLongEnough`
  is what the one sleep is for.

`Manual` is the refinement mapping: the state "sleep" is the manual publisher's
"keep" with a keep-alive of no ticks, and `ptick` is 0 from there on. What has
to be shown is that a helloworld program can do nothing that a manual program
with these options could not: no step before a writer exists, no sample beyond
the twentieth, no end before the sleep, and the default QoS one that a manual
program could have been given and that Fast DDS creates endpoints for.

### OptionParser against the code

`Set` is one turn of the loop that takes an option and its value; `Help`,
`Unknown`, `ValueMissing` and `ValueRejected` are its early ends, `Finish` its
last. `Atoi` is a constant function from arguments to integers: what `atoi`
makes of a text is the C library's.

### AutoRestart against the code

`auto_pub.cpp` keeps nothing across a restart, and the follower is told of
none. Three things go on: the follower's answers, which TRANSIENT_LOCAL sends to
the new orchestrator's reader; the commands that had reached the follower;
and the follower's own reader, its Subscriber's partition and its counter.

| action | code |
|---|---|
| `OrchestratorStep` | any step of the orchestrator as in `AutoRunner`; it notes a count taken from an answer to a former orchestrator's command |
| `OrchestratorRestart` | the process is killed and `main` starts again: first scenario, no results, every answer of the follower's process to be taken again (`auto_pub.cpp:120-135`) |
| `TakeRunLeaving` | the RUN branch, which overwrites `dr` and `cft` whatever they point to (`auto_sub.cpp:136-146`): the old reader stays in the Subscriber, with the same listener |
| `TakeRunClashing` | the same when the filter's name is still in use: `create_contentfilteredtopic` gives `nullptr`, `create_datareader` is called with it, and the process ends or goes on without a reader |
| `Answer`, `DropOwnReader`, `Quit` | READY and RES; the end of STOP; the end of the process, and of every reader it leaked |
| `FollowerStartsAgain` | the follower is killed, and is sent what the present orchestrator wrote |
| `Data`, `LeakedData` | discovery and delivery, for the reader with a pointer and for the others |

### ControlText against the code

A text is a sequence of atoms: `|`, a key with its `=`, the beginning of a
message, or anything else. `field` is the code's, atom by atom: the first
occurrence of the key anywhere in the text, then up to the next `|`. One
scenario goes once around: `SendRun` (`auto_pub.cpp:145-148`), `TakeRun` with
READY, `WaitReady`, `TakeStop` with RES, `WaitRes`. The texts that `AutoRunner`
has as records `RunCmd`, `ReadyAck`, `ResAck` are `RunText`, `ReadyText`,
`ResText` here, and `AnswersFindBack` is what justifies its comparing names:
an answer to a scenario is recognized exactly when the name holds no `|`, and
no name of the real table does. The first key is the message's first field, so
no name can be mistaken for another's.

### CaptureRun against the code

| action | code of `run_with_capture.sh` |
|---|---|
| `Refuse`, `SetTrap` | lines 21-33, 41 |
| `StartCapture` | the background command of line 50 |
| `WaitForFile`, `Settle` | a turn or the end of the loop of line 52; line 53 |
| `Announce` | line 54 |
| `ProgramEnds`, `ProgramDies` | the end of line 58; by Ctrl+C |
| `CallStopCapture`, `PkillByPid`, `PkillByName` | line 63; the two halves of line 39 |
| `Flush`, `Chown`, `RemovePidFile`, `Report` | lines 64, 66, 67, 69-80 |
| `CtrlC`, `Terminate` | a signal to the terminal's foreground processes; TERM to the script |
| `SudoStarts`, `ShellStarts`, `TcpdumpStarts`, `CaptureOpens`, `CaptureFails`, `Flushed` | what the command of line 50 goes through |

A bash trap runs when the command in the foreground has ended, and the script
goes on behind it. `stop_capture` is a function of two commands, so a trap may
run between them, and call it again: `stack` holds where each call returns to.
`GoOn` and `Return` are the end of a command with and without a trap that is
due.

Assumed, and not the script's doing: sudo asks no password; the number in the
pid file is not given to another process; by the time the program ends the fork
of line 50 has become sudo; Ctrl+C may or may not reach tcpdump, which
depends on how sudo runs it, so both happen in the model. The capture may be
slower than any wait: that is not an assumption but a case.

### HelloWorldCodec against the code

`Write` is a call of `write()`: the setters of the sample and the payload it
is given, of the size calculated for it or of the type's maximum, whichever
the history's memory policy takes. `SerializeItem` puts the encapsulation, the
header of XCDRv2, `index` and `message` into it one by one
(`HelloWorldCdrAux.ipp:65-81`), `SerializeFails` is the exception that
`serialize` catches, `Serialized` its end. `Take`, `DeserializeItem`, `Taken`
are `deserialize` into the reader's one object, member by member. Sizes are
computed as Fast CDR does (external): each item aligned to 4 bytes, a string
with a length before and a NUL behind it.

### ManualTimeout against the code

`Wrapped` is what an overflowing `int` product becomes in the builds of this
program; `TimeoutTicks` of `ManualRun` is given `WrappedTicks`. The width is a
parameter because TLC's own integers end at 32 bits.

## 3. Runs

| run | question | instance |
|---|---|---|
| `auto_adversarial` | do results stay within their scenario's QoS, readers not leak, QUIT come last, histories fit, the run implement `ScenarioRun`, and the orchestrator end, with any loss, delay, timeout and restart of the follower? | three scenarios, one restart, `CtrlDepth` 19; 185,113 distinct states |
| `auto_table` | with waits that are long enough, is every count exact, PASS 14 / 14, and does the follower quit? (and `TimelyInv`) | the fourteen scenarios of the code; 2,295 states |
| `auto_restart` | when the orchestrator restarts, too, what leaks, and where can a wrong count come from? (and `RestartInv`) | two scenarios, a restart of each side; 1,965,655 states |
| `auto_reader_late` (violation) | is the reader ready before the data, as the comment at `auto_pub.cpp:183` says? | two scenarios |
| `texts` | which names, partitions and filters survive the text of a command, and whose answers are recognized? | names of two atoms, partitions and filters of one, out of seven; 87,552 states |
| `manual_overlap` | do counts, printed totals and exit codes agree, however the programs overlap, and do they end? When the waits are long enough, is nothing lost? | one publisher, two subscribers, seven combinations of options, each timely or not; 1,820,842 states |
| `helloworld` | is the helloworld pair an instance of the manual one, and does it end? When the waits are long enough, does a subscriber print its twenty exactly when it was in time? | one publisher, two subscribers, timely or not; 429,477 states |
| `manual_overflow` (violation) | does a subscriber wait its timeout, as the comment at `subscriber.cpp:72` says? | an `int` of 8 bits and 13 s |
| `options` | does the last value hold, and is no value taken for an option? | every list of at most five of nine arguments; 153,260 states |
| `capture_signals` | is the whole run captured, is nothing left behind, and does nothing but the program hold the script up? | up to three signals, a capture that is slow, hangs or fails anywhere, two turns of the wait; 15,492 states |
| `capture_announced` (violation) | does tcpdump run when line 54 says so? | one signal, ten turns, a capture that does not fail |
| `codec` | are the sizes exact, does a message within the bound fit, and is what is read what was written? | two samples, seven message sizes from 0 to 260, both representations; 28,088 states |

Bounds. Three scenarios are a normal one with a filter, one that must not
match, and a late one whose history is too short, each with another number of
deliverable samples, so that a result credited to the wrong scenario shows.
Three are the fewest with a scenario whose predecessor and successor can both
interfere with it. With one restart the follower replays a whole run beside
the first one; further restarts repeat that, and the proofs cover any number.
`CtrlDepth = 19` is `(2N+1) + 2N(restarts+1)`, the bound of the theorem, and
the run shows it is reached by no state beyond it. The real depth, 100, covers
the fourteen scenarios and one restart (85); the theorem gives nothing for two
(113).

`auto_restart` has two scenarios, since the state of two readers and two logs
multiplies: a filtered one, whose filter's name can clash, and a late one,
whose retained sample an old reader can count. One restart of each side is
the least in which a leak, a clash, an old answer and a replayed command can
meet; `LeaksBounded` counts restarts, so that a second leak for one restart
would show. Neither property says that results are right after a restart: they
are not always, and `WrongCountExplained` says that an old answer or a leaked
reader is then the cause, and that there is no other.

`auto_reader_late` refutes the comment: `waitAck("READY")` may return after
8 s, the code prints a line and writes every sample all the same. The result
table cannot tell the two apart: a ZERO scenario run that way passes without
any reader having met the data.

`texts` has seven atoms: the separator, the keys that come first, in the
middle and last of RUN, the key of RES, and a plain text. Two atoms in a name
are enough for a key with something before or behind it.

The manual runs take the README's command lines with three samples for its
twenty and a depth of two for its five: the least with a history that drops a
sample and one that does not, and a subscriber that can stop between two
samples. `MatchTicks`, `KeepTicks` and `TimeoutTicks` are one or two: nothing
in the programs depends on a tick but whether the wait is over, and the proofs
cover any number. Two subscribers, because the publisher reacts to the first
match only. `helloworld` has the same bounds, with three samples for its
twenty as well.

`manual_overflow` refutes the comment: `--timeout` above 214,748,364 is
accepted and gives a product that does not fit an `int`; wrapped to a negative
number it ends the loop before its first turn. With 12 s, which fit, the same
instance holds.

Five arguments hold two options with values and a rest: the least in which an
option is given twice, or a value is followed by an option that must not be
skipped. The nine arguments have one option of each kind, help, numbers and
spellings that belong to another kind or to none.

Three signals in `capture_signals` are one in the middle of a command, one for
the trap between the two pkills of another, and one more; two turns of the wait
tell "still waiting" from "waited in vain". The proofs cover any number of
either. `capture_announced` has the ten turns of the code and no failing
capture, so that only the signal can be at fault: the trap stops the capture,
the script goes on, says that tcpdump runs and starts the program.

`codec` has the message sizes where a byte decides: 0, one short of a word (3),
around the generator's bound of 255, and around the largest that fits a payload
of the type's size in one representation and not in the other. With two samples
the second can be read into an object that holds the first.

The exit code. `ExitCodeSound` says what a script that runs the subscriber may
conclude: 2 is never the code of a run that printed a sample, and 0 is always
that of a run that counted one. More does not hold, because the counter goes on
between the reads and after the last one: the line may say 0 and the code be 0,
when the first sample arrives between the two, and the code may be 2 although a
sample was counted, when it arrives after the last read.

Documents that disagree and have no run, since no behaviour is needed to see
it: `dds_test/README.md:111` has eleven scenarios where the list of
`auto_pub.cpp:73-89` has fourteen, and `helloworld/README.md:7` has 15 s where
the loop, by its own comment, has 300 s.

Fairness. `OrchestratorFairSpec` assumes weak fairness of the orchestrator
alone: its loops are counted and its sleeps end. With `Timely = FALSE` a wait
always has its timeout enabled, so nothing is assumed of the other side.
`FairSpec` adds the follower, which polls every 50 ms, and the network, which
is what RELIABLE promises between live processes; only `FollowerQuits` needs
them, and only under `Timely`: otherwise QUIT may be lost with its writer.

`ProgramsFairSpec` assumes the same of the manual and the helloworld programs,
each on its own: counted loops and sleeps that end. Their liveness is about the
runs that are not timely. In a timely one the model lets a wait go on until the
network has done its part, and nothing is assumed to make it do that.

`ScriptFairSpec` assumes that the script's own commands end, and that a process
once forked gets to run (`SudoStarts`). It assumes nothing of the program, which
may run for ever, and nothing of tcpdump, which may hang wherever it is.

The inductive invariants `IInv`, `TimelyInv`, `RestartInv`, `ManualInv`,
`CaptureInv` and `CodecInv` of section 4 are invariants of runs as well. The type
invariants of `ManualRun`, `HelloWorldCodec` and `AutoRestart` are conjuncts of
theirs and not listed again.

`CHECK_DEADLOCK` is on everywhere: an action that changes nothing (`Terminated`,
`Finished`, `Over`, `Stops`, `Recorded`, `AllDone`) is enabled where the system
may stop, and nowhere else.

## 4. Theorems

`AutoRunnerProofs` proves, for every scenario list with distinct names
(`ScenAssumption`), every bound on restarts, and both values of `Timely`
(`AutoAssumption`):

| theorem | statement |
|---|---|
| `Invariance` | `Spec => []IInv` |
| `TypeCorrect` | `Spec => []TypeOK` |
| `ResultsSound` | `Spec => []ResultsWithinQos` |
| `NoLeak` | `Spec => NoReaderLeak` |
| `QuitsLast` | `Spec => []QuitIsLast` |
| `Refinement` | `Spec => ImplementsScenarioRun` |
| `ControlHistory` | `CtrlDepth >= 2N+1 + 2N(MaxRestarts+1)` implies `Spec => []ControlFits` |

`ResultsWithinQos` is far from inductive. It needs to know what the count in
an answer means, which needs to know for which scenario the reader was built,
which needs to know what the command log can contain. `IInv` says this in four
layers, each used by the next:

1. `ScriptInv`: the command log is a prefix of RUN 1, STOP 1, ..., QUIT and
   its length follows from where the orchestrator is;
2. `FollowerInv`: between RUN k and STOP k, and only there, the follower has
   the reader of scenario k (a restart goes back to the start of the log and
   keeps this true);
3. `WriterInv`, `CountInv`: the reader of the current scenario has matched no
   writer but that scenario's, not before `Missed` samples, and has counted no
   more than passed the filter since;
4. `AckInv`, `ResultInv`: an answer RES for the current scenario exists only
   after its STOP and then carries such a count; hence the recorded one does.

`NoLeak` follows from layers 1 and 2 (before a RUN there is always a STOP or a
fresh process), `QuitsLast` from 1, 2 and `ResultInv`, and `Refinement` from
`ResultInv` with one step per action. `ControlHistory` has its own inductive
invariant, `AckCount`: a life of the follower answers each command at most
once.

And for every scenario list, when the waits are long enough
and the follower is not restarted (`Timely`, `MaxRestarts = 0`, the hypotheses
of the run `auto_table`):

| theorem | statement |
|---|---|
| `TimelyInvariance` | `Spec => []TimelyInv` |
| `ExactCounts` | `Spec => []CountsAreExact` |
| `ReaderComesFirst` | `Spec => []ReaderBeforeData` |
| `TablePasses` | if each row passes with the count its QoS allows, `Spec => []AllScenariosPass` |

`IInv` bounds a count from above; `TimelyInv` says what it is. `InStepInv`: the
two programs go through the script together, the follower at most one command
behind, and behind only while the orchestrator waits. `WroteInv`: there is one
writer, that of the scenario at hand, and it has written everything before
STOP. `ExactInv`: the reader has counted every sample that passed up to its
cursor, and with STOP under way nothing is left to take; a normal scenario's
reader has matched before the first sample. `AnswerInv`: an answer in the log
was given after its command was taken, and a RES carries the exact count, so
that the one `waitAck` finds by the name is right. Each is kept by the steps
only with the others, and with `IInv` for the reader and the log.

`AutoRestartProofs`, for every scenario list, both values of `Timely` and any
number of restarts of either side:

| theorem | statement |
|---|---|
| `RestartInvariance` | `RestartSpec => []RestartInv` |
| `RestartTypeCorrect` | `RestartSpec => []RestartTypeOK` |
| `FewLeaks` | `RestartSpec => []LeaksBounded` |
| `WrongCounts` | `RestartSpec => []WrongCountExplained` |

The four layers of `IInv` are stated there relative to a base in the command
log (`ScriptFrom`, `LengthFrom`, `ReaderFrom`, `Fits`): in `AutoRunner` the base
is 0, here it is `cmdBase`, where the present orchestrator's commands begin, so
that the lemmas serve both. What is behind the base is a former orchestrator's
and says nothing of this one's results.

`LeaksBounded` is not inductive: a reader is lost long after the restart that
is to blame, when the follower takes a RUN where it still has a reader.
`LeakInv` counts these places ahead of it as well (`LeaksAhead`: the last
command of one process was a RUN and the next command is another process's
first), and each of them was made by one restart. A restart of the
orchestrator adds one at the most, taking a RUN turns one into a leak, and a
restart of the follower only takes places away. `WrongCountExplained` needs
that as long as nothing has leaked, an answer not yet taken is for a command of
a former orchestrator or fits its scenario (`OwnAckInv`), and a record of which
answers were taken for which command (`stale`).

`ManualRunProofs`, for any finite set of subscribers, any options (a depth and
a number of samples may be anything `atoi` returns), timely or not, and any
numbers of ticks (`ManualAssumption`):

| theorem | statement |
|---|---|
| `ManualInvariance` | `Spec => []ManualInv` |
| `ManualTypeCorrect` | `Spec => []TypeOK` |
| `JoinSound` | `Spec => []CountWithinJoin` |
| `ExitCodes` | `Spec => []ExitCodeSound` |
| `EarlyEnd` | `Spec => []EarlyEndIsComplete` |
| `EarlyStart` | `Spec => EarlyStartHasReader` |

and, with `Timely` as the hypothesis in the formula:

| theorem | statement |
|---|---|
| `TimelyInvariance` | `Spec => []TimelyInv` |
| `NothingIsLost` | `Spec => []NothingLost` |

`ManualInv` adds to the properties what they rest on: `JoinInv`, that a reader
matches once and that its cursor is always at least `missed + received`;
`HeadInv`, that nothing is sent before the wait for a match is over and a
match is only seen of a reader that was there; and `EndInv`, that what ended
the wait still holds when the counter is read again. With these, a match seen
during the wait is of a reader that misses nothing.

`TimelyInv` of `ManualRun` adds equality: a matched subscriber that waits has
counted everything between its match and its cursor (`LinkInv`), and a wait is
only over with what was asked for, or with everything there is, which stays
true although the listener counts on (`WaitInv`).

`HelloWorldProofs`, for any finite set of subscribers and any numbers of
samples and ticks (`HelloWorldAssumption`):

| theorem | statement |
|---|---|
| `HelloWorldImplements` | `Spec => ImplementsManual` |
| `PairExitCodes` | `Spec => []Manual!ExitCodeSound` |
| `PairPrintsTwenty` | if `Samples # 0`, `Spec => []TwentyIffInTime` |

`HelloWorldImplements` goes through the actions: each is, under the mapping, the
action of `ManualRun` of that name, or `Leave` for the end of the sleep.
`HelloWorldAssumption` gives `ManualAssumption` for the fixed options
(`Assumed`), so that `ManualRunProofs`, instantiated under the same mapping,
gives `ManualInv` and `TimelyInv` of it; `PairExitCodes` follows.
`PairPrintsTwenty` needs besides that a publisher ends with all samples written
and that no subscriber ends for want of a reader (`CompleteInv`); without
samples, a subscriber that came too late would print "all" of none.

`OptionParserProofs`, for any set of arguments, any `Atoi` and any bound on
their number (`ParserAssumption`):

| theorem | statement |
|---|---|
| `ParserInvariance` | `Spec => []ParserInv` |
| `ParserTypeCorrect` | `Spec => []TypeOK` |
| `ParserSound` | `Spec => []LastValueHolds` |
| `ParserOutcome` | `Spec => []OutcomeSound` |

The invariant needs one fact beside the properties, that the loop is at every
other place.

`CaptureProofs`, for any number of signals, any number of turns of the wait,
and a capture that may fail or not (`CaptureAssumption`):

| theorem | statement |
|---|---|
| `CaptureInvariance` | `Spec => []CaptureInv` |
| `CaptureTypeCorrect` | `Spec => []TypeOK` |
| `LeavesNothing` | `Spec => []NothingLeft` |
| `CapturesTheRun` | `Spec => []WholeRunCaptured` |

The trap is what makes this more than a walk through the script: any number of
calls of `stop_capture` may be in progress. `WellNested` says that all but the
first were made between the two pkills of another call, so that the first
entry of the stack, `Main`, is the command the script will go on with. The rest
is stated of `Main`. `StoppedInv` follows the end: by the time the script is
behind its own call, one of the two pkills found whatever was alive, because a
capture that has the process number has the name as well and only the fork has
neither; a pkill is only interrupted by a Ctrl+C, whose trap then calls
`stop_capture` again. `RunningInv` follows the beginning: before the program, no
signal means no call of `stop_capture`, and a file means a socket.

`HelloWorldCodecProofs`, for any values and messages, any number of samples
and any bound of the type of 268 bytes or more (`CodecAssumption`):

| theorem | statement |
|---|---|
| `CodecInvariance` | `Spec => []CodecInv` |
| `CodecTypeCorrect` | `Spec => []TypeOK` |
| `ExactSizes` | `Spec => []SizeIsExact` |
| `ShortFit` | `Spec => []ShortMessagesFit` |
| `RoundTrip` | `Spec => []ReadsWhatWasWritten` |

`WriterInv` says that what was serialized so far is the beginning of the sample
and ends where the calculator has it (`EndOf`), so that the serializer can only
run out of a payload of the type's maximum, and only in a message of more than
255 characters. `PayloadInv` carries that over to the reader, and `ReaderInv`
says which members it has set: both, when it is done.

`ControlTextProofs`, for names, partitions and filters of any length and any
content, with numbers of one digit (`TextAssumption`):

| theorem | statement |
|---|---|
| `TextInvariance` | `Spec => []TextInv` |
| `FieldsAreReadBack` | `Spec => []FieldsReadBack` |
| `AnswersAreRecognized` | `Spec => []AnswersFindBack` |

Most of it is about `field()`. `FieldOf` says that it returns what stands
behind the first occurrence of a key, up to a separator or the end. A text
`Holds` such a value; `HeldBehind` makes it so when a value is put behind its
key, cut at its first separator, and `HeldOn` and `HeldMore` keep it so when a
separator and more follow. `FieldAdded` goes through RUN field by field with
these: the fields up to one are held, and the keys after it are not in the text
yet, which is what `Readable` is for. `TextInv` then has, for each step, the
message under way with the name as far as the follower could read it (`Cut`):
a name with a separator comes back shorter, and is not recognized.
`Atom` names the literals of the module beside `STRING`, because the provers
do not know that a string they are shown is in `STRING`.

Every safety property that a run checks is a theorem. Only model-checked:

- liveness: `OrchestratorTerminates`, `FollowerQuits`, `ProgramsTerminate`,
  `PairEnds`, `OnlyTheProgramIsWaitedFor`. The prover has neither ENABLED nor
  fairness;
- that the expected counts of the fourteen rows are those of their QoS, the
  hypothesis of `TablePasses`: `AllScenariosPass` of `auto_table` goes through
  these rows, and there are no others;
- that the comments of the three runs that expect a violation are wrong: the
  counterexample is the proof.

## 5. What is not modelled

- What Fast DDS does inside: discovery, RTPS, resource limits (a KEEP_ALL
  writer blocks at 5,000 samples), the order of callbacks. Its part in the
  models is a few operators marked external in `PROJECT.json`; so is Fast
  CDR's alignment in `HelloWorldCodec`.
- Of the generated type support: keys (the type has none, so those functions
  do nothing), copying, moving and comparing samples (the programs do neither),
  and the registration of the type object, which hands constants to Fast DDS
  once per process. The files of `helloworld/` are the same as those of
  `dds_test/`, which are the ones mapped.
- The build files, the captures, logs and documents, and the texts printed
  (the `desc` of a scenario, the result table's layout, the summary of tshark).
- A crash of a manual or helloworld program in the middle: they keep nothing
  and have no protocol, so that it is a program that ended early or started
  late, which the runs have.
- Signals other than INT and TERM in `CaptureRun`: the script has no trap for
  HUP, and none can be had for KILL. Either ends it between any two commands,
  and `stop_capture` is then not called: `NothingLeft` says nothing of that.
- Numbers of more than one digit in `ControlText`: what `atoi` and
  `std::to_string` make of a number is the C++ library's, and a number holds
  neither a key nor a separator.
- Payloads that were damaged or made by another type: `deserialize` returns
  `false` for them, and no program here writes one.

## 6. Plan

Every component with behaviour of its own is modelled, and every safety
property that a run checks is proved. What is left:

1. `ManualTimeout`: that `WaitsTheTimeout` holds for a timeout whose product
   fits, and that `Wrapped` is the product exactly then.
2. `TimelyInvariance` of `AutoRunner` with restarts of the follower before the first RUN, the
   only moment at which one does no harm under `Timely`.
3. The fourteen rows of `ScenarioTable` in a theorem, so that `TablePasses` has
   no hypothesis about the list.
