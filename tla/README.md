# Sentri in TLA+

Sentri watches a place with the sensors of a small computer and acts on what they
see. A *core* process starts one process per *module*; event modules (video,
noise, temperature, trigger) raise events, action modules (mail, SMS, firebase)
carry out actions, and *rules* tie the events of one module to an action of
another. This directory holds TLA+ modules of the core, of the modules and of what
lies between them, the TLC configurations that check them, and proofs for TLAPS. All
source paths below are relative to `src/`.

    tlc -workers 2 -config MCRuleEngine.cfg MCRuleEngine     # and so on per run
    tlapm RuleEngineProofs.tla

## The system

| Component | State it keeps | Operations | Modelled in |
|---|---|---|---|
| Rule engine, `core/ruleengine.cpp` | pending events (`ack_queue_`), time of each rule's last action, next event id | enqueueEvent, acceptAck, systemMessage, the ack thread | `RuleEngine`, `EventDelivery` |
| Watchdog, `core/watchdog.cpp` | per module: running, buried, pid, heartbeats, mortality rate | start, spawn, kill, bury, resurrect, the scan, heartbeat, the SIGINT handler | `Watchdog` |
| Core main loop, `core/sentri.cpp` | the core queue | readMessage hands each message to the rule engine, the watchdog or the logger | `Delivery`; main thread of `RuleEngine` and `Watchdog` |
| Messenger, `core/messenger.cpp` | map from module to queue | sendAction, sendEventAck, sendEventAbort, addQueue, removeQueue | `Messaging` |
| Message handler, `lib_module/messagehandler.cpp` | one bounded message queue | create, open, send, receive | `Messaging` |
| Module base class, `lib_module/module.cpp` | flood counter and its window | sendEventMessage, acknowledgeEvent, sendHeartbeat, isFlooding | `FloodLimit`, `Delivery` |
| Configuration loader, `lib_module/configloader.cpp` | none | getRules, getConfig | `Config`, `Algorithms` |
| Video, `modules/module_video` | frame buffers, pending attachments, routes | the frame loop, the message thread, forked writers, configure, applyRules | `OutputHandler`, `Config`, `Algorithms`, `Heartbeats` |
| Noise detection, `modules/module_noise_detection` | current recording, events to wait for | record, raise events, wait for replies, delete | `NoiseDetection`, `Heartbeats` |
| Mail, SMS, firebase, `modules/module_*` | rules, settings, token | receive an action, take it, acknowledge it | `Delivery`, `Heartbeats` |
| Temperature, trigger, streaming | timers | heartbeats and events | `Heartbeats`, `FloodLimit` |
| JSON parser, `lib_module/jsonxx.cpp` | none | parse, get, has, json() | `JsonValue`, `Json` |
| WAV writer, `module_noise_detection/pa_write_wav.cpp` | bytes written so far | open, write, close | `Wav`, `Algorithms` |
| Loggers, image processing | | | no, see below |

**How they interact.** Every module is a process of its own that shares nothing
with the core but message queues: one from all modules to the core, one from the
core to each module. Sending never waits; a message for a full or removed queue is
lost. In the core run three threads and a signal handler:

- the *main thread* reads the core queue: an event goes to `enqueueEvent`, an
  acknowledgement to `acceptAck`, a system message to `systemMessage`, a heartbeat
  and its interval to the watchdog;
- the *ack thread* looks every second for actions that nobody has acknowledged
  within a minute;
- the *watchdog thread* looks every ten seconds at the modules' processes, and
  raises a system message when it buries one, so it calls the rule engine too;
- the *SIGINT handler* kills the modules and the core.

The mutexes are taken in the order `modules_mtx_`, `ack_mtx_`, `queue_mtx_`. The
SIGINT handler takes none.

**What is hard.** The rule engine checks a rule outside its mutex and acts on the
result inside; the ack thread compares with a time it read before it got the mutex;
an acknowledgement may come late, twice, or for an event that was given up, and two
threads free entries, one of them outside the mutex. The watchdog handles processes
that end, hang, fork, cannot be killed or cannot be forked, with flags that say
what it believes rather than what is so. A queue outlives the process that reads it,
so that a module that is forked again finds its predecessor's messages, with rules it
has read anew. In the modules: replies that never come and files that wait for them,
a counter shared by threads, heartbeats that must go out between pieces of work, and
files that are read while they are being replaced.

**What makes each component correct.**

- Rule engine: an enqueued event is answered once; its action is repeated only when
  it is overdue and given up only after the last retry; events of a rule are
  fire_limit apart; no caller waits for ever.
- Watchdog: a module runs at most once; it is killed only when it is silent;
  whoever ends comes back or is buried, and burial is final, due and complete;
  nothing is killed that is not a module's, and nothing of a module survives.
- The queues with what is at both ends of them: an event module that is told of an
  acknowledgement can rely on an action, is told once, and nothing is done more often than
  it was asked for, whoever dies and whatever is lost.
- Module base class: at most so many messages pass in a window, and a heartbeat does
  get out.
- Video and noise detection: a file lives as long as an event that carries it may
  still be acted on, and is deleted afterwards; a video has no gaps.
- Heartbeats: a module that works is not given up for silent.
- Configuration: every process makes the same rules of the same file, and none starts
  with half of one.

## The modules

### RuleEngine

The state is that of `ruleengine.h:126-131`, with the pending entries as a set of
ids (the list is in the order of its ids, since ids are given and appended under
`ack_mtx_`) and the fields of `EventEntry` the engine reads. Each thread has a
program counter; an action ends where the code takes or releases `ack_mtx_`, or
reads shared state without it:

| Code | Actions |
|---|---|
| readMessage, MSG_EVENT | `ReceiveEvent` |
| systemMessage, of either thread | `SystemMessage`, then one round per rule |
| enqueueEvent up to line 52, without the mutex | `CheckUnknown`, `CheckReject`, `CheckTrigger` |
| enqueueEvent's locked section, with takeAction | `Enqueue` |
| acceptAck's locked section; the reply and delete after it | `AcceptAck`; `ReplyAck` |
| ackThread: reading `now`; the lock; one entry each; the unlock | `AckWake`; `AckLock`; `AckSkip`, `AckRetry`, `AckAbort`; `AckUnlock` |
| the clock | `Tick` |

Since the ack thread holds the mutex for a whole scan, `ack_mtx_` is a variable only
for it; the callers' locked sections are single actions that need it free. Whether
an entry has timed out is decided at `AckWake`: only the ack thread sends an action
again, so an entry's age cannot go down before the scan gets to it.

Time is not a clock but the two ages the code compares, capped at the limit they are
compared with. The uptime of the host when the core starts matters, because a rule's
timestamp starts at the clock's epoch.

Three variables (`hist`, `accept_since`, `suppressed`) record what the
modules have seen, for the properties; no guard reads them.

**EventDelivery** is the promise without threads, mutex or time: an accepted event's
action is sent once, perhaps again up to MaxRetries times, and the event has one
outcome; it is aborted only after the last try. **RuleEngineRefinement** maps the
engine to it. An event counts as told of its outcome when the reply is sent, which
for an acknowledgement is one step after it leaves the queue.

### Watchdog

`mod[m]` is module m's `ModuleData` together with the state of the process its pid
names: never forked, running, killed and not yet ended, ended and not yet waited
for, or reaped. The functions of `watchdog.cpp` are operators from one such record
to the set of those it may become, composed as the code calls them; the actions are
what a thread does in one go:

| Code | Actions |
|---|---|
| start() | `Start(m)` per module, `StartAsyncGuarding` |
| watchdogThread | `ScanBegin`, `ScanModule(m)` per module, `ReviveModule(m)`, `ScanEnd`, `Interrupted` |
| heartbeat, setHeartbeatInterval | `Heartbeat(m)`, `SetHeartbeatInterval(m, i)` |
| staticSIGINTHandler | `Sigint`, `KillAll(m)` per module, `Exit` |
| the processes and the clock | `ProcessEnds`, `ForkChild`, `ChildrenEnd`, `SendHeartbeat`, `Tick` |

resurrectModule is two actions, because it waits up to KILL_TIMEOUT for the kill and
the SIGINT handler, which takes no mutex, may run meanwhile. `Interrupted` is
possible only in the sleep: that is where a boost thread notices an interrupt.
Heartbeats wait in the core queue and name the module, not the process: those of a
dead process still count. The fields `children`, `strays`, `lost`, `wild`, `checks`
and `deaths` record what happened, for the properties.

The model lets a signal run its handler on the main thread, the usual place, and
between two steps of the other threads rather than in the middle of fork. A module
that has been forked and has not yet called setsid is not told apart from one that has.

### Messaging and Delivery

`Messaging` is the state of the queues and what the two classes do to it:

| Code | Definitions |
|---|---|
| `MessageHandler(create)`, `Messenger::addQueue` | `QueuesInit` |
| try_send in the module's send functions | `Put`, `ToCore` |
| receiveMessageBlocking, ...NonBlocking | `Receive` |
| Messenger::sendMessage with sendAction, sendEventAck, sendEventAbort | `Delivered` |
| Messenger::removeQueue | `RemoveQueue` |

`Delivery` composes the queues with an event module, the core and an action module,
which is any of mail, SMS and firebase. The core's rule engine in it is
`EventDelivery`, the promise that `RuleEngine` is shown to implement, so that the
threads of the engine need not be looked at again.

| Code | Actions |
|---|---|
| Module::sendEventMessage, and the event module's receive loop | `RaiseEvent`, `HearReply` |
| Sentri::readMessage: MSG_EVENT, MSG_ACKAC, the rest | `ReadMessage` with `ReadEvent`, `ReadAck` |
| the ack thread: takeAction again, or sendEventAbort | `AckTimeout` |
| Watchdog::buryModule | `Bury` |
| the action module's constructor: rules.conf, the saved token | `StartModule` |
| its handleMessages, takeAction and acknowledgeEvent | `ReceiveAction`, `TakeAction`, `AcknowledgeEvent` |
| its process ends at any point | `ProcessEnds` |

Events are numbered as they are raised; the engine gives its ids to those it accepts,
and `source` says which is which. A message carries its type, the id, and the event
it is about. Whether the module is flooding, and when an action times out, is left
open: either may be so whenever the code asks. The firebase server may forget a token at
any time, so it decides at each request whether it knows the one it is sent.

rules.conf may have changed since the core read it. takeAction looks a rule up by its id
and compares nothing but the key of its action, of which each module has one. So a
module that starts finds under the event's id the event's own rule ("same"), another
rule of its own ("other"), whose action it then carries out and acknowledges, or nothing
that it can carry out ("gone"). `performed` counts for each event the actions of the
first two kinds apart, and `Carried` adds them.

### OutputHandler

The main thread gives each frame to the output handler of each route (`Retrieve`,
`Out`); what `out` does to its three buffers is the function `NextBuffers`, and
whether it writes them `Writes`. A file is counted under `mtx_` and a process forked
to write it and to raise its events (`Fork`; `WriteFile`, `SendEvent`, `WriterEnds`).
A writer whose second fork fails, or that cannot open the video, exits without its
events (`WriterFails`); one that cannot save an image raises them nevertheless, and the
image is in `unsaved`.
The message thread takes a reply and forwards it to one handler after the other
(`Receive`, `Forward`), each of which counts down. `Restart` is the end of the module
and its next process. Pixels and detectors are inputs: any frame may have motion.

### NoiseDetection

One thread of control, since the future of `std::async` is destroyed where it is made:
`Hear` (the recording is begun), `Recorded`, `SendEvent` for each rule, `AllSent`, then
deleteFile with `Await` for each message it counts and `Remove`. `CoreReplies` and
`ProcessEnds` are what happens outside; a queue keeps its messages across restarts.

### Heartbeats

One module of any kind against a clock of half seconds: what its loop waits and works
between two calls of sendHeartbeat (`TemperatureRound`, `SleepRound`, `AwaitMessage`,
`TakeAction`, `VideoRound`, `Listen`, `Hear`, `Raise`, `Replied`), and the watchdog's
`Check` every ten seconds. The clock the code reads is `time(0)`, which cuts off
fractions; `phase` is what it cuts off. How long the work takes is an input, up to
what the watchdog puts up with. `slow` says whether it took longer than the code
allows for.

### FloodLimit

isFlooding with a step for each load and store of the counter and of the time of its
last reset (`Span`, `Reset`, `Load`, `Store`), and the calls that stand behind it:
most drop their message, sendHeartbeat waits and asks again (`Waited`, `Send`). The
trigger module calls it from a thread per rule without a lock.

### JsonValue, Json, Config, Wav and Algorithms

Pure operators. `JsonValue` has the values of jsonxx and their accessors; `Json` has the
recursive descent over a sequence of tokens that may end anywhere, where each parsing
operator returns the value and where the stream stands, and the writer. `Config` has
getConfig, getRules, and the video module's configure, applyRules and addRoute, which
read such values. The texts of shapes in `collider_rio` are read by boost, so that which
of them it can read is a constant (`Geometries`); on any other, `AddRoute` aborts the
module. `Wav` writes the bytes of a recording. A loop of `Config` or `Wav` is
a recursive function of the number of its iterations.

`Algorithms` says what they promise: its constants are the files and recordings there
may be, and its one step picks one of them. `MCAlgorithms` gives the constants their
values for TLC, and adds the files that are read while they are written, which only
the parser can tell from whole ones.

Operators named `X_Y` beside an operator `X` are `X` with a plausible mistake in it;
no action uses them. Each property of a passing run fails when one of them takes the
place of its original.

## What the runs check

| Run | Result | Shows |
|---|---|---|
| `MCRuleEngine.cfg` | holds | `OneReply`, `AbortAfterAllTries`, `RetryOnlyOverdue`, `ModuleFireLimit`, and that the engine implements `EventDelivery` |
| `MCRuleEngine_live.cfg` | holds | `EveryEventAnswered`, `CallersReturn` |
| `MCWatchdog.cfg` | holds | `NothingLost`, `MortalityBounded`, `BuriedAfterDeaths`, `KillsOnlySilent`, `BuriedLeftAlone` with everything that may go wrong |
| `MCWatchdog_live.cfg` | holds | `DeadIsHandled`, `MuteIsBuried`, when fork works and nobody stops the core |
| `MCDelivery.cfg` | holds | `AckMeansDone`, `DoneAtMostSent`, `OneReplyEach`: an event module is told acked only when an action was carried out for its event, and has one reply for each; nothing is done more often than it was sent; with full and removed queues, dying processes and changed rules |
| `MCOutputHandler.cfg` | holds | `UnbrokenVideo`, `KeptWhileDue`, `GoneWhenDone`: one route for two rules that want videos and one for images, with writers that fail and images that are not saved |
| `MCNoiseDetection.cfg` | holds | `KeptWhileDue`, `OneRecording`, `ListensAgain` |
| `MCHeartbeats.cfg` | holds | `InTime`, `PollsOnTime`, `GivesUpOnlyNoise` for each kind of module |
| `MCFloodLimit.cfg` | holds | `OneThreadRate`, `HeartbeatGetsOut`, and the counter's bound, with one thread and with three |
| `MCAlgorithms.cfg` | holds | `AllOrNothing`, `RulesAgree`, `DefaultsSuffice`, `RoutesPartition`, `WavReads` over some twenty-seven thousand inputs |
| `MCWatchdog_sigint.cfg` | violated | `NoModuleLeft`: `core/watchdog.cpp:97` stops the watchdog thread first "to prevent race conditions", but does not wait for it, and the scan under way forks a module after killAll |
| `MCOutputHandler_routes.cfg` | violated | `KeptWhileDue`: `outputhandler.cpp:72` removes an image "only if all event messages with the same attachment have been aborted or acknowledged", but two routes write it under one name, and each counts the other's replies as well |

Every passing run checks a type invariant too, but for the liveness runs and the
algorithms. These further configurations are each of one property that one would expect, most of
them from a comment, a test or the documentation, and that the code does not keep; TLC
finds the counterexample:

| Configuration | Property | Stated at | What happens |
|---|---|---|---|
| `MCRuleEngine_race.cfg` | `FireLimitOfAll` | `core/ruleengine.h:66,69` | two system messages at once pass the fire limit together |
| `MCRuleEngine_boot.cfg` | `SuppressedHasFired` | what a fire limit is for | soon after boot the first event of a rule is rejected, since the timestamps start at the clock's epoch |
| `MCWatchdog_critical.cfg` | `BuriedIsCritical` | `testing/.../injection.cpp:77-78` | the stability check follows the burial |
| `MCWatchdog_buriedup.cfg` | `BuriedIsDown` | `watchdog.tests:28` | a module whose kill timed out is buried alive |
| `MCWatchdog_strays.cfg` | `NoStrays` | `core/watchdog.h:150-151` | what a module forked survives its own end |
| `MCWatchdog_wild.cfg` | `NoWildKill` | `core/watchdog.cpp:192` | signals to reaped pids and to -1 |
| `MCWatchdog_forkfail.cfg` | `DownComesBack` | `watchdog.tests:33-34` | one failed fork and the module stays down |
| `MCDelivery_sms.cfg` | `SentSMSAcknowledged` | `module_sms/sms_module.h:68` | takeAction returns 0 also when the text message was sent: it is never acknowledged, sent four times, and aborted |
| `MCDelivery_rules.cfg` | `OwnActionDone` | what an acknowledgement is for | rules.conf is changed under a running core and the action module is forked again: it carries out the action of the rule that has the id now, and the event module is told acked |

**Bounds of the rule engine.** Two events (`MaxEvents`) are enough for two threads to
meet in the mutex and for two entries to be in a scan, with ids that differ; three
are needed only to see two system messages after a first event of a module. Rule 0 is
a module's with a fire limit of two ticks, rule 1 is for system messages with one of
one tick, rule 2 is disabled, and id 3 is one that the core does not know. The fire
limits and `ACK_TIMEOUT` are small, but more than one tick where an off-by-one could
hide; one retry gives the three cases first try, retry and abort. The liveness run
has no fire limits, since nothing it checks depends on them. No state constraint is
used: `MaxEvents` is in the guards of the two actions that receive a message, and
ages stop at their limits.

**Bounds of the watchdog.** One module: modules share only the mutex, and a scan
treats them one after the other without looking at another. The numbers keep the
proportions of the code: a module must die twice to be critical, at a step that does
not hit the critical rate exactly, loses less mortality to a stability check than a
death adds, misses two heartbeats before it is killed, and is checked for stability
less often than that takes. The interval can be changed between two values. At most
two heartbeats wait in the core queue.

**Bounds of the delivery.** Queues of two messages, so that each of them is empty,
half full and full; two events (`MaxRaises`), so that their messages, ids and replies
can be taken for one another; one retry; the action module's process starts twice
(`MaxRestarts` 1), so that one process finds what another left. One module is buried
(`MaxBuried` 1), the event module or the action module. One message of other modules at
a time may fill the core queue. The theorems hold for any of these numbers, both modules
buried included.

**Bounds of the video output.** Buffers of two frames each and four frames
(`MaxFrames`): within them motion can begin late, fill `buf_` and go on, stop long enough
for the video to be written, or stop and resume. A
video needs three frames, so that some are too short. Two files (`MaxFiles`), so that
their counters can be mixed up. The run of two routes with the same images needs fewer
frames.

**Bounds of the noise detection.** Two rules and three recordings: the messages that
are late for one can be counted for the next, and there is one more after that.

**Bounds of the heartbeats.** Half seconds, so that a piece of work can lie across a
full second or not; intervals and limits are those of the code. Polling intervals lie
below, at and above the heartbeat interval, one of them no multiple of it; the work of
each kind is none, little, as much as its interval allows for, and as much as the
watchdog puts up with.

**Bounds of the flood limit.** Two messages in a window of one tick. One thread shows
the burst across two windows, three show stores that get lost.

**Bounds of the algorithms.** Lists of up to three rules over four whole entries and
six that lack something; user files with each setting of the video module missing,
blank, right or wrong; two files cut off after every token; lists of up to four rules
for the routes, some with a malformed shape; up to four blocks of samples at the ends of the range of a sample.

**Fairness.**

- Rule engine: weak fairness for the ack thread, for a caller's own steps and for time:
  the threads are scheduled. Strong fairness for `Enqueue`, which waits for the mutex:
  the ack thread releases it for a second between two scans. Nothing is assumed of the
  modules, so an event may never be acknowledged and is then aborted.
- Watchdog: weak fairness for the watchdog thread, the handler, start() and time; strong
  fairness for `Heartbeat`, which gets `modules_mtx_` while the watchdog thread sleeps;
  and SIGKILL ends a process in the end. A module need not send heartbeats and need not
  end.
- Noise detection: weak fairness for its loop, restarts included: the process is
  scheduled, its waits time out, and the watchdog forks it again. The core owes nothing.
- Flood limit: weak fairness for time and for each thread within a call.

The other specifications state no fairness and no liveness.

## What is proved

The theorems hold for every value of the constants that the named assumptions allow:
any numbers of rules, events, retries, modules, handlers and frames, any sizes of
queues and buffers, any files and recordings. Each proof module but the last states an
invariant, proves it with a lemma for each action or handler, and derives the
properties; the last is about what loops compute.

| Module | Theorems | Assumptions | About |
|---|---|---|---|
| `RuleEngineProofs` | `TypeOK`, `OneReply`, `AbortAfterAllTries`, `RetryOnlyOverdue`, `ModuleFireLimit`, `ImplementsDelivery` | rules are numbered from 0, fire limits are natural numbers, ACK_TIMEOUT is not zero | everything the engine's run checks |
| `WatchdogProofs` | `TypeOK`, `NothingLost`, `MortalityBounded`, `BuriedAfterDeaths`, `KillsOnlySilent`, `BuriedLeftAlone` | the rates, limits and intervals are natural numbers, most of them not zero | everything the watchdog's run checks |
| `DeliveryProofs` | `DeliveryTypeOK`, `AckMeansDone`, `DoneAtMostSent`, `OneReplyEach` | queues hold at least one message; the event and the action module have one | everything the delivery's run checks |
| `OutputProofs` | `TypeOK`, `UnbrokenVideo` | routes share no rules and the rules are finitely many; buffers hold at least one frame | the buffers, and all names |
| | `KeptWhileDue`, `GoneWhenDone` | also `OneRoute`: no two routes write attachments of one kind | the counters of the files |
| `NoiseProofs` | `TypeOK`, `KeptWhileDue`, `OneRecording` | finitely many rules | all but the liveness |
| `FloodProofs` | `TypeOK`, `OneThreadRate` | limit and window are not zero | all but the liveness |
| `HeartbeatsProofs` | `TypeOK`, `InTime`, `PollsOnTime` | a second has at least one tick; the setups are of the kinds there are; times are natural numbers | any tick, polling interval and work |
| | `GivesUpOnlyNoise` | also `ShortWork`: the work is short enough for the watchdog's parameters | the watchdog's judgement |
| `AlgorithmProofs` | `RulesAgree` | arrays are lists; the core's name is none of a module | any rules.conf, whole or not |
| | `DefaultsSuffice` | every setting has a default, one of those on offer, in the info file; no text of digits is a camera's URL, and a blank one is no number | any user's file |
| | `RoutesPartition` | arrays are lists; a blank text is no number | any rules of the video module: it starts exactly when each enabled one says a number of outputs and, if it says a region, one that boost can read, and then has its routes |
| | `WavReads` | samples have 16 bits, blocks have one size, a file is shorter than 2^31 bytes | any number and size of blocks |

**Rule engine.** None of the properties is inductive. The invariant `IInv` adds what
they rest on: the mutex is the ack thread's exactly while it scans, and its program
counter says which of `overdue` and `todo` mean anything; the entry acceptAck holds is
outside the queue and unanswered; an entry's `num_tries` and `age` are what the event
module and the action module have seen of it; an overdue entry that is still to be
visited has timed out and stays so, because only the ack thread makes an entry young
again; the main thread is the only one to have a module's rule in hand, and a rule has
not been accepted more recently than it last fired, unless by then the fire limit is
over. `EngineDelivers` maps every action to `Accept`, `Retry`, `Acknowledge`, `Abort`
or a stutter; `OneReply` is what lets it say that the outcome was still pending.

**Watchdog.** `IInv` is `Good` of every module's record: a module that is not marked as
running has no process that was not waited for, which is why a fork loses none; its
mortality rate is at most what its deaths have cost, and only a rate below the critical
one is added to, which bounds the rate and makes a burial need enough deaths; and the
missed heartbeats are at most the checks that found it silent. The handlers are
operators from records to sets of records, so there is a lemma for each of them, and
an action takes the lemmas of the handlers it is composed of.

**Delivery.** `IInv` counts messages where they wait. The message of an event is in the
core queue once, or the engine has the event, or neither (`Once`); no two of the
engine's ids stand for the same event (`Engine`); what was done, is in hand or waits of
an action is at most what was sent (`Done`); replies that are on their way or were
heard are one for an event the core has done with, and none for one that it has not
read or still works on (`Replied`); an acknowledgement, from the action module's
program counter through both queues to the event module, is of an event for which an
action was carried out (`Relied`). `Once` is what makes the abort of a rejected event, which no
entry stands for, the only reply to it. Counting is by the cardinality of the positions
of a queue that hold a message of some set; `HitsAppend`, `HitsTail` and `HitsNone` say
what a send and a receive do to it.

`AckMeansDone` says that some action was carried out for the event, and cannot say that
it was the event's own (`MCDelivery_rules.cfg`). `AcksAreOfTheirOwn` has what is missing:
as long as no action module starts with a rules.conf in which another of its rules has
the id, no other action is ever carried out, so that it was the event's own.

**Video output.** `Good(b, k)` says where in the stream a handler's buffers end: `buf3_`
with the last frame `k`, `buf_` where `buf3_` begins, `buf2_` where `buf_` does. That a
circular buffer drops from its front and the others are only emptied as a whole keeps
it so, and the three in a row are a run of frames.

`KInv` is about the counters in `pendingAttachments_`. For the route that writes a file
the counter is the number of rules whose event for it is still to be raised, waits for
its reply or lost it, and one more while a reply is on its way through the handlers and
has not come to this one; for any other route, and for a file that an earlier process
wrote, it is never above zero (`Counting`), which is why nobody but the writer's
handler removes the file, and not before the last reply. That every counter starts from
nothing needs to know that the names to come are new (`Ahead`), and that an event is in
one place only (`Writing`, `Events`). `OneRoute` is needed: with two routes for
attachments of one kind, both count the events of one name, and the first to reach zero
removes the file. `MCOutputHandler.cfg` is an instance that satisfies it;
`MCOutputHandler_routes.cfg` shows the property violated by one that does not.

**Noise detection.** As long as nothing was late, the messages that deleteFile still
waits for are at least those that wait in the queue and those that are still due
(`InOrder`), so the file goes after the last of them; and there is no file between
`Remove` or the start and the next recording (`OneFile`).

**Flood limit.** The counter's bound needs the threads' local variables: what a thread
is about to store was below the limit when it was loaded, whatever the others have
stored since.

The rate of a module with one thread (`Rate`) is about its last messages, twice as many
as the limit. As many as the counter says were sent since the last reset, the first of
them at its time. The others were sent before, and all but the last
FLOOD_MSG_PER_SECOND - 1 of those are older than a window; the next reset comes when
all of them are. The first of all the messages looked at is one of these, since the
counter does not pass the limit.

**Heartbeats.** The code reads a clock of full seconds, and the properties are about
ticks. `SecondsMore` and `SecondsLess` relate the two: a sleep of n seconds shows n
more of them on the clock, wherever in a second it starts, and a tick takes one from
those to come exactly when the clock shows a new one. `IInv` has a part for each kind
of module that holds while nothing was slow. It bounds the time since the last
heartbeat and to the end of the sleep under way (`Silence`), below eleven seconds for
the temperature module; for video and noise it says what the time mark they compare
with knows of that silence. For the temperature module it also says that the seconds
since a reading, those that are still to be slept and the rest of the polling interval
add up to the polling interval, which gives `PollsOnTime`.

`GivesUpOnlyNoise` is about work that is slow, so `SInv` bounds `Silence` whatever the
work took, and bounds it from below by what the watchdog has seen: each missed
heartbeat but the first took another interval. The two meet at `Patience`. `ShortWork`
is a condition on the work, which no code bounds: TLC's instance satisfies it, with
work as long as it allows, and `MCHeartbeats` has TLC evaluate it.

**Algorithms.** The state is an input that was picked once, so that the invariant
(`Picked`) only says where it comes from. The work is in the loops. The library's
induction theorems cannot be used here, since they take an operator, but its theorem
that a set with a well-founded order has a least element can: `Induction` follows for a
*set* of iterations, by the least one that is missing, and `LoopExists`, that a function
with the loop's recursion exists, by taking the iterations up to which one does. Each
loop then has an operator that says what it has done after n iterations, a lemma for
one more, and a lemma for the whole:

- `ReadUpTo`: what a module has read of the first n rules are those of them that name
  it, with ids that are their positions and rise. So the core, which reads all, and the
  module agree whatever the rules are; and since the core reads each rule, a file on
  which it does not exit stops no module.
- `Filled`: after n entries of the info file, each key of theirs has a value that is on
  offer, the user's or the default. At the end that is every setting the module converts
  or compares.
- `ScannedTo`, for one route: the rules that the scan has gone past watch for something
  else, and every rule is still in the list or gave its action to the route.
  `CombinedTo`, for the routes so far: no two watch for the same, none for the same as a
  rule that is still in the list, and each enabled rule is in the list or has its route.
  Since each round takes a rule from the list, as many rounds as there are rules suffice.
- `WrittenUpTo`: after n blocks the bytes are the header, with the two sizes unset, and
  the samples of the n blocks, each where `Offset` says. Closing the file writes the
  sizes over eight bytes of the header and nothing else (`IsPatched`). `LongRoundTrip`
  and `ShortRoundTrip` say that a number comes back from its bytes.

What is assumed of the inputs is what the code has them be: `module_video.info` has a
default for each setting that the module reads, and the noise detection records 65 blocks
of FRAMES_PER_BUFFER samples (`noise_detection_module.cpp:69`), far below 2^31 bytes.
TLC evaluates the assumptions for the inputs of `MCAlgorithms`.

**Only model-checked.** Liveness (`EveryEventAnswered`, `CallersReturn`,
`DeadIsHandled`, `MuteIsBuried`, `ListensAgain`, `HeartbeatGetsOut`): TLAPS does not
reason about fairness and ENABLED. `AllOrNothing`, which is about the parser: its
operators call each other recursively, and no backend sees the definition of a recursive
operator.

## What is not modelled

- The camera (`module_video/cam.cpp`): its grab thread calls OpenCV with and without a
  mutex, and what two readers of one capture make of it is up to OpenCV. The image
  processing, detectors and colliders calculate with pixels and keep no state.
- The loggers: formatting and output. Their messages are `OtherMessage` in `Delivery`.
- `getEvents` and `getActions` of the configuration loader, which no process calls; the
  XML output of jsonxx, which nothing uses; escapes in strings, which the parser undoes
  and the writer adds.
- `parseVars`, `replaceVars`, `writeHook` and `writeHookData`: text that goes to files
  and messages. The sensor's text, the noise threshold's arithmetic, the command line of
  ffmpeg, and the requests of the action modules are inputs or outcomes.
- The default files that `main` copies at the first start, installation scripts, units
  and udev rules; the destructors of the core's objects, which run only in tests.

## How it was planned

The order was: the rule engine with its promise and proofs, the watchdog, the queues,
the delivery that composes queues, engine and action modules, then the modules one by
one, and the algorithms last; proofs followed each as TLC agreed. What could be added:
the camera's threads against a description of OpenCV's capture, and a watchdog that is
composed with the delivery so that burials and restarts there are those the mortality
rate allows.
