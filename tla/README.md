# Verification of HikVison_Pro in TLA+

HikVison_Pro is a gateway between a web application and Hikvision door
controllers. It is one Windows process, written in C++: it logs in to the
controllers listed in an ini file, serves HTTP requests that open doors and
write cards, and reports what the controllers see (cards used at a door) to a
web server. This directory models that process, checks the models with TLC and
proves the most important results with TLAPS.

All paths below are relative to `src/Control-Test/Control-Test/`. The sources
are in GBK.

## Inventory

| Part | Code | State it keeps | Operations |
|---|---|---|---|
| Start-up | `Controll-test.cpp` `main` (16-54), `ReadConfig` (179-204) | `DoorNum`, `DoorParam[64]` | read the configuration, start Winsock and the library, start four threads, wait for them |
| Door thread | `src/Threads.cpp` `DoorThreadFun` (132-170) | its login handle, the alarm channel | log in to the built-in door, arm it, register the callback, wait for a key |
| Server thread | `src/Threads.cpp` `evThreadFun` (205-256) | `pthread_t`: handle and address per door | log in to every door, bind the HTTP server, run the event loop, shut down |
| Request handler | `src/Threads.cpp` `generic_handler` (12-128), `GetHttpBody` | none between requests | check a request, control a door, set a card, answer |
| Card settings | `src/CardManagement.cpp` `CM_SetOrGetCardNoFun`, `CM_HandleCardSet`, `CM_GetDateTime`, `CM_RemoteCallBack` | the cards on the controllers; open sessions | start a session, fill in a card structure, hand it over, hear what became of it |
| Event reporting | `src/CardManagement.cpp` `CM_AlarmCallBack`, `Controll-test.cpp` `HandleCarNumberCB`, `init_win_socket`, `connect_Hik`, `send_recv_http` | the count of Winsock startups, sockets | one post to the web server for each event |
| MD5 | `src/md5.cpp` | bit count, block buffer, state | `update`, `finalize`, `hexdigest` |
| Download client | `src/httpclient.cpp` | one connection, two events | send the request, read the answer, end the loop |
| Reader and cameras | `IDReaderFun`, `CameraThreadFun`, `src/ReadCard.cpp` | none | print |
| Device library | `HCNetSDK.dll` (external) | a count of users, logins, alarm channels, sessions | called by all threads |

`fist.cpp` and `libevent_test.cpp` are commented out from the first line to
the last; `src/1.cpp`, `test.cpp`, `src/RemoteConfig.cpp` and
`src/httpclient.cpp` have mains or handlers of their own and are not in the
project file (`Control-Test.vcproj`); the last of them is modelled all the
same, for its event loop. `Login_Init`, `JsonDecode` and `test()`
are called by nothing.

How the parts interact:

* `main` fills `DoorParam` before any thread exists; the server thread reads it
  and keeps pointers into it. There is no lock anywhere in the program.
* All threads share the device library. `main`, the door thread and the server
  thread call `NET_DVR_Init` once each; `NET_DVR_Cleanup` is called by the door
  thread when its login fails, by the server thread **for each** login that
  fails, and at the end of the server thread.
* libevent calls `generic_handler` on the server thread, one request at a time.
  A card setting goes on after the answer: the library reports its outcome to
  `CM_RemoteCallBack` on a thread of its own.
* The library calls `CM_AlarmCallBack` on its threads, at any time. Every call
  starts and cleans up Winsock, on which the HTTP server's socket lives, too.

What is hard, and what makes each part correct:

* **Library life time.** One thread's cleanup must not end another's logins;
  handles are reused, so a stale one in the table may denote another door.
  Correct means: a command reaches the door it names or none; the alarm channel
  stays armed.
* **Shutdown and unknown doors.** The search for an address and the two fixed
  logouts read table entries that may never have been written.
* **Requests.** Checks, effect and answer are separate steps with failures,
  copies and a clock in between. Correct means: only a genuine, fresh request
  has an effect, at the door its table entry leads to, and the answer says what
  happened.
* **Cards.** One structure is handed over for each message, with arrays indexed
  by channel, and sessions are not ordered. Correct means: what a card may do
  follows from the messages carried out.
* **Winsock.** Startups and cleanups of `main`, the server's shutdown and the
  callbacks of the library are one count. Correct means: nobody takes it from
  the others; what is lost is accounted for.
* **Answers.** One `recv` may bring any part of an answer, up to the whole
  buffer. Correct means: the search in it goes no further than the terminator
  (which the code puts behind the buffer if the answer fills it); the caller
  gets the body or nothing.
* **MD5.** Correct means: the digest is the standard's for the whole text,
  however it was cut into pieces.
* **Download.** Events fire for a timeout and for an error as they do for data.
  Correct means: the loop ends, and for a reason.

`PROJECT.json` lists the hazards found, each at its line, with the properties
that guard it. Some have a note instead, or besides: what a property leaves to
its condition, and what the code does nothing against, so that no property can
say it does not happen.

## Modules

| Module | Models | Runs |
|---|---|---|
| `HikSdk` | the library's count, logins, alarm channels and callback (external) | through `Gateway` |
| `DoorControl` | abstract: what the server promises those who operate doors | through `Gateway` |
| `Gateway` | `main`, door thread, server thread, look-up and control of a door; implements `DoorControl` | `gateway_*` |
| `RequestReply` | abstract: what the HTTP server promises its clients | through `HttpServer` |
| `HttpServer` | `generic_handler`; implements `RequestReply` | `http_server` |
| `AlarmReporter` | the reporting callbacks on one Winsock | `alarm_reporter`, `car_flags` |
| `AnswerText` | the bytes of an answer in `send_recv_http` | `answer_text` |
| `System` | the whole process: `Gateway` and `AlarmReporter` on one Winsock | `system` |
| `CardConfig` | `CM_HandleCardSet`, and the controller's cards | `card_*` |
| `Md5Stream` | buffering, counting and padding of `md5.cpp` | `md5_stream` |
| `Md5Digest` | `transform` and the encodings of `md5.cpp`, on top of `Md5Stream` | `md5_digest` |
| `Downloader` | `src/httpclient.cpp` and its event loop | `downloader` |

`GatewayProofs`, `SystemProofs`, `HttpServerProofs`, `AlarmReporterProofs`,
`CardConfigProofs`, `Md5StreamProofs`, `AnswerTextProofs` and
`DownloaderProofs` hold the theorems about the module they are named after. An
`MC` module gives the constants of its module values where a `.cfg` cannot.

`Gateway` takes `HikSdk` in by `EXTENDS`; its actions are conjunctions of a
thread's control step and one call of the library. `System` extends `Gateway`
and instantiates `AlarmReporter`: the library runs a callback only while an
alarm channel is armed and the callback registered, both of which the door
thread does, and every step of either that touches Winsock is a step on the one
count of startups (`startups`), with the server's listening socket and the
callbacks' connections. `HttpServer` begins where `Gateway` ends: the table is
complete. `CardConfig` begins where `HttpServer` hands a card over (`handed`);
`Applied` and `Refused` there are the outcomes that `CM_RemoteCallBack` reports
there. `HttpServer` abstracts md5 to "the token fits the time stamp", which
`Md5Stream` and `Md5Digest` look into.

### How state and actions correspond to the code

*Gateway.* `pc[t]` is the next call of thread `t`; each call into the library
is an action of its own, because that is where threads meet. The locals and
fields keep their names: `DoorParam`, `i`, `lUserID` (the table), `count`
(`count`, then `wLen`). `login` is the loop's local `lUserID`, `alarmUser` the
door thread's. `Stored(k)` is what reading `lUserID[k]` gives: what the loop
put there or, for `k >= count`, anything fresh heap memory can hold
(`HeapFill`; the debug heap's fill is no handle, a release heap's may be).
The request handler's part of this module is `ControlGateway(addr)`, with the
search as it is written: first match, or one past the end. `ini.num` is whether
section NUM has its total, without which `main` returns at once; `ReadSection`
is a call of `ReadConfig`, for NUM or for a door.

*HttpServer.* `Enter` is everything from the top of `generic_handler` to its
first call into the library; `Refusal` are the checks in their order, `Throws`
the ways out by exception (jsoncpp 0.5.0: `asString` of a value that is no
string throws, and nothing catches it): of the time stamp before any check, of
the token after the check of the window, of the rest once the token is right. The texts "get timestamp faild" and
"get CM_HandleCardSet faild" are missing because they cannot be sent: `c_str()`
is never `NULL`. A session that was started stays open, since nothing in the
program stops one. An address that is not in the table is not refused: the
search ends at an entry nobody wrote, and `Reach` is the doors that entry can be
logged in to, one of `StrayDoors` (none, if what is in it is no handle). The
command is carried out, and a session started, there. `where` records the door
a command or a card went to.

*AlarmReporter.* One `pc` for each callback thread, one action for each step
that touches Winsock or the network: startup, connect, send, recv, close,
cleanup. `winsock` counts startups, the one of `main` included; at zero every
socket of the process is gone. `orphans` are the sockets `connect_Hik` leaves
open, `stray` the startups of callbacks that returned early.

*CardConfig.* `CM_HandleCardSet` is a function from a message to the structure;
each array write is a set of doors, read through the header that declares the
structure. The two writes that leave their array stay inside it: `byDoorRight`
is followed by `struValid.byEnable`, and the word four before
`wCardRightPlan[0]` is the start of `byCardPassword`. The device (external)
takes over the fields named by `dwModifyParamType`, each one whole.

*System.* `OtherStep` are the steps of `Gateway` that do not touch Winsock, the
other four have their effect on it added. The steps of the callbacks are
`AlarmReporter`'s own, with `startups` for its `winsock`; it has no
car callback here, since no thread of the build registers one. `lost` records
that an event came with nobody registered for it.

*AnswerText.* `recvbuf` has one cell more than `MAX_HTTP_LEN`, where the
terminator goes when an answer fills the buffer. That cell is not the buffer's:
`behind` is what its owner had in it, and after such an answer the zero is there
instead. That the call then goes on as if nothing had happened is an assumption
of the module. A turn of the search loop is a step; `looked` is the furthest
cell it has read, which the code's short-circuit comparison decides
(`LookedAt`). A character is a carriage return, a line feed, a zero or
any other.

*Md5Stream.* The object is a record, `Update` and `Finalize` functions on it;
`Transform` appends the block, which keeps all that the properties tell apart.

*Md5Digest.* A word is a function from its 32 bits to Booleans: bitwise
operations, rotation and a ripple-carry sum are written out, modulo 2^32 by
construction. Each of the 64 operations is a step; which word of the block,
constant and rotation it takes comes from the tables the macros of `transform`
spell out.

*Downloader.* `pending` are the events libevent holds; an event that fires
leaves it, as neither is persistent. `write_cb` may fire at any time, for the
socket, its error or the ten seconds; `Send` is one turn of its loop. The
network's actions are guarded by nothing the client does but having sent the
whole request.

### Mutants

Next to some actions stand mutants: the action as a plausible slip would have
made it. They are not part of `Next`. Each property of each passing run is
violated when the mutant `PROJECT.json` names takes the place of its original.

## Runs

| Run | What it checks | Bounds | Result |
|---|---|---|---|
| `gateway_two_doors` | `KeepsDoorPromise` (refinement, with liveness), `DoorsVisited`, `LogoutsCoverTable`, `ProcessEnds`, `NeverStuck` | 2 doors, 3 handles, 7 files, debug heap | holds, 109 371 states |
| `gateway_three_doors` | `IInv`, `NoMisdirectedCommand`, `AlarmKept`, `TableTruthful`, `NoOverRelease` | 3 doors, 4 handles, 2 files, heap that holds handles | holds, 574 538 states |
| `http_server` | `KeepsPromise` (refinement, with liveness), `OnlyGenuine`, `SuccessMeansDone`, `FailureMeansUntouched`, `CardsCostSessions`, `NeverStuck` | 3 requests of 12 kinds, 2 doors, 1 session, 2 ticks | holds, 1 206 143 states |
| `alarm_reporter` | `WinsockHeld`, `RefsAccounted`, `LeaksAreLosses`, `PostedAtMostOnce`, `CallbacksReturn`, `NeverStuck` | 2 alarm threads, 1 car thread, 3 events | holds, 493 963 states |
| `car_flags` | `DocumentedCarsPosted` | the same, 2 events | **violated** |
| `system` | `StartupsBalanced`, `NobodyCutOff`, `EventsLostOnlyUnregistered` | 1 door, 2 handles, 2 library threads, 2 events | holds, 1 955 372 states |
| `answer_text` | `InsideUnlessFull`, `BodyHandedOver` | a buffer of 6 bytes, every answer | holds, 95 272 states |
| `card_settings` | `OneDoorPerCard`, `PassTakesTwoMessages`, `CorruptionConfined`, `PeriodKept`, `DeletionSticks` | 3 messages of 23 kinds, 2 doors | holds, 1 112 236 states |
| `card_grant` | `GrantLetsPass` | 2 messages | **violated** |
| `md5_stream` | `PiecesDoNotMatter`, `CountExact`, `DigestOfWholeText` | texts of up to 9 bytes, blocks of 4 | holds, 82 528 states |
| `md5_digest` | `AgreesWithStandard` | the 7 texts of RFC 1321 | holds, 592 states |
| `downloader` | `EndsForAReason`, `EndsUnlessBroken` | request of 5 bytes, answer of 6 | holds, 147 states |

Each larger module has its type invariant, `TypeOK`. `gateway_three_doors`
checks it as a part of `IInv`, `card_settings` and `md5_stream` by itself; of
`HttpServer` and `AlarmReporter` it is proved (`TypeCorrect`).

`NeverStuck` says of a module that each thread, callback or handler with
something to do has a step to take (`ENABLED` of its fair action). No call of
the library, of Winsock or of the allocator may leave a failure without a way
on. The run shows it; the proofs of liveness take it as their hypothesis.

Why the bounds are enough:

* *Gateway.* `main`, the door thread and the server hold three references, a
  failed login gives one back and the shutdown of the server another. With two
  lost doors, the library can be taken away under a thread that uses it, so
  three doors show both sides of the condition `AtMostOneLost` with a door left
  over to be misdirected. The files include the shipped one, one that lists a
  door twice, one with no door, one that lacks a door's keys and one that lacks
  the total. There is one handle more
  than simultaneous logins can need, so a fresh handle and a reused one are
  both possible.
* *HttpServer.* Two requests are needed to exhaust one session, and a third to
  come after that, for another door. The entry behind the table leads to one of
  the two doors, or its use fails. The clock passes the window (one tick) once; time stamps lie
  before, in and after it.
* *AlarmReporter.* Three threads can all be at different steps of their call.
* *System.* Two callbacks can be at different steps while the server thread
  shuts down, and one login is enough to have it fail in either thread; the two
  library threads are interchangeable (`SYMMETRY`; no liveness is checked).
  More doors are `Gateway`'s subject, and the theorems cover them.
* *AnswerText.* Six bytes hold the empty line with text before and behind it,
  two overlapping starts of it, and one cut off by the end of the buffer.
* *Md5Digest.* The suite has texts that end in every part of a block, two whose
  length needs a block of its own, and every operation of `transform` runs on
  each.
* *Downloader.* A byte is a unit of progress: the request can be cut and the
  answer come in pieces anywhere. The model is small because the client is.
* *CardConfig.* Right, plan and password each need one message, and the third
  may come between. Channel 2 stands for 256: `MaxDoorNum` is the first index
  behind the arrays.
* *Md5Stream.* The word wraps after eight bytes, so nine bytes pass a wrap, two
  block ends and a remainder, and one piece may be longer than the low word
  counts.

`CHECK_DEADLOCK FALSE` stands where the model stops because its bound on
requests, events or messages is reached. `Gateway` has no such bound: its
deadlock check is on, and the end of the process is a stuttering step.

### Fairness

The runs of `Spec`, and the theorems about it, assume none; `FairSpec` is
`Spec` and the `Fairness` of the module. `gateway_two_doors` assumes
weak fairness of each thread (`WF` of its steps while the process is up):
Windows schedules every runnable thread, and each blocking call of the library
has a timeout (`NET_DVR_SetConnectTime`). Nothing is assumed of a key press, a
request or a failing event loop. `http_server` assumes weak fairness of the
handler: libevent dispatches pending requests. `alarm_reporter` assumes
fairness of the callbacks' threads and that `recv` returns, that is, that the
web server answers or hangs up. The code does not guarantee the latter
(`Controll-test.cpp:140` sets no timeout), and `CallbacksReturn` does not hold
without it. `downloader` assumes that the client runs, that an attempt to
connect has a result and that the server goes on answering or closes; that the
connection does not break is in the property, because there the code has no way
out (`src/httpclient.cpp:56`).

### What the runs show

* The program survives **one** failed login. With two of three or more doors
  down, a thread's cleanup can release the library under the others; that is
  why `AlarmKept`, `TableTruthful` and `NoOverRelease` carry `AtMostOneLost`.
  With two doors no command is ever misdirected, however many logins fail: there
  the gateway implements `DoorControl`.
* For an address that is not configured the handler reads an unwritten handle.
  On a heap whose fill is no handle the request fails; on another a genuine
  request moves a door, or sets a card at it, that it did not name, and is told
  "success". `OnlyGenuine` therefore says of such a request only that it is
  genuine and that nothing but the unwritten entry decides the door; for a
  configured address, that it is the door asked for.
* Nothing keeps a genuine request from being carried out again while its time
  stamp is in the window: copies are requests of their own in the model, and
  `OnlyGenuine` bounds when they can have an effect, not how often.
* A door command reported as failed may have moved the door. `SuccessMeansDone`
  is about the other answer; for card settings `FailureMeansUntouched` has the
  converse.
* An answer of the web server that leaves a byte of the buffer free is handled
  inside the buffer. One that fills it has its terminator written one byte
  behind (`Controll-test.cpp:142`), and the search reads it there:
  `InsideUnlessFull` excepts this case because the code does not keep it.
* The final logouts release what the server logged in only for at most two
  doors; with one door the second logout uses an unwritten handle and may log
  the alarm channel out (`LogoutsOwnHandles` excludes that case).
* A card setting that is answered "success" was handed over, which is all the
  answer can mean; each one costs a session for good.
* In the whole process, too, each Winsock startup has one owner, until the
  server thread gives back `main`'s: the callbacks under way then keep Winsock
  up for themselves. The condition `missed = 0` in these properties is
  a startup that failed and whose cleanup follows all the same.
* An event is lost only while the door thread has armed the channel and not yet
  registered the callback, or after the registration failed, which leaves the
  channel armed for good.
* Every callback that returns early leaves a Winsock startup behind, and every
  refused connection a socket; no other callback and no shutdown is affected.
* The server gives a card a right, or a plan, at one door at most, and it
  takes two messages to make a card pass.
* A download whose request was cut short still ends when the server closes. One
  whose connection breaks does not: the read event fires again and again.

### Findings

* **A grant does not let a card pass** (`card_grant`). For channel n the code
  writes the right of door n + 1 and the plan of door n
  (`src/CardManagement.cpp:185`, `:200`), while the header
  (`include/HIK/HCNetSDK.h:41304`) and the comment at
  `src/CardManagement.cpp:68` say a card needs both for the same door.
* **Leaving cars** (`car_flags`). `Controll-test.cpp:86` takes flags 0 for a
  car that leaves; `include/car/CarNumber.h:43` documents 2. No thread of the
  present build registers this callback.

## Proofs

All theorems hold for every value of the constants that meets the named
assumptions of the modules (typing, finiteness of the thread sets, at most 16
doors in `GatewayAssumption`, powers of two in `WordAssumption`); TLC evaluates
them in the runs.

| Module | Theorem | States |
|---|---|---|
| `GatewayProofs` | `Invariance` | `Spec => []IInv` |
| | `TypeCorrect` | `Spec => []TypeOK` |
| | `DoorsVisitedThm` | `Spec => []DoorsVisited` |
| | `CommandsReachTheirDoor` | `Spec => []NoMisdirectedCommand` |
| | `AlarmSurvives` | `Spec => []AlarmKept` |
| | `TableStaysTruthful` | `Spec => []TableTruthful` |
| | `CleanupsAreOwed` | `Spec => NoOverRelease` |
| | `ShutdownLogsOut` | `Spec => []LogoutsCoverTable` |
| | `ServerKeepsPromiseWhileSafe` | `Spec /\ []HandlesSafe => Doors!Safety`, if the heap holds no handles |
| | `ServerKeepsPromise` | `Spec => Doors!Safety`, if `MaxDoors <= 2` besides |
| | `ServerStarts` | `FairSpec /\ []NeverStuck => (Phase = "starting" ~> Phase # "starting")` |
| | `ProcessComesToItsEnd` | `FairSpec /\ []NeverStuck => ProcessEnds` |
| `SystemProofs` | `SystemRefinesGateway` | `SysSpec => Spec` |
| | `EventsLostThm` | `SysSpec => EventsLostOnlyUnregistered` |
| | `StartupsBalance` | `SysSpec => []StartupsBalanced` |
| | `NobodyIsCutOff` | `SysSpec => []NobodyCutOff` |
| | `SystemKeepsDoors` | `SysSpec => [](NoMisdirectedCommand /\ AlarmKept)` |
| | `SystemKeepsDoorPromise` | `SysSpec /\ []HandlesSafe => Doors!Safety`, if the heap holds no handles |
| | `SystemPostsOnce` | `SysSpec => []Reporter!PostedAtMostOnce` |
| | `SystemLeaksAreLosses` | `SysSpec => []Reporter!LeaksAreLosses` |
| `HttpServerProofs` | `Invariance`, `TypeCorrect` | `Spec => []Inv`, `Spec => []TypeOK` |
| | `EffectsAreGenuine` | `Spec => []OnlyGenuine` |
| | `SuccessIsTrue` | `Spec => []SuccessMeansDone` |
| | `FailureIsTrue` | `Spec => []FailureMeansUntouched` |
| | `SessionsBoundCards` | `Spec => []CardsCostSessions` |
| | `HandlerKeepsPromise` | `Spec => Promise!Safety` |
| | `HandlerMovesOn` | `FairSpec /\ []NeverStuck => \A r \in Requests : MovesOn(r)` |
| `AlarmReporterProofs` | `TypeCorrect` | `Spec => []TypeOK` |
| | `StartupsAccounted` | `Spec => []RefsAccounted` |
| | `NobodyLosesWinsock` | `Spec => []WinsockHeld` |
| | `NoEventPostedTwice` | `Spec => []PostedAtMostOnce` |
| | `LeaksArePaidFor` | `Spec => []LeaksAreLosses` |
| | `EveryCallbackReturns` | `FairSpec /\ []NeverStuck => CallbacksReturn` |
| `CardConfigProofs` | `Invariance`, `TypeCorrect` | `Spec => []CardInv`, `Spec => []TypeOK` |
| | `OneDoorPerCardThm` | `Spec => []OneDoorPerCard` |
| | `PassTakesTwoMessagesThm` | `Spec => []PassTakesTwoMessages` |
| | `CorruptionIsConfined` | `Spec => []CorruptionConfined` |
| | `PeriodIsKept`, `DeletionsStick` | `Spec => []PeriodKept`, `Spec => []DeletionSticks` |
| `Md5StreamProofs` | `TypeCorrect` | `Spec => []TypeOK` |
| | `CountIsExact` | `Spec => []CountExact` |
| | `PiecesAreEquivalent` | `Spec => []PiecesDoNotMatter` |
| | `DigestIsOfWholeText` | `Spec => []DigestOfWholeText` |
| `AnswerTextProofs` | `OnlyFullBuffersOverrun` | `Spec => []InsideUnlessFull` |
| | `BodyIsHandedOver` | `Spec => []BodyHandedOver` |
| `DownloaderProofs` | `DownloadEndsForAReason` | `Spec => []EndsForAReason` |

*Gateway.* None of the properties is inductive: that the table is truthful
depends on the library staying up, which depends on who holds a reference, which
depends on where every thread is and on how many logins failed. `IInv` is the
conjunction of these layers, and each has a step lemma that may use those before
it:

1. `TypeOK` - types (`TypeStep`);
2. `MainInv` - the door list is complete before a thread starts, and main
   outlives its threads (`MainStep`);
3. `CountInv` - where the server's loop is in the list (`CountStep`);
4. `RefsInv` - while at most one door is lost, the library's count is at least
   one for main, one for the door thread and one for the server thread, less
   one for the lost door (`RefsStep`, with `LostStep`: a step adds a lost door
   only at a failed login);
5. `TableInv` - handles the server still relies on are live, on their door and
   pairwise different (`TableStep`);
6. `AlarmInv` - the door thread's handle is live, armed, and none of the
   server's (`AlarmStep`);
7. `LastInv` - the last command went to its door (`LastStep`; with two doors at
   most this also holds after the library was lost);
8. `LoginsInv` - every live login but the door thread's is one the server has
   recorded and has not yet logged out of, for the shutdown.

`StepIsAction` reduces `[Next]_vars` to one case per action. `IInv` itself is
an invariant of `gateway_three_doors`. For the promise of `DoorControl` every
action is shown to be a step of it or to stutter there; that a fresh heap holds
no handle is what keeps a command for an unknown door from reaching one. With
any number of doors this is so while `HandlesSafe` holds: at most one login
failed, or at most two doors are listed (`ServerKeepsPromiseWhileSafe`), which
with two doors at most is always (`ServerKeepsPromise`).

For liveness, `Places` lists where a step may take each thread and what it does
to the loop counters there, and `PlaceSteps` and `OwnSteps` say that every step,
and every step of a thread's own, obeys it. `OrderInv` has the threads begin one
after the other. The two loops, over the sections of the configuration
(`ReadingEnds`) and over the list of doors (`VisitingEnds`), end because one
turn leads to the next or out (`ReadingTurn`, `VisitingTurn`) and there are at
most 16 doors: `GatewayAssumption` bounds them, so the leads-to steps are
put together one by one where an induction on their number is not available.
Main then begins every thread (`ThreadsBegin`), the server reaches its event
loop or its end (`ServerGetsReady`), and main comes back from its wait.

*System.* `SystemRefinesGateway` holds because every step of `System` is one of
`Gateway` or leaves its variables alone, so that `IInv` is at hand.
`WinsockInv` adds: while no startup failed, `startups` is `winsock` plus the
number of callbacks under way plus the stray ones; `winsock` is one from
`main`'s startup to the server's cleanup; the callbacks' connections are open.
A cleanup then never brings the count to zero under anybody. How the number of
callbacks under way changes is a lemma on cardinalities (`BusyChanges`).
What `AlarmReporterProofs` says of a single step is used as it is, through an
instance of that module with `System`'s variables: a callback's step is a step
of `AlarmReporter` (`CallbackReports`), a thread's leaves the reports alone and
only closes sockets (`ThreadsReportNothing`), so that `LeakInv` holds in the
whole process too, although its `Init` and the server's cleanup are not
`AlarmReporter`'s.

*HttpServer.* The invariant says of the request being handled, by the step
reached, which checks it has passed and which effects it has had, that a handle
it is about to use, if it is a session's, is that of its own session at its own
door, and of every other request that it has its answer or waits without an
effect. The refinement
maps "being handled" to the head of the queue. `HandlerMovesOn` is the order of
the handler's places (`HandlerFollows`) together with what the order of the
queue says of a step that is back at the first place: it has left the request
behind (`HandlerMoves`).

*AlarmReporter.* `SharedInv` is the balance of startups, as in `System`; that no
event is posted twice rests on `EventInv`: callbacks under way have different
events, not posted before their `send`.
`LeaksAreLosses` compares three counters with the size of a set of events and is
not inductive: a callback that fails to connect may leave a socket and a startup
only because of what it had before. `LeakInv` counts instead the callbacks that
go on to connect although their startup failed (`Unstarted`), which are owed a
socket, and the unposted events that no callback under way reports (`Lost`), of
which each stray startup has one. `LostStaysLost` says that nobody posts such an
event later, `LeakStep` that whoever returns early adds his own to them.
`EveryCallbackReturns` follows a callback through its places: a call visits none
twice (`PlacesFollow`), and `Scheduled` takes it from each to a later one
(`WorkMoves`).

*CardConfig.* `OriginInv` traces every field of a card to its enrolment, a new
card or a message carried out; what the messages can put there is a matter of
`CM_HandleCardSet` alone. `PeriodInv` and `OrderInv` say what the later messages
and the pending ones can still do.

*Md5Stream.* `Absorbed` says what an object given the bytes `s` has in it: their
number of bits in the two words of the count, their whole blocks as the state,
the rest at the front of the buffer. It is what `StreamInv` adds to the types,
and from it the digest follows. `CountedExact` is the addition with carry in two
words of any width; `UpdateAbsorbs` that a piece, whether it stays in the buffer
or fills it and brings whole blocks of its own, leaves the object with the text
made longer by it. `finalize` is two more pieces: `FewestZeros` shows that the
padding it computes is the shortest that leaves room for the count, `PaddedIs`
that with the encoded count the whole is a number of blocks, and
`FinalizeDigest` puts these together. Nothing here is an induction over the text:
the blocks of a sequence are given by their positions (`BlocksAre`,
`BlocksUnique`). `WordAssumption` states what the provers do not know of powers
of two: they are positive, and a word is eight times `2 ^ (WordBits - 3)`.

*AnswerText.* The search has passed no zero; each character it found to match is
not one, so it looks at most at the first, which is there because of the
terminator, and the terminator is inside the buffer unless the answer fills it.
`BodyInv` adds that no empty line has been passed and that nothing
is handed over before the search ends; then the place where it ends is the first
empty line (`SearchHandsOver`).

*Downloader.* The loop is left only with no event pending or after a close; an
event goes missing from `pending` only when the answer is complete.

*Liveness.* To the prover `ENABLED A` is a formula about which it knows
nothing, so no theorem can say that a step is possible. `[]NeverStuck` in the
hypothesis of a theorem supplies that and nothing else: it is a state invariant,
which the run of the module checks, and which the mutants of the runs break by
a call that waits instead of failing. That a thread which can step does get to
its end, for every value of the constants, is what the theorem then shows.

*Model-checked only.* `NeverStuck`, for the reason just given;
`EndsUnlessBroken`, because the request and the answer of a download may have
any length and the argument is an induction on what is left of them; the
fairness of `KeepsDoorPromise` and `KeepsPromise` as these formulas state it,
where `ENABLED` is of an action of the abstract module (`ServerStarts` and
`HandlerMovesOn` say what they mean in terms of the detailed one); and
`AgreesWithStandard`, where the 64 steps of `transform` and of its reference are
recursions whose result only an induction over data would relate. Every other
property of a run that holds is a theorem.

## Assumptions about what is not in src/

* The unwritten entry behind the table, if it is a handle at all, is one of a
  login to a configured door (`StrayDoors \subseteq Doors`).
* The device library counts `NET_DVR_Init` and `NET_DVR_Cleanup`; otherwise the
  calls of three threads would not make sense. `NET_DVR_Init` succeeds, its
  result is never looked at. Handles are small numbers and are reused.
* `_beginthreadex` succeeds.
* The device applies exactly the fields named by `dwModifyParamType`, each one
  as a whole, and different sessions in any order.
* libevent calls the handler on one thread, in the order requests come in.
* The last `WSACleanup` closes every socket of the process; one that is not owed
  does nothing. With an alarm channel armed and no callback registered, the
  library has nobody to tell.
* `http_client::finished` returns nonzero until the answer is complete; events
  fire as libevent documents, a timeout included.
* A failed `NET_DVR_SendRemoteConfig` has handed nothing over; a failed
  `NET_DVR_ControlGateway` may have moved the door.

## Not modelled

* The reader and camera libraries: closed, and without effect in this build.
* `src/RemoteConfig.cpp`, a demonstration that is not built: its card structure
  is what `CardConfig` has of `CM_HandleCardSet`. `src/1.cpp` and `test.cpp` are
  earlier forms of modelled code; `fist.cpp` and `libevent_test.cpp` are comments.
* `Login_Init`, `JsonDecode`, `test()`: called by nothing.
* Layout of HTTP and JSON text, the path of the ini file and the lengths of its
  values, the digits of dates. They are formatting, and no property is about
  them.
* The lengths of texts: a time stamp longer than `md5buf` (`src/Threads.cpp:55`)
  or a card number longer than `byCardNo` (`src/CardManagement.cpp:99`) is
  copied past the end, and nothing can be said then. Both are among the hazards.
* What becomes of the memory behind `recvbuf` after an answer that fills it.
* Channels below 0 or above 256, whose writes leave the fields named, and more
  than 16 doors, where the write leaves the table: nothing can be said then.
* The vendored headers (HCNetSDK, libevent, jsoncpp) make up most of the lines
  of the repository. They declare interfaces; what is relied on is stated under
  the assumptions.

## Plan

Done: all modules above, with their theorems. What could follow, in this order:

1. An abstract `AccessList` (card and doors) for `CardConfig`, with the part of
   it that the code does implement.
2. `HttpServer`'s requests inside `System`, where `ControlGateway` is still one
   step.
3. `IniFile` (`ReadConfig`: truncation of values, more sections than entries)
   and `RemoteConfigDemo` (`src/RemoteConfig.cpp`).
