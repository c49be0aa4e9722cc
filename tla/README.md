# A verification development of the OBS VS Code Privacy Guard

The guard hides the OBS output while a sensitive file is visible in VS Code, and
whenever it cannot know. This directory holds TLA+ modules for the code under
`src/`, the TLC configurations that check them on small instances, and proofs
that TLAPS checks for every instance. Parts, runs, hazards and the source lines
of every definition are listed in `PROJECT.json`.

## 1. The system

    VS Code window                          OBS process
    extension.ts  --verdict-->  PipeClient  ==pipe==>  worker threads --+
    (rules.ts)                  (pipeClient.ts)        accept thread  --+--> PrivacyState
                                                       (named-pipe-server.cpp)   |
                                        settings dialog -- set_enabled ----------+
                                                                                 | mode(), once per tick
                                        graphics thread: tick, render  <---------+
                                             | privacy_mode_changed        
                                             v
                                        ProtectionDisplayController <-- UI thread: apply tasks,
                                        (protection-display.cpp)        dialog, save/load, events

| Component | State it keeps | Operations | What makes it correct |
|---|---|---|---|
| Privacy state (`privacy-state.cpp`) | enabled, live clients (identity, last sequence, report, last update), count of lost clients, latched failure | open, HELLO, STATE, GOODBYE, protocol error, close, tick, enable; `mode()` | doubt wins over a safe report; a loss shows at once and is counted once; only a fresh word uncovers |
| Named-pipe server (`named-pipe-server.cpp`) | running flag, accept thread, a worker per connection, pipe instances | start, stop, accept, read and apply, hang up | each entry of the privacy state has a worker that takes it out; stop returns and leaves no thread behind |
| Frame parser (`protocol.cpp`) | none | `parse_frame` | accepts the grammar and nothing else |
| Display controller (`protection-display.cpp`) | latest mode and generation, settings, overlay and watermark flags, scene bookkeeping | mode change, apply task, settings, save/load, scene events, shutdown | protected modes are covered; stale requests lose; the user's scene comes back |
| Image renderer (same file) | selected image and texture, a generation each | select, update texture, render | the texture is known for what it is; a cleared image is not drawn again |
| Plug-in module (`plugin-main.cpp`) | the three objects, last sampled mode | load, unload, tick, render | nothing outlives what it uses; nothing is left behind; every sampled change is forwarded |
| Display settings (`display-settings.hpp`) | per scene collection: image or scene for each event, accepted risk | `resolve_display_action`, save, load | anything doubtful falls back to the bundled image; what is saved is what is loaded |
| Pipe client (`pipeClient.ts`) | socket, two timers, sequence, latest status, disposed | connect, publish, dispose, socket events | streams the plug-in accepts; always a way back; GOODBYE on leaving |
| Activation (`extension.ts`), rules (`rules.ts`) | sensitive flag, connection state | evaluate the visible editors | the status told is the rules' verdict |
| Release automation, build, installer, tests | none at run time | | not modelled (section 8) |

How they interact. Each window's client writes frames to its own pipe instance.
A worker thread per pipe parses them and calls the privacy state, whose mutex
is held for the whole of every call. The OBS tick expires silent clients and
samples `mode()`; a change is forwarded to the display controller on the graphics
thread, which covers the output and queues a request for the UI thread. The UI
thread applies requests, runs the dialog and receives save/load and scene events.

What is hard: three kinds of threads racing to record one failure; a HELLO that
overtakes the expiry of the same window's old connection; clocks read before a lock; a
blocking accept at shutdown; a generation that is checked under a lock and relied upon
outside it; a mode read in one critical section and stored in another; scene bookkeeping
while scenes and collections change; a texture made between two critical sections; a
barrier that waits on the thread that has to run it, and may run before what it is to
wait for; reads that end in the middle of a frame; and a client whose socket learns of a
hangup late.

## 2. The modules

| Module | Models | Notes |
|---|---|---|
| `PrivacyState` | `privacy-state.cpp` | one action per public method; a call that returns false is a stuttering step |
| `TrustLedger` | what that class promises | no handshakes, identities, sequence numbers or clocks |
| `PipeServer` | `named-pipe-server.cpp` around `PrivacyState` | composes: `State == INSTANCE PrivacyState` |
| `FrameParser` | `protocol.cpp` | operators only, and the grammar of `docs/protocol.md` |
| `FrameReader` | the read loop of `process_connection` | bytes in pieces, lines of `FrameParser` |
| `LineReader` | what the read loop promises | lines, without bytes or buffers |
| `SettingsStore` | `display-settings.hpp`, `save_load`, `load_display_mode` | operators only |
| `ProtectionDisplay` | `protection-display.cpp`, the tick | graphics and UI thread, one shared access per step; extends `SettingsStore` |
| `ImageRenderer` | `ImageRenderer` in `protection-display.cpp` | the two critical sections and the upload between them |
| `PluginLifecycle` | `obs_module_load`, `obs_module_unload`, `shutdown` | composes: `Renderer == INSTANCE ImageRenderer` |
| `PipeClient` | `pipeClient.ts`, `extension.ts` | the actions of one callback each; no next-state relation of its own |
| `EndToEnd` | a window and the plug-in | extends `PipeClient`; `Plugin == INSTANCE PrivacyState` |
| `...Proofs` | | the theorems about `PrivacyState`, `PipeServer`, `FrameParser` with `FrameReader`, `SettingsStore`, `ProtectionDisplay`, `ImageRenderer`, `PluginLifecycle` and `EndToEnd` |
| `MC...` | | sets and symmetry for TLC |

Operators whose comment begins with "Mistake:" are not part of the model. Each
states how a definition next to it could plausibly have been got wrong, and a
property that is violated when it takes that definition's place.

### PrivacyState

`clients` maps a live connection to a record of the fields of `Client`.
`hello_received` and `client_id` are one field `id`, which is `Anonymous` until
the HELLO; `std::optional<bool>` is `report`; `last_update` is `age`, the time
since it in clock steps. The callers take their time point before the mutex, so
an action brings a `lag`, and `Tick(lag)` sees every client that much younger.
`protocol_error` and `connection_closed` have the same body and are one action.

`TrustLedger` has four columns (`on`, `trust`, `debt`, `tainted`) and the entries
`Arrive`, `GiveWord`, `TakeLeave`, `Lose`, `TurnOff`, `TurnOn`. The mapping sends
each column to its field, and `trust` to the reports of the live connections.

### PipeServer

The accept thread is a program counter (`check`, `create`, `connect`, `recheck`, `open`,
`spawn`); each worker is one (`poll`, `apply`, `fail`, `leave`, `close`, `hangup`) with
the frames it has read; `stop` is one (`wake`, `join`, `clear`). A refused frame and the
`protocol_error` that follows it are separate steps, because they are separate critical
sections and the tick may come between. A worker reads any number of the frames that
have arrived at once. Every frame is whole (clients send those of `SentFrames`, and at
most `MaxUnread` wait in a pipe): what fails `parse_frame` or outgrows the limit is
`garbage`, and `FrameReader` opens that up. The guard stays enabled here; the switch is
explored in `PrivacyState`. The plug-in starts one server once, so there is no second
start.

### FrameParser, FrameReader and LineReader

A line is its words, what lies between its single spaces, and its size in bytes.
Words are sequences of symbols; a keyword is one symbol, any other character its
own. `split_tokens` keeps its peculiarity: an empty token spoils the line, but one
at the very end is not seen there (and `Refused` has seen it before).
`SequenceLimit` stands for 2^64, from which `from_chars` reports an error.

`FrameReader` has a connection's stream fixed at the start (`lines` and a `tail`
behind the last newline) and counts bytes: `unread` of them have not been read,
`pending` are in the buffer. `LineBuffered` is `pending.find('\n')`. The entry is the
part of `PrivacyState::Client` that decides whether a frame is accepted.
`LineReader` takes, refuses or leaves lines one by one and knows the grammar instead
of the parser; `ReadsLineByLine` is the refinement, with the liveness of
judging everything that is sent.

### SettingsStore

The records and policy of `display-settings.hpp`, and the data of a scene
collection: for each event a number that may be missing or anything at all, the
boolean of the first version, and the names. An image path is whether one is set.

### ProtectionDisplay

Each thread has a `todo`, the stores it has decided on and makes one per step,
and a `pc` (`idle`, `queue`, `post`). `mutex_` makes `TakeGeneration` one step and the
generation check of `ApplyTask` one step; `overlay_required_`,
`watermark_required_` and the image are stored separately, in the order of the
code. Everything else that `apply_on_ui_thread` reads (settings, scenes,
bookkeeping) is written by the UI thread only, which is why the decision can be
made at once. `source` is `PrivacyState::mode()`, which may change at any time;
`stored` is the data of the current collection, and `home` the scene the user last
chose himself. Switching a scene that is gone does nothing. The dialog, save/load
and scene events are UI-thread actions, taken when that thread is idle. A task that the
UI thread posts to itself runs at once or takes its turn, as OBS likes. A bundled
image is compiled into the plug-in and assumed to load. Renaming a scene is removing
the old name.

The initial state is that of the constructor, with the tick registered and no scene
collection loaded: the load at start-up is a load like any other and races with the
tick. Besides `home`, three variables record what has happened, and no step of the
code reads them. `strayed`: the user has selected another scene over a custom one of
ours, to which the controller does not listen. `carried`: a custom scene was entered between the
event of a collection change and its load, so that the code has no scene of the new
collection to return to. `overtaken`: a settings update has put an older mode over a
newer one (section 5, point 4).

### ImageRenderer and PluginLifecycle

An image is known by its pick, the number of the selection that brought it, and
a texture by the pick it was made from; making one may fail. `PluginLifecycle` uses
these actions from the graphics thread and the UI thread. `ui` is how far the UI
thread has come through load, use and unload; `registered` holds the callbacks OBS
has; `tasks` is the UI queue with raw controller addresses. External, from how the
code relies on it: removing a callback waits for a call in progress; a task posted with
`wait = true` has run when the call returns; the tools menu item cannot be removed and
is not clicked after unload. When a task runs that the UI thread posts to itself is up to
OBS: at once, or in its turn behind the earlier ones, the UI thread running the queue
meanwhile. `SelfPosts` holds the possibilities of an instance, and the barrier of `shutdown` and
the requests of the frontend callbacks take either. What a task does that runs after
unload is undefined and not modelled; that one is left is what `TasksHaveController`
is about. Entering the graphics context waits for the frame, which is the guard of
`Shutdown`.

### PipeClient and EndToEnd

A socket is `connecting`, `open`, `broken` (hung up on, and not aware of it:
`readyState` is still "open" and writes are lost), `ending` or `closing` (its
"close" event is pending). `wire` is what each socket has put on its connection.
`visible` is the rules' verdict on what is shown, and `evaluationDue` says that
the event announcing its latest change has not been delivered yet. A socket
object is taken again after its "close" event; two are enough to notice a second
one being made while the first is alive.

`EndToEnd` gives each connection a worker: `conn` is the id `connection_opened` gave
it, or `Waiting`, or `Over`; `read` counts the frames applied. The accept thread may
be later than the client's "connect" event and even than its close. The real
`HelloReceived`, `StateReceived`, `GoodbyeReceived`, `ConnectionFailed` and `Tick` of
`PrivacyState` decide, and a worker whose frame is refused hangs up, which the client
notices later. When OBS goes the privacy state goes with it. One simplification: if
OBS goes while a connection has been taken up and the client's "connect" has not been
delivered, the attempt counts as refused.

## 3. Runs

| Run | Question | Instance |
|---|---|---|
| `PrivacyState` | Is every loss counted once and shown until somebody speaks, does only a fresh word uncover, is the ledger kept, is every silent connection dropped? | 2 windows, 3 connections, timeout and lag 1 step |
| `PrivacyStateUnlatch` | May a periodic STATE clear another connection's failure? (violated) | 2 windows, 2 connections |
| `PrivacyStateRepay` | May it make up for a lost client? (violated) | 2 windows, 2 connections |
| `PipeServer` | Does every entry keep a worker, is every loss recorded, does nothing outlive stop, are frames and hangups handled, does stop return? | 2 connections, 8 moves of the clients, 6 frames to choose from, 2 unread, prompt accept thread |
| `PipeServerStop` | Does stop return whatever the scheduler does? (violated) | no client, accept thread not prompt |
| `FrameReader` | Is every line judged as if it had come alone, and is the buffer bounded? | conversations of up to 3 legal lines, 29 malformed lines alone, behind HELLO and behind STATE, tails of 0 to 3 bytes |
| `EndToEnd` | Is the output hidden while a sensitive file is visible, and does the mode become true? | 2 sockets, 2 edits, 1 stop of OBS, timeout 1 step, 5 connections |
| `DisplaySettled` | Is the display right once both threads rest, does the user's scene come back, do the settings survive, and is exposure repaired? | from the constructor on: all user actions, 2 mode changes, 2 user actions, an old and damaged file (2.2 million states) |
| `DisplayExposed` | Is the output ever bare in a protected mode? (violated) | 4 mode changes, default settings |
| `DisplayStale` | Can it stay bare? (violated) | 2 mode changes, one dialog |
| `PluginLifecycle` | Does a thread or callback outlive what it uses, is anything left, is a cleared image drawn again? | 3 changes of mode or settings, own tasks at once or in turn |
| `PluginDrain` | Is a queued task left when the controller goes? (violated) | 1 change, own tasks at once |

What the bounds leave in. Two windows and three connections allow a window to
reconnect twice, to collide with its own old connection, and a second window to
pay a debt of the first; the proofs hold for any number. Two connections of the
server suffice for a worker that is finished while another is accepted, which is
when workers are reaped. A connection counts for four of the eight moves: one connection
with four frames, enough for HELLO, SAFE, something refused and a SENSITIVE behind it in one
read, or two connections that say nothing. Two mode changes
let a covered mode be overtaken by a stale task or by a dialog, and `DisplayExposed`
has four. Three scenes hold the user's and one for each
event. With a frame limit of 2 bytes and a read of at most 4, a read may hold a line and a
half, several lines, or less than one, and a partial line may lie below, at and
above the limit; 100 for the sequence range puts two-digit numbers inside and
three-digit numbers inside (with leading zeros) and outside. In `EndToEnd` a window may
be expired, refused, hung up on and restarted against, each with an edit before or
after, and has refreshes up to sequence 3. Three changes let an image be replaced
before, during and after an upload. Counters are bounded in the guards of the
actions that raise them: `MaxConnections`, `MaxSequence`, `MaxLag`, `MaxMoves`, `MaxUnread`,
`WakeAttempts` (2 stands for the 10 of the code: what matters is that they run out),
`MaxModeChanges`, `MaxUserActions`, `MaxChanges`, `MaxEdits`, `MaxStops`. Ages stop at
`MaxAge`, beyond which nothing looks. Deadlock is checked except where the system
really ends: `EndToEnd` when the client has been disposed of, `FrameReader` when
the connection is over, `PluginLifecycle` when the module is unloaded.

## 4. Fairness

* `PrivacyState`: OBS calls the tick every frame and the clock advances
  (`WF` of each). Nobody else owes anything.
* `PipeServer`: the accept thread, each worker and the stopping thread are
  scheduled. Clients, the user and the tick may do nothing.
  `PromptAcceptor = TRUE` adds that the accept thread leaves `CreateNamedPipeW`
  before the last of the wake-up attempts, 200 ms after the first; without
  it `StopReturns` fails, which is a finding.
* `FrameReader`: the worker runs and bytes on the way arrive (`WF`). Nobody need
  hang up or stop.
* `ProtectionDisplay`: frames keep coming, the UI thread takes its tasks, and a
  collection that is being changed is loaded in the end (`WF` of each thread).
* `PluginLifecycle`: none. Whether unloading ends is decided by OBS (the removal of a
  callback, the waited task), so nothing is claimed about it.
* `EndToEnd`: both event loops run what is due (`WF`). An attempt to connect may be
  refused even when OBS is up (all instances busy), so success needs `SF`: attempts
  are made again and again and one of them is taken. `ModeBecomesTrue` assumes further
  that OBS stays up, in the property itself.

## 5. Where code and documentation disagree

1. `docs/protocol.md:34-36` says that periodic updates from an existing connection
   cannot clear a failure. `privacy-state.cpp:74` clears the latched failure on any
   accepted STATE (`PrivacyStateUnlatch`), and `native-tests.cpp:80-81` asserts that it does.
2. The comment at `privacy-state.cpp:73` says the same of counted failures.
   Re-enabling the guard forgets every report (line 23) and thereby makes existing
   clients look new, so their next periodic STATE takes back a loss that
   came after the re-enable (`PrivacyStateRepay`).
3. `protection-display.cpp:326` says that protected modes cover synchronously. A UI
   task past its generation check can still clear the overlay afterwards
   (`DisplayExposed`). `DisplaySettled` shows that this heals: the newer request is in
   the queue and covers again.
4. `README.md:424-425` says that generation numbers prevent stale changes from
   overriding newer decisions. `update_settings` requeues the mode it read before
   with a generation taken after, and overrides what the tick forwarded in
   between. The dialog does so and every load, the one at start-up too. This does not
   heal until the mode changes again (`DisplayStale`).
5. `named-pipe-server.cpp:66` and `:194` promise a wake-up that ten attempts cannot
   guarantee (`PipeServerStop`).
6. `protection-display.cpp:747` says that queued UI tasks are drained before the
   controller is destroyed. `shutdown` posts the barrier from the UI thread itself; if
   OBS runs such a task at once, it drains nothing, and a task that the tick had queued
   keeps the address of a controller that is gone (`PluginDrain`). Where the barrier takes its
   turn the comment holds, which is the theorem `BarrierDrains`.

## 6. What is proved

Eight modules, each about every value of the constants that satisfies the named
assumptions of the module it extends. Every safety property of the passing runs is
among the theorems; where a theorem has a hypothesis of its own, it is given here.

`PrivacyStateProofs`, about `PrivacyState!Spec`, for any windows, timeout, lag and
bounds (`Anonymous` is nobody's identity, and the bounds are naturals):

* `TypeCorrect`: `[]TypeOK`. `TypeOK` is inductive. It includes that live connections
  are ids already handed out and that the count of losses is a natural number,
  which in the code is the absence of a wrap-around of a `size_t`.
* `Identity`: `[](UniqueClient /\ ReportIsSequenced)`, inductive relative to `TypeOK`.
* `LostOnce`: `[]LostAtMostOnce`. The invariant adds two numbers that no guard of the
  code relates: `disconnected + Cardinality(Live) < nextConnection`. What
  leaves `Live` covers what joins the count (`LossIsCovered`), an opened connection
  raises both sides, and a repayment only lowers the left.
* `UncoverOnlyOnWord` and `LossAlwaysCovers`: the two action properties, from `TypeOK`.
  `Drops` names a loss by the call that made it (the tick, a protocol error, a close), not by
  what it leaves behind, so that a loss left uncounted is one too. The mode is `Safe` only
  if nobody is lost and everybody live is safe (`SafeMeans`); every drop shows
  (`DropsShow`), and no step but a word or the switch ends `Disconnected`
  (`FailuresStay`).
* `ImplementsLedger`: `Spec => Ledger!Spec`. Every call maps to the entry of its name or
  to a stutter; several expiries in one tick are one `Lose` of the whole set
  (`LossIsLose`).
* `OnlyReenablingRepays`: under `NeverReenabled`, that the guard is not turned on again
  once it is off, the property that `PrivacyStateRepay` refutes holds. Re-enabling
  is therefore the only way to the second finding. The invariant is that who
  has a sequence number has a report (`SpokenIsReported`), which re-enabling breaks.

`PipeServerProofs`, for any number of connections, moves of the clients and wake-up
attempts, whether or not the accept thread is prompt. The invariant `IInv` adds to the
types which pipe instances exist (`PipesInOrder`: those of the running workers, and the
one the accept thread has in hand) and what `stop` has waited for (`StopInOrder`: a worker
that runs is among those it will join).

* `EntriesAreKept` (`[]EveryEntryIsKept`), `StopLeavesNothing` (`[]NothingOutlivesStop`)
  and `TypeCorrect` follow from `IInv`.
* `EveryLossIsRecorded`: `Spec => LossIsRecorded`, whichever thread takes the entry out.
* `ServesPrivacyState`: `Spec => Privacy!Spec`. Every step of the server makes one call of
  `PrivacyState` or none (`ServerSteps`). `PromisesCarryOver` draws the conclusion: the
  theorems above hold of the object the server works on.

`FrameProofs`, for any frame limit, sequence range, read size and streams:

* `ParserAcceptsTheGrammar`: a line has a frame exactly when it is `Legal`. The
  tokens of a line that is not refused are its words unless one is empty; the
  UUID test by position agrees with the set of positions that hold a hyphen.
* `BufferStaysBounded`: `[]BufferIsBounded`. The bound between two reads is what
  `CheckPartialFrame` re-establishes; inside the inner loop `pending` only falls.
* `ReaderTypeCorrect` and `ReadsLineByLineSafely`: the initial states and the steps of
  the read loop are those of `LineReader`, so that the verdict on a stream does not depend
  on how it is cut into reads. The invariant `ReadInv` counts bytes (`Counted`: those of
  the lines taken, the buffered and the unread ones are the stream) and says that
  every line taken had been judged as it came (`Judged`).

`SettingsProofs`, for any scene names: `AnyFileLoads` (any integer, any booleans),
`SaveThenLoad`, `PolicyAgreesWithModes` (the policy of `display-settings.hpp` and the
test `is_protected_mode` of the tick, written in two files, agree on every mode),
`SceneNeedsConsent`, and `SecureDefaults`, which is the code's `static_assert`.

`ProtectionDisplayProofs`, for any scenes, settings, files, mode changes and user actions,
and so for a task queue of any length:

* `TypeCorrect`, with tasks and stores as sequences (`Types`).
* `AlwaysReturnsHome`, from `HomeKept`: the scene to return to is the user's, in
  `previous_scene_` or on the output, unless a custom scene was carried into another
  collection. That exception is a limit of the code, not of the proof.
  `SettingsSurviveAlways`, from `SettingsKept`: settings that are not on file are about
  to be saved.
* `AlwaysSettles` and `AlwaysRightImage`. Both are about rest, and hold because of what
  holds at every moment (`Landing`): a request with the latest mode is still to be applied
  (`Underway`), or what the UI thread has yet to store, on top of what it has stored, is
  what that mode asks for (`Lands`). The rest of it is that the newest request
  carries the latest mode (`Agree`), and that no list of stores touches a part of the
  display twice and the graphics thread covers only with a request of its own to come (`Tidy`).
* `ExposureAlwaysRepaired` and `ExposureNeverLasts`, for every user. What the tick noted
  is what the controller has or is about to be given, unless a settings update has put
  an older mode over it (`Requests`); with `Landing` a bare output in the mode that was
  noted has its cover on the way. `ExposureNeverLasts` says that the property
  `DisplayStale` refutes fails in the way of section 5, point 4, and in no other. A
  scene the user selects over a custom one of ours bares the output by his own hand, and
  is excepted in `ConsentedScene` (`strayed`).

`ImageRendererProofs`, for any number of selections: `KnownTexture` and `FreshFrames`.
The invariant adds `TypeOK` and what `copy` and `texture` have to do with each other at
each step of `update_texture` (`Matched`): the texture between its making and the second
critical section is that of `copy`, whose generation is not older than the frame.

`PluginLifecycleProofs`, about `PluginLifecycle!Spec`, for any number of changes, and so
for a task queue of any length. Every step of the threads is a step of the renderer or
leaves it alone (`RendererSteps`). That is `DrivesTheRenderer`, `Spec => Image!Spec`, and
carries the invariant of `ImageRendererProofs` over to `TexturesStayKnown` and
`FramesStayFresh`. `NothingEverDangles`, `NothingIsLeft` and `TypeCorrect` follow from `Orderly`, an
order of `ui` in which everything has its stretch: objects, threads,
callbacks, tasks and textures. Its core is that a thread inside a callback keeps it
registered. None of them depends on when the UI thread's own tasks run. `BarrierDrains` does:
`Spec => []TasksHaveController` assumes that none of them runs at once. Then the barrier is the last
task of the queue, because nothing that could append another is registered any more, and behind
it the queue is empty (`Drained`). `PluginDrain` is the counterexample without the assumption.

`EndToEndProofs`, about `EndToEnd!Spec`, for any number of sockets, edits, restarts and
connections. For the window alone, `WindowTypeCorrect`, `AlwaysOneWayOn`
(`[]NeverGivesUp`) and `NeverLeavesSilently` (`LeavesWithGoodbye`), from `WindowInv`, types with
streams as sequences, and `NeverGivesUp`; the plug-in's steps enter only through
`PluginActs`: all they do to a window is to break its connection. For both
sides, from `JointInv`:

* `StreamsAreWellFormed` (`[]WellFormedStream`), for which a connection that is up has said
  the latest word last (`StreamInv`);
* `FramesAreAccepted` (`[]NeverRefused`), because an entry is what the frames read so far have
  made of it (`EntryInv`), and the next frame of a well-formed stream is what such an entry
  accepts;
* `OutputShownOnlyWhenSafe` (`[]ShownOnlyWhenSafe`), which needs besides that the window
  knows what is visible or is about to look (`EditorInv`);
* `WindowLeavesNoFailure` (`[]LeavesNoFailure`), because only one connection of the window
  is not over, and one that it left has GOODBYE as its last frame (`ConnInv`).

Only model-checked is liveness, which needs `ENABLED` and is out of the prover's reach:
`SilentClientDropped`, `SensitiveArrives`, `HangupIsNoticed`, `StopReturns`,
`ProtectionTakesHold`, `ExitCovers`, `ModeBecomesTrue` and the part of `ReadsLineByLine`
that says that every line is judged in the end. The violated runs are counterexamples
and need no proof.

## 7. Plan

Done: the modules of section 2, each component of section 1 that runs in OBS or in
VS Code except the rules, and a theorem for every safety property a passing run checks.
What is left:

1. `FrameReader` and `PipeServer` meet in one frame at a time: prove that the frames the
   server's workers apply are those `LineReader` takes from a stream.
2. `ExposureNeverLasts` without `overtaken`, for a user who never answers the dialog or changes
   the collection while a mode change is between its tick and its critical section: the
   weakest hypothesis under which the fourth point of section 5 does no harm.
3. What `LineReader` promises about whole streams: a well-formed stream of `EndToEnd`,
   written as lines, is taken to its end.

## 8. Not modelled

* Drawing, the layout of the dialog, log lines, the status bar: no state the
  properties depend on.
* The rules (`rules.ts`): path normalisation, regular expressions and a glob library
  applied to strings, without state. `PipeClient` takes their verdict as a value.
* Release scripts: they run in a line, one run at a time (the `concurrency` group of
  `release.yml`). Build files, installer and development
  scripts run once, in a line.
* Bundled images that do not load: they are compiled into the plug-in.
* A second start of the pipe server: the plug-in never makes one.
* A dialog answered between the CHANGING event and the load of the next collection.
* A waited task of OBS that never returns, and what a task does after unload.
* The Windows pipe, the OBS task queue, callbacks and scenes, Node's sockets:
  modelled from how the code uses them, as the environment of each module.
