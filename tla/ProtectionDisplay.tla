-------------------------- MODULE ProtectionDisplay --------------------------
(***************************************************************************)
(* What OBS puts on the output: tick_privacy_state of plugin-main.cpp and  *)
(* the ProtectionDisplayController of protection-display.cpp.              *)
(*                                                                         *)
(* Two threads run it.  The graphics thread samples the protection mode    *)
(* once per frame and renders; the UI thread runs queued apply tasks, the  *)
(* settings dialog, save/load callbacks and frontend events.  mutex_       *)
(* protects latest_mode_, generation_ and settings_; overlay_required_ and *)
(* watermark_required_ are atomics, written one at a time; the image has a *)
(* mutex of its own; the scene bookkeeping belongs to the UI thread.       *)
(*                                                                         *)
(* Each thread is therefore a sequence of shared accesses.  Its "todo" are *)
(* the stores it has already decided on and still has to make, in order;   *)
(* its "pc" is where it continues after them.                              *)
(***************************************************************************)
EXTENDS SettingsStore, Sequences

CONSTANTS
    HomeScene,          \* the scene on the output when a collection is loaded
    SettingsChoice,     \* the DisplaySettings a user may choose
    StoredChoice,       \* the data a scene collection may hold
    WatermarkAvailable, \* watermark_available_, fixed by the constructor
    ModeChoice,         \* the modes PrivacyState takes in this instance
    UserAction,         \* what the user of this instance does
    MaxModeChanges,     \* bound: changes of the protection mode
    MaxUserActions      \* bound: things the user does

AllUserActions == {"dialog", "load", "switch", "remove"}

ASSUME HomeAssumption == HomeScene \in Scene
ASSUME ChoiceAssumption ==
    /\ SettingsChoice \subseteq Settings /\ StoredChoice \subseteq Data
    /\ ModeChoice \subseteq Modes /\ UserAction \subseteq AllUserActions
    /\ WatermarkAvailable \in BOOLEAN
    /\ MaxModeChanges \in Nat
    /\ MaxUserActions \in Nat

VARIABLES
    source,         \* PrivacyState::mode(), which changes under our feet
    noted,          \* last_logged_mode
    latest,         \* latest_mode_
    generation,     \* generation_
    settings,       \* settings_
    overlay,        \* overlay_required_
    watermark,      \* watermark_required_
    image,          \* the image drawn over the black overlay
    scenes,         \* the scenes of the current collection
    scene,          \* the scene on the output
    custom,         \* custom_scene_active_, previous_scene_, active_target_scene_
    collection,     \* "steady", or "changing" until the next one is loaded
    stored,         \* our data in the scene collection on file
    tasks,          \* the UI task queue
    thread,         \* what each thread is doing
    modeChanges, userActions,   \* how often the environment has moved
\* History, which no step of the code reads:
    home,           \* the scene the user put on the output, if it still exists
    strayed,        \* he has selected another scene over our custom scene
    carried,        \* a custom scene was carried into another collection, with
                    \* a scene of the old one to return to
    overtaken       \* a settings update has put an older mode over a newer one

display == <<overlay, watermark, image>>
history == <<home, strayed, carried>>
stage == <<scenes, scene, custom, collection, stored, history>>
decision == <<latest, generation, settings, overtaken>>
budget == <<modeChanges, userActions>>
vars == <<source, noted, decision, display, stage, tasks, thread, budget>>

Thread == {"graphics", "ui"}
Image == {"none", "sensitive", "connection", "custom"}

Event(mode) == EventFor(settings, mode)

\* ImageRenderer::select_default
DefaultImage(mode) == IF mode = "Sensitive" THEN "sensitive" ELSE "connection"

-----------------------------------------------------------------------------
(***************************************************************************)
(* Stores                                                                  *)
(***************************************************************************)
SetWatermark(value) == [store |-> "watermark", value |-> value]
SetOverlay(value)   == [store |-> "overlay", value |-> value]
SetImage(value)     == [store |-> "image", value |-> value]
Restore             == [store |-> "restore"]
Enter(target)       == [store |-> "enter", value |-> target]

NoCustom == [active |-> FALSE, previous |-> NoScene, target |-> NoScene]

\* Black first; the UI thread chooses an image or a scene later.
Cover == <<SetWatermark(FALSE), SetOverlay(TRUE), SetImage("none")>>

\* Mistake: the black overlay is taken for granted.
FallbackUncovered(mode) == <<Restore, SetImage(DefaultImage(mode)),
                             SetWatermark(FALSE)>>

\* Mistake: the watermark of an earlier custom output stays.
FallbackWatermarked(mode) == <<Restore, SetImage(DefaultImage(mode)),
                               SetOverlay(TRUE)>>

\* The bundled image of the event, over black, without a watermark.
Fallback(mode) == <<Restore, SetImage(DefaultImage(mode)),
                    SetWatermark(FALSE), SetOverlay(TRUE)>>

\* What apply_on_ui_thread does once its generation is current.  A custom
\* image may have become unreadable since it was chosen.
Stores(mode, readable) ==
    LET action == Resolve(settings, mode) IN
    IF ~Protected(mode)
    THEN <<SetWatermark(FALSE), SetOverlay(FALSE), Restore>>
    ELSE CASE action = "BuiltInImage" -> Fallback(mode)
           [] action = "CustomImage" ->
                IF readable
                THEN <<Restore, SetImage("custom"),
                       SetWatermark(WatermarkAvailable), SetOverlay(TRUE)>>
                ELSE Fallback(mode)
           [] OTHER ->
                IF Event(mode).scene \in scenes
                THEN <<Enter(Event(mode).scene), SetImage("none"),
                       SetWatermark(WatermarkAvailable), SetOverlay(FALSE)>>
                ELSE Fallback(mode)

\* Mistake: nobody asks whether the scene is still there.
SwitchBlindly(target) == scene' = target

\* switch_to_scene does nothing when the scene is gone.
SwitchTo(target) == scene' = IF target \in scenes THEN target ELSE scene

\* restore_previous_scene
RestorePreviousScene ==
    /\ IF custom.active /\ custom.previous # NoScene
       THEN SwitchTo(custom.previous)
       ELSE UNCHANGED scene
    /\ custom' = NoCustom
    /\ strayed' = FALSE

\* Mistake: a second custom scene takes the first for the scene to return to.
EnterForgettingHome(target) ==
    /\ SwitchTo(target)
    /\ custom' = [active |-> TRUE, previous |-> scene, target |-> target]
    /\ strayed' = FALSE

\* A second protected mode keeps the scene the first one switched away from.
EnterCustomScene(target) ==
    /\ SwitchTo(target)
    /\ custom' = [active   |-> TRUE,
                  previous |-> IF custom.active THEN custom.previous ELSE scene,
                  target   |-> target]
    /\ strayed' = FALSE

\* A thread that has nothing to store, on its way to pc.
Resting(pc) == [pc |-> pc, then |-> "idle", todo |-> << >>, mode |-> "none",
                generation |-> 0]

Idle(t) == thread[t].pc = "idle" /\ thread[t].todo = << >>

\* Thread t makes the next store it has decided on.
Store(t) ==
    LET next == Head(thread[t].todo) IN
    /\ thread[t].todo # << >>
    /\ thread' = [thread EXCEPT ![t].todo = Tail(@)]
    /\ watermark' = IF next.store = "watermark" THEN next.value ELSE watermark
    /\ overlay' = IF next.store = "overlay" THEN next.value ELSE overlay
    /\ image' = IF next.store = "image" THEN next.value ELSE image
    /\ CASE next.store = "restore" -> RestorePreviousScene
         [] next.store = "enter"   -> EnterCustomScene(next.value)
         [] OTHER                  -> UNCHANGED <<scene, custom, strayed>>
    /\ UNCHANGED <<source, noted, decision, scenes, collection, stored, home,
                   carried, tasks, budget>>

-----------------------------------------------------------------------------
(***************************************************************************)
(* queue_apply, on either thread: one critical section, then the post.     *)
(***************************************************************************)
\* The UI thread may have read a mode before the tick noted a newer one.
TakeGeneration(t) ==
    /\ thread[t].pc = "queue" /\ thread[t].todo = << >>
    /\ latest' = thread[t].mode
    /\ generation' = generation + 1
    /\ overtaken' = (t = "ui" /\ (overtaken \/ thread[t].mode # latest))
    /\ thread' = [thread EXCEPT ![t].pc = "post", ![t].generation = generation + 1]
    /\ UNCHANGED <<source, noted, settings, display, stage, tasks, budget>>

\* obs_queue_task(OBS_TASK_UI, ...): a task the UI thread gives to itself may
\* run at once or take its turn.
PostTask(t) ==
    /\ thread[t].pc = "post"
    /\ LET task == [mode |-> thread[t].mode, generation |-> thread[t].generation] IN
       \/ tasks' = Append(tasks, task)
       \/ t = "ui" /\ tasks' = <<task>> \o tasks
    /\ thread' = [thread EXCEPT ![t] = Resting(thread[t].then)]
    /\ UNCHANGED <<source, noted, decision, display, stage, budget>>

(***************************************************************************)
(* The graphics thread                                                     *)
(***************************************************************************)
\* privacy_mode_changed, update_settings: a protected mode covers at once.
CoverIfProtected(mode) == IF Protected(mode) THEN Cover ELSE << >>

\* Mistake: a protected mode has covered the output and queues nothing.
TickCoversOnly ==
    /\ Idle("graphics")
    /\ noted # source
    /\ noted' = source
    /\ thread' = [thread EXCEPT !["graphics"] =
                    [@ EXCEPT !.pc = IF Protected(source) THEN "idle" ELSE "queue",
                              !.mode = source,
                              !.todo = CoverIfProtected(source)]]
    /\ UNCHANGED <<source, decision, display, stage, tasks, budget>>

\* tick_privacy_state: the first sample and every changed one is forwarded.
TickModeChanged ==
    /\ Idle("graphics")
    /\ noted # source
    /\ noted' = source
    /\ thread' = [thread EXCEPT !["graphics"] =
                    [@ EXCEPT !.pc = "queue", !.mode = source,
                              !.todo = CoverIfProtected(source)]]
    /\ UNCHANGED <<source, decision, display, stage, tasks, budget>>

\* tick_privacy_state with nothing new, and render_privacy_overlay: a frame
\* goes out with the display as it is.
RenderFrame ==
    /\ Idle("graphics")
    /\ noted = source
    /\ UNCHANGED vars

(***************************************************************************)
(* The UI thread                                                           *)
(***************************************************************************)
\* Mistake: a queued request is applied even when a newer one exists.
AlwaysCurrent(task) == TRUE

Current(task) == task.generation = generation

\* apply_task, apply_on_ui_thread: everything it reads after the generation
\* check belongs to the UI thread.
ApplyTask ==
    /\ Idle("ui")
    /\ tasks # << >>
    /\ tasks' = Tail(tasks)
    /\ \E readable \in BOOLEAN :
         thread' = [thread EXCEPT !["ui"].todo =
                      IF Current(Head(tasks))
                      THEN Stores(Head(tasks).mode, readable)
                      ELSE << >>]
    /\ UNCHANGED <<source, noted, decision, display, stage, budget>>

\* update_settings up to its queue_apply, which the thread goes on to.
UpdateSettings(chosen, then) ==
    /\ settings' = chosen
    /\ thread' = [thread EXCEPT !["ui"] =
                    [@ EXCEPT !.pc = "queue", !.then = then, !.mode = latest,
                              !.todo = CoverIfProtected(latest)]]

UserActs(kind) ==
    /\ kind \in UserAction
    /\ Idle("ui")
    /\ collection = "steady"
    /\ userActions < MaxUserActions
    /\ userActions' = userActions + 1
    /\ UNCHANGED modeChanges

\* The checks behind the dialog's OK button.
Acceptable(chosen) ==
    \A event \in {chosen.sensitive, chosen.connection} :
        /\ event.mode = "CustomImage" => event.image
        /\ event.mode = "CustomScene" => /\ chosen.riskAccepted
                                         /\ event.scene \in scenes

\* show_settings_dialog, accepted; the thread will ask OBS to save.
DialogAccepted(chosen) ==
    /\ UserActs("dialog")
    /\ Acceptable(chosen)
    /\ UpdateSettings(chosen, "save")
    /\ UNCHANGED <<source, noted, latest, generation, overtaken, display, stage,
                   tasks>>

\* obs_frontend_save, or OBS itself, calls save_load(saving = true).
SaveCollection ==
    /\ thread["ui"].pc = "save" \/ (Idle("ui") /\ collection = "steady")
    /\ stored' = Saved(settings)
    /\ thread' = [thread EXCEPT !["ui"].pc = "idle"]
    /\ UNCHANGED <<source, noted, decision, display, scenes, scene, custom,
                   collection, history, tasks, budget>>

\* frontend_event(SCENE_COLLECTION_CHANGING): latest_mode_ is read under the
\* lock, and used after it.
CollectionChanging ==
    /\ UserActs("load")
    /\ collection' = "changing"
    /\ custom' = NoCustom
    /\ strayed' = FALSE
    /\ thread' = [thread EXCEPT !["ui"].todo =
                    <<SetWatermark(FALSE), SetOverlay(Protected(latest)),
                      SetImage("none")>>]
    /\ UNCHANGED <<source, noted, decision, display, scenes, scene, stored, home,
                   carried, tasks>>

\* OBS brings up the first collection, or another, with its own scene on the
\* output, and calls save_load(saving = false).  A custom scene that a task
\* has entered since the event keeps the scene it will return to.
CollectionLoaded(data) ==
    /\ Idle("ui")
    /\ collection = "changing"
    /\ collection' = "steady"
    /\ scenes' = Scene
    /\ scene' = HomeScene
    /\ stored' = data
    /\ home' = HomeScene
    /\ strayed' = FALSE
    /\ carried' = custom.active
    /\ UpdateSettings(Loaded(data), "idle")
    /\ UNCHANGED <<source, noted, latest, generation, overtaken, display, custom,
                   tasks, budget>>

\* frontend_event(SCENE_LIST_CHANGED) falls back when the custom scene is gone.
SceneListStores(removed) ==
    IF removed = custom.target
    THEN <<SetWatermark(FALSE), SetOverlay(TRUE), SetImage(DefaultImage(latest)),
           Restore>>
    ELSE << >>

\* The user removes a scene; OBS leaves a removed scene for another one.  His
\* own scene removed while a custom one stands leaves him none to return to.
SceneRemoved(removed) ==
    /\ UserActs("remove")
    /\ removed \in scenes \ {HomeScene}
    /\ scenes' = scenes \ {removed}
    /\ scene' = IF scene = removed THEN HomeScene ELSE scene
    /\ home' = IF home # removed THEN home
               ELSE IF custom.active THEN NoScene ELSE HomeScene
    /\ thread' = [thread EXCEPT !["ui"].todo = SceneListStores(removed)]
    /\ UNCHANGED <<source, noted, decision, display, custom, collection, stored,
                   strayed, carried, tasks>>

\* The user selects another scene; the controller does not listen.  While a
\* custom scene stands the selection is not one to return to.
SceneSelected(selected) ==
    /\ UserActs("switch")
    /\ selected \in scenes \ {scene}
    /\ scene' = selected
    /\ home' = IF custom.active THEN home ELSE selected
    /\ strayed' = (custom.active /\ selected # custom.target)
    /\ carried' = (carried /\ custom.active)
    /\ UNCHANGED <<source, noted, decision, display, scenes, custom, collection,
                   stored, tasks, thread>>

\* PrivacyState moves on between two samples.
ModeChanges(mode) ==
    /\ modeChanges < MaxModeChanges
    /\ mode # source
    /\ source' = mode
    /\ modeChanges' = modeChanges + 1
    /\ UNCHANGED <<noted, decision, display, stage, tasks, thread, userActions>>

-----------------------------------------------------------------------------

\* The constructor: default settings under a black overlay.  The tick is
\* already registered, and OBS has yet to load the first scene collection.
Init ==
    /\ source = "AwaitingConnection"
    /\ noted = "none"
    /\ latest = "AwaitingConnection"
    /\ generation = 0
    /\ settings = DefaultSettings
    /\ stored = NoData
    /\ overlay = TRUE
    /\ watermark = FALSE
    /\ image = "none"
    /\ scenes = Scene
    /\ scene = HomeScene
    /\ custom = NoCustom
    /\ collection = "changing"
    /\ tasks = << >>
    /\ thread = [t \in Thread |-> Resting("idle")]
    /\ modeChanges = 0 /\ userActions = 0
    /\ home = HomeScene
    /\ strayed = FALSE /\ carried = FALSE /\ overtaken = FALSE

GraphicsStep ==
    \/ TickModeChanged
    \/ Store("graphics")
    \/ TakeGeneration("graphics")
    \/ PostTask("graphics")

UiStep ==
    \/ ApplyTask
    \/ Store("ui")
    \/ TakeGeneration("ui")
    \/ PostTask("ui")
    \/ SaveCollection
    \/ \E data \in StoredChoice : CollectionLoaded(data)

Next ==
    \/ GraphicsStep
    \/ RenderFrame
    \/ UiStep
    \/ \E chosen \in SettingsChoice : DialogAccepted(chosen)
    \/ CollectionChanging
    \/ \E s \in Scene : SceneRemoved(s) \/ SceneSelected(s)
    \/ \E mode \in ModeChoice : ModeChanges(mode)

Spec == Init /\ [][Next]_vars

\* Frames keep coming and the UI thread keeps taking its tasks; a collection
\* change that was begun is finished.
FairSpec == Spec /\ WF_vars(GraphicsStep) /\ WF_vars(UiStep)

-----------------------------------------------------------------------------
(***************************************************************************)
(* Properties                                                              *)
(***************************************************************************)
\* The types of the fields; a task never carries a generation of the future.
TypeOK ==
    /\ source \in Modes /\ latest \in Modes /\ noted \in Modes \cup {"none"}
    /\ generation \in Nat
    /\ settings \in Settings /\ stored \in Data
    /\ home \in Scene \cup {NoScene}
    /\ strayed \in BOOLEAN /\ carried \in BOOLEAN /\ overtaken \in BOOLEAN
    /\ overlay \in BOOLEAN /\ watermark \in BOOLEAN /\ image \in Image
    /\ scenes \subseteq Scene /\ scene \in scenes
    /\ custom \in [active : BOOLEAN, previous : Scene \cup {NoScene},
                   target : Scene \cup {NoScene}]
    /\ \A i \in DOMAIN tasks : /\ tasks[i].mode \in Modes
                              /\ tasks[i].generation \in 1..generation
    /\ \A t \in Thread : thread[t].generation \in 0..generation

\* Nobody is in the middle of anything and every sample has been forwarded.
Quiescent ==
    /\ \A t \in Thread : Idle(t)
    /\ tasks = << >>
    /\ noted = source
    /\ collection = "steady"

\* A custom scene replaces the overlay only with the risk accepted, for the
\* event that asked for it, and on the output itself, unless the user selects
\* another scene over it.
ConsentedScene ==
    /\ custom.active
    /\ settings.riskAccepted
    /\ Event(latest).mode = "CustomScene"
    /\ custom.target = Event(latest).scene
    /\ scene = custom.target \/ strayed

Shielded == overlay \/ ConsentedScene

\* Whatever the two threads did to each other, once they rest the output is
\* what the controller's latest mode calls for: covered, or the consented
\* scene, or entirely ours no more (apply_on_ui_thread).
Settled ==
    Quiescent =>
        IF Protected(latest)
        THEN Shielded
        ELSE ~overlay /\ ~watermark /\ ~custom.active

\* Once at rest the overlay names the right reason, and only the user's own
\* image or scene carries the watermark.
RightImage ==
    Quiescent /\ Protected(latest) =>
        /\ overlay => \/ image = DefaultImage(latest)
                      \/ image = "custom" /\ Event(latest).mode = "CustomImage"
        /\ watermark => image = "custom" \/ custom.active

\* Through any series of protected modes, settings changes, removed scenes
\* and collection changes the scene the user had put on the output himself
\* comes back once the guard has let go (restore_previous_scene).  The one
\* exception is a custom scene entered between the event of a collection
\* change and its load, which the load carries into the new collection.
ReturnsHome ==
    Quiescent /\ ~custom.active /\ ~carried /\ home # NoScene => scene = home

\* The settings in force are the ones OBS has on file for this collection, so
\* that a restart or a change of collection brings them back: through any
\* series of dialogs, saves and loads, old and damaged files included.
SettingsSurvive ==
    Idle("ui") /\ collection = "steady" => Loaded(stored) = settings

\* Some store the UI thread is about to make shields the output.
AboutToShield ==
    \E i \in DOMAIN thread["ui"].todo :
        LET next == thread["ui"].todo[i] IN
        \/ next.store = "overlay" /\ next.value
        \/ next.store = "enter" /\ next.value = Event(latest).scene

\* A protected mode was forwarded, no settings update has put an older mode
\* over it, and yet the output is bare, because a task that was past its
\* generation check had not finished.  Then the request that covers it again
\* is queued, a request of the UI thread's own or a collection is on its way,
\* or the UI thread is about to make the store.
ExposureIsRepaired ==
    /\ Idle("graphics") /\ noted # "none" /\ Protected(noted)
    /\ ~overtaken /\ ~Shielded
    => \/ \E i \in DOMAIN tasks : Current(tasks[i]) /\ tasks[i].mode = noted
       \/ thread["ui"].pc \in {"queue", "post"}
       \/ collection = "changing"
       \/ AboutToShield

\* A protected mode that lasts is covered for good, through dialogs, loads
\* and removed scenes, unless a settings update has overtaken it.
ProtectionTakesHold == <>[]Protected(source) => <>[](Shielded \/ overtaken)

\* README.md:424-425: a stale decision never has the last word over a newer
\* one.  At rest, a protected mode that was forwarded is shielded.
NoLastingExposure == Quiescent /\ Protected(noted) => Shielded

\* The comment in privacy_mode_changed: protected modes cover the output
\* before any queued scene work, so no frame in one shows the bare output.
NoExposedFrame ==
    Idle("graphics") /\ noted # "none" /\ Protected(noted) => Shielded
=============================================================================
