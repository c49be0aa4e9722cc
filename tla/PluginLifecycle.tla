--------------------------- MODULE PluginLifecycle ---------------------------
(***************************************************************************)
(* obs_module_load and obs_module_unload of plugin-main.cpp, around the    *)
(* threads that use what they make and destroy: the graphics thread with   *)
(* the tick and the render callback, the threads of the pipe server, and   *)
(* the UI thread itself, which loads, unloads and runs the queued tasks.   *)
(*                                                                         *)
(* What a frame does with its texture is ImageRenderer.  What OBS promises *)
(* is external: removing a callback waits for a call in progress, and      *)
(* posting a task with wait set returns when it has run.  Nothing in this  *)
(* code says when a task runs that the UI thread posts to itself: at once, *)
(* or in its turn behind the tasks queued before it (SelfPosts).           *)
(***************************************************************************)
EXTENDS Integers, Sequences

CONSTANTS
    SelfPosts,          \* what may become of a task posted by the UI thread
    MaxChanges          \* bound: mode changes, and calls of the frontend

ASSUME SelfPostsAssumption == SelfPosts \subseteq {"atOnce", "inTurn"}
ASSUME BoundAssumption == MaxChanges \in Nat

VARIABLES
    ui,             \* how far the UI thread has come
    objects,        \* which of the module's three objects exist
    registered,     \* the callbacks OBS has been given
    threads,        \* the pipe server's threads run
    alive,          \* alive_
    tasks,          \* the UI task queue
    graphics,       \* where the tick is
    watermark,      \* the watermark renderer has a texture
    changes,
    selected, selectedGeneration, textureGeneration, texture, copy, frame, since

Renderer == INSTANCE ImageRenderer

renderer == <<selected, selectedGeneration, textureGeneration, texture, copy,
              frame, since>>
vars == <<ui, objects, registered, threads, alive, tasks, graphics, watermark,
          changes, renderer>>

Callback == {"tick", "render", "tools", "save", "event"}

-----------------------------------------------------------------------------
(***************************************************************************)
(* obs_module_load                                                         *)
(***************************************************************************)
CreateObjects ==
    /\ ui = "unborn"
    /\ ui' = "registering"
    /\ objects' = {"state", "controller", "server"}
    /\ UNCHANGED <<registered, threads, alive, tasks, graphics, watermark,
                   changes, renderer>>

Registration == <<"tick", "render", "tools", "save", "event">>

\* The first callback of a list that is in a set.
First(list, cs) ==
    LET due(i) == list[i] \in cs
        isFirst(i) == due(i) /\ \A j \in 1..(i - 1) : ~due(j)
    IN  IF \E i \in DOMAIN list : due(i)
        THEN list[CHOOSE i \in DOMAIN list : isFirst(i)]
        ELSE "none"

\* The callbacks one by one, and pipe_server->start() after the last.
AddCallback ==
    LET c == First(Registration, Callback \ registered) IN
    /\ ui = "registering"
    /\ IF c = "none"
       THEN ui' = "running" /\ threads' = TRUE /\ UNCHANGED registered
       ELSE registered' = registered \cup {c} /\ UNCHANGED <<ui, threads>>
    /\ UNCHANGED <<objects, alive, tasks, graphics, watermark, changes, renderer>>

-----------------------------------------------------------------------------
(***************************************************************************)
(* Use: the graphics thread, then the UI thread                            *)
(***************************************************************************)
Resting == graphics = "idle" /\ frame = "idle"
Change == changes < MaxChanges /\ changes' = changes + 1

\* tick_privacy_state enters and finds the objects.
TickBegins ==
    /\ Resting
    /\ "tick" \in registered
    /\ graphics' = "tick"
    /\ UNCHANGED <<ui, objects, registered, threads, alive, tasks, watermark,
                   changes, renderer>>

\* Nothing new, or privacy_mode_changed: a protected mode clears the image.
TickForwards ==
    /\ graphics = "tick"
    /\ \/ graphics' = "idle" /\ UNCHANGED <<changes, renderer>>
       \/ /\ Change
          /\ graphics' = IF alive THEN "post" ELSE "idle"
          /\ (alive /\ Renderer!Select(TRUE)) \/ UNCHANGED renderer
    /\ UNCHANGED <<ui, objects, registered, threads, alive, tasks, watermark>>

\* queue_apply posts a task that holds the controller's address.
TickPosts ==
    /\ graphics = "post"
    /\ graphics' = "idle"
    /\ tasks' = Append(tasks, "apply")
    /\ UNCHANGED <<ui, objects, registered, threads, alive, watermark, changes,
                   renderer>>

\* render_privacy_overlay, when the overlay or the watermark is required.
RenderBegins ==
    /\ Resting
    /\ "render" \in registered
    /\ Renderer!BeginFrame
    /\ watermark' \in {watermark, TRUE}
    /\ UNCHANGED <<ui, objects, registered, threads, alive, tasks, graphics,
                   changes>>

RenderGoesOn ==
    /\ Renderer!FrameStep
    /\ UNCHANGED <<ui, objects, registered, threads, alive, tasks, graphics,
                   watermark, changes>>

\* The UI thread runs tasks between its callbacks, and inside shutdown's wait
\* when the barrier has to take its turn.
TakesTasks == ui \in {"running", "draining"}

\* apply_task: a task of a controller that shuts down does nothing; another
\* may select an image.
Apply ==
    \/ alive /\ \E empty \in BOOLEAN : Renderer!Select(empty)
    \/ UNCHANGED renderer

\* An apply task, or barrier_task, whose turn has come.
RunTask ==
    /\ TakesTasks
    /\ tasks # << >>
    /\ tasks' = Tail(tasks)
    /\ IF Head(tasks) = "barrier"
       THEN ui' = "drained" /\ UNCHANGED renderer
       ELSE UNCHANGED ui /\ Apply
    /\ UNCHANGED <<objects, registered, threads, alive, graphics, watermark,
                   changes>>

\* The dialog, save/load and scene events: new settings clear the image and
\* post an apply task.
FrontendCalls ==
    /\ ui = "running"
    /\ registered \cap {"tools", "save", "event"} # {}
    /\ Change
    /\ Renderer!Select(TRUE)
    /\ \/ "atOnce" \in SelfPosts /\ ui' = "applying" /\ UNCHANGED tasks
       \/ "inTurn" \in SelfPosts /\ UNCHANGED ui /\ tasks' = Append(tasks, "apply")
    /\ UNCHANGED <<objects, registered, threads, alive, graphics, watermark>>

\* The task it has posted to itself, run inside obs_queue_task.
RunOwnTask ==
    /\ ui = "applying"
    /\ ui' = "running"
    /\ Apply
    /\ UNCHANGED <<objects, registered, threads, alive, tasks, graphics,
                   watermark, changes>>

-----------------------------------------------------------------------------
(***************************************************************************)
(* obs_module_unload, on the UI thread                                     *)
(***************************************************************************)
UnloadBegins ==
    /\ ui = "running"
    /\ ui' = "stopping"
    /\ UNCHANGED <<objects, registered, threads, alive, tasks, graphics,
                   watermark, changes, renderer>>

\* pipe_server.reset() returns when PipeServer has stopped.
StopServer ==
    /\ ui = "stopping"
    /\ ui' = "unregistering"
    /\ threads' = FALSE
    /\ objects' = objects \ {"server"}
    /\ UNCHANGED <<registered, alive, tasks, graphics, watermark, changes, renderer>>

\* Mistake: the tick goes on.
UnregistrationWithoutTick == <<"event", "save", "render">>

\* The tools menu item cannot be taken back.
Unregistration == <<"event", "save", "render", "tick">>

RemoveCallback ==
    LET c == First(Unregistration, registered) IN
    /\ ui = "unregistering"
    /\ c = "render" => frame = "idle"
    /\ c = "tick" => graphics = "idle"
    /\ IF c = "none" THEN ui' = "shutting" ELSE UNCHANGED ui
    /\ registered' = registered \ {c}
    /\ UNCHANGED <<objects, threads, alive, tasks, graphics, watermark, changes,
                   renderer>>

\* shutdown up to the barrier, which the UI thread posts to itself: at once
\* it drains nothing, in its turn everything queued before it.
ShutdownBegins ==
    /\ ui = "shutting"
    /\ alive' = FALSE
    /\ \/ "atOnce" \in SelfPosts /\ ui' = "drained" /\ UNCHANGED tasks
       \/ /\ "inTurn" \in SelfPosts
          /\ ui' = "draining"
          /\ tasks' = Append(tasks, "barrier")
    /\ UNCHANGED <<objects, registered, threads, graphics, watermark, changes,
                   renderer>>

\* Mistake: one of the two renderers is forgotten.
ShutdownImageOnly == Renderer!Shutdown /\ UNCHANGED watermark

ShutdownRenderers == Renderer!Shutdown /\ watermark' = FALSE

\* The rest of shutdown, and the controller and the state are destroyed.  What
\* a task does that OBS runs after this is undefined and is not modelled.
DestroyObjects ==
    /\ ui = "drained"
    /\ ui' = "unloaded"
    /\ ShutdownRenderers
    /\ objects' = {}
    /\ UNCHANGED <<registered, threads, alive, tasks, graphics, changes>>

-----------------------------------------------------------------------------
Init ==
    /\ ui = "unborn"
    /\ objects = {}
    /\ registered = {}
    /\ threads = FALSE
    /\ alive = TRUE
    /\ tasks = << >>
    /\ graphics = "idle"
    /\ watermark = FALSE
    /\ changes = 0
    /\ Renderer!Init

Unloading == StopServer \/ RemoveCallback \/ ShutdownBegins \/ DestroyObjects
GraphicsGoesOn == TickForwards \/ TickPosts \/ RenderGoesOn

Next ==
    \/ CreateObjects \/ AddCallback
    \/ TickBegins \/ RenderBegins \/ GraphicsGoesOn
    \/ RunTask \/ FrontendCalls \/ RunOwnTask
    \/ UnloadBegins \/ Unloading

Spec == Init /\ [][Next]_vars

-----------------------------------------------------------------------------
(***************************************************************************)
(* Properties                                                              *)
(***************************************************************************)
\* The types of the fields.
TypeOK ==
    /\ Renderer!TypeOK
    /\ objects \subseteq {"state", "controller", "server"}
    /\ registered \subseteq Callback
    /\ threads \in BOOLEAN /\ alive \in BOOLEAN /\ watermark \in BOOLEAN
    /\ tasks \in Seq({"apply", "barrier"})
    /\ graphics \in {"idle", "tick", "post"}

TextureIsKnown == Renderer!TextureIsKnown
FrameIsFresh == Renderer!FrameIsFresh

\* Whoever runs or may be called finds the objects it was given: the pipe
\* threads the state, a callback the controller (the order of
\* obs_module_load and obs_module_unload).
NothingDangles ==
    /\ threads => {"state", "server"} \subseteq objects
    /\ ~Resting \/ registered \ {"tools"} # {}
         => {"state", "controller"} \subseteq objects

\* Unloaded, the module has nothing left in OBS but its menu item: no
\* thread, no callback, and no texture, which no later frame brings back.
NothingLeft ==
    ui = "unloaded" =>
        /\ ~threads /\ registered \subseteq {"tools"}
        /\ Resting /\ texture = Renderer!NoTexture /\ ~watermark

\* The comment in shutdown (protection-display.cpp:747): queued UI tasks are
\* drained before the controller, whose address they hold, is destroyed.
TasksHaveController ==
    \A i \in DOMAIN tasks :
        tasks[i] = "apply" => {"state", "controller"} \subseteq objects
=============================================================================
