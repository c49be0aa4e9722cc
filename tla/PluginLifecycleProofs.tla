------------------------ MODULE PluginLifecycleProofs ------------------------
(***************************************************************************)
(* Proofs about PluginLifecycle: its threads do to the renderer what       *)
(* ImageRenderer allows, which keeps its promises in the module's hands,   *)
(* and unload leaves nothing that dangles, for any number of changes.      *)
(***************************************************************************)
EXTENDS PluginLifecycle, TLAPS

Image == INSTANCE ImageRendererProofs

-----------------------------------------------------------------------------
(***************************************************************************)
(* The renderer                                                            *)
(***************************************************************************)
\* Whatever the threads do, to the renderer it is one of its own steps.
LEMMA RendererSteps ==
    ASSUME [Next]_vars PROVE [Image!Next]_renderer
<1> USE DEF renderer, Image!Next, Image!FrameStep
<1>1. ASSUME NEW empty \in BOOLEAN, Renderer!Select(empty)
      PROVE  Image!Next
    BY <1>1 DEF Renderer!Select, Image!Select
<1>2. ASSUME Renderer!BeginFrame PROVE Image!Next
    BY <1>2 DEF Renderer!BeginFrame, Image!BeginFrame
<1>3. ASSUME Renderer!FrameStep PROVE Image!Next
    BY <1>3 DEF Renderer!FrameStep,
        Renderer!CheckTexture, Image!CheckTexture, Renderer!UpToDate, Image!UpToDate,
        Renderer!Upload, Image!Upload, Renderer!NoTexture, Image!NoTexture,
        Renderer!FinishUpdate, Image!FinishUpdate, Renderer!CopiedGeneration,
        Image!CopiedGeneration, Renderer!Draw, Image!Draw
<1>4. ASSUME Renderer!Shutdown PROVE Image!Next
    BY <1>4 DEF Renderer!Shutdown, Image!Shutdown, Renderer!NoTexture,
                Image!NoTexture
<1>5. CASE UNCHANGED vars
    BY <1>5 DEF vars
<1>6. CASE CreateObjects \/ AddCallback \/ UnloadBegins
    BY <1>6 DEF CreateObjects, AddCallback, UnloadBegins
<1>7. CASE Unloading
    BY <1>7, <1>4 DEF Unloading, StopServer, RemoveCallback, ShutdownBegins,
                      DestroyObjects, ShutdownRenderers
<1>8. CASE TickBegins \/ RenderBegins \/ GraphicsGoesOn
    BY <1>8, <1>1, <1>2, <1>3 DEF TickBegins, RenderBegins, GraphicsGoesOn,
        TickForwards, TickPosts, RenderGoesOn
<1>9. CASE RunTask \/ FrontendCalls \/ RunOwnTask
    BY <1>9, <1>1 DEF RunTask, FrontendCalls, RunOwnTask, Apply
<1> QED  BY <1>5, <1>6, <1>7, <1>8, <1>9 DEF Next

LEMMA RendererInvariant == Spec => []Image!IInv
<1>1. Init => Image!IInv
    BY Image!InitIInv DEF Init, Renderer!Init, Image!Init, Renderer!NoTexture,
                         Image!NoTexture
<1>2. Image!IInv /\ [Next]_vars => Image!IInv'
    BY RendererSteps, Image!StepIInv DEF renderer, Image!vars
<1> QED  BY <1>1, <1>2, PTL DEF Spec

\* All the module's threads do to the renderer is what its class allows.
THEOREM DrivesTheRenderer == Spec => Image!Spec
<1>1. Init => Image!Init
    BY DEF Init, Renderer!Init, Image!Init, Renderer!NoTexture, Image!NoTexture
<1>2. [Next]_vars => [Image!Next]_(Image!vars)
    BY RendererSteps DEF renderer, Image!vars
<1> QED  BY <1>1, <1>2, PTL DEF Spec, Image!Spec

\* update_texture never takes a texture for another image, under the threads
\* of the plug-in.
THEOREM TexturesStayKnown == Spec => []TextureIsKnown
<1>1. Image!IInv => TextureIsKnown
    BY DEF Image!IInv, Image!TextureIsKnown, TextureIsKnown,
           Renderer!TextureIsKnown, Renderer!NoTexture, Image!NoTexture
<1> QED  BY <1>1, RendererInvariant, PTL

\* No frame shows an image that was cleared before it began.
THEOREM FramesStayFresh == Spec => []FrameIsFresh
<1>1. Image!IInv => FrameIsFresh
    BY DEF Image!IInv, Image!TypeOK, Image!Matched, Image!TextureIsKnown,
           Image!NoTexture, FrameIsFresh, Renderer!FrameIsFresh, Renderer!NoTexture
<1> QED  BY <1>1, RendererInvariant, PTL

-----------------------------------------------------------------------------
(***************************************************************************)
(* Load and unload                                                         *)
(***************************************************************************)
\* Everything the module makes, registers or queues belongs to a stretch of
\* the UI thread's way.  A thread in a callback keeps it registered, because
\* its removal waits; while the queue drains, the barrier is its last task.
Made == {"registering", "running", "applying", "stopping"}
HalfMade == {"unregistering", "shutting", "draining", "drained"}
Unregistered == {"shutting", "draining", "drained", "unloaded"}

ObjectsInOrder ==
    /\ ui \in {"unborn", "unloaded"} \cup Made \cup HalfMade
    /\ ui \in {"unborn", "unloaded"} => objects = {}
    /\ ui \in Made => objects = {"state", "controller", "server"}
    /\ ui \in HalfMade => objects = {"state", "controller"}
    /\ threads => ui \in {"running", "applying", "stopping"}

CallbacksInOrder ==
    /\ registered \subseteq Callback
    /\ ui = "unborn" => registered = {}
    /\ ui \in Unregistered => registered \subseteq {"tools"}
    /\ graphics # "idle" => "tick" \in registered
    /\ frame # "idle" => "render" \in registered

TasksInOrder ==
    /\ tasks \in Seq({"apply", "barrier"})
    /\ IF ui = "draining"
       THEN /\ tasks # << >>
            /\ \A i \in DOMAIN tasks : tasks[i] = "barrier" <=> i = Len(tasks)
       ELSE \A i \in DOMAIN tasks : tasks[i] = "apply"
    /\ ui = "unborn" => tasks = << >>

TexturesInOrder ==
    ui = "unloaded" => texture = Renderer!NoTexture /\ ~watermark

Orderly == ObjectsInOrder /\ CallbacksInOrder /\ TasksInOrder /\ TexturesInOrder

\* What First returns for the lists of this module.
LEMMA FirstDue ==
    ASSUME NEW list, DOMAIN list = 1..4 \/ DOMAIN list = 1..5, NEW cs,
           \E i \in DOMAIN list : list[i] \in cs
    PROVE  \E i \in DOMAIN list : First(list, cs) = list[i] /\ list[i] \in cs
<1> DEFINE isFirst(i) == list[i] \in cs /\ \A j \in 1..(i - 1) : ~(list[j] \in cs)
<1>1. \E i \in DOMAIN list : isFirst(i)
    <2>1. CASE list[1] \in cs
        BY <2>1
    <2>2. CASE list[1] \notin cs /\ list[2] \in cs
        BY <2>2
    <2>3. CASE list[1] \notin cs /\ list[2] \notin cs /\ list[3] \in cs
        BY <2>3
    <2>4. CASE /\ list[1] \notin cs /\ list[2] \notin cs /\ list[3] \notin cs
               /\ list[4] \in cs
        BY <2>4
    <2>5. CASE /\ list[1] \notin cs /\ list[2] \notin cs /\ list[3] \notin cs
               /\ list[4] \notin cs
        BY <2>5
    <2> QED  BY <2>1, <2>2, <2>3, <2>4, <2>5
<1>2. First(list, cs) = list[CHOOSE i \in DOMAIN list : isFirst(i)]
    BY DEF First
<1> QED  BY <1>1, <1>2

LEMMA InitOrderly == Init => Orderly
BY DEF Init, Renderer!Init, Orderly, ObjectsInOrder, CallbacksInOrder,
       TasksInOrder, TexturesInOrder, Made, HalfMade, Unregistered

\* Selecting an image does not touch the frame or the texture, and only a
\* frame that has begun goes on.
LEMMA RendererTouches ==
    /\ \A empty \in BOOLEAN : Renderer!Select(empty) => UNCHANGED <<frame, texture>>
    /\ Renderer!BeginFrame => UNCHANGED texture
    /\ Renderer!FrameStep => frame # "idle"
    /\ Renderer!Shutdown => UNCHANGED frame /\ texture' = Renderer!NoTexture
BY DEF Renderer!Select, Renderer!BeginFrame, Renderer!FrameStep,
       Renderer!CheckTexture, Renderer!Upload, Renderer!FinishUpdate,
       Renderer!Draw, Renderer!Shutdown

\* The steps that only the threads of OBS take, and what they leave alone.
LEMMA GraphicsTouches ==
    ASSUME TickBegins \/ RenderBegins \/ GraphicsGoesOn
    PROVE  /\ UNCHANGED <<ui, objects, registered, threads, alive>>
           /\ \/ UNCHANGED tasks
              \/ graphics = "post" /\ tasks' = Append(tasks, "apply")
           /\ graphics' # "idle" => graphics # "idle" \/ "tick" \in registered
           /\ frame' # "idle" => frame # "idle" \/ "render" \in registered
           /\ \/ UNCHANGED <<texture, watermark>>
              \/ frame # "idle" \/ "render" \in registered
BY RendererTouches DEF TickBegins, RenderBegins, GraphicsGoesOn, TickForwards,
    TickPosts, RenderGoesOn, renderer

\* The barrier comes up only while the queue drains, and then as the last.
LEMMA FirstTask ==
    ASSUME TasksInOrder, tasks # << >>
    PROVE  /\ Head(tasks) = tasks[1] /\ Tail(tasks) \in Seq({"apply", "barrier"})
           /\ Len(tasks) \in Nat \ {0} /\ DOMAIN tasks = 1..Len(tasks)
           /\ Len(Tail(tasks)) = Len(tasks) - 1
           /\ DOMAIN Tail(tasks) = 1..(Len(tasks) - 1)
           /\ \A i \in 1..(Len(tasks) - 1) : Tail(tasks)[i] = tasks[i + 1]
           /\ Head(tasks) = "barrier" => ui = "draining" /\ Len(tasks) = 1
           /\ Head(tasks) # "barrier" /\ ui = "draining" => Len(tasks) > 1
<1>1. tasks \in Seq({"apply", "barrier"})
    BY DEF TasksInOrder
<1>2. /\ Head(tasks) = tasks[1] /\ Tail(tasks) \in Seq({"apply", "barrier"})
      /\ Len(tasks) \in Nat \ {0} /\ DOMAIN tasks = 1..Len(tasks)
      /\ Len(Tail(tasks)) = Len(tasks) - 1
      /\ DOMAIN Tail(tasks) = 1..(Len(tasks) - 1)
      /\ \A i \in 1..(Len(tasks) - 1) : Tail(tasks)[i] = tasks[i + 1]
    BY <1>1
<1>3. 1 \in DOMAIN tasks
    BY <1>2
<1> QED  BY <1>2, <1>3 DEF TasksInOrder

LEMMA ObjectsStep ==
    ASSUME Orderly, [Next]_vars PROVE ObjectsInOrder'
<1> USE DEF Orderly, ObjectsInOrder, Made, HalfMade
<1>1. CASE CreateObjects \/ AddCallback
    BY <1>1 DEF CreateObjects, AddCallback
<1>2. CASE TickBegins \/ RenderBegins \/ GraphicsGoesOn
    BY <1>2, GraphicsTouches
<1>3. CASE RunTask \/ FrontendCalls \/ RunOwnTask
    <2>1. CASE RunTask
        BY <2>1, FirstTask DEF RunTask, TakesTasks
    <2>2. CASE FrontendCalls
        BY <2>2 DEF FrontendCalls
    <2>3. CASE RunOwnTask
        BY <2>3 DEF RunOwnTask
    <2> QED  BY <1>3, <2>1, <2>2, <2>3
<1>4. CASE UnloadBegins \/ Unloading
    <2>1. CASE UnloadBegins \/ StopServer
        BY <2>1 DEF UnloadBegins, StopServer
    <2>2. CASE RemoveCallback
        BY <2>2 DEF RemoveCallback
    <2>3. CASE ShutdownBegins
        BY <2>3 DEF ShutdownBegins
    <2>4. CASE DestroyObjects
        BY <2>4 DEF DestroyObjects
    <2> QED  BY <1>4, <2>1, <2>2, <2>3, <2>4 DEF Unloading
<1>5. CASE UNCHANGED vars
    BY <1>5 DEF vars
<1> QED  BY <1>1, <1>2, <1>3, <1>4, <1>5 DEF Next

LEMMA CallbacksStep ==
    ASSUME Orderly, [Next]_vars PROVE CallbacksInOrder'
<1> USE DEF Orderly, CallbacksInOrder, Unregistered
<1>1. CASE CreateObjects
    BY <1>1 DEF CreateObjects, renderer
<1>2. CASE AddCallback
    <2> DEFINE c == First(Registration, Callback \ registered)
    <2>1. c = "none" \/ c \in Callback
        <3>1. CASE \E i \in DOMAIN Registration :
                       Registration[i] \in Callback \ registered
            <4>1. DOMAIN Registration = 1..5
                BY DEF Registration
            <4> QED  BY <3>1, <4>1, FirstDue
        <3>2. CASE ~ \E i \in DOMAIN Registration :
                       Registration[i] \in Callback \ registered
            BY <3>2 DEF First
        <3> QED  BY <3>1, <3>2
    <2>2. \/ registered' = registered
          \/ registered' = registered \cup {c} /\ c # "none"
        BY <1>2 DEF AddCallback
    <2> QED  BY <1>2, <2>1, <2>2 DEF AddCallback, renderer
<1>3. CASE TickBegins \/ RenderBegins \/ GraphicsGoesOn
    BY <1>3, GraphicsTouches
<1>4. CASE RunTask \/ FrontendCalls \/ RunOwnTask
    <2>1. CASE RunTask
        <3>1. UNCHANGED <<registered, graphics, frame>>
            BY <2>1, RendererTouches DEF RunTask, Apply, renderer
        <3>2. ui' = ui \/ (ui = "draining" /\ ui' = "drained")
            BY <2>1, FirstTask DEF RunTask, TakesTasks
        <3> QED  BY <3>1, <3>2
    <2>2. CASE FrontendCalls
        BY <2>2, RendererTouches DEF FrontendCalls
    <2>3. CASE RunOwnTask
        BY <2>3, RendererTouches DEF RunOwnTask, Apply, renderer
    <2> QED  BY <1>4, <2>1, <2>2, <2>3
<1>5. CASE RemoveCallback
    <2> DEFINE c == First(Unregistration, registered)
    <2>1. registered' = registered \ {c} /\ UNCHANGED <<graphics, frame>>
        BY <1>5 DEF RemoveCallback, renderer
    <2>2. CASE c = "none"
        <3>1. DOMAIN Unregistration = 1..4
            BY DEF Unregistration
        <3>2. \A i \in 1..4 : Unregistration[i] # "none"
            BY DEF Unregistration
        <3>3. \A i \in 1..4 : Unregistration[i] \notin registered
            BY <2>2, <3>1, <3>2, FirstDue
        <3>4. {"event", "save", "render", "tick"} \cap registered = {}
            BY <3>3 DEF Unregistration
        <3>5. registered' \subseteq {"tools"}
            BY <2>1, <3>4 DEF Callback
        <3> QED  BY <1>5, <2>1, <2>2, <3>4, <3>5 DEF RemoveCallback, Callback
    <2>3. CASE c # "none"
        BY <1>5, <2>1, <2>3 DEF RemoveCallback
    <2> QED  BY <2>2, <2>3
<1>6. CASE UnloadBegins \/ StopServer \/ ShutdownBegins \/ DestroyObjects
    BY <1>6, RendererTouches DEF UnloadBegins, StopServer, ShutdownBegins,
        DestroyObjects, ShutdownRenderers, renderer
<1>7. CASE UNCHANGED vars
    BY <1>7 DEF vars, renderer
<1> QED  BY <1>1, <1>2, <1>3, <1>4, <1>5, <1>6, <1>7 DEF Next, Unloading

\* What the queue is with another task behind it.
LEMMA Appended ==
    ASSUME TasksInOrder, NEW task \in {"apply", "barrier"}
    PROVE  /\ Append(tasks, task) \in Seq({"apply", "barrier"})
           /\ Append(tasks, task) # << >>
           /\ Len(Append(tasks, task)) = Len(tasks) + 1
           /\ DOMAIN Append(tasks, task) = 1..(Len(tasks) + 1)
           /\ Len(tasks) \in Nat /\ DOMAIN tasks = 1..Len(tasks)
           /\ Append(tasks, task)[Len(tasks) + 1] = task
           /\ \A i \in 1..Len(tasks) : Append(tasks, task)[i] = tasks[i]
BY DEF TasksInOrder

LEMMA TasksStep ==
    ASSUME Orderly, [Next]_vars PROVE TasksInOrder'
<1> USE DEF Orderly
<1>1. CASE UNCHANGED <<ui, tasks>>
    BY <1>1 DEF TasksInOrder
<1>2. ASSUME ui # "draining", ui # "unborn",
             UNCHANGED ui, tasks' = Append(tasks, "apply")
      PROVE  TasksInOrder'
    BY <1>2, Appended DEF TasksInOrder
<1>3. CASE CreateObjects \/ AddCallback
    BY <1>3 DEF CreateObjects, AddCallback, TasksInOrder
<1>4. CASE TickBegins \/ RenderBegins \/ GraphicsGoesOn
    <2>1. graphics = "post" => ui \notin Unregistered \cup {"unborn"}
        BY DEF CallbacksInOrder
    <2> QED  BY <1>1, <1>2, <1>4, <2>1, GraphicsTouches DEF Unregistered
<1>5. CASE RunTask
    <2>1. CASE Head(tasks) = "barrier"
        <3>1. ui' = "drained" /\ tasks' = << >>
            BY <1>5, <2>1, FirstTask DEF RunTask
        <3> QED  BY <3>1 DEF TasksInOrder
    <2>2. CASE Head(tasks) # "barrier"
        <3>1. ui' = ui /\ tasks' = Tail(tasks) /\ tasks # << >>
              /\ ui \in {"running", "draining"}
            BY <1>5, <2>2 DEF RunTask, TakesTasks
        <3>2. CASE ui = "draining"
            <4>1. /\ DOMAIN tasks' = 1..(Len(tasks) - 1) /\ Len(tasks) > 1
                  /\ Len(tasks') = Len(tasks) - 1 /\ tasks' # << >>
                <5>1. Len(tasks') = Len(tasks) - 1 /\ Len(tasks) > 1
                    BY <3>1, <3>2, <2>2, FirstTask
                <5>2. tasks' # << >>
                    <6>1. Len(tasks') # 0
                        BY <3>1, <5>1, FirstTask
                    <6>2. Len(<< >>) = 0
                        OBVIOUS
                    <6> QED  BY <6>1, <6>2
                <5> QED  BY <3>1, <5>1, <5>2, FirstTask
            <4>2. \A i \in DOMAIN tasks' : tasks'[i] = "barrier" <=> i = Len(tasks')
                BY <3>1, <3>2, <4>1, FirstTask DEF TasksInOrder
            <4> QED  BY <3>1, <3>2, <4>1, <4>2, FirstTask DEF TasksInOrder
        <3>3. CASE ui = "running"
            <4>1. DOMAIN tasks' = 1..(Len(tasks) - 1)
                BY <3>1, FirstTask
            <4>2. \A i \in DOMAIN tasks' : tasks'[i] = "apply"
                BY <3>1, <3>3, <4>1, FirstTask DEF TasksInOrder
            <4> QED  BY <3>1, <3>3, <4>2, FirstTask DEF TasksInOrder
        <3> QED  BY <3>1, <3>2, <3>3
    <2> QED  BY <2>1, <2>2
<1>6. CASE FrontendCalls \/ RunOwnTask
    <2>1. CASE ui' = "applying" /\ UNCHANGED tasks
        BY <1>6, <2>1 DEF FrontendCalls, RunOwnTask, TasksInOrder
    <2>2. CASE UNCHANGED ui /\ tasks' = Append(tasks, "apply")
        BY <1>2, <1>6, <2>2 DEF FrontendCalls, RunOwnTask
    <2>3. CASE RunOwnTask
        BY <2>3 DEF RunOwnTask, TasksInOrder
    <2> QED  BY <1>6, <2>1, <2>2, <2>3 DEF FrontendCalls
<1>7. CASE ShutdownBegins
    <2>1. CASE ui' = "drained" /\ UNCHANGED tasks
        BY <1>7, <2>1 DEF ShutdownBegins, TasksInOrder
    <2>2. CASE ui' = "draining" /\ tasks' = Append(tasks, "barrier")
        <3>1. \A i \in DOMAIN tasks : tasks[i] = "apply"
            BY <1>7 DEF ShutdownBegins, TasksInOrder
        <3> QED  BY <2>2, <3>1, Appended DEF TasksInOrder
    <2> QED  BY <1>7, <2>1, <2>2 DEF ShutdownBegins
<1>8. CASE UnloadBegins \/ StopServer \/ RemoveCallback \/ DestroyObjects
    BY <1>8 DEF UnloadBegins, StopServer, RemoveCallback, DestroyObjects,
                TasksInOrder
<1>9. CASE UNCHANGED vars
    BY <1>1, <1>9 DEF vars
<1> QED  BY <1>3, <1>4, <1>5, <1>6, <1>7, <1>8, <1>9 DEF Next, Unloading

LEMMA TexturesStep ==
    ASSUME Orderly, [Next]_vars PROVE TexturesInOrder'
<1> USE DEF Orderly, TexturesInOrder
<1>1. CASE UNCHANGED <<ui, texture, watermark>>
    BY <1>1
<1>2. CASE DestroyObjects
    BY <1>2, RendererTouches DEF DestroyObjects, ShutdownRenderers
<1>3. CASE TickBegins \/ RenderBegins \/ GraphicsGoesOn
    <2>1. ui = "unloaded" => frame = "idle" /\ "render" \notin registered
        BY DEF CallbacksInOrder, Unregistered
    <2> QED  BY <1>1, <1>3, <2>1, GraphicsTouches
<1>4. CASE RunTask
    <2>1. UNCHANGED <<texture, watermark>>
        BY <1>4, RendererTouches DEF RunTask, Apply, renderer
    <2>2. ui' # "unloaded"
        BY <1>4 DEF RunTask, TakesTasks
    <2> QED  BY <2>1, <2>2
<1>5. CASE FrontendCalls \/ RunOwnTask \/ CreateObjects \/ AddCallback
    BY <1>5 DEF FrontendCalls, RunOwnTask, CreateObjects, AddCallback
<1>6. CASE UnloadBegins \/ StopServer \/ RemoveCallback \/ ShutdownBegins
    BY <1>6 DEF UnloadBegins, StopServer, RemoveCallback, ShutdownBegins
<1>7. CASE UNCHANGED vars
    BY <1>1, <1>7 DEF vars, renderer
<1> QED  BY <1>2, <1>3, <1>4, <1>5, <1>6, <1>7 DEF Next, Unloading

LEMMA Order == Spec => []Orderly
<1>1. Orderly /\ [Next]_vars => Orderly'
    BY ObjectsStep, CallbacksStep, TasksStep, TexturesStep DEF Orderly
<1> QED  BY InitOrderly, <1>1, PTL DEF Spec

\* obs_module_unload and shutdown destroy nothing that a thread or a callback
\* may still use.
THEOREM NothingEverDangles == Spec => []NothingDangles
<1>1. Orderly => NothingDangles
    <2> SUFFICES ASSUME Orderly PROVE NothingDangles
        OBVIOUS
    <2>1. threads => {"state", "server"} \subseteq objects
        BY DEF Orderly, ObjectsInOrder, Made
    <2>2. ui \notin {"unborn", "unloaded"} => {"state", "controller"} \subseteq objects
        BY DEF Orderly, ObjectsInOrder, Made, HalfMade
    <2>3. ui \in {"unborn", "unloaded"} => Resting /\ registered \ {"tools"} = {}
        BY DEF Orderly, CallbacksInOrder, Resting, Unregistered
    <2> QED  BY <2>1, <2>2, <2>3 DEF NothingDangles
<1> QED  BY <1>1, Order, PTL

\* The module that has been unloaded leaves OBS nothing but its menu item.
THEOREM NothingIsLeft == Spec => []NothingLeft
<1>1. Orderly => NothingLeft
    BY DEF Orderly, ObjectsInOrder, CallbacksInOrder, TexturesInOrder,
           NothingLeft, Resting, Unregistered
<1> QED  BY <1>1, Order, PTL

\* Behind the barrier the queue is empty.
Drained == ui \in {"drained", "unloaded"} => tasks = << >>

LEMMA DrainedStep ==
    ASSUME "atOnce" \notin SelfPosts, Orderly, Drained, [Next]_vars
    PROVE  Drained'
<1> USE DEF Drained
<1>1. CASE CreateObjects \/ AddCallback
    BY <1>1 DEF CreateObjects, AddCallback
<1>2. CASE TickBegins \/ RenderBegins \/ GraphicsGoesOn
    <2>1. graphics = "post" => ui \notin Unregistered
        BY DEF Orderly, CallbacksInOrder
    <2> QED  BY <1>2, <2>1, GraphicsTouches DEF Unregistered
<1>3. CASE RunTask
    <2>1. CASE Head(tasks) = "barrier"
        <3>1. tasks' = << >>
            BY <1>3, <2>1, FirstTask DEF RunTask, Orderly
        <3> QED  BY <3>1
    <2>2. CASE Head(tasks) # "barrier"
        BY <1>3, <2>2 DEF RunTask, TakesTasks
    <2> QED  BY <2>1, <2>2
<1>4. CASE FrontendCalls \/ RunOwnTask
    BY <1>4 DEF FrontendCalls, RunOwnTask
<1>5. CASE UnloadBegins \/ StopServer \/ RemoveCallback \/ DestroyObjects
    BY <1>5 DEF UnloadBegins, StopServer, RemoveCallback, DestroyObjects
<1>6. CASE ShutdownBegins
    BY <1>6 DEF ShutdownBegins
<1>7. CASE UNCHANGED vars
    BY <1>7 DEF vars
<1> QED  BY <1>1, <1>2, <1>3, <1>4, <1>5, <1>6, <1>7 DEF Next, Unloading

\* The comment in shutdown is true where a task that the UI thread posts to
\* itself takes its turn: no queued task outlives the controller.
THEOREM BarrierDrains ==
    ASSUME "atOnce" \notin SelfPosts
    PROVE  Spec => []TasksHaveController
<1>1. Init => Drained
    BY DEF Init, Drained
<1>2. Orderly /\ Drained /\ [Next]_vars => Drained'
    BY DrainedStep
<1>3. Orderly /\ Drained => TasksHaveController
    <2> SUFFICES ASSUME Orderly, Drained PROVE TasksHaveController
        OBVIOUS
    <2>1. ui \notin {"unborn", "unloaded"} => {"state", "controller"} \subseteq objects
        BY DEF Orderly, ObjectsInOrder, Made, HalfMade
    <2>2. ui \in {"unborn", "unloaded"} => tasks = << >>
        BY DEF Orderly, TasksInOrder, Drained
    <2> QED  BY <2>1, <2>2 DEF TasksHaveController
<1> QED  BY <1>1, <1>2, <1>3, Order, PTL DEF Spec

-----------------------------------------------------------------------------
(***************************************************************************)
(* Types                                                                   *)
(***************************************************************************)
\* The fields that no order above speaks of.
Flags ==
    /\ threads \in BOOLEAN /\ alive \in BOOLEAN /\ watermark \in BOOLEAN
    /\ graphics \in {"idle", "tick", "post"}

LEMMA FlagsStep ==
    ASSUME Flags, [Next]_vars PROVE Flags'
<1> USE DEF Flags
<1>1. CASE CreateObjects \/ AddCallback
    BY <1>1 DEF CreateObjects, AddCallback
<1>2. CASE TickBegins \/ RenderBegins
    BY <1>2 DEF TickBegins, RenderBegins
<1>3. CASE GraphicsGoesOn
    BY <1>3 DEF GraphicsGoesOn, TickForwards, TickPosts, RenderGoesOn
<1>4. CASE RunTask \/ FrontendCalls \/ RunOwnTask \/ UnloadBegins
    BY <1>4 DEF RunTask, FrontendCalls, RunOwnTask, UnloadBegins
<1>5. CASE Unloading
    BY <1>5 DEF Unloading, StopServer, RemoveCallback, ShutdownBegins,
                DestroyObjects, ShutdownRenderers
<1>6. CASE UNCHANGED vars
    BY <1>6 DEF vars
<1> QED  BY <1>1, <1>2, <1>3, <1>4, <1>5, <1>6 DEF Next

\* However the threads of OBS and the UI thread take turns, every field of the
\* module and of the renderer keeps its type.
THEOREM TypeCorrect == Spec => []TypeOK
<1>1. Init => Flags
    BY DEF Init, Flags
<1>2. Image!IInv => Renderer!TypeOK
    BY DEF Image!IInv, Image!TypeOK, Renderer!TypeOK
<1>3. Orderly => /\ objects \subseteq {"state", "controller", "server"}
                 /\ registered \subseteq Callback
                 /\ tasks \in Seq({"apply", "barrier"})
    <2> SUFFICES ASSUME ObjectsInOrder, CallbacksInOrder, TasksInOrder
                 PROVE  objects \subseteq {"state", "controller", "server"}
        BY DEF Orderly, CallbacksInOrder, TasksInOrder
    <2> QED  BY DEF ObjectsInOrder, Made, HalfMade
<1>4. Image!IInv /\ Orderly /\ Flags => TypeOK
    BY <1>2, <1>3 DEF TypeOK, Flags
<1> QED  BY <1>1, <1>4, FlagsStep, Order, RendererInvariant, PTL DEF Spec
=============================================================================
