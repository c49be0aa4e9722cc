---------------------- MODULE ProtectionDisplayProofs ----------------------
(***************************************************************************)
(* Proofs about ProtectionDisplay, for every set of scenes, every choice   *)
(* of settings, every content of the files and any number of mode changes  *)
(* and user actions.                                                       *)
(*                                                                         *)
(* The heart is Landing: at every moment either a request that carries the *)
(* latest mode is still to be applied, or what the UI thread has yet to    *)
(* store, on top of what it has stored, makes the display that mode asks   *)
(* for.  The stores of the graphics thread need no more than that, because *)
(* a thread that covers the output has a request of its own to make.       *)
(***************************************************************************)
EXTENDS ProtectionDisplay, SettingsProofs, SequenceTheorems

Request ==
    [store : {"watermark", "overlay"}, value : BOOLEAN]
      \cup [store : {"image"}, value : Image]
      \cup [store : {"enter"}, value : Scene]
      \cup [store : {"restore"}]

Task == [mode : Modes, generation : Nat]

ThreadState == [pc : {"idle", "queue", "post", "save"}, then : {"idle", "save"},
                todo : Seq(Request), mode : Modes \cup {"none"}, generation : Nat]

Custom == [active : BOOLEAN, previous : Scene \cup {NoScene},
           target : Scene \cup {NoScene}]

\* A thread about to take a generation, or to post, has a mode; one that posts
\* has made its stores.
ThreadTypes(threads, newest) ==
    /\ threads \in [Thread -> ThreadState]
    /\ \A t \in Thread :
         /\ threads[t].generation \in 0..newest
         /\ threads[t].pc \in {"queue", "post"} => threads[t].mode \in Modes
         /\ threads[t].pc = "post" => /\ threads[t].generation > 0
                                      /\ threads[t].todo = << >>

\* The types, with the sequences as sequences.
Types ==
    /\ source \in Modes /\ latest \in Modes /\ noted \in Modes \cup {"none"}
    /\ generation \in Nat /\ settings \in Settings /\ stored \in Data
    /\ overlay \in BOOLEAN /\ watermark \in BOOLEAN /\ image \in Image
    /\ scenes \subseteq Scene /\ scene \in scenes /\ HomeScene \in scenes
    /\ custom \in Custom /\ collection \in {"steady", "changing"}
    /\ tasks \in Seq(Task) /\ ThreadTypes(thread, generation)
    /\ \A i \in DOMAIN tasks : tasks[i].generation \in 1..generation
    /\ strayed \in BOOLEAN /\ carried \in BOOLEAN /\ overtaken \in BOOLEAN

\* The scene to return to is the user's, wherever it is kept.
HomeKept ==
    /\ home \in scenes \cup {NoScene}
    /\ collection = "steady" /\ ~carried /\ home # NoScene =>
         IF custom.active THEN custom.previous = home ELSE scene = home

\* Settings that are not on file are about to be saved.
ToBeSaved == \/ thread["ui"].pc \in {"queue", "post"} /\ thread["ui"].then = "save"
             \/ thread["ui"].pc = "save"

SettingsKept == Loaded(stored) = settings \/ ToBeSaved

-----------------------------------------------------------------------------
Part(request) == IF request.store \in {"restore", "enter"} THEN "stage"
                                                           ELSE request.store

\* No part of the display is stored twice in one go.
Once(todo) == \A i, j \in DOMAIN todo : Part(todo[i]) = Part(todo[j]) => i = j

\* The request is to come, or is done and will not be undone.
Coming(todo, request) == \E i \in DOMAIN todo : todo[i] = request
Left(todo, part) == \A i \in DOMAIN todo : Part(todo[i]) # part
Will(todo, request, done) ==
    Coming(todo, request) \/ (done /\ Left(todo, Part(request)))

\* A custom scene stands, on the output unless the user strayed from it.
Entered(target) ==
    custom.active /\ custom.target = target /\ (scene = target \/ strayed)

\* Only scenes that are there are entered.
EntersThere(todo) == \A i \in DOMAIN todo :
                        todo[i].store = "enter" => todo[i].value \in scenes
EntersNone(todo) == \A i \in DOMAIN todo : todo[i].store # "enter"

\* What the display comes to when the UI thread has made its stores:
WillOverlay(value) == Will(thread["ui"].todo, SetOverlay(value), overlay = value)
WillWatermark(value) == Will(thread["ui"].todo, SetWatermark(value), watermark = value)
WillImage(value) == Will(thread["ui"].todo, SetImage(value), image = value)
WillLeave == Will(thread["ui"].todo, Restore, custom = NoCustom)
WillEnter(target) == Will(thread["ui"].todo, Enter(target), Entered(target))

\* our output no more, a bundled image, the user's image, or his scene.
LandsNormal == /\ ~Protected(latest) /\ WillLeave
               /\ WillOverlay(FALSE) /\ WillWatermark(FALSE)

LandsBlack == /\ Protected(latest) /\ WillLeave /\ WillOverlay(TRUE)
              /\ WillWatermark(FALSE) /\ WillImage(DefaultImage(latest))

LandsImage == /\ Protected(latest) /\ WillLeave /\ WillOverlay(TRUE)
              /\ Event(latest).mode = "CustomImage" /\ WillImage("custom")

LandsScene == /\ Protected(latest) /\ settings.riskAccepted
              /\ Event(latest).mode = "CustomScene"
              /\ WillEnter(Event(latest).scene) /\ WillOverlay(FALSE)

Lands == LandsNormal \/ LandsBlack \/ LandsImage \/ LandsScene

\* A request with the latest mode is still to be applied, or one is to come.
Underway ==
    \/ \E t \in Thread : \/ thread[t].pc = "queue"
                         \/ thread[t].pc = "post" /\ Current(thread[t])
    \/ \E i \in DOMAIN tasks : Current(tasks[i])
    \/ collection = "changing"

\* The newest request is for the latest mode.
Agree ==
    /\ \A i \in DOMAIN tasks : Current(tasks[i]) => tasks[i].mode = latest
    /\ \A t \in Thread : thread[t].pc = "post" /\ Current(thread[t])
                           => thread[t].mode = latest

\* The graphics thread stores nothing but the cover that goes with a request.
Tidy ==
    /\ thread["graphics"].todo # << >> => thread["graphics"].pc = "queue"
    /\ Once(thread["ui"].todo) /\ EntersThere(thread["ui"].todo)
    /\ custom.active \/ custom = NoCustom

Landing == Agree /\ Tidy /\ (Underway \/ Lands)

-----------------------------------------------------------------------------
\* What the tick noted is what the controller has, or is about to be given,
\* unless a settings update has put an older mode over it.
Requests ==
    IF thread["graphics"].pc = "queue"
    THEN thread["graphics"].mode = noted
    ELSE noted = "none" \/ overtaken \/ latest = noted

-----------------------------------------------------------------------------
(***************************************************************************)
(* Types                                                                   *)
(***************************************************************************)
LEMMA Lists ==
    ASSUME NEW S, NEW a \in S, NEW b \in S, NEW c \in S, NEW d \in S
    PROVE  <<a, b, c>> \in Seq(S) /\ <<a, b, c, d>> \in Seq(S)
OBVIOUS

LEMMA RequestTypes ==
    /\ \A value \in BOOLEAN : SetWatermark(value) \in Request /\ SetOverlay(value) \in Request
    /\ \A value \in Image : SetImage(value) \in Request
    /\ \A target \in Scene : Enter(target) \in Request
    /\ Restore \in Request
BY DEF Request, SetWatermark, SetOverlay, SetImage, Enter, Restore

LEMMA Images == /\ \A mode : DefaultImage(mode) \in Image
                /\ "none" \in Image /\ "custom" \in Image
BY DEF DefaultImage, Image

LEMMA StoresTypes ==
    ASSUME Types, NEW mode \in Modes, NEW readable \in BOOLEAN
    PROVE  Stores(mode, readable) \in Seq(Request)
<1>1. /\ SetWatermark(FALSE) \in Request /\ SetOverlay(FALSE) \in Request
      /\ SetOverlay(TRUE) \in Request /\ Restore \in Request
      /\ SetWatermark(WatermarkAvailable) \in Request
      /\ SetImage(DefaultImage(mode)) \in Request /\ SetImage("custom") \in Request
      /\ SetImage("none") \in Request
    BY RequestTypes, Images, ChoiceAssumption
<1>2. Fallback(mode) \in Seq(Request)
    BY <1>1, Lists DEF Fallback
<1>3. <<SetWatermark(FALSE), SetOverlay(FALSE), Restore>> \in Seq(Request)
    BY <1>1, Lists
<1>4. <<Restore, SetImage("custom"), SetWatermark(WatermarkAvailable),
        SetOverlay(TRUE)>> \in Seq(Request)
    BY <1>1, Lists
<1>5. ASSUME Event(mode).scene \in scenes
      PROVE  <<Enter(Event(mode).scene), SetImage("none"),
               SetWatermark(WatermarkAvailable), SetOverlay(FALSE)>> \in Seq(Request)
    <2>1. Enter(Event(mode).scene) \in Request
        BY <1>5, RequestTypes DEF Types
    <2> QED  BY <1>1, <2>1, Lists
<1> QED  BY <1>2, <1>3, <1>4, <1>5 DEF Stores

LEMMA OtherStoresTypes ==
    ASSUME Types
    PROVE  /\ << >> \in Seq(Request) /\ Cover \in Seq(Request)
           /\ \A mode : CoverIfProtected(mode) \in Seq(Request)
           /\ \A removed : SceneListStores(removed) \in Seq(Request)
           /\ <<SetWatermark(FALSE), SetOverlay(Protected(latest)),
                SetImage("none")>> \in Seq(Request)
<1>1. /\ SetWatermark(FALSE) \in Request /\ SetOverlay(TRUE) \in Request
      /\ SetOverlay(Protected(latest)) \in Request /\ Restore \in Request
      /\ SetImage(DefaultImage(latest)) \in Request
      /\ SetImage("none") \in Request
    <2>1. Protected(latest) \in BOOLEAN
        BY DEF Protected
    <2> QED  BY <2>1, RequestTypes, Images
<1>2. << >> \in Seq(Request) /\ Cover \in Seq(Request)
    <2>1. << >> \in Seq(Request)
        OBVIOUS
    <2> QED  BY <1>1, <2>1, Lists DEF Cover
<1>3. \A mode : CoverIfProtected(mode) \in Seq(Request)
    BY <1>2 DEF CoverIfProtected
<1>4. <<SetWatermark(FALSE), SetOverlay(TRUE), SetImage(DefaultImage(latest)),
        Restore>> \in Seq(Request)
    BY <1>1, Lists
<1>5. \A removed : SceneListStores(removed) \in Seq(Request)
    BY <1>2, <1>4 DEF SceneListStores
<1>6. <<SetWatermark(FALSE), SetOverlay(Protected(latest)), SetImage("none")>>
        \in Seq(Request)
    BY <1>1, Lists
<1> QED  BY <1>2, <1>3, <1>5, <1>6

\* The first task of a queue, and the rest.
LEMMA FirstTask ==
    ASSUME NEW S, NEW q \in Seq(S), q # << >>
    PROVE  /\ Head(q) \in S /\ Head(q) = q[1] /\ 1 \in DOMAIN q
           /\ Tail(q) \in Seq(S)
           /\ \A i \in DOMAIN Tail(q) : i + 1 \in DOMAIN q /\ Tail(q)[i] = q[i + 1]
           /\ \A i \in DOMAIN q : i = 1 \/ (i - 1 \in DOMAIN Tail(q)
                                            /\ Tail(q)[i - 1] = q[i])
<1>1. /\ Head(q) \in S /\ Tail(q) \in Seq(S) /\ Len(q) \in Nat \ {0}
      /\ Len(Tail(q)) = Len(q) - 1 /\ Head(q) = q[1]
      /\ \A i \in 1..Len(Tail(q)) : Tail(q)[i] = q[i + 1]
    BY HeadTailProperties, EmptySeq
<1>2. DOMAIN q = 1..Len(q) /\ DOMAIN Tail(q) = 1..Len(Tail(q))
    BY <1>1
<1> QED  BY <1>1, <1>2

LEMMA Ends ==
    ASSUME NEW S, NEW q \in Seq(S), NEW e \in S
    PROVE  /\ Append(q, e) \in Seq(S) /\ Len(Append(q, e)) = Len(q) + 1
           /\ Append(q, e)[Len(q) + 1] = e
           /\ \A i \in 1..Len(q) : Append(q, e)[i] = q[i]
           /\ <<e>> \o q \in Seq(S) /\ Len(<<e>> \o q) = Len(q) + 1
           /\ (<<e>> \o q)[1] = e
           /\ \A i \in 1..Len(q) : (<<e>> \o q)[i + 1] = q[i]
OBVIOUS

\* A request in front of the queue, or behind it.
Inserted(r, q, e) ==
    /\ \A i \in DOMAIN r : r[i] = e \/ \E j \in DOMAIN q : r[i] = q[j]
    /\ \E i \in DOMAIN r : r[i] = e
    /\ \A j \in DOMAIN q : \E i \in DOMAIN r : r[i] = q[j]

LEMMA PostedTask ==
    ASSUME NEW S, NEW q \in Seq(S), NEW e \in S
    PROVE  /\ Append(q, e) \in Seq(S) /\ Inserted(Append(q, e), q, e)
           /\ <<e>> \o q \in Seq(S) /\ Inserted(<<e>> \o q, q, e)
<1>1. /\ DOMAIN q = 1..Len(q) /\ Len(q) \in Nat
      /\ DOMAIN Append(q, e) = 1..(Len(q) + 1)
      /\ DOMAIN (<<e>> \o q) = 1..(Len(q) + 1)
    BY Ends
<1>2. Inserted(Append(q, e), q, e)
    <2>1. \A i \in 1..(Len(q) + 1) : i = Len(q) + 1 \/ i \in 1..Len(q)
        BY <1>1
    <2>2. Len(q) + 1 \in 1..(Len(q) + 1) /\ \A i \in 1..Len(q) : i \in 1..(Len(q) + 1)
        BY <1>1
    <2> QED  BY <1>1, <2>1, <2>2, Ends DEF Inserted
<1>3. Inserted(<<e>> \o q, q, e)
    <2>1. \A i \in 1..(Len(q) + 1) :
            i = 1 \/ (i - 1 \in 1..Len(q) /\ (i - 1) + 1 = i)
        BY <1>1
    <2>2. 1 \in 1..(Len(q) + 1) /\ \A i \in 1..Len(q) : i + 1 \in 1..(Len(q) + 1)
        BY <1>1
    <2> DEFINE r == <<e>> \o q
    <2>3. r[1] = e /\ \A i \in 1..Len(q) : r[i + 1] = q[i]
        BY Ends
    <2>4. DOMAIN r = 1..(Len(q) + 1)
        BY <1>1
    <2> HIDE DEF r
    <2>5. ASSUME NEW i \in DOMAIN r, i # 1 PROVE \E j \in DOMAIN q : r[i] = q[j]
        <3>1. i - 1 \in 1..Len(q) /\ (i - 1) + 1 = i
            BY <2>1, <2>4, <2>5
        <3>2. r[(i - 1) + 1] = q[i - 1]
            BY <2>3, <3>1
        <3> QED  BY <1>1, <3>1, <3>2
    <2>6. Inserted(r, q, e)
        BY <1>1, <2>2, <2>3, <2>4, <2>5 DEF Inserted
    <2> QED  BY <2>6 DEF r
<1> QED  BY <1>2, <1>3, Ends

LEMMA RequestKinds ==
    \A r \in Request :
        /\ r.store \in {"watermark", "overlay", "image", "enter", "restore"}
        /\ r.store \in {"watermark", "overlay"} => r.value \in BOOLEAN
        /\ r.store = "image" => r.value \in Image
        /\ r.store = "enter" => r.value \in Scene
BY DEF Request

\* What a store does to each part of the display.
LEMMA StoreEffect ==
    ASSUME Types, NEW t \in Thread, Store(t)
    PROVE  LET r == Head(thread[t].todo) IN
           /\ thread[t].todo # << >> /\ r \in Request
           /\ thread' = [thread EXCEPT ![t].todo = Tail(@)]
           /\ Tail(thread[t].todo) \in Seq(Request)
           /\ watermark' = IF r.store = "watermark" THEN r.value ELSE watermark
           /\ overlay' = IF r.store = "overlay" THEN r.value ELSE overlay
           /\ image' = IF r.store = "image" THEN r.value ELSE image
           /\ IF r.store = "restore" THEN RestorePreviousScene
              ELSE IF r.store = "enter" THEN EnterCustomScene(r.value)
              ELSE UNCHANGED <<scene, custom, strayed>>
           /\ UNCHANGED <<source, noted, decision, scenes, collection, stored, home,
                          carried, tasks, budget>>
<1>1. thread[t].todo \in Seq(Request) /\ thread[t].todo # << >>
    BY DEF Types, ThreadTypes, ThreadState, Store
<1>2. Head(thread[t].todo) \in Request /\ Tail(thread[t].todo) \in Seq(Request)
    BY <1>1, FirstTask
<1> QED  BY <1>1, <1>2 DEF Store

LEMMA StageStep ==
    ASSUME Types, NEW r \in Request,
           IF r.store = "restore" THEN RestorePreviousScene
           ELSE IF r.store = "enter" THEN EnterCustomScene(r.value)
           ELSE UNCHANGED <<scene, custom, strayed>>
    PROVE  scene' \in scenes /\ custom' \in Custom /\ strayed' \in BOOLEAN
<1>a. scene \in scenes /\ scenes \subseteq Scene /\ custom \in Custom
    BY DEF Types
<1>b. NoCustom \in Custom
    BY DEF NoCustom, Custom
<1>1. CASE r.store = "restore"
    <2>1. RestorePreviousScene
        BY <1>1
    <2> QED  BY <1>a, <1>b, <2>1 DEF RestorePreviousScene, SwitchTo
<1>2. CASE r.store = "enter"
    <2>1. EnterCustomScene(r.value) /\ r.value \in Scene
        BY <1>2, RequestKinds
    <2> QED  BY <1>a, <2>1 DEF EnterCustomScene, SwitchTo, Custom
<1>3. CASE r.store \notin {"restore", "enter"}
    BY <1>3 DEF Types
<1> QED  BY <1>1, <1>2, <1>3

LEMMA TypesPreserved == ASSUME Types, [Next]_vars PROVE Types'
<1> USE DEF Thread
<1>a. /\ "graphics" \in Thread /\ "ui" \in Thread /\ generation \in Nat
      /\ << >> \in Seq(Request)
    BY OtherStoresTypes DEF Types
<1>1. CASE UNCHANGED vars \/ RenderFrame
    BY <1>1 DEF RenderFrame, Types, vars, decision, display, stage, history
<1>2. CASE TickModeChanged
    <2>1. thread' = [thread EXCEPT !["graphics"] =
                    [@ EXCEPT !.pc = "queue", !.mode = source,
                              !.todo = CoverIfProtected(source)]]
        BY <1>2 DEF TickModeChanged
    <2>2. CoverIfProtected(source) \in Seq(Request)
        BY OtherStoresTypes
    <2>3. ThreadTypes(thread', generation)
        BY <2>1, <2>2 DEF Types, ThreadTypes, ThreadState
    <2> QED  BY <1>2, <2>3 DEF TickModeChanged, Types, decision, display, stage, history
<1>3. ASSUME NEW t \in Thread, Store(t) PROVE Types'
    <2> DEFINE r == Head(thread[t].todo)
    <2>1. /\ r \in Request /\ thread' = [thread EXCEPT ![t].todo = Tail(@)]
          /\ Tail(thread[t].todo) \in Seq(Request) /\ thread[t].todo # << >>
        BY <1>3, StoreEffect
    <2>2. watermark' \in BOOLEAN /\ overlay' \in BOOLEAN /\ image' \in Image
        BY <1>3, StoreEffect, RequestKinds DEF Types
    <2>3. scene' \in scenes /\ custom' \in Custom /\ strayed' \in BOOLEAN
        BY <1>3, StoreEffect, StageStep
    <2>4. ThreadTypes(thread', generation)
        <3>1. thread[t].pc # "post"
            BY <2>1 DEF Types, ThreadTypes
        <3>2. /\ thread' \in [Thread -> ThreadState]
              /\ thread'[t].pc = thread[t].pc /\ thread'[t].mode = thread[t].mode
              /\ thread'[t].generation = thread[t].generation
              /\ \A u \in Thread : u # t => thread'[u] = thread[u]
            BY <2>1 DEF Types, ThreadTypes, ThreadState
        <3> QED  BY <3>1, <3>2 DEF Types, ThreadTypes
    <2>5. UNCHANGED <<source, noted, decision, scenes, collection, stored, carried,
                      tasks>>
        BY <1>3, StoreEffect
    <2> QED  BY <2>2, <2>3, <2>4, <2>5 DEF Types, decision
<1>4. ASSUME NEW t \in Thread, TakeGeneration(t) PROVE Types'
    <2>1. /\ generation' = generation + 1 /\ latest' = thread[t].mode
          /\ thread' = [thread EXCEPT ![t].pc = "post", ![t].generation = generation + 1]
          /\ thread[t].pc = "queue" /\ thread[t].todo = << >>
          /\ overtaken' \in BOOLEAN
          /\ UNCHANGED <<source, noted, settings, display, stage, tasks>>
        BY <1>4 DEF TakeGeneration, Types
    <2>2. ThreadTypes(thread', generation + 1)
        <3>1. /\ thread \in [Thread -> ThreadState] /\ thread[t] \in ThreadState
              /\ thread[t].mode \in Modes
            BY <2>1 DEF Types, ThreadTypes
        <3>2. /\ thread' \in [Thread -> ThreadState]
              /\ thread'[t].generation = generation + 1
              /\ thread'[t].mode = thread[t].mode
              /\ thread'[t].todo = thread[t].todo
              /\ \A u \in Thread : u # t => thread'[u] = thread[u]
            <4> DEFINE n == generation + 1
            <4>1. n \in Nat
                BY <1>a
            <4>2. thread' = [thread EXCEPT ![t].pc = "post", ![t].generation = n]
                BY <2>1
            <4> HIDE DEF n, Thread
            <4>3. /\ thread' \in [Thread -> ThreadState]
                  /\ thread'[t].generation = n /\ thread'[t].mode = thread[t].mode
                  /\ thread'[t].todo = thread[t].todo
                  /\ \A u \in Thread : u # t => thread'[u] = thread[u]
                BY <3>1, <4>1, <4>2 DEF ThreadState
            <4> QED  BY <4>3 DEF n
        <3>3. ASSUME NEW u \in Thread
              PROVE  /\ thread'[u].generation \in 0..(generation + 1)
                     /\ thread'[u].pc \in {"queue", "post"} => thread'[u].mode \in Modes
                     /\ thread'[u].pc = "post" => /\ thread'[u].generation > 0
                                                  /\ thread'[u].todo = << >>
            <4> HIDE DEF Thread
            <4>1. CASE u = t
                BY <1>a, <2>1, <3>1, <3>2, <4>1
            <4>2. CASE u # t
                BY <1>a, <3>2, <4>2 DEF Types, ThreadTypes
            <4> QED  BY <4>1, <4>2
        <3> QED  BY <3>2, <3>3 DEF ThreadTypes
    <2>3. \A i \in DOMAIN tasks : tasks[i].generation \in 1..(generation + 1)
        BY <1>a DEF Types
    <2>4. thread[t].mode \in Modes
        BY <2>1 DEF Types, ThreadTypes
    <2> QED  BY <1>a, <2>1, <2>2, <2>3, <2>4 DEF Types, display, stage, history
<1>5. ASSUME NEW t \in Thread, PostTask(t) PROVE Types'
    <2> DEFINE task == [mode |-> thread[t].mode, generation |-> thread[t].generation]
    <2>1. /\ tasks' = Append(tasks, task) \/ tasks' = <<task>> \o tasks
          /\ thread' = [thread EXCEPT ![t] = Resting(thread[t].then)]
          /\ thread[t].pc = "post"
          /\ UNCHANGED <<source, noted, decision, display, stage>>
        BY <1>5 DEF PostTask
    <2>2. task \in Task /\ task.generation \in 1..generation
        BY <2>1 DEF Types, Task, ThreadTypes, ThreadState
    <2> HIDE DEF task
    <2>3. tasks' \in Seq(Task) /\ Inserted(tasks', tasks, task)
        <3>1. tasks \in Seq(Task)
            BY DEF Types
        <3>2. /\ Append(tasks, task) \in Seq(Task)
              /\ Inserted(Append(tasks, task), tasks, task)
              /\ <<task>> \o tasks \in Seq(Task)
              /\ Inserted(<<task>> \o tasks, tasks, task)
            BY <2>2, <3>1, PostedTask
        <3>3. CASE tasks' = Append(tasks, task)
            BY <3>2, <3>3, Zenon
        <3>4. CASE tasks' = <<task>> \o tasks
            BY <3>2, <3>4, Zenon
        <3> QED  BY <2>1, <3>3, <3>4
    <2>4. \A i \in DOMAIN tasks' : tasks'[i].generation \in 1..generation
        BY <2>2, <2>3 DEF Inserted, Types
    <2>5. ThreadTypes(thread', generation)
        BY <1>a, <2>1 DEF Types, ThreadTypes, ThreadState, Resting
    <2> QED  BY <2>1, <2>3, <2>4, <2>5 DEF Types, decision, display, stage, history
<1>6. CASE ApplyTask
    <2>1. PICK readable \in BOOLEAN :
            thread' = [thread EXCEPT !["ui"].todo =
                         IF Current(Head(tasks))
                         THEN Stores(Head(tasks).mode, readable)
                         ELSE << >>]
        BY <1>6 DEF ApplyTask
    <2>2. /\ tasks # << >> /\ tasks' = Tail(tasks) /\ thread["ui"].pc = "idle"
          /\ UNCHANGED <<source, noted, decision, display, stage>>
        BY <1>6 DEF ApplyTask, Idle
    <2>3. /\ Head(tasks) \in Task /\ Head(tasks).generation \in 0..generation
          /\ Tail(tasks) \in Seq(Task)
          /\ \A i \in DOMAIN Tail(tasks) : Tail(tasks)[i].generation \in 1..generation
        BY <2>2, FirstTask DEF Types
    <2>4. Stores(Head(tasks).mode, readable) \in Seq(Request)
        BY <2>3, StoresTypes DEF Task
    <2>5. ThreadTypes(thread', generation)
        BY <1>a, <2>1, <2>2, <2>3, <2>4 DEF Types, ThreadTypes, ThreadState, Task
    <2> QED  BY <2>2, <2>3, <2>5 DEF Types, decision, display, stage, history
\* The steps that give the UI thread another program counter or other stores.
<1>7. ASSUME NEW pc \in {"idle", "queue"}, NEW then \in {"idle", "save"},
             NEW mode \in Modes \cup {"none"}, pc = "queue" => mode \in Modes,
             NEW todo \in Seq(Request),
             thread' = [thread EXCEPT !["ui"] = [@ EXCEPT !.pc = pc, !.then = then,
                                                 !.mode = mode, !.todo = todo]]
      PROVE  ThreadTypes(thread', generation)
    BY <1>7 DEF Types, ThreadTypes, ThreadState
<1>8. ASSUME NEW todo \in Seq(Request), Idle("ui"),
             thread' = [thread EXCEPT !["ui"].todo = todo]
      PROVE  ThreadTypes(thread', generation)
    <2> HIDE DEF Thread
    <2>1. thread \in [Thread -> ThreadState] /\ thread["ui"].pc = "idle"
        BY <1>8 DEF Types, ThreadTypes, Idle
    <2>2. /\ thread' \in [Thread -> ThreadState] /\ thread'["ui"].pc = "idle"
          /\ thread'["ui"].generation = thread["ui"].generation
          /\ \A u \in Thread : u # "ui" => thread'[u] = thread[u]
        BY <1>a, <1>8, <2>1 DEF ThreadState
    <2> QED  BY <2>2 DEF Types, ThreadTypes
<1>9. ASSUME NEW chosen \in Settings, NEW then \in {"idle", "save"},
             UpdateSettings(chosen, then)
      PROVE  /\ settings' \in Settings /\ ThreadTypes(thread', generation)
    <2>1. CoverIfProtected(latest) \in Seq(Request) /\ latest \in Modes
        BY OtherStoresTypes DEF Types
    <2>2. thread' = [thread EXCEPT !["ui"] =
                    [@ EXCEPT !.pc = "queue", !.then = then, !.mode = latest,
                              !.todo = CoverIfProtected(latest)]]
        BY <1>9 DEF UpdateSettings
    <2> QED  BY <1>7, <1>9, <2>1, <2>2 DEF UpdateSettings
<1>10. CASE SaveCollection
    <2>1. /\ stored' = Saved(settings)
          /\ thread' = [thread EXCEPT !["ui"].pc = "idle"]
          /\ UNCHANGED <<source, noted, decision, display, scenes, scene, custom,
                         collection, history, tasks>>
        BY <1>10 DEF SaveCollection
    <2>2. stored' \in Data
        BY <2>1, SaveThenLoad DEF Types
    <2>3. ThreadTypes(thread', generation)
        BY <2>1 DEF Types, ThreadTypes, ThreadState
    <2> QED  BY <2>1, <2>2, <2>3 DEF Types, decision, display, history
<1>11. ASSUME NEW data \in StoredChoice, CollectionLoaded(data) PROVE Types'
    <2>1. data \in Data /\ Loaded(data) \in Settings
        BY ChoiceAssumption, AnyFileLoads
    <2>2. /\ UpdateSettings(Loaded(data), "idle")
          /\ collection' = "steady" /\ scenes' = Scene /\ scene' = HomeScene
          /\ stored' = data /\ strayed' = FALSE /\ carried' \in BOOLEAN
          /\ UNCHANGED <<source, noted, latest, generation, overtaken, display, custom,
                         tasks>>
        BY <1>11 DEF CollectionLoaded, Types, Custom
    <2>3. /\ settings' \in Settings /\ ThreadTypes(thread', generation)
        BY <1>9, <2>1, <2>2
    <2> QED  BY <2>1, <2>2, <2>3, HomeAssumption DEF Types, display
<1>12. ASSUME NEW chosen \in SettingsChoice, DialogAccepted(chosen) PROVE Types'
    <2>1. chosen \in Settings
        BY ChoiceAssumption
    <2>2. /\ UpdateSettings(chosen, "save")
          /\ UNCHANGED <<source, noted, latest, generation, overtaken, display, stage,
                         tasks>>
        BY <1>12 DEF DialogAccepted
    <2>3. /\ settings' \in Settings /\ ThreadTypes(thread', generation)
        BY <1>9, <2>1, <2>2
    <2> QED  BY <2>2, <2>3 DEF Types, display, stage, history
<1>13. CASE CollectionChanging
    <2>1. /\ Idle("ui") /\ collection' = "changing" /\ custom' = NoCustom
          /\ strayed' = FALSE
          /\ thread' = [thread EXCEPT !["ui"].todo =
                    <<SetWatermark(FALSE), SetOverlay(Protected(latest)),
                      SetImage("none")>>]
          /\ UNCHANGED <<source, noted, decision, display, scenes, scene, stored,
                         carried, tasks>>
        BY <1>13 DEF CollectionChanging, UserActs
    <2>2. custom' \in Custom
        BY <2>1 DEF NoCustom, Custom
    <2>3. ThreadTypes(thread', generation)
        BY <1>8, <2>1, OtherStoresTypes
    <2> QED  BY <2>1, <2>2, <2>3 DEF Types, decision, display
<1>14. ASSUME NEW removed \in Scene, SceneRemoved(removed) PROVE Types'
    <2>1. /\ Idle("ui") /\ removed # HomeScene
          /\ scenes' = scenes \ {removed}
          /\ scene' = IF scene = removed THEN HomeScene ELSE scene
          /\ thread' = [thread EXCEPT !["ui"].todo = SceneListStores(removed)]
          /\ UNCHANGED <<source, noted, decision, display, custom, collection, stored,
                         strayed, carried, tasks>>
        BY <1>14 DEF SceneRemoved, UserActs
    <2>2. ThreadTypes(thread', generation)
        BY <1>8, <2>1, OtherStoresTypes
    <2> QED  BY <2>1, <2>2 DEF Types, decision, display
<1>15. ASSUME NEW selected \in Scene, SceneSelected(selected) PROVE Types'
    BY <1>15 DEF SceneSelected, Types, Custom, decision, display
<1>16. ASSUME NEW mode \in Modes, ModeChanges(mode) PROVE Types'
    BY <1>16 DEF ModeChanges, Types, decision, display, stage, history
<1> HIDE DEF Thread
<1> QED  BY <1>a, <1>1, <1>2, <1>3, <1>4, <1>5, <1>6, <1>10, <1>11, <1>12, <1>13,
            <1>14, <1>15, <1>16, ChoiceAssumption DEF Next, GraphicsStep, UiStep

LEMMA TypesHoldFirst == Init => Types
<1> SUFFICES ASSUME Init PROVE Types
    OBVIOUS
<1>1. /\ latest = "AwaitingConnection" /\ generation = 0 /\ tasks = << >>
      /\ thread = [t \in Thread |-> Resting("idle")]
    BY DEF Init
<1>2. tasks \in Seq(Task) /\ DOMAIN tasks = {}
    BY <1>1
<1>3. ThreadTypes(thread, generation)
    <2>1. << >> \in Seq(Request)
        OBVIOUS
    <2>2. Resting("idle") \in ThreadState
        BY <2>1 DEF ThreadState, Resting
    <2> QED  BY <1>1, <2>2 DEF ThreadTypes, Resting
<1>4. settings \in Settings /\ stored \in Data
    <2>1. NoData \in Data /\ Loaded(NoData) = DefaultSettings
        BY DEF Data, Loaded
    <2> QED  BY <2>1, AnyFileLoads DEF Init
<1>5. custom \in Custom /\ image \in Image
    BY Images DEF Init, NoCustom, Custom
<1>6. /\ source \in Modes /\ latest \in Modes /\ noted = "none"
      /\ overlay = TRUE /\ watermark = FALSE
      /\ scenes = Scene /\ scene = HomeScene /\ collection = "changing"
      /\ strayed = FALSE /\ carried = FALSE /\ overtaken = FALSE
    BY DEF Init, Modes
<1> QED  BY <1>1, <1>2, <1>3, <1>4, <1>5, <1>6, HomeAssumption DEF Types

LEMMA TypesHold == Spec => []Types
<1>1. Types /\ [Next]_vars => Types'
    BY TypesPreserved
<1> QED  BY <1>1, TypesHoldFirst, PTL DEF Spec

-----------------------------------------------------------------------------
(***************************************************************************)
(* The settings and the scene to return to                                 *)
(***************************************************************************)
LEMMA HomePreserved == ASSUME Types, HomeKept, [Next]_vars PROVE HomeKept'
<1>a. /\ scene \in scenes /\ scenes \subseteq Scene /\ custom \in Custom
      /\ HomeScene \in scenes /\ NoScene \notin Scene
    BY NamesAssumption DEF Types
<1>1. ASSUME UNCHANGED <<scenes, scene, custom, collection, home, carried>>
      PROVE  HomeKept'
    BY <1>1 DEF HomeKept
<1>2. ASSUME NEW t \in Thread, Store(t) PROVE HomeKept'
    <2> DEFINE r == Head(thread[t].todo)
    <2>1. /\ r \in Request /\ UNCHANGED <<scenes, collection, home, carried>>
          /\ IF r.store = "restore" THEN RestorePreviousScene
             ELSE IF r.store = "enter" THEN EnterCustomScene(r.value)
             ELSE UNCHANGED <<scene, custom, strayed>>
        BY <1>2, StoreEffect
    <2> HIDE DEF r
    <2>2. CASE r.store = "restore"
        <3>1. RestorePreviousScene
            BY <2>1, <2>2
        <3> QED  BY <1>a, <2>1, <3>1
                 DEF HomeKept, RestorePreviousScene, SwitchTo, NoCustom
    <2>3. CASE r.store = "enter"
        <3>1. EnterCustomScene(r.value)
            BY <2>1, <2>3
        <3> QED  BY <1>a, <2>1, <3>1 DEF HomeKept, EnterCustomScene
    <2>4. CASE r.store \notin {"restore", "enter"}
        BY <1>1, <2>1, <2>4
    <2> QED  BY <2>2, <2>3, <2>4
<1>3. CASE CollectionChanging
    BY <1>3 DEF CollectionChanging, HomeKept
<1>4. ASSUME NEW data \in StoredChoice, CollectionLoaded(data) PROVE HomeKept'
    BY <1>4, HomeAssumption DEF CollectionLoaded, HomeKept
<1>5. ASSUME NEW removed \in Scene, SceneRemoved(removed) PROVE HomeKept'
    BY <1>a, <1>5 DEF SceneRemoved, UserActs, HomeKept
<1>6. ASSUME NEW selected \in Scene, SceneSelected(selected) PROVE HomeKept'
    BY <1>a, <1>6 DEF SceneSelected, UserActs, HomeKept, Custom
<1>7. CASE TickModeChanged \/ RenderFrame \/ UNCHANGED vars
    BY <1>1, <1>7 DEF TickModeChanged, RenderFrame, vars, stage, history
<1>8. ASSUME NEW t \in Thread, TakeGeneration(t) \/ PostTask(t) PROVE HomeKept'
    BY <1>1, <1>8 DEF TakeGeneration, PostTask, stage, history
<1>9. CASE ApplyTask \/ SaveCollection
    BY <1>1, <1>9 DEF ApplyTask, SaveCollection, stage, history
<1>10. ASSUME NEW chosen \in SettingsChoice, DialogAccepted(chosen) PROVE HomeKept'
    BY <1>1, <1>10 DEF DialogAccepted, stage, history
<1>11. ASSUME NEW mode, ModeChanges(mode) PROVE HomeKept'
    BY <1>1, <1>11 DEF ModeChanges, stage, history
<1> QED  BY <1>2, <1>3, <1>4, <1>5, <1>6, <1>7, <1>8, <1>9, <1>10, <1>11
         DEF Next, GraphicsStep, UiStep, Thread

LEMMA SettingsPreserved ==
    ASSUME Types, SettingsKept, [Next]_vars PROVE SettingsKept'
<1>a. thread \in [Thread -> ThreadState] /\ "ui" \in Thread
    BY DEF Types, ThreadTypes, Thread
<1>1. ASSUME UNCHANGED <<stored, settings>>,
             /\ thread'["ui"].pc = thread["ui"].pc
             /\ thread'["ui"].then = thread["ui"].then
      PROVE  SettingsKept'
    BY <1>1 DEF SettingsKept, ToBeSaved
<1>2. ASSUME UNCHANGED <<stored, settings>>, Idle("ui") PROVE SettingsKept'
    BY <1>2 DEF SettingsKept, ToBeSaved, Idle
<1>3. ASSUME NEW t \in Thread, Store(t) PROVE SettingsKept'
    <2>1. /\ thread' = [thread EXCEPT ![t].todo = Tail(@)]
          /\ UNCHANGED <<stored, settings>>
        BY <1>3, StoreEffect DEF decision
    <2>2. /\ thread'["ui"].pc = thread["ui"].pc
          /\ thread'["ui"].then = thread["ui"].then
        BY <1>a, <2>1 DEF ThreadState
    <2> QED  BY <1>1, <2>1, <2>2
<1>4. ASSUME NEW t \in Thread, TakeGeneration(t) PROVE SettingsKept'
    <2> DEFINE n == generation + 1
    <2>1. /\ thread' = [thread EXCEPT ![t].pc = "post", ![t].generation = n]
          /\ thread[t].pc = "queue" /\ UNCHANGED <<stored, settings>>
        BY <1>4 DEF TakeGeneration, stage
    <2> HIDE DEF n
    <2>2. /\ thread'["ui"].pc = IF t = "ui" THEN "post" ELSE thread["ui"].pc
          /\ thread'["ui"].then = thread["ui"].then
        BY <1>a, <2>1 DEF ThreadState
    <2> QED  BY <2>1, <2>2 DEF SettingsKept, ToBeSaved
<1>5. ASSUME NEW t \in Thread, PostTask(t) PROVE SettingsKept'
    <2>1. /\ thread' = [thread EXCEPT ![t] = Resting(thread[t].then)]
          /\ thread[t].pc = "post" /\ UNCHANGED <<stored, settings>>
        BY <1>5 DEF PostTask, stage, decision
    <2>2. /\ thread'["ui"].pc = IF t = "ui" THEN thread["ui"].then ELSE thread["ui"].pc
          /\ t # "ui" => thread'["ui"].then = thread["ui"].then
        BY <1>a, <2>1 DEF ThreadState, Resting
    <2> QED  BY <2>1, <2>2 DEF SettingsKept, ToBeSaved
<1>6. CASE TickModeChanged
    <2>1. UNCHANGED <<stored, settings>> /\ thread'["ui"] = thread["ui"]
        BY <1>a, <1>6 DEF TickModeChanged, stage, decision
    <2> QED  BY <1>1, <2>1
<1>7. CASE ApplyTask
    BY <1>2, <1>7 DEF ApplyTask, stage, decision
<1>8. CASE SaveCollection
    BY <1>8, SaveThenLoad DEF SaveCollection, decision, SettingsKept, Types
<1>9. ASSUME NEW data \in StoredChoice, CollectionLoaded(data) PROVE SettingsKept'
    BY <1>9 DEF CollectionLoaded, UpdateSettings, SettingsKept
<1>10. ASSUME NEW chosen \in SettingsChoice, DialogAccepted(chosen)
       PROVE  SettingsKept'
    <2>1. thread'["ui"].pc = "queue" /\ thread'["ui"].then = "save"
        BY <1>a, <1>10 DEF DialogAccepted, UpdateSettings, ThreadState
    <2> QED  BY <2>1 DEF SettingsKept, ToBeSaved
<1>11. CASE CollectionChanging
    BY <1>2, <1>11 DEF CollectionChanging, UserActs, decision
<1>12. ASSUME NEW s \in Scene, SceneRemoved(s) \/ SceneSelected(s)
       PROVE  SettingsKept'
    BY <1>2, <1>12 DEF SceneRemoved, SceneSelected, UserActs, decision
<1>13. ASSUME NEW mode, ModeChanges(mode) PROVE SettingsKept'
    BY <1>1, <1>13 DEF ModeChanges, stage, decision
<1>14. CASE RenderFrame \/ UNCHANGED vars
    BY <1>1, <1>14 DEF RenderFrame, vars, stage, decision
<1> QED  BY <1>3, <1>4, <1>5, <1>6, <1>7, <1>8, <1>9, <1>10, <1>11, <1>12, <1>13,
            <1>14 DEF Next, GraphicsStep, UiStep, Thread

\* The settings in force are those on file whenever the UI thread rests,
\* through any series of dialogs, saves and loads (save_load).
THEOREM SettingsSurviveAlways == Spec => []SettingsSurvive
<1>1. Init => SettingsKept
    BY DEF Init, SettingsKept, Loaded
<1>2. Types /\ SettingsKept /\ [Next]_vars => SettingsKept'
    BY SettingsPreserved
<1>3. SettingsKept => SettingsSurvive
    BY DEF SettingsKept, SettingsSurvive, ToBeSaved, Idle
<1> QED  BY <1>1, <1>2, <1>3, TypesHold, PTL DEF Spec

LEMMA HomeIsKept == Spec => []HomeKept
<1>1. Init => HomeKept
    BY HomeAssumption DEF Init, HomeKept, NoCustom
<1>2. Types /\ HomeKept /\ [Next]_vars => HomeKept'
    BY HomePreserved
<1> QED  BY <1>1, <1>2, TypesHold, PTL DEF Spec

\* The scene the user had put on the output is on it again once the guard has
\* let go, whatever scenes were entered or removed and whatever collections
\* were loaded in between, unless a load has carried a custom scene along
\* (restore_previous_scene, frontend_event).
THEOREM AlwaysReturnsHome == Spec => []ReturnsHome
<1>1. HomeKept => ReturnsHome
    BY DEF HomeKept, ReturnsHome, Quiescent
<1> QED  BY <1>1, HomeIsKept, PTL

\* The fields of the controller and of its threads keep their types, and no
\* request carries a generation that has not been given out.
THEOREM TypeCorrect == Spec => []TypeOK
<1>1. Types /\ HomeKept => TypeOK
    <2> SUFFICES ASSUME Types, HomeKept PROVE TypeOK
        OBVIOUS
    <2>1. \A i \in DOMAIN tasks : /\ tasks[i].mode \in Modes
                                  /\ tasks[i].generation \in 1..generation
        <3>1. tasks \in Seq(Task)
            BY DEF Types
        <3>2. \A i \in DOMAIN tasks : tasks[i] \in Task
            BY <3>1
        <3> QED  BY <3>2 DEF Types, Task
    <2>2. home \in Scene \cup {NoScene}
        BY DEF Types, HomeKept
    <2>3. \A t \in Thread : thread[t].generation \in 0..generation
        BY DEF Types, ThreadTypes
    <2>4. custom \in [active : BOOLEAN, previous : Scene \cup {NoScene},
                      target : Scene \cup {NoScene}]
        BY DEF Types, Custom
    <2>5. /\ source \in Modes /\ latest \in Modes /\ noted \in Modes \cup {"none"}
          /\ generation \in Nat /\ settings \in Settings /\ stored \in Data
          /\ overlay \in BOOLEAN /\ watermark \in BOOLEAN /\ image \in Image
          /\ scenes \subseteq Scene /\ scene \in scenes
          /\ strayed \in BOOLEAN /\ carried \in BOOLEAN /\ overtaken \in BOOLEAN
        BY DEF Types
    <2> QED  BY <2>1, <2>2, <2>3, <2>4, <2>5 DEF TypeOK
<1> QED  BY <1>1, TypesHold, HomeIsKept, PTL

-----------------------------------------------------------------------------
(***************************************************************************)
(* Lists of stores                                                         *)
(***************************************************************************)
LEMMA Parts ==
    /\ \A value : /\ Part(SetOverlay(value)) = "overlay"
                  /\ Part(SetWatermark(value)) = "watermark"
                  /\ Part(SetImage(value)) = "image"
                  /\ Part(Enter(value)) = "stage"
    /\ Part(Restore) = "stage"
BY DEF Part, SetOverlay, SetWatermark, SetImage, Enter, Restore

\* What is left of a list when its first store has been made.
LEMMA Rests ==
    ASSUME NEW todo \in Seq(Request), todo # << >>, Once(todo)
    PROVE  LET rest == Tail(todo) IN
           /\ Once(rest)
           /\ \A r : Coming(todo, r) =>
                       \/ Head(todo) = r /\ Left(rest, Part(r))
                       \/ Part(Head(todo)) # Part(r) /\ Coming(rest, r)
           /\ \A p : Left(todo, p) => Part(Head(todo)) # p /\ Left(rest, p)
<1> DEFINE rest == Tail(todo)
<1>1. /\ Head(todo) = todo[1] /\ 1 \in DOMAIN todo
      /\ \A i \in DOMAIN rest : i + 1 \in DOMAIN todo /\ rest[i] = todo[i + 1]
      /\ \A i \in DOMAIN todo : i = 1 \/ (i - 1 \in DOMAIN rest
                                          /\ rest[i - 1] = todo[i])
      /\ \A i \in DOMAIN rest : i \in Nat /\ i # 0
    <2>1. rest \in Seq(Request)
        BY FirstTask
    <2>2. \A i \in DOMAIN rest : i \in Nat /\ i # 0
        BY <2>1
    <2> QED  BY <2>2, FirstTask
<1> HIDE DEF rest
<1>2. Once(rest)
    <2>1. ASSUME NEW i \in DOMAIN rest, NEW j \in DOMAIN rest,
                 Part(rest[i]) = Part(rest[j])
          PROVE  i = j
        <3>1. i + 1 = j + 1
            BY <1>1, <2>1 DEF Once
        <3> QED  BY <1>1, <3>1
    <2> QED  BY <2>1 DEF Once
<1>3. ASSUME NEW r, Coming(todo, r)
      PROVE  \/ Head(todo) = r /\ Left(rest, Part(r))
             \/ Part(Head(todo)) # Part(r) /\ Coming(rest, r)
    <2>1. PICK i \in DOMAIN todo : todo[i] = r
        BY <1>3 DEF Coming
    <2>2. CASE i = 1
        <3>1. ASSUME NEW j \in DOMAIN rest, Part(rest[j]) = Part(r) PROVE FALSE
            <4>1. j + 1 = 1
                BY <1>1, <2>1, <2>2, <3>1 DEF Once
            <4> QED  BY <1>1, <4>1
        <3> QED  BY <1>1, <2>1, <2>2, <3>1 DEF Left
    <2>3. CASE i # 1
        BY <1>1, <2>1, <2>3 DEF Once, Coming
    <2> QED  BY <2>2, <2>3
<1>4. ASSUME NEW p, Left(todo, p)
      PROVE  Part(Head(todo)) # p /\ Left(rest, p)
    BY <1>1, <1>4 DEF Left
<1> QED  BY <1>2, <1>3, <1>4 DEF rest

\* A list that names each part once.
LEMMA FourStores ==
    ASSUME NEW a, NEW b, NEW c, NEW d,
           Part(a) # Part(b), Part(a) # Part(c), Part(a) # Part(d),
           Part(b) # Part(c), Part(b) # Part(d), Part(c) # Part(d)
    PROVE  LET q == <<a, b, c, d>> IN
           /\ Once(q) /\ Coming(q, a) /\ Coming(q, b) /\ Coming(q, c) /\ Coming(q, d)
<1> DEFINE q == <<a, b, c, d>>
<1>1. DOMAIN q = {1, 2, 3, 4} /\ q[1] = a /\ q[2] = b /\ q[3] = c /\ q[4] = d
    OBVIOUS
<1> HIDE DEF q
<1>2. Once(q) /\ Coming(q, a) /\ Coming(q, b) /\ Coming(q, c) /\ Coming(q, d)
    BY <1>1 DEF Once, Coming
<1> QED  BY <1>2 DEF q

LEMMA ThreeStores ==
    ASSUME NEW a, NEW b, NEW c,
           Part(a) # Part(b), Part(a) # Part(c), Part(b) # Part(c)
    PROVE  LET q == <<a, b, c>> IN
           /\ Once(q) /\ Coming(q, a) /\ Coming(q, b) /\ Coming(q, c)
<1> DEFINE q == <<a, b, c>>
<1>1. DOMAIN q = {1, 2, 3} /\ q[1] = a /\ q[2] = b /\ q[3] = c
    OBVIOUS
<1> HIDE DEF q
<1>2. Once(q) /\ Coming(q, a) /\ Coming(q, b) /\ Coming(q, c)
    BY <1>1 DEF Once, Coming
<1> QED  BY <1>2 DEF q

LEMMA Elements ==
    \A a, b, c, d :
        /\ \A i \in DOMAIN <<a, b, c>> : <<a, b, c>>[i] \in {a, b, c}
        /\ \A i \in DOMAIN <<a, b, c, d>> : <<a, b, c, d>>[i] \in {a, b, c, d}
<1> TAKE a, b, c, d
<1> DEFINE p == <<a, b, c>>
           q == <<a, b, c, d>>
<1>1. DOMAIN p = {1, 2, 3} /\ p[1] = a /\ p[2] = b /\ p[3] = c
    OBVIOUS
<1>2. DOMAIN q = {1, 2, 3, 4} /\ q[1] = a /\ q[2] = b /\ q[3] = c /\ q[4] = d
    OBVIOUS
<1> HIDE DEF p, q
<1>3. /\ \A i \in DOMAIN p : p[i] \in {a, b, c}
      /\ \A i \in DOMAIN q : q[i] \in {a, b, c, d}
    BY <1>1, <1>2
<1> QED  BY <1>3 DEF p, q

LEMMA NoStores ==
    /\ Once(<< >>) /\ \A p : Left(<< >>, p) /\ \A r : ~Coming(<< >>, r)
BY DEF Once, Left, Coming

LEMMA CoverOnce ==
    /\ \A mode : Once(CoverIfProtected(mode))
    /\ \A removed : Once(SceneListStores(removed))
    /\ Once(<<SetWatermark(FALSE), SetOverlay(Protected(latest)), SetImage("none")>>)
<1>1. \A v, w, x : Once(<<SetWatermark(v), SetOverlay(w), SetImage(x)>>)
    BY Parts, ThreeStores
<1>2. \A v, w, x : Once(<<SetWatermark(v), SetOverlay(w), SetImage(x), Restore>>)
    BY Parts, FourStores
<1> QED  BY <1>1, <1>2, NoStores DEF CoverIfProtected, Cover, SceneListStores

\* The stores of a request enter only a scene that is there, and what a thread
\* covers with, or falls back to, enters none.
LEMMA ScenesToEnter ==
    /\ \A mode, readable : EntersThere(Stores(mode, readable))
    /\ EntersNone(<< >>)
    /\ \A mode : EntersNone(CoverIfProtected(mode))
    /\ \A removed : EntersNone(SceneListStores(removed))
    /\ EntersNone(<<SetWatermark(FALSE), SetOverlay(Protected(latest)),
                    SetImage("none")>>)
<1>a. /\ \A value : /\ SetOverlay(value).store # "enter"
                    /\ SetWatermark(value).store # "enter"
                    /\ SetImage(value).store # "enter"
                    /\ Enter(value).value = value
      /\ Restore.store # "enter"
    BY DEF SetOverlay, SetWatermark, SetImage, Enter, Restore
<1>1. ASSUME NEW mode, NEW readable, NEW i \in DOMAIN Stores(mode, readable),
             Stores(mode, readable)[i].store = "enter"
      PROVE  Stores(mode, readable)[i].value \in scenes
    <2> DEFINE q == Stores(mode, readable)
               target == Event(mode).scene
    <2>1. \/ q = Fallback(mode)
          \/ q = <<SetWatermark(FALSE), SetOverlay(FALSE), Restore>>
          \/ q = <<Restore, SetImage("custom"), SetWatermark(WatermarkAvailable),
                   SetOverlay(TRUE)>>
          \/ /\ target \in scenes
             /\ q = <<Enter(target), SetImage("none"),
                      SetWatermark(WatermarkAvailable), SetOverlay(FALSE)>>
        BY DEF Stores
    <2> HIDE DEF q, target
    <2>2. i \in DOMAIN q /\ q[i].store = "enter"
        BY <1>1 DEF q
    <2>3. CASE q = Fallback(mode)
        <3>1. q[i] \in {Restore, SetImage(DefaultImage(mode)), SetWatermark(FALSE),
                        SetOverlay(TRUE)}
            BY <2>2, <2>3, Elements DEF Fallback
        <3> QED  BY <1>a, <2>2, <3>1
    <2>4. CASE q = <<SetWatermark(FALSE), SetOverlay(FALSE), Restore>>
        <3>1. q[i] \in {SetWatermark(FALSE), SetOverlay(FALSE), Restore}
            BY <2>2, <2>4, Elements
        <3> QED  BY <1>a, <2>2, <3>1
    <2>5. CASE q = <<Restore, SetImage("custom"), SetWatermark(WatermarkAvailable),
                     SetOverlay(TRUE)>>
        <3>1. q[i] \in {Restore, SetImage("custom"), SetWatermark(WatermarkAvailable),
                        SetOverlay(TRUE)}
            BY <2>2, <2>5, Elements
        <3> QED  BY <1>a, <2>2, <3>1
    <2>6. CASE /\ target \in scenes
               /\ q = <<Enter(target), SetImage("none"),
                        SetWatermark(WatermarkAvailable), SetOverlay(FALSE)>>
        <3>1. q[i] \in {Enter(target), SetImage("none"),
                        SetWatermark(WatermarkAvailable), SetOverlay(FALSE)}
            BY <2>2, <2>6, Elements
        <3>2. q[i] = Enter(target)
            BY <1>a, <2>2, <3>1
        <3>3. Enter(target).value \in scenes
            BY <1>a, <2>6
        <3>4. q[i].value \in scenes
            BY <3>2, <3>3
        <3> QED  BY <3>4 DEF q
    <2> QED  BY <2>1, <2>3, <2>4, <2>5, <2>6
<1>2. \A v, w, x : EntersNone(<<SetWatermark(v), SetOverlay(w), SetImage(x)>>)
    <2> TAKE v, w, x
    <2> DEFINE q == <<SetWatermark(v), SetOverlay(w), SetImage(x)>>
    <2>1. \A i \in DOMAIN q : q[i] \in {SetWatermark(v), SetOverlay(w), SetImage(x)}
        BY Elements
    <2> HIDE DEF q
    <2>2. EntersNone(q)
        BY <1>a, <2>1 DEF EntersNone
    <2> QED  BY <2>2 DEF q
<1>3. \A v, w, x : EntersNone(<<SetWatermark(v), SetOverlay(w), SetImage(x), Restore>>)
    <2> TAKE v, w, x
    <2> DEFINE q == <<SetWatermark(v), SetOverlay(w), SetImage(x), Restore>>
    <2>1. \A i \in DOMAIN q :
            q[i] \in {SetWatermark(v), SetOverlay(w), SetImage(x), Restore}
        BY Elements
    <2> HIDE DEF q
    <2>2. EntersNone(q)
        BY <1>a, <2>1 DEF EntersNone
    <2> QED  BY <2>2 DEF q
<1>4. EntersNone(<< >>)
    BY DEF EntersNone
<1>5. \A mode, readable : EntersThere(Stores(mode, readable))
    BY <1>1 DEF EntersThere
<1> QED  BY <1>2, <1>3, <1>4, <1>5 DEF CoverIfProtected, Cover, SceneListStores

\* The stores of a request land on what its mode asks for.
LEMMA StoresLand ==
    ASSUME Types, NEW mode \in Modes, NEW readable \in BOOLEAN, latest' = mode,
           UNCHANGED settings, thread'["ui"].todo = Stores(mode, readable)
    PROVE  Once(thread'["ui"].todo) /\ Lands'
<1> DEFINE q == Stores(mode, readable)
<1>a. settings \in Settings /\ Event(mode)' = Event(mode)
    BY DEF Types, Event
<1>1. ASSUME q = Fallback(mode), Protected(mode) PROVE Once(q) /\ LandsBlack'
    <2>1. /\ Once(q) /\ Coming(q, Restore) /\ Coming(q, SetImage(DefaultImage(mode)))
          /\ Coming(q, SetWatermark(FALSE)) /\ Coming(q, SetOverlay(TRUE))
        BY <1>1, Parts, FourStores DEF Fallback
    <2> HIDE DEF q
    <2> QED  BY <1>1, <2>1 DEF LandsBlack, WillLeave, WillOverlay, WillWatermark,
                               WillImage, Will, q
<1>2. CASE ~Protected(mode)
    <2>1. q = <<SetWatermark(FALSE), SetOverlay(FALSE), Restore>>
        BY <1>2 DEF Stores
    <2>2. /\ Once(q) /\ Coming(q, Restore)
          /\ Coming(q, SetWatermark(FALSE)) /\ Coming(q, SetOverlay(FALSE))
        BY <2>1, Parts, ThreeStores
    <2> HIDE DEF q
    <2>3. LandsNormal'
        BY <1>2, <2>2 DEF LandsNormal, WillLeave, WillOverlay, WillWatermark, Will, q
    <2> QED  BY <2>2, <2>3 DEF Lands, q
<1>3. CASE Protected(mode) /\ Resolve(settings, mode) = "CustomImage"
    <2>1. q = Fallback(mode) \/
          q = <<Restore, SetImage("custom"), SetWatermark(WatermarkAvailable),
                SetOverlay(TRUE)>>
        BY <1>3 DEF Stores
    <2>2. Event(mode).mode = "CustomImage"
        BY <1>3 DEF Resolve, Event
    <2>3. ASSUME q = <<Restore, SetImage("custom"), SetWatermark(WatermarkAvailable),
                       SetOverlay(TRUE)>>
          PROVE  Once(q) /\ LandsImage'
        <3>1. /\ Once(q) /\ Coming(q, Restore) /\ Coming(q, SetImage("custom"))
              /\ Coming(q, SetOverlay(TRUE))
            BY <2>3, Parts, FourStores
        <3>2. Event(latest)'.mode = "CustomImage"
            BY <2>2 DEF Event
        <3> HIDE DEF q
        <3> QED  BY <1>3, <3>1, <3>2
                 DEF LandsImage, WillLeave, WillOverlay, WillImage, Will, q
    <2> HIDE DEF q
    <2> QED  BY <1>1, <1>3, <2>1, <2>3 DEF Lands, q
<1>4. CASE Protected(mode) /\ Resolve(settings, mode) = "BuiltInImage"
    <2>1. q = Fallback(mode)
        BY <1>4 DEF Stores
    <2> QED  BY <1>1, <1>4, <2>1 DEF Lands
<1>5. CASE Protected(mode) /\ Resolve(settings, mode) = "CustomScene"
    <2> DEFINE target == Event(mode).scene
    <2>1. q = Fallback(mode) \/
          q = <<Enter(target), SetImage("none"), SetWatermark(WatermarkAvailable),
                SetOverlay(FALSE)>>
        BY <1>5 DEF Stores
    <2>2. Event(mode).mode = "CustomScene" /\ settings.riskAccepted
        BY <1>5 DEF Resolve, Event
    <2>3. ASSUME q = <<Enter(target), SetImage("none"),
                       SetWatermark(WatermarkAvailable), SetOverlay(FALSE)>>
          PROVE  Once(q) /\ LandsScene'
        <3>1. Once(q) /\ Coming(q, Enter(target)) /\ Coming(q, SetOverlay(FALSE))
            BY <2>3, Parts, FourStores
        <3>2. Event(latest)'.mode = "CustomScene" /\ Event(latest)'.scene = target
            BY <2>2 DEF Event
        <3> HIDE DEF q, target
        <3> QED  BY <1>5, <2>2, <3>1, <3>2
                 DEF LandsScene, WillEnter, WillOverlay, Will, q
    <2> HIDE DEF q
    <2> QED  BY <1>1, <1>5, <2>1, <2>3 DEF Lands, q
<1>6. Resolve(settings, mode) \in {"NormalOutput", "CustomImage", "BuiltInImage",
                                   "CustomScene"}
    BY DEF Resolve
<1>7. Resolve(settings, mode) = "NormalOutput" <=> ~Protected(mode)
    BY <1>a, PolicyAgreesWithModes
<1> QED  BY <1>2, <1>3, <1>4, <1>5, <1>6, <1>7

\* A store of the UI thread is one of those it lands by.
LEMMA StoreLands ==
    ASSUME Types, Tidy, Lands, Store("ui")
    PROVE  Lands'
<1> DEFINE todo == thread["ui"].todo
           r == Head(todo)
<1>1. /\ todo # << >> /\ r \in Request /\ todo \in Seq(Request)
      /\ watermark' = IF r.store = "watermark" THEN r.value ELSE watermark
      /\ overlay' = IF r.store = "overlay" THEN r.value ELSE overlay
      /\ image' = IF r.store = "image" THEN r.value ELSE image
      /\ IF r.store = "restore" THEN RestorePreviousScene
         ELSE IF r.store = "enter" THEN EnterCustomScene(r.value)
         ELSE UNCHANGED <<scene, custom, strayed>>
      /\ UNCHANGED <<latest, settings>>
      /\ r.store = "enter" => r.value \in scenes
    <2>1. "ui" \in Thread
        BY DEF Thread
    <2>3. todo # << >> /\ todo \in Seq(Request) => r = todo[1] /\ 1 \in DOMAIN todo
        BY FirstTask
    <2>2. todo \in Seq(Request)
        BY <2>1 DEF Types, ThreadTypes, ThreadState
    <2> HIDE DEF r
    <2>4. todo # << >> /\ r \in Request
        BY <2>1, StoreEffect DEF r
    <2>5. r.store = "enter" => r.value \in scenes
        BY <2>2, <2>3, <2>4 DEF Tidy, EntersThere
    <2> QED  BY <2>1, <2>2, <2>5, StoreEffect DEF r, decision
<1>2. thread'["ui"].todo = Tail(todo)
    <2>1. "ui" \in Thread
        BY DEF Thread
    <2>2. thread' = [thread EXCEPT !["ui"].todo = Tail(@)]
        BY <2>1, StoreEffect
    <2> QED  BY <2>1, <2>2 DEF Types, ThreadTypes, ThreadState
<1>3. /\ \A q : Coming(todo, q) =>
                  \/ r = q /\ Left(Tail(todo), Part(q))
                  \/ Part(r) # Part(q) /\ Coming(Tail(todo), q)
      /\ \A p : Left(todo, p) => Part(r) # p /\ Left(Tail(todo), p)
    BY <1>1, Rests DEF Tidy
<1>4. /\ r.store # "overlay" => overlay' = overlay
      /\ r.store # "watermark" => watermark' = watermark
      /\ r.store # "image" => image' = image
      /\ r.store \notin {"restore", "enter"} =>
           custom' = custom /\ (\A v : Entered(v) => Entered(v)')
      /\ Part(r) # "overlay" => r.store # "overlay"
      /\ Part(r) # "watermark" => r.store # "watermark"
      /\ Part(r) # "image" => r.store # "image"
      /\ Part(r) # "stage" => r.store \notin {"restore", "enter"}
    BY <1>1 DEF Part, Entered
<1>5. /\ \A v : r = SetOverlay(v) => overlay' = v
      /\ \A v : r = SetWatermark(v) => watermark' = v
      /\ \A v : r = SetImage(v) => image' = v
      /\ r = Restore => custom' = NoCustom
      /\ \A v : r = Enter(v) => Entered(v)'
    BY <1>1 DEF SetOverlay, SetWatermark, SetImage, Restore, Enter,
                RestorePreviousScene, EnterCustomScene, SwitchTo, Entered
<1> HIDE DEF todo, r
<1>6. ASSUME NEW v, WillOverlay(v) PROVE WillOverlay(v)'
    BY <1>2, <1>3, <1>4, <1>5, <1>6, Parts DEF WillOverlay, Will, todo
<1>7. ASSUME NEW v, WillWatermark(v) PROVE WillWatermark(v)'
    BY <1>2, <1>3, <1>4, <1>5, <1>7, Parts DEF WillWatermark, Will, todo
<1>8. ASSUME NEW v, WillImage(v) PROVE WillImage(v)'
    BY <1>2, <1>3, <1>4, <1>5, <1>8, Parts DEF WillImage, Will, todo
<1>9. ASSUME WillLeave PROVE WillLeave'
    BY <1>2, <1>3, <1>4, <1>5, <1>9, Parts DEF WillLeave, Will, todo
<1>10. ASSUME NEW v, WillEnter(v) PROVE WillEnter(v)'
    BY <1>2, <1>3, <1>4, <1>5, <1>10, Parts DEF WillEnter, Will, todo
<1>11. UNCHANGED <<latest, settings>>
    BY <1>1
<1> QED  BY <1>6, <1>7, <1>8, <1>9, <1>10, <1>11
         DEF Lands, LandsNormal, LandsBlack, LandsImage, LandsScene, Event

-----------------------------------------------------------------------------
(***************************************************************************)
(* Landing                                                                 *)
(***************************************************************************)
\* What a step does to the threads, field by field.
LEMMA TakenFields ==
    ASSUME Types, NEW t \in Thread, NEW n \in Nat,
           thread' = [thread EXCEPT ![t].pc = "post", ![t].generation = n]
    PROVE  /\ thread'[t].pc = "post" /\ thread'[t].generation = n
           /\ thread'[t].mode = thread[t].mode
           /\ thread'[t].todo = thread[t].todo
           /\ \A u \in Thread : u # t => thread'[u] = thread[u]
BY DEF Types, ThreadTypes, ThreadState

LEMMA ThreadFields ==
    ASSUME Types
    PROVE  /\ \A t \in Thread :
                thread' = [thread EXCEPT ![t] = Resting(thread[t].then)] =>
                  /\ thread'[t].pc = thread[t].then
                  /\ thread'[t].todo = << >>
                  /\ \A u \in Thread : u # t => thread'[u] = thread[u]
           /\ \A t \in Thread : \A todo :
                thread' = [thread EXCEPT ![t].todo = todo] =>
                  /\ thread'[t].pc = thread[t].pc
                  /\ thread'[t].generation = thread[t].generation
                  /\ thread'[t].mode = thread[t].mode
                  /\ thread'[t].todo = todo
                  /\ \A u \in Thread : u # t => thread'[u] = thread[u]
BY DEF Types, ThreadTypes, ThreadState, Resting

LEMMA OtherThread ==
    /\ "graphics" \in Thread /\ "ui" \in Thread
    /\ \A t \in Thread : t = "graphics" \/ t = "ui"
BY DEF Thread

\* Steps that leave the requests alone.
SameRequests ==
    /\ UNCHANGED <<latest, generation, tasks>>
    /\ \A t \in Thread :
         /\ thread'[t].generation = thread[t].generation
         /\ thread'[t].mode = thread[t].mode
         /\ \/ thread'[t].pc = thread[t].pc
            \/ thread[t].pc \notin {"queue", "post"} /\ thread'[t].pc \notin {"queue", "post"}

\* Steps that leave the display and what is to be stored on it alone.
SameDisplay ==
    /\ UNCHANGED <<latest, settings, overlay, watermark, image, custom>>
    /\ UNCHANGED thread["ui"].todo
    /\ \A target : Entered(target) => Entered(target)'

LEMMA SameRequestsKeep ==
    ASSUME SameRequests
    PROVE  /\ Agree => Agree'
           /\ Underway /\ (collection' = collection) => Underway'
BY DEF SameRequests, Agree, Underway, Current

LEMMA SameDisplayLands ==
    ASSUME SameDisplay PROVE Lands => Lands'
<1>1. /\ \A v : WillOverlay(v)' <=> WillOverlay(v)
      /\ \A v : WillWatermark(v)' <=> WillWatermark(v)
      /\ \A v : WillImage(v)' <=> WillImage(v)
      /\ WillLeave' <=> WillLeave
      /\ \A v : WillEnter(v) => WillEnter(v)'
    BY DEF SameDisplay, Will, WillOverlay, WillWatermark, WillImage, WillLeave, WillEnter
<1> QED  BY <1>1 DEF SameDisplay, Lands, LandsNormal, LandsBlack, LandsImage,
                     LandsScene, Event

\* A post: the request is in the queue, and nothing else has changed.
LEMMA Posting ==
    ASSUME Types, NEW t \in Thread, PostTask(t)
    PROVE  LET task == [mode |-> thread[t].mode, generation |-> thread[t].generation] IN
           /\ Inserted(tasks', tasks, task)
           /\ thread[t].pc = "post" /\ thread[t].then \in {"idle", "save"}
           /\ thread'[t].pc = thread[t].then
           /\ thread'[t].todo = << >> /\ thread[t].todo = << >>
           /\ \A u \in Thread : u # t => thread'[u] = thread[u]
           /\ UNCHANGED <<decision, display, stage>>
           /\ Underway => Underway'
<1> DEFINE task == [mode |-> thread[t].mode, generation |-> thread[t].generation]
<1>1. /\ tasks' = Append(tasks, task) \/ tasks' = <<task>> \o tasks
      /\ thread' = [thread EXCEPT ![t] = Resting(thread[t].then)]
      /\ thread[t].pc = "post" /\ thread[t].then \in {"idle", "save"}
      /\ UNCHANGED <<decision, display, stage>>
    BY DEF PostTask, Types, ThreadTypes, ThreadState
<1>2. task \in Task /\ tasks \in Seq(Task)
    BY <1>1 DEF Types, Task, ThreadTypes, ThreadState
<1>3. task.mode = thread[t].mode /\ task.generation = thread[t].generation
    OBVIOUS
<1> HIDE DEF task
<1>4. Inserted(tasks', tasks, task)
    <2>1. /\ Inserted(Append(tasks, task), tasks, task)
          /\ Inserted(<<task>> \o tasks, tasks, task)
        BY <1>2, PostedTask
    <2>2. CASE tasks' = Append(tasks, task)
        BY <2>1, <2>2, Zenon
    <2>3. CASE tasks' = <<task>> \o tasks
        BY <2>1, <2>3, Zenon
    <2> QED  BY <1>1, <2>2, <2>3
<1>5. /\ thread'[t].pc = thread[t].then
      /\ thread'[t].todo = << >> /\ thread[t].todo = << >>
      /\ \A u \in Thread : u # t => thread'[u] = thread[u]
    BY <1>1, ThreadFields DEF Types, ThreadTypes
<1>6. ASSUME Underway PROVE Underway'
    <2>1. \A i \in DOMAIN tasks : Current(tasks[i]) =>
            \E j \in DOMAIN tasks' : tasks'[j].generation = generation
        BY <1>4 DEF Inserted, Current
    <2>2. Current(thread[t]) => \E j \in DOMAIN tasks' :
                                   tasks'[j].generation = generation
        BY <1>3, <1>4 DEF Inserted, Current
    <2>3. UNCHANGED <<generation, collection>>
        BY <1>1 DEF decision, stage
    <2> QED  BY <1>1, <1>5, <1>6, <2>1, <2>2, <2>3 DEF Underway, Current
<1> QED  BY <1>1, <1>4, <1>5, <1>6 DEF task

\* A thread that is about to make a request, or has just taken its generation.
LEMMA Requesting ==
    ASSUME Types, TickModeChanged \/ \E t \in Thread : TakeGeneration(t)
    PROVE  Underway'
<1>1. CASE TickModeChanged
    <2>1. thread'["graphics"].pc = "queue"
        BY <1>1, OtherThread DEF TickModeChanged, Types, ThreadTypes, ThreadState
    <2> QED  BY <2>1, OtherThread DEF Underway
<1>2. ASSUME NEW t \in Thread, TakeGeneration(t) PROVE Underway'
    <2> DEFINE n == generation + 1
    <2>1. /\ thread' = [thread EXCEPT ![t].pc = "post", ![t].generation = n]
          /\ n \in Nat /\ generation' = n
        BY <1>2 DEF TakeGeneration, Types
    <2> HIDE DEF n
    <2>2. thread'[t].pc = "post" /\ thread'[t].generation = n
        BY <2>1, TakenFields
    <2> QED  BY <2>1, <2>2 DEF Underway, Current
<1> QED  BY <1>1, <1>2

LEMMA LandingPreserved == ASSUME Types, Landing, [Next]_vars PROVE Landing'
<1>a. /\ "graphics" \in Thread /\ "ui" \in Thread /\ generation \in Nat
      /\ thread \in [Thread -> ThreadState] /\ settings \in Settings
      /\ custom \in Custom /\ latest \in Modes
      /\ Agree /\ Tidy /\ (Underway \/ Lands)
    BY OtherThread DEF Types, ThreadTypes, Landing
\* Steps that touch neither the requests nor the display.
<1>1. ASSUME SameRequests, SameDisplay, UNCHANGED <<scenes, collection>>,
             UNCHANGED thread["graphics"]
      PROVE  Landing'
    <2>1. Tidy'
        BY <1>a, <1>1 DEF Tidy, EntersThere, SameDisplay
    <2> QED  BY <1>a, <1>1, <2>1, SameRequestsKeep, SameDisplayLands DEF Landing
<1>2. CASE UNCHANGED vars \/ RenderFrame
    <2>1. UNCHANGED vars
        BY <1>2 DEF RenderFrame
    <2>2. SameRequests /\ SameDisplay
        BY <2>1 DEF SameRequests, SameDisplay, Entered, vars, decision, display, stage,
                    history
    <2> QED  BY <1>1, <2>1, <2>2 DEF vars, stage
<1>3. ASSUME NEW mode, ModeChanges(mode) PROVE Landing'
    <2>1. SameRequests /\ SameDisplay
        BY <1>3 DEF ModeChanges, SameRequests, SameDisplay, Entered, decision, display,
                    stage, history
    <2> QED  BY <1>1, <1>3, <2>1 DEF ModeChanges, stage
<1>4. ASSUME NEW selected \in Scene, SceneSelected(selected) PROVE Landing'
    <2>1. SameRequests /\ SameDisplay
        BY <1>4 DEF SceneSelected, SameRequests, SameDisplay, Entered, decision, display
    <2> QED  BY <1>1, <1>4, <2>1 DEF SceneSelected
<1>5. CASE SaveCollection
    <2>1. /\ thread["ui"].pc \in {"save", "idle"}
          /\ thread' = [thread EXCEPT !["ui"].pc = "idle"]
          /\ UNCHANGED <<decision, display, scenes, scene, custom, collection, strayed,
                         tasks>>
        BY <1>5 DEF SaveCollection, Idle, history
    <2>2. /\ thread'["graphics"] = thread["graphics"]
          /\ thread'["ui"].todo = thread["ui"].todo
        BY <1>a, <2>1 DEF ThreadState
    <2>3. SameRequests
        BY <1>a, <2>1 DEF SameRequests, decision, Thread, ThreadState
    <2>4. SameDisplay
        BY <2>1, <2>2 DEF SameDisplay, Entered, decision, display
    <2> QED  BY <1>1, <2>1, <2>2, <2>3, <2>4
<1>6. CASE TickModeChanged
    <2>1. /\ thread' = [thread EXCEPT !["graphics"] =
                    [@ EXCEPT !.pc = "queue", !.mode = source,
                              !.todo = CoverIfProtected(source)]]
          /\ UNCHANGED <<decision, scenes, custom, tasks>>
        BY <1>6 DEF TickModeChanged, stage
    <2>2. thread'["graphics"].pc = "queue" /\ thread'["ui"] = thread["ui"]
        BY <1>a, <2>1 DEF ThreadState
    <2>3. Agree'
        BY <1>a, <2>1, <2>2, OtherThread DEF Agree, Current, decision
    <2>4. Tidy'
        BY <1>a, <2>1, <2>2 DEF Tidy, EntersThere
    <2> QED  BY <1>6, <2>3, <2>4, Requesting DEF Landing
\* A store.
<1>7. ASSUME NEW t \in Thread, Store(t)
      PROVE  /\ thread[t].todo # << >> /\ thread[t].todo \in Seq(Request)
             /\ SameRequests /\ UNCHANGED <<scenes, collection>>
             /\ \A u \in Thread : u # t => thread'[u] = thread[u]
             /\ thread'[t].pc = thread[t].pc
             /\ thread'[t].todo = Tail(thread[t].todo)
             /\ custom'.active \/ custom' = NoCustom
    <2>1. /\ thread[t].todo # << >>
          /\ thread' = [thread EXCEPT ![t].todo = Tail(@)]
          /\ UNCHANGED <<decision, tasks, scenes, collection>>
        BY <1>7, StoreEffect
    <2>2. thread' = [thread EXCEPT ![t].todo = Tail(thread[t].todo)]
        BY <1>a, <2>1
    <2>3. /\ thread'[t].pc = thread[t].pc /\ thread'[t].todo = Tail(thread[t].todo)
          /\ thread'[t].generation = thread[t].generation
          /\ thread'[t].mode = thread[t].mode
          /\ \A u \in Thread : u # t => thread'[u] = thread[u]
        BY <2>2, ThreadFields
    <2>4. SameRequests
        BY <2>1, <2>3 DEF SameRequests, decision
    <2>5. custom'.active \/ custom' = NoCustom
        <3> DEFINE r == Head(thread[t].todo)
        <3>1. IF r.store = "restore" THEN RestorePreviousScene
              ELSE IF r.store = "enter" THEN EnterCustomScene(r.value)
              ELSE UNCHANGED <<scene, custom, strayed>>
            BY <1>7, StoreEffect
        <3> HIDE DEF r
        <3> QED  BY <1>a, <3>1 DEF Tidy, RestorePreviousScene, EnterCustomScene
    <2> QED  BY <1>a, <2>1, <2>3, <2>4, <2>5 DEF ThreadState
<1>8. CASE Store("graphics")
    <2>1. /\ thread["graphics"].todo # << >> /\ SameRequests
          /\ UNCHANGED <<scenes, collection>>
          /\ thread'["ui"] = thread["ui"]
          /\ thread'["graphics"].pc = thread["graphics"].pc
          /\ custom'.active \/ custom' = NoCustom
        BY <1>a, <1>7, <1>8
    <2>2. thread["graphics"].pc = "queue"
        BY <1>a, <2>1 DEF Tidy
    <2>3. Tidy'
        BY <1>a, <2>1, <2>2 DEF Tidy, EntersThere
    <2>4. Underway'
        BY <1>a, <2>1, <2>2 DEF Underway
    <2> QED  BY <1>a, <2>1, <2>3, <2>4, SameRequestsKeep DEF Landing
<1>9. CASE Store("ui")
    <2>1. /\ thread["ui"].todo # << >> /\ thread["ui"].todo \in Seq(Request)
          /\ SameRequests /\ UNCHANGED <<scenes, collection>>
          /\ thread'["graphics"] = thread["graphics"]
          /\ thread'["ui"].todo = Tail(thread["ui"].todo)
          /\ custom'.active \/ custom' = NoCustom
        BY <1>a, <1>7, <1>9
    <2>2. Once(thread'["ui"].todo)
        BY <1>a, <2>1, Rests DEF Tidy
    <2>4. EntersThere(thread["ui"].todo)'
        BY <1>a, <2>1, FirstTask DEF Tidy, EntersThere
    <2>3. Tidy'
        BY <1>a, <2>1, <2>2, <2>4 DEF Tidy
    <2> QED  BY <1>a, <1>9, <2>1, <2>3, SameRequestsKeep, StoreLands DEF Landing
<1>10. ASSUME NEW t \in Thread, TakeGeneration(t) PROVE Landing'
    <2> DEFINE n == generation + 1
    <2>1. /\ thread[t].pc = "queue" /\ thread[t].todo = << >>
          /\ latest' = thread[t].mode /\ generation' = n
          /\ thread' = [thread EXCEPT ![t].pc = "post", ![t].generation = n]
          /\ UNCHANGED <<tasks, scenes, custom>>
        BY <1>10 DEF TakeGeneration, stage
    <2>2. /\ n \in Nat /\ \A i \in DOMAIN tasks : tasks[i].generation # n
          /\ \A u \in Thread : thread[u].generation # n
        BY <1>a DEF Types, ThreadTypes
    <2> HIDE DEF n
    <2>3. /\ thread'[t].pc = "post" /\ thread'[t].generation = n
          /\ thread'[t].mode = thread[t].mode /\ thread'[t].todo = thread[t].todo
          /\ \A u \in Thread : u # t => thread'[u] = thread[u]
        BY <2>1, <2>2, TakenFields
    <2>4. Agree'
        <3>1. \A i \in DOMAIN tasks' : ~Current(tasks[i])'
            BY <2>1, <2>2 DEF Current
        <3>2. \A u \in Thread : u # t => ~Current(thread[u])'
            BY <2>1, <2>2, <2>3 DEF Current
        <3> QED  BY <2>1, <2>3, <3>1, <3>2 DEF Agree
    <2>5. Tidy'
        <3>1. custom'.active \/ custom' = NoCustom
            BY <1>a, <2>1 DEF Tidy
        <3>2. \A u \in Thread : thread'[u].todo = thread[u].todo
            BY <2>3
        <3>3. Once(thread'["ui"].todo) /\ EntersThere(thread["ui"].todo)'
            BY <1>a, <2>1, <3>2 DEF Tidy, EntersThere
        <3>4. ASSUME thread'["graphics"].todo # << >>
              PROVE  thread'["graphics"].pc = "queue"
            BY <1>a, <2>1, <2>3, <3>4 DEF Tidy
        <3> QED  BY <3>1, <3>3, <3>4 DEF Tidy
    <2> QED  BY <1>10, <2>4, <2>5, Requesting DEF Landing
<1>11. ASSUME NEW t \in Thread, PostTask(t) PROVE Landing'
    <2> DEFINE task == [mode |-> thread[t].mode, generation |-> thread[t].generation]
    <2>1. task.mode = thread[t].mode /\ task.generation = thread[t].generation
        OBVIOUS
    <2>2. /\ Inserted(tasks', tasks, task)
          /\ thread[t].pc = "post" /\ thread[t].then \in {"idle", "save"}
          /\ thread'[t].pc = thread[t].then
          /\ thread'[t].todo = << >> /\ thread[t].todo = << >>
          /\ \A u \in Thread : u # t => thread'[u] = thread[u]
          /\ UNCHANGED <<decision, display, stage>>
          /\ Underway => Underway'
        BY <1>11, Posting
    <2> HIDE DEF task
    <2>3. UNCHANGED <<latest, generation, settings, scenes, scene, custom, strayed>>
        BY <2>2 DEF decision, stage, history
    <2>4. Agree'
        <3>1. \A i \in DOMAIN tasks' :
                tasks'[i].generation = generation => tasks'[i].mode = latest
            BY <1>a, <2>1, <2>2 DEF Agree, Current, Inserted
        <3>2. \A u \in Thread : thread'[u].pc = "post"
                                  /\ thread'[u].generation = generation
                                  => thread'[u].mode = latest
            BY <1>a, <2>2 DEF Agree, Current
        <3> QED  BY <2>3, <3>1, <3>2 DEF Agree, Current
    <2>5. Tidy'
        BY <1>a, <2>2, <2>3, OtherThread DEF Tidy, EntersThere
    <2>6. SameDisplay
        <3>1. thread'["ui"].todo = thread["ui"].todo
            BY <1>a, <2>2
        <3> QED  BY <2>2, <2>3, <3>1 DEF SameDisplay, Entered, display
    <2> QED  BY <1>a, <2>2, <2>4, <2>5, <2>6, SameDisplayLands DEF Landing
<1>12. CASE ApplyTask
    <2> DEFINE task == Head(tasks)
    <2>1. PICK readable \in BOOLEAN :
            thread' = [thread EXCEPT !["ui"].todo = IF Current(task)
                                                    THEN Stores(task.mode, readable)
                                                    ELSE << >>]
        BY <1>12 DEF ApplyTask
    <2>2. /\ tasks # << >> /\ tasks' = Tail(tasks)
          /\ thread["ui"].pc = "idle" /\ thread["ui"].todo = << >>
          /\ UNCHANGED <<decision, display, scenes, scene, custom, collection, strayed>>
        BY <1>12 DEF ApplyTask, Idle, stage, history
    <2>3. UNCHANGED <<latest, generation, settings>>
        BY <2>2 DEF decision
    <2>4. /\ task \in Task /\ task = tasks[1] /\ 1 \in DOMAIN tasks
          /\ \A i \in DOMAIN tasks' : i + 1 \in DOMAIN tasks /\ tasks'[i] = tasks[i + 1]
          /\ \A i \in DOMAIN tasks : i = 1 \/ (i - 1 \in DOMAIN tasks'
                                               /\ tasks'[i - 1] = tasks[i])
        BY <2>2, FirstTask DEF Types
    <2> HIDE DEF task
    <2>5. /\ thread'["ui"].pc = "idle"
          /\ thread'["ui"].todo = IF Current(task) THEN Stores(task.mode, readable)
                                                   ELSE << >>
          /\ thread'["graphics"] = thread["graphics"]
        BY <1>a, <2>1, <2>2 DEF ThreadState
    <2>6. Agree'
        <3>1. \A i \in DOMAIN tasks' :
                tasks'[i].generation = generation => tasks'[i].mode = latest
            BY <1>a, <2>4 DEF Agree, Current
        <3>2. \A u \in Thread : thread'[u].pc = "post"
                                  /\ thread'[u].generation = generation
                                  => thread'[u].mode = latest
            BY <1>a, <2>5, OtherThread DEF Agree, Current
        <3> QED  BY <2>3, <3>1, <3>2 DEF Agree, Current
    <2>7. CASE Current(task)
        <3>1. task.mode = latest /\ task.mode \in Modes
            BY <1>a, <2>4, <2>7 DEF Agree, Task
        <3>2. Once(thread'["ui"].todo) /\ Lands'
            BY <2>3, <2>5, <2>7, <3>1, StoresLand
        <3>3. EntersThere(Stores(task.mode, readable))
            BY ScenesToEnter
        <3>4. Tidy'
            BY <1>a, <2>2, <2>5, <2>7, <3>2, <3>3 DEF Tidy, EntersThere
        <3> QED  BY <2>6, <3>2, <3>4 DEF Landing
    <2>8. CASE ~Current(task)
        <3>1. thread'["ui"].todo = << >>
            BY <2>5, <2>8
        <3>2. Tidy'
            BY <1>a, <2>2, <2>5, <3>1, NoStores, ScenesToEnter
               DEF Tidy, EntersThere, EntersNone
        <3>3. Underway => Underway'
            <4>1. \A i \in DOMAIN tasks : Current(tasks[i]) =>
                    \E j \in DOMAIN tasks' : tasks'[j].generation = generation
                BY <2>4, <2>8 DEF Current
            <4> QED  BY <2>2, <2>3, <2>5, <4>1, OtherThread DEF Underway, Current
        <3>4. SameDisplay
            BY <2>2, <2>3, <3>1 DEF SameDisplay, Entered, display
        <3> QED  BY <1>a, <2>6, <3>2, <3>3, <3>4, SameDisplayLands DEF Landing
    <2> QED  BY <2>7, <2>8
\* The UI thread has a request to make, or a collection change to finish.
<1>13. ASSUME NEW chosen, NEW then \in {"idle", "save"}, UpdateSettings(chosen, then),
              UNCHANGED <<latest, generation, tasks, custom>>
       PROVE  Landing'
    <2>1. thread' = [thread EXCEPT !["ui"] =
                    [@ EXCEPT !.pc = "queue", !.then = then, !.mode = latest,
                              !.todo = CoverIfProtected(latest)]]
        BY <1>13 DEF UpdateSettings
    <2>2. /\ thread'["ui"].pc = "queue"
          /\ thread'["ui"].todo = CoverIfProtected(latest)
          /\ thread'["graphics"] = thread["graphics"]
        BY <1>a, <2>1 DEF ThreadState
    <2>3. Agree'
        BY <1>a, <1>13, <2>2, OtherThread DEF Agree, Current
    <2>4. Tidy'
        <3>1. EntersNone(thread'["ui"].todo)
            BY <2>2, ScenesToEnter
        <3>2. EntersThere(thread["ui"].todo)'
            BY <3>1 DEF EntersThere, EntersNone
        <3> QED  BY <1>a, <1>13, <2>2, <3>2, CoverOnce DEF Tidy
    <2>5. Underway'
        BY <1>a, <2>2 DEF Underway
    <2> QED  BY <2>3, <2>4, <2>5 DEF Landing
<1>14. ASSUME NEW data \in StoredChoice, CollectionLoaded(data) PROVE Landing'
    BY <1>13, <1>14 DEF CollectionLoaded
<1>15. ASSUME NEW chosen \in SettingsChoice, DialogAccepted(chosen) PROVE Landing'
    BY <1>13, <1>15 DEF DialogAccepted, stage
<1>16. ASSUME NEW todo, thread' = [thread EXCEPT !["ui"].todo = todo], Once(todo),
              EntersNone(todo),
              UNCHANGED <<latest, generation, tasks>>,
              custom' = custom \/ custom' = NoCustom
       PROVE  /\ Agree' /\ Tidy' /\ thread'["ui"].todo = todo
              /\ Underway /\ collection' = collection => Underway'
    <2>1. thread' = [thread EXCEPT !["ui"].todo = todo]
        BY <1>16
    <2>2. /\ thread'["ui"].pc = thread["ui"].pc
          /\ thread'["ui"].generation = thread["ui"].generation
          /\ thread'["ui"].mode = thread["ui"].mode
          /\ thread'["ui"].todo = todo
          /\ \A u \in Thread : u # "ui" => thread'[u] = thread[u]
        BY <1>a, <2>1, ThreadFields
    <2>3. SameRequests
        BY <1>16, <2>2 DEF SameRequests
    <2>4. Tidy'
        <3>1. EntersThere(thread["ui"].todo)'
            BY <1>16, <2>2 DEF EntersThere, EntersNone
        <3> QED  BY <1>a, <1>16, <2>2, <3>1 DEF Tidy
    <2> QED  BY <1>a, <2>2, <2>3, <2>4, SameRequestsKeep
<1>17. CASE CollectionChanging
    <2> DEFINE todo == <<SetWatermark(FALSE), SetOverlay(Protected(latest)),
                         SetImage("none")>>
    <2>1. /\ thread' = [thread EXCEPT !["ui"].todo = todo]
          /\ UNCHANGED <<latest, generation, tasks>>
          /\ collection' = "changing" /\ custom' = NoCustom
        BY <1>17 DEF CollectionChanging, decision
    <2>2. Once(todo) /\ EntersNone(todo)
        BY CoverOnce, ScenesToEnter
    <2> HIDE DEF todo
    <2>3. Agree' /\ Tidy'
        BY <1>16, <2>1, <2>2
    <2> QED  BY <2>1, <2>3 DEF Landing, Underway
<1>18. ASSUME NEW removed \in Scene, SceneRemoved(removed) PROVE Landing'
    <2> DEFINE todo == SceneListStores(removed)
    <2>1. /\ thread["ui"].todo = << >>
          /\ thread' = [thread EXCEPT !["ui"].todo = todo]
          /\ UNCHANGED <<latest, generation, settings, display, custom, collection,
                         strayed, tasks>>
          /\ scene = removed \/ scene' = scene
        BY <1>18 DEF SceneRemoved, UserActs, Idle, decision
    <2>2. Once(todo) /\ EntersNone(todo)
        BY CoverOnce, ScenesToEnter
    <2> HIDE DEF todo
    <2>3. /\ Agree' /\ Tidy' /\ thread'["ui"].todo = todo
          /\ Underway => Underway'
        BY <1>16, <2>1, <2>2
    <2>4. CASE removed # custom.target
        <3>1. SameDisplay
            BY <2>1, <2>3, <2>4
               DEF SameDisplay, Entered, display, todo, SceneListStores
        <3> QED  BY <1>a, <2>3, <3>1, SameDisplayLands DEF Landing
    \* The custom scene is gone: what lands is the bundled image.
    <2>5. CASE removed = custom.target /\ Lands
        <3>1. custom # NoCustom
            BY <2>5, NamesAssumption DEF NoCustom
        <3>2. ~WillLeave
            BY <2>1, <3>1, NoStores DEF WillLeave, Will
        <3>3. Protected(latest)
            BY <2>5, <3>2 DEF Lands, LandsNormal, LandsBlack, LandsImage, LandsScene
        <3>4. todo = <<SetWatermark(FALSE), SetOverlay(TRUE),
                       SetImage(DefaultImage(latest)), Restore>>
            BY <2>5 DEF todo, SceneListStores
        <3>5. /\ Coming(todo, SetWatermark(FALSE)) /\ Coming(todo, SetOverlay(TRUE))
              /\ Coming(todo, SetImage(DefaultImage(latest))) /\ Coming(todo, Restore)
            BY <3>4, Parts, FourStores
        <3>6. LandsBlack'
            BY <2>1, <2>3, <3>3, <3>5
               DEF LandsBlack, WillLeave, WillOverlay, WillWatermark, WillImage, Will
        <3> QED  BY <2>3, <3>6 DEF Landing, Lands
    <2> QED  BY <1>a, <2>3, <2>4, <2>5 DEF Landing
<1> QED  BY <1>a, <1>2, <1>3, <1>4, <1>5, <1>6, <1>8, <1>9, <1>10, <1>11, <1>12,
            <1>14, <1>15, <1>17, <1>18 DEF Next, GraphicsStep, UiStep

LEMMA LandingHoldsFirst == Init => Landing
<1> SUFFICES ASSUME Init PROVE Landing
    OBVIOUS
<1>1. /\ DOMAIN tasks = {} /\ custom = NoCustom /\ collection = "changing"
      /\ \A t \in Thread : thread[t].pc = "idle" /\ thread[t].todo = << >>
    BY DEF Init, Resting
<1>2. Agree
    BY <1>1 DEF Agree
<1>3. Tidy
    BY <1>1, OtherThread, NoStores, ScenesToEnter DEF Tidy, EntersThere, EntersNone
<1>4. Underway
    BY <1>1 DEF Underway
<1> QED  BY <1>2, <1>3, <1>4 DEF Landing

LEMMA LandingHolds == Spec => []Landing
<1>1. Types /\ Landing /\ [Next]_vars => Landing'
    BY LandingPreserved
<1> QED  BY <1>1, LandingHoldsFirst, TypesHold, PTL DEF Spec

\* At rest no request is on its way, and every store has been made.
LEMMA Landed ==
    ASSUME Landing, Quiescent
    PROVE  /\ Lands
           /\ \A value : /\ WillOverlay(value) => overlay = value
                         /\ WillWatermark(value) => watermark = value
                         /\ WillImage(value) => image = value
                         /\ WillEnter(value) => Entered(value)
           /\ WillLeave => custom = NoCustom
<1>1. /\ \A t \in Thread : thread[t].pc = "idle" /\ thread[t].todo = << >>
      /\ tasks = << >> /\ collection = "steady"
    BY DEF Quiescent, Idle
<1>2. ~Underway
    <2>1. DOMAIN tasks = {}
        BY <1>1
    <2> QED  BY <1>1, <2>1 DEF Underway
<1>3. thread["ui"].todo = << >>
    BY <1>1, OtherThread
<1> QED  BY <1>2, <1>3, NoStores DEF Landing, WillOverlay, WillWatermark, WillImage,
                                     WillLeave, WillEnter, Will

\* Whatever the two threads did to each other, once they rest the output is
\* what the latest mode calls for: covered, on the consented scene, or
\* entirely the user's own (apply_on_ui_thread, privacy_mode_changed).
THEOREM AlwaysSettles == Spec => []Settled
<1>1. Landing => Settled
    <2> SUFFICES ASSUME Landing, Quiescent
                 PROVE  IF Protected(latest) THEN Shielded
                        ELSE ~overlay /\ ~watermark /\ ~custom.active
        BY DEF Settled
    <2>1. CASE LandsNormal
        <3>1. custom = NoCustom /\ overlay = FALSE /\ watermark = FALSE
            BY <2>1, Landed DEF LandsNormal
        <3> QED  BY <2>1, <3>1 DEF LandsNormal, NoCustom
    <2>2. CASE LandsBlack \/ LandsImage
        BY <2>2, Landed DEF LandsBlack, LandsImage, Shielded
    <2>3. CASE LandsScene
        <3>1. Entered(Event(latest).scene)
            BY <2>3, Landed DEF LandsScene
        <3> QED  BY <2>3, <3>1 DEF LandsScene, Entered, ConsentedScene, Shielded
    <2> QED  BY <2>1, <2>2, <2>3, Landed DEF Lands
<1> QED  BY <1>1, LandingHolds, PTL

\* Once at rest the overlay names the right reason, and only the user's own
\* image or scene carries the watermark.
THEOREM AlwaysRightImage == Spec => []RightImage
<1>1. Landing => RightImage
    <2> SUFFICES ASSUME Landing, Quiescent, Protected(latest)
                 PROVE  /\ overlay => \/ image = DefaultImage(latest)
                                      \/ /\ image = "custom"
                                         /\ Event(latest).mode = "CustomImage"
                        /\ watermark => image = "custom" \/ custom.active
        BY DEF RightImage
    <2> QED  BY Landed
             DEF Lands, LandsNormal, LandsBlack, LandsImage, LandsScene, Entered
<1> QED  BY <1>1, LandingHolds, PTL

-----------------------------------------------------------------------------
(***************************************************************************)
(* What the requests amount to                                             *)
(***************************************************************************)
LEMMA RequestsPreserved == ASSUME Types, Requests, [Next]_vars PROVE Requests'
<1>a. /\ "graphics" \in Thread /\ "ui" \in Thread
      /\ thread \in [Thread -> ThreadState]
    BY OtherThread DEF Types, ThreadTypes
<1>1. ASSUME UNCHANGED <<noted, latest, overtaken>>,
             thread'["graphics"].pc = thread["graphics"].pc,
             thread'["graphics"].mode = thread["graphics"].mode
      PROVE  Requests'
    BY <1>1 DEF Requests
\* The steps that concern the UI thread alone, or nobody.
<1>2. ASSUME UNCHANGED <<noted, latest, overtaken>>,
             thread'["graphics"] = thread["graphics"]
      PROVE  Requests'
    BY <1>1, <1>2
<1>3. CASE UNCHANGED vars \/ RenderFrame
    BY <1>2, <1>3 DEF RenderFrame, vars, decision
<1>4. ASSUME NEW mode, ModeChanges(mode) PROVE Requests'
    BY <1>2, <1>4 DEF ModeChanges, decision
<1>5. CASE TickModeChanged
    <2>1. /\ thread'["graphics"].pc = "queue" /\ thread'["graphics"].mode = source
          /\ noted' = source
        BY <1>a, <1>5 DEF TickModeChanged, ThreadState
    <2> QED  BY <2>1 DEF Requests
<1>6. ASSUME NEW t \in Thread, Store(t) PROVE Requests'
    <2>1. /\ thread' = [thread EXCEPT ![t].todo = Tail(@)]
          /\ UNCHANGED <<noted, latest, overtaken>>
        BY <1>6, StoreEffect DEF decision
    <2> QED  BY <1>1, <1>a, <2>1 DEF ThreadState
<1>7. ASSUME NEW t \in Thread, TakeGeneration(t) PROVE Requests'
    <2> DEFINE n == generation + 1
    <2>1. /\ thread[t].pc = "queue" /\ latest' = thread[t].mode
          /\ overtaken' = (t = "ui" /\ (overtaken \/ thread[t].mode # latest))
          /\ thread' = [thread EXCEPT ![t].pc = "post", ![t].generation = n]
          /\ UNCHANGED noted /\ n \in Nat
        BY <1>7 DEF TakeGeneration, Types
    <2> HIDE DEF n
    <2>2. thread'[t].pc = "post" /\ \A u \in Thread : u # t => thread'[u] = thread[u]
        BY <2>1, TakenFields
    <2>3. CASE t = "graphics"
        BY <2>1, <2>2, <2>3 DEF Requests
    <2>4. CASE t = "ui"
        BY <1>a, <2>1, <2>2, <2>4 DEF Requests
    <2> QED  BY <2>3, <2>4, OtherThread
<1>8. ASSUME NEW t \in Thread, PostTask(t) PROVE Requests'
    <2>1. /\ thread[t].pc = "post" /\ thread[t].then \in {"idle", "save"}
          /\ thread' = [thread EXCEPT ![t] = Resting(thread[t].then)]
          /\ UNCHANGED <<noted, latest, overtaken>>
        BY <1>a, <1>8 DEF PostTask, decision, ThreadState
    <2>2. /\ thread'[t].pc = thread[t].then
          /\ \A u \in Thread : u # t => thread'[u] = thread[u]
        BY <2>1, ThreadFields
    <2> QED  BY <1>a, <2>1, <2>2 DEF Requests
<1>9. CASE ApplyTask
    <2>1. /\ thread'["graphics"] = thread["graphics"]
          /\ UNCHANGED <<noted, latest, overtaken>>
        BY <1>a, <1>9 DEF ApplyTask, decision, ThreadState
    <2> QED  BY <1>2, <2>1
<1>10. CASE SaveCollection
    <2>1. /\ thread'["graphics"] = thread["graphics"]
          /\ UNCHANGED <<noted, latest, overtaken>>
        BY <1>a, <1>10 DEF SaveCollection, decision, ThreadState
    <2> QED  BY <1>2, <2>1
<1>11. ASSUME NEW chosen, NEW then, UpdateSettings(chosen, then),
              UNCHANGED <<noted, latest, overtaken>>
       PROVE  Requests'
    <2>1. thread'["graphics"] = thread["graphics"]
        BY <1>a, <1>11 DEF UpdateSettings, ThreadState
    <2> QED  BY <1>2, <1>11, <2>1
<1>12. ASSUME NEW data \in StoredChoice, CollectionLoaded(data) PROVE Requests'
    BY <1>11, <1>12 DEF CollectionLoaded
<1>13. ASSUME NEW chosen \in SettingsChoice, DialogAccepted(chosen) PROVE Requests'
    BY <1>11, <1>13 DEF DialogAccepted
<1>14. ASSUME CollectionChanging \/ \E s \in Scene : SceneRemoved(s) \/ SceneSelected(s)
       PROVE  Requests'
    <2>1. /\ UNCHANGED <<noted, latest, overtaken>>
          /\ \/ \E todo : thread' = [thread EXCEPT !["ui"].todo = todo]
             \/ UNCHANGED thread
        BY <1>14 DEF CollectionChanging, SceneRemoved, SceneSelected, decision
    <2>2. ASSUME NEW todo, thread' = [thread EXCEPT !["ui"].todo = todo]
          PROVE  thread'["graphics"] = thread["graphics"]
        BY <1>a, <2>2 DEF ThreadState
    <2> QED  BY <1>2, <2>1, <2>2
<1> QED  BY <1>a, <1>3, <1>4, <1>5, <1>6, <1>7, <1>8, <1>9, <1>10, <1>12, <1>13, <1>14
         DEF Next, GraphicsStep, UiStep

LEMMA RequestsHold == Spec => []Requests
<1>1. Init => Requests
    BY OtherThread DEF Init, Requests, Resting
<1>2. Types /\ Requests /\ [Next]_vars => Requests'
    BY RequestsPreserved
<1> QED  BY <1>1, <1>2, TypesHold, PTL DEF Spec

\* Whatever the user does, a protected output that is bare is about to be
\* covered, unless a settings update has put an older mode over the one the
\* tick noted: the current request for it is queued, the UI thread has a
\* request of its own to make, a collection is on its way, or the store that
\* shields is the UI thread's to make (queue_apply, apply_task,
\* SCENE_LIST_CHANGED, save_load).
THEOREM ExposureAlwaysRepaired == Spec => []ExposureIsRepaired
<1>1. Landing /\ Requests => ExposureIsRepaired
    <2> SUFFICES ASSUME Landing, Requests, Idle("graphics"), noted # "none",
                        Protected(noted), ~overtaken, ~Shielded,
                        thread["ui"].pc \notin {"queue", "post"},
                        collection # "changing"
                 PROVE  \/ \E i \in DOMAIN tasks :
                             Current(tasks[i]) /\ tasks[i].mode = noted
                        \/ AboutToShield
        BY DEF ExposureIsRepaired
    <2>1. latest = noted /\ thread["graphics"].pc = "idle"
        BY DEF Requests, Idle
    <2>2. CASE Underway
        BY <2>1, <2>2, OtherThread DEF Underway, Landing, Agree
    <2>3. CASE LandsNormal
        BY <2>1, <2>3 DEF LandsNormal
    <2>4. CASE LandsBlack \/ LandsImage
        <3>1. Coming(thread["ui"].todo, SetOverlay(TRUE))
            BY <2>4 DEF LandsBlack, LandsImage, WillOverlay, Will, Shielded
        <3>2. SetOverlay(TRUE).store = "overlay" /\ SetOverlay(TRUE).value
            BY DEF SetOverlay
        <3> QED  BY <3>1, <3>2 DEF Coming, AboutToShield
    <2>5. CASE LandsScene
        <3> DEFINE target == Event(latest).scene
        <3>1. Coming(thread["ui"].todo, Enter(target)) \/ Entered(target)
            BY <2>5 DEF LandsScene, WillEnter, Will
        <3>2. ~Entered(target)
            BY <2>5 DEF LandsScene, Entered, ConsentedScene, Shielded
        <3>3. Enter(target).store = "enter" /\ Enter(target).value = target
            BY DEF Enter
        <3> QED  BY <3>1, <3>2, <3>3 DEF Coming, AboutToShield
    <2> QED  BY <2>2, <2>3, <2>4, <2>5 DEF Landing, Lands
<1> QED  BY <1>1, LandingHolds, RequestsHold, PTL

\* What README.md:424-425 promises is broken by a settings update that queues
\* the mode it read before the tick noted a newer one, and by nothing else: at
\* rest, a protected mode that was forwarded is shielded, or was overtaken so.
THEOREM ExposureNeverLasts ==
    Spec => [](Quiescent /\ Protected(noted) => Shielded \/ overtaken)
<1>1. ExposureIsRepaired => (Quiescent /\ Protected(noted) => Shielded \/ overtaken)
    <2> SUFFICES ASSUME ExposureIsRepaired, Quiescent, Protected(noted), ~overtaken
                 PROVE  Shielded
        OBVIOUS
    <2>1. /\ Idle("graphics") /\ Idle("ui") /\ DOMAIN tasks = {} /\ noted # "none"
          /\ collection = "steady"
        BY OtherThread DEF Quiescent, Protected
    <2>2. ~AboutToShield /\ thread["ui"].pc = "idle"
        BY <2>1 DEF Idle, AboutToShield
    <2> QED  BY <2>1, <2>2 DEF ExposureIsRepaired
<1> QED  BY <1>1, ExposureAlwaysRepaired, PTL
=============================================================================
